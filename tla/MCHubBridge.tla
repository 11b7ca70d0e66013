---------------------------- MODULE MCHubBridge ----------------------------
(***************************************************************************)
(* Instances of HubBridge for TLC, and what the documentation says of the  *)
(* bridge where the code does otherwise.                                   *)
(***************************************************************************)
EXTENDS HubBridge

\* Documentation.docx of the module, on connect: statuses are published "in
\* order to update switches status on mobile app"; Mosquitto_1.py:226 calls
\* the forward an update of the switch status. Once nothing is in flight and
\* the Internet is there, the remote broker is to retain the status the
\* local broker retains.
AppUpToDate ==
    Quiet /\ internet
        => \A s \in Switches : status[s] # "none" => remoteBase[s] = status[s]

============================================================================
