--------------------------- MODULE MCSmartSwitch ---------------------------
(***************************************************************************)
(* Instances of SmartSwitch for TLC, and what the comments and the         *)
(* documentation of the firmware say of it where the code does otherwise.  *)
(***************************************************************************)
EXTENDS SmartSwitch

\* m1.lua:47, on sw-on: "Change New ESP Status To 1 In Recognition That Data
\* Is Received & Asking To Turn ON This Particular Device", and 55, on
\* sw-off: "... Asking To Turn OFF This Particular Device". The lamp is to be
\* as the command says after it.
CommandObeyed ==
    [][\A s \in Switches, cmd \in Bits :
          OnMessage(s, cmd) => relay'[s] = Driven(cmd)]_vars

============================================================================
