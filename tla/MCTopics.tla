------------------------------ MODULE MCTopics ------------------------------
(* The instance of Topics that is checked: neither modules nor names differ  *)
(* in anything but their identity.                                           *)
EXTENDS Topics, TLC

Alike == Permutations(Modules) \cup Permutations(Names)

\* Bound: once the file is torn the threads end their passes, and begin none.
Bound == torn => \A t \in Threads : pc[t] = "idle" => pc'[t] = "idle"

MCSpec == Init /\ [][Next /\ Bound]_vars

=============================================================================
