----------------------------- MODULE MCRegistry -----------------------------
(***************************************************************************)
(* Instances of Registry for TLC.                                          *)
(***************************************************************************)
EXTENDS Registry

Line(m, n) == [mac |-> m, name |-> n]

\* A message with one module, and one of three lines, where tcp_client runs past
\* the end: a new module, the first one renamed, and the new one again.
MCMessages == {<<Line("a", "n1")>>,
               <<Line("b", "n1"), Line("a", "n2"), Line("b", "n1")>>}

\* What the documentation says of a message on /config/: each module that was
\* located is sent the hub's address and password.
DeviceTold ==
    pc["offline"] = "tell" /\ at["offline"] >= limit["offline"]
        => found \subseteq tried["offline"]

============================================================================
