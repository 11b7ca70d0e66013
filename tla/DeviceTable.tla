----------------------------- MODULE DeviceTable -----------------------------
(***************************************************************************)
(* What the hub's table of modules promises, seen from outside: a sequence *)
(* of entries, each at most once, that grows at its end and may lose its   *)
(* last entry again. What a power cut ruins stays ruined: an empty table   *)
(* takes no entry any more. Two writes at once may tear it; a torn table   *)
(* is not described any further. Registry implements it.                   *)
(***************************************************************************)
EXTENDS Naturals, Sequences

CONSTANTS Entries, First, \* the modules, and the table at first
          Torn            \* a table that is torn

VARIABLE table

Holds(entry) == \E i \in DOMAIN table : table[i] = entry

Init == table = First

\* A module is written behind those that are there.
Add(entry) ==
    /\ table # <<>> /\ ~Holds(entry)
    /\ table' = Append(table, entry)

\* The module written last is lost to a write that did not know of it.
Forget == Len(table) > 1 /\ table' = SubSeq(table, 1, Len(table) - 1)

\* A power cut leaves nothing, or the one entry that was just written.
Ruin == \/ table' = <<>>
        \/ table # <<>> /\ \E entry \in Entries : table' = <<entry>>

\* A write leaves an end of another behind it.
Tear == table' = Torn

Change == Forget \/ Ruin \/ Tear \/ \E entry \in Entries : Add(entry)

Next == table # Torn /\ Change

Spec == Init /\ [][Next]_table

============================================================================
