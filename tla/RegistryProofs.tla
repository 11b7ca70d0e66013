--------------------------- MODULE RegistryProofs ---------------------------
(***************************************************************************)
(* Proofs about Registry, for any modules, names and messages. What keeps  *)
(* the table whole is that a thread past its scan (1.5 s) writes before    *)
(* the other one has scanned the next module: so of two threads that write *)
(* at once at most one line is new to one of them. TableInv says what each *)
(* knows of the file at each place, as long as the file is not torn. The   *)
(* last section gives the measure that lets the passes come to an end.     *)
(***************************************************************************)
EXTENDS Registry, SequenceTheorems, TLAPS

o == "offline"
r == "router"

\* Two files that list the same modules.
Same(s, u) == Len(s) = Len(u) /\ \A i \in 1..Len(s) : s[i].mac = u[i].mac

Uniq(s) == \A i, j \in 1..Len(s) : s[i].mac = s[j].mac => i = j

Busy == {"next", "scan", "read", "rewrite", "close", "append"}

\* The types, and that Data_Acquisition keeps to the lines of data2.txt.
TypeInv == TypeOK /\ (pc[o] \in Busy => limit[o] = Len(message))

----------------------------------------------------------------------------
(* The operators on lines *)

\* A replaced line keeps the file a file, and its modules.
LEMMA ReplacedFacts ==
  ASSUME NEW s \in Seq(Entries), NEW l \in Entries
  PROVE  /\ Replaced(s, l) \in Seq(Entries)
         /\ Len(Replaced(s, l)) = Len(s)
         /\ Same(Replaced(s, l), s)
<1> DEFINE g(i) == IF FirstOf(s, l.mac, i) THEN l ELSE s[i]
<1>1. \A i \in 1..Len(s) : g(i) \in Entries
  OBVIOUS
<1>2. Replaced(s, l) = [i \in 1..Len(s) |-> g(i)]
  BY DEF Replaced
<1>3. Replaced(s, l) \in Seq(Entries) /\ Len(Replaced(s, l)) = Len(s)
  BY <1>1, <1>2 DEF Replaced
<1>4. \A i \in 1..Len(s) : Replaced(s, l)[i].mac = s[i].mac
  BY DEF Replaced, FirstOf
<1> QED
  BY <1>3, <1>4 DEF Same

\* An end of a file consists of entries.
LEMMA EndsType ==
  ASSUME NEW s \in Seq(Entries), NEW end \in Ends(s)
  PROVE  end \in Seq(Entries)
<1>1. CASE end = <<>>
  BY <1>1, EmptySeq
<1>2. ASSUME NEW i \in DOMAIN s, NEW piece \in Pieces(s[i]),
             end = <<piece>> \o SubSeq(s, i + 1, Len(s))
      PROVE  end \in Seq(Entries)
  <2>1. s[i] \in Entries /\ i \in Nat
    OBVIOUS
  <2>2. piece \in Entries
    BY <2>1 DEF Pieces, Entries, Header, Dummy, Scrap
  <2>3. SubSeq(s, i + 1, Len(s)) \in Seq(Entries)
    BY <2>1, SubSeqProperties
  <2>4. <<piece>> \in Seq(Entries)
    BY <2>2
  <2> QED
    BY <1>2, <2>3, <2>4, ConcatProperties
<1> QED
  BY <1>1, <1>2 DEF Ends

\* Files with the same modules have a module both or neither, and each once
\* both or neither.
LEMMA SameFacts ==
  ASSUME NEW s \in Seq(Entries), NEW u \in Seq(Entries), Same(s, u)
  PROVE  /\ Same(u, s)
         /\ \A m : Has(s, m) <=> Has(u, m)
         /\ Uniq(s) <=> Uniq(u)
         /\ s = <<>> <=> u = <<>>
BY DEF Same, Has, Uniq

LEMMA SameTransitive ==
  ASSUME NEW s, NEW u, NEW v, Same(s, u), Same(u, v)
  PROVE  Same(s, v)
BY DEF Same

\* A line appended to a file that does not have its module.
LEMMA AppendFacts ==
  ASSUME NEW s \in Seq(Entries), NEW l \in Entries, Uniq(s), ~Has(s, l.mac)
  PROVE  Append(s, l) \in Seq(Entries) /\ Uniq(Append(s, l))
BY DEF Has, Uniq

----------------------------------------------------------------------------
(* Types *)

\* The lines that have the address of a module.
Addressed == [mac : Modules, name : Names \cup {"cut"}]

LEMMA HeaderTypes ==
  Header \in Entries /\ Dummy \in Entries /\ Scrap \in Entries /\ Lines \subseteq Entries
BY DEF Header, Dummy, Scrap, Entries, Lines

LEMMA ModuleLine ==
  ASSUME NEW l \in Entries, l.mac \in Modules
  PROVE  l \in Addressed
BY RegistryAssumption DEF Entries, Header, Dummy, Scrap, Addressed

\* A line is closed with an end of what was there behind it, or with none.
LEMMA CloseFacts ==
  ASSUME TypeInv, NEW t \in Threads, Close(t)
  PROVE  /\ data1' \in Seq(Entries) /\ torn' \in BOOLEAN
         /\ Len(data1') >= Len(list[t])
         /\ ~torn' => ~torn /\ data1' = Closing(t)
<1>1. list[t] \in Seq(Entries) /\ line[t] \in Entries /\ data1 \in Seq(Entries)
  BY DEF TypeInv, TypeOK
<1>2. PICK end \in Ends(data1) : /\ data1' = Closing(t) \o end
                                 /\ torn' = (torn \/ end # <<>>)
  BY DEF Close, Closing
<1>3. end \in Seq(Entries)
  BY <1>1, EndsType
<1>4. Closing(t) \in Seq(Entries) /\ Len(Closing(t)) = Len(list[t])
  BY <1>1, ReplacedFacts DEF Closing
<1>5. /\ data1' \in Seq(Entries)
      /\ Len(data1') = Len(Closing(t)) + Len(end)
  BY <1>2, <1>3, <1>4, ConcatProperties
<1>6. Len(list[t]) \in Nat /\ Len(end) \in Nat
  BY <1>1, <1>3, LenProperties
<1>7. ~torn' => ~torn /\ data1' = Closing(t)
  BY <1>2, <1>4, ConcatEmptySeq
<1>8. torn' \in BOOLEAN
  BY <1>2 DEF TypeInv, TypeOK
<1> QED
  BY <1>4, <1>5, <1>6, <1>7, <1>8

LEMMA TellEndType ==
  ASSUME NEW t, message \in Seq(Lines), data1 \in Seq(Entries)
  PROVE  TellEnd(t) \in Nat
<1>1. Len(message) \in Nat /\ Len(data1) \in Nat
  BY LenProperties
<1> QED
  BY <1>1 DEF TellEnd

\* A pass that is over leaves everything as at the start, but the file.
LEMMA FailType ==
  ASSUME TypeInv, NEW t \in Threads, UNCHANGED file, Forgotten(t),
         pc' = [pc EXCEPT ![t] = IF t = "router" THEN "due" ELSE "idle"]
           \/ pc' = [pc EXCEPT ![t] = "idle"]
  PROVE  TypeInv'
<1> USE HeaderTypes DEF TypeInv, TypeOK, o, Threads, Places
<1>1. /\ at' \in [Threads -> Nat] /\ limit' \in [Threads -> Nat]
      /\ line' \in [Threads -> Entries] /\ tried' \in [Threads -> SUBSET Modules]
      /\ alone' \in [Threads -> BOOLEAN]
  BY DEF Forgotten
<1>2. list' \in [Threads -> Seq(Entries)]
  BY DEF Forgotten
<1>3. pc' \in [Threads -> Places] /\ data1' \in Seq(Entries) /\ torn' \in BOOLEAN
  BY DEF file
<1>4. message' \in Seq(Lines) /\ found' \in SUBSET Modules
  <2>1. <<>> \in Seq(Lines)
    BY EmptySeq
  <2> QED
    BY <2>1 DEF Forgotten
<1>5. pc'[o] \in Busy => limit'[o] = Len(message')
  <2>1. CASE t = "router"
    BY <2>1 DEF Forgotten
  <2>2. CASE t = "offline"
    BY <2>2 DEF Busy
  <2> QED
    BY <2>1, <2>2
<1> QED
  BY <1>1, <1>2, <1>3, <1>4, <1>5

\* Every variable keeps its type, and Data_Acquisition its range.
LEMMA TypeStep ==
  ASSUME TypeInv, [Next]_vars
  PROVE  TypeInv'
<1> USE HeaderTypes DEF TypeInv, TypeOK, o, Threads, Places, file
<1>1. CASE Configure
  BY <1>1, RegistryAssumption DEF Configure, Goto, Meet
<1>2. CASE Forward
  BY <1>2 DEF Forward, Goto, Meet, Busy
<1>3. CASE Outage
  BY <1>3 DEF Outage, Goto, local, history, Busy
<1>4. CASE PowerCut
  BY <1>4 DEF PowerCut, Busy
<1>5. ASSUME NEW t \in Threads, Read(t) PROVE TypeInv'
  BY <1>5 DEF Read, Continue, Goto, history, Busy
<1>6. ASSUME NEW t \in Threads, Truncate(t) PROVE TypeInv'
  BY <1>6 DEF Truncate, Goto, local, history, Busy
<1>7. ASSUME NEW t \in Threads, Close(t) PROVE TypeInv'
  <2>1. data1' \in Seq(Entries) /\ torn' \in BOOLEAN
    BY <1>7, CloseFacts
  <2> QED
    BY <1>7, <2>1 DEF Close, Continue, Goto, history, Busy
<1>8. ASSUME NEW t \in Threads, AppendLine(t) PROVE TypeInv'
  BY <1>8 DEF AppendLine, Continue, Goto, history, Busy
<1>9. ASSUME NEW t \in Threads, Fail(t), UNCHANGED file PROVE TypeInv'
  BY <1>9, FailType DEF Fail, Goto
<1>10. ASSUME NEW t \in Threads, Take(t) PROVE TypeInv'
  <2>1. CASE Fail(t)
    BY <2>1, <1>9, <1>10 DEF Take
  <2>2. CASE ~(t = "router" /\ at[t] >= Len(data1))
    <3>1. line'[t] \in Entries /\ line' = [line EXCEPT ![t] = line'[t]]
      <4>1. CASE t = "router"
        <5>1. at[t] + 1 \in 1..Len(data1)
          BY <2>2, <4>1
        <5>2. line' = [line EXCEPT ![t] = data1[at[t] + 1]]
          BY <1>10, <2>2, <4>1 DEF Take
        <5>3. data1[at[t] + 1] \in Entries
          BY <5>1, ElementOfSeq
        <5> QED
          BY <5>2, <5>3
      <4>2. CASE t # "router"
        <5>1. t = o /\ at[t] + 1 \in 1..Len(message)
          BY <1>10, <4>2 DEF Take, Busy
        <5>2. line' = [line EXCEPT ![t] = message[at[t] + 1]]
          BY <1>10, <2>2, <4>2 DEF Take
        <5> QED
          BY <5>1, <5>2
      <4> QED
        BY <4>1, <4>2
    <3> QED
      BY <1>10, <2>2, <3>1 DEF Take, Goto, history, Busy
  <2> QED
    BY <2>1, <2>2, <1>10 DEF Take
<1>11. ASSUME NEW t \in Threads, Scan(t) PROVE TypeInv'
  <2>0. CASE line[t] = Scrap /\ Fail(t)
    BY <1>9, <1>11, <2>0 DEF Scan
  <2> SUFFICES ASSUME ~(line[t] = Scrap /\ Fail(t)) PROVE TypeInv'
    BY <2>0
  <2>1. found' \in SUBSET Modules /\ pc' \in [Threads -> Places]
    BY <1>11 DEF Scan, Continue, Goto, history
  <2>2. at' \in [Threads -> Nat] /\ line' \in [Threads -> Entries]
    BY <1>11 DEF Scan, Continue
  <2>4. list' \in [Threads -> Seq(Entries)]
    <3>1. <<>> \in Seq(Entries)
      BY EmptySeq
    <3>2. list' = [list EXCEPT ![t] = <<>>] \/ list' = list
      BY <1>11 DEF Scan, Continue
    <3> QED
      BY <3>1, <3>2
  <2>3. pc'[o] \in Busy => pc[o] \in Busy
    BY <1>11 DEF Scan, Continue, Goto, Busy
  <2> QED
    BY <1>11, <2>1, <2>2, <2>3, <2>4 DEF Scan, history
<1>12. ASSUME NEW t \in Threads, BeginTell(t) PROVE TypeInv'
  <2>1. TellEnd(t) \in Nat
    BY TellEndType
  <2> QED
    BY <1>12, <2>1 DEF BeginTell, Goto, history, Busy
<1>13. ASSUME NEW t \in Threads, Tell(t) PROVE TypeInv'
  <2>1. CASE Fail(t)
    BY <2>1, <1>9, <1>13 DEF Tell
  <2>2. CASE ~Fail(t)
    BY <2>2, <1>13 DEF Tell, Busy
  <2> QED
    BY <2>1, <2>2
<1>14. ASSUME NEW t \in Threads, EndTell(t) PROVE TypeInv'
  BY <1>14, FailType DEF EndTell, Goto
<1>15. CASE UNCHANGED vars
  BY <1>15 DEF vars, local, history
<1> QED
  BY <1>1, <1>2, <1>3, <1>4, <1>5, <1>6, <1>7, <1>8, <1>10, <1>11, <1>12, <1>13,
     <1>14, <1>15 DEF Next, Step


----------------------------------------------------------------------------
(* What each thread knows of the file *)

\* The line and the list of a thread at each place.
InHand(t) ==
    /\ pc[t] = "read" \/ Writing(t) => line[t] \in Addressed
    /\ Writing(t) => list[t] # <<>> /\ Uniq(list[t])
    /\ pc[t] \in {"rewrite", "close"} => Has(list[t], line[t].mac)
    /\ pc[t] = "append" => ~Has(list[t], line[t].mac)

\* The file is empty while one has it open and the other is past its scan.
Opened ==
    /\ pc[o] = "close" /\ (pc[r] = "read" \/ Writing(r)) => data1 = <<>>
    /\ pc[r] = "close" /\ (pc[o] = "read" \/ Writing(o)) => data1 = <<>>

\* What offline has read is what the file has, or had when it was opened.
OfflineList ==
    Writing(o) =>
        /\ data1 = <<>> \/ Same(data1, list[o])
        /\ pc[r] # "close" /\ pc[o] # "close" => Same(data1, list[o])
        /\ Writing(r) => Same(list[r], list[o])

\* s is u, or lacks the last line of u.
Lacks(s, u) == \/ Same(s, u)
               \/ \E l \in Addressed : ~Has(s, l.mac) /\ Same(Append(s, l), u)

\* What router has read may lack the line that offline has appended since.
RouterList ==
    /\ pc[r] = "rewrite" /\ pc[o] = "read" => list[r] = data1
    /\ pc[r] = "rewrite" /\ pc[o] # "close" => Lacks(list[r], data1)
    /\ pc[r] = "close" => \/ data1 = <<>> \/ Same(list[r], data1)
                          \/ \E l \in Addressed : data1 = <<l>>

\* What router looks for is in the file, or comes there when offline closes it.
RouterLine ==
    pc[r] \in {"scan", "read"} /\ line[r].mac \in Modules =>
        Has(IF pc[o] = "close" THEN list[o] ELSE data1, line[r].mac)

TableInv ==
    /\ Uniq(data1) /\ InHand(o) /\ InHand(r) /\ pc[r] # "append"
    /\ Opened /\ OfflineList /\ RouterList /\ RouterLine

\* A place where a thread has nothing in hand.
Free == {"idle", "due", "next", "tell"}
Left(t) == pc'[t] = pc[t] /\ list'[t] = list[t] /\ line'[t] = line[t]

LEMMA Values ==
  ASSUME TypeOK
  PROVE  /\ data1 \in Seq(Entries) /\ list[o] \in Seq(Entries) /\ list[r] \in Seq(Entries)
         /\ line[o] \in Entries /\ line[r] \in Entries
BY DEF TypeOK, o, r, Threads

\* A thread that goes where it has nothing in hand, without the file open,
\* disturbs nothing.
LEMMA FreeStep ==
  ASSUME TypeOK, TableInv, data1' = data1,
         \/ Left(o) /\ pc'[r] \in Free /\ pc[r] # "close"
         \/ Left(r) /\ pc'[o] \in Free /\ pc[o] # "close"
         \/ pc'[o] \in Free /\ pc'[r] \in Free
         \/ Left(o) /\ Left(r)
  PROVE  TableInv'
<1>1. InHand(o)' /\ InHand(r)' /\ Uniq(data1)' /\ (pc[r] # "append")'
  BY DEF TableInv, InHand, Left, Free, Writing, Uniq, Has
<1>2. Opened'
  BY DEF TableInv, Opened, Left, Free, Writing
<1>3. OfflineList'
  BY DEF TableInv, OfflineList, Left, Free, Writing, Same
<1>4. RouterList'
  BY DEF TableInv, RouterList, Left, Free, Writing, Same, Lacks, Has
<1>5. RouterLine'
  BY DEF TableInv, RouterLine, Left, Free, Has
<1> QED
  BY <1>1, <1>2, <1>3, <1>4, <1>5 DEF TableInv

\* A thread that begins or ends its scan.
LEMMA ScanStep ==
  ASSUME TypeOK, TableInv, data1' = data1, NEW t \in Threads, NEW u \in Threads,
         t # u, Left(u), pc[t] # "close",
         \/ /\ pc'[t] = "scan"
            /\ t = r /\ line'[t].mac \in Modules => Has(data1, line'[t].mac)
         \/ /\ pc[t] = "scan" /\ pc'[t] = "read" /\ ~Writing(u)
            /\ line'[t] = line[t] /\ line[t] \in Addressed
  PROVE  TableInv'
<1> USE DEF Threads, o, r
<1>1. InHand(o)' /\ InHand(r)' /\ Uniq(data1)' /\ (pc[r] # "append")'
  <2>1. InHand(u)'
    BY DEF TableInv, InHand, Left, Writing, Uniq, Has
  <2>2. InHand(t)'
    BY DEF InHand, Writing
  <2>3. (pc[r] # "append")' /\ Uniq(data1)'
    BY DEF TableInv, Left, Uniq
  <2> QED
    BY <2>1, <2>2, <2>3
<1>2. Opened'
  BY DEF TableInv, Opened, Left, Writing
<1>3. OfflineList'
  BY DEF TableInv, OfflineList, Left, Writing, Same
<1>4. RouterList'
  <2>1. CASE t = r
    BY <2>1 DEF RouterList
  <2>2. CASE t = o
    <3>1. pc'[r] = pc[r] /\ list'[r] = list[r] /\ pc'[o] \in {"scan", "read"}
      BY <2>2 DEF Left
    <3>2. Lacks(list[r], data1)' <=> Lacks(list[r], data1)
      BY <3>1 DEF Lacks, Same, Has
    <3>3. pc[r] = "rewrite" => ~(pc'[o] = "read")
      BY <2>2 DEF Writing, Left
    <3> QED
      BY <2>2, <3>1, <3>2, <3>3 DEF TableInv, RouterList, Same
  <2> QED
    BY <2>1, <2>2
<1>5. RouterLine'
  <2>1. CASE t = r /\ pc'[t] = "scan"
    <3>1. line'[r].mac \in Modules /\ pc[o] = "close" => Has(list[o], line'[r].mac)
      BY <2>1 DEF TableInv, OfflineList, Writing, Has, Same
    <3> QED
      BY <2>1, <3>1 DEF RouterLine, Left, Has
  <2>2. CASE t = r /\ pc'[t] = "read"
    BY <2>2 DEF TableInv, RouterLine, Left, Has
  <2>3. CASE t = o
    BY <2>3 DEF TableInv, RouterLine, Left, Has
  <2> QED
    BY <2>1, <2>2, <2>3
<1> QED
  BY <1>1, <1>2, <1>3, <1>4, <1>5 DEF TableInv

LEMMA SameReflexive == ASSUME NEW s PROVE Same(s, s)
BY DEF Same

\* Offline reads the file, which router has not open.
LEMMA OfflineReads ==
  ASSUME TypeOK, TableInv, data1' = data1, data1 # <<>>, Left(r), pc[o] = "read",
         line'[o] = line[o], list'[o] = data1,
         pc'[o] = IF Has(data1, line[o].mac) THEN "rewrite" ELSE "append"
  PROVE  TableInv'
<1>1. pc[r] # "close"
  BY DEF TableInv, Opened
<1>2. InHand(o)' /\ InHand(r)' /\ Uniq(data1)' /\ (pc[r] # "append")'
  BY DEF TableInv, InHand, Left, Writing, Uniq, Has
<1>3. Opened' /\ RouterLine'
  BY <1>1 DEF TableInv, Opened, RouterLine, Left, Writing, Has
<1>4. OfflineList'
  <2>1. Same(data1, data1)
    BY SameReflexive
  <2>2. Writing(r) => list[r] = data1
    BY <1>1 DEF TableInv, Writing, RouterList
  <2> QED
    BY <2>1, <2>2 DEF OfflineList, Left, Writing, Same
<1>5. RouterList'
  BY <1>1 DEF TableInv, RouterList, Left, Lacks, Has, Same
<1> QED
  BY <1>2, <1>3, <1>4, <1>5 DEF TableInv

\* Router reads the file, and finds its module.
LEMMA RouterReads ==
  ASSUME TypeOK, TableInv, data1' = data1, data1 # <<>>, Left(o), pc[r] = "read",
         line'[r] = line[r], list'[r] = data1,
         pc'[r] = IF Has(data1, line[r].mac) THEN "rewrite" ELSE "append"
  PROVE  TableInv'
<1>1. pc[o] # "close"
  BY DEF TableInv, Opened
<1>2. Has(data1, line[r].mac) /\ pc'[r] = "rewrite"
  BY <1>1 DEF TableInv, RouterLine, InHand, Addressed
<1>3. InHand(o)' /\ InHand(r)' /\ Uniq(data1)' /\ (pc[r] # "append")'
  BY <1>2 DEF TableInv, InHand, Left, Writing, Uniq, Has
<1>4. Opened' /\ RouterLine'
  BY <1>1, <1>2 DEF TableInv, Opened, RouterLine, Left, Writing
<1>5. OfflineList'
  BY <1>2 DEF TableInv, OfflineList, Left, Writing, Same
<1>6. RouterList'
  BY <1>1, <1>2, SameReflexive DEF RouterList, Left, Lacks, Same
<1> QED
  BY <1>2, <1>3, <1>4, <1>5, <1>6 DEF TableInv

\* The file is opened with 'w' and so emptied.
LEMMA Truncates ==
  ASSUME TypeOK, TableInv, NEW t \in Threads, NEW u \in Threads, t # u,
         data1' = <<>>, pc[t] = "rewrite", pc'[t] = "close", Left(u),
         line'[t] = line[t], list'[t] = list[t]
  PROVE  TableInv'
<1> USE DEF Threads, o, r
<1>1. InHand(o)' /\ InHand(r)' /\ Uniq(data1)' /\ (pc[r] # "append")'
  BY DEF TableInv, InHand, Left, Writing, Uniq, Has
<1>2. Opened' /\ RouterList'
  BY DEF TableInv, Opened, RouterList, Left, Writing
<1>3. OfflineList'
  BY DEF TableInv, OfflineList, Left, Writing, Same
<1>4. RouterLine'
  <2>1. CASE t = r
    BY <2>1 DEF RouterLine
  <2>2. CASE t = o /\ pc[r] \in {"scan", "read"} /\ line[r].mac \in Modules
    <3>1. Has(data1, line[r].mac) /\ Same(data1, list[o])
      BY <2>2 DEF TableInv, RouterLine, OfflineList, Writing
    <3>2. Has(list[o], line[r].mac)
      BY <3>1, Values, SameFacts
    <3> QED
      BY <2>2, <3>2 DEF RouterLine, Left, Has
  <2>3. CASE t = o /\ ~(pc[r] \in {"scan", "read"} /\ line[r].mac \in Modules)
    BY <2>3 DEF RouterLine, Left
  <2> QED
    BY <2>1, <2>2, <2>3
<1> QED
  BY <1>1, <1>2, <1>3, <1>4 DEF TableInv

\* What a thread that has the file open will leave there: what it has read,
\* with its own line in it.
LEMMA ClosingFile ==
  ASSUME TypeOK, NEW t \in Threads
  PROVE  Closing(t) \in Seq(Entries) /\ Same(Closing(t), list[t])
<1>1. list[t] \in Seq(Entries) /\ line[t] \in Entries
  BY DEF TypeOK
<1> QED
  BY <1>1, ReplacedFacts DEF Closing

\* Offline closes the file.
LEMMA OfflineCloses ==
  ASSUME TypeOK, TableInv, pc[o] = "close", pc'[o] = "next", Left(r),
         data1' = Closing(o)
  PROVE  TableInv'
<1>1. data1' \in Seq(Entries) /\ Same(data1', list[o]) /\ list[o] \in Seq(Entries)
  BY ClosingFile, Values DEF Threads, o
<1>2. Uniq(data1') /\ \A m : Has(data1', m) <=> Has(list[o], m)
  <2>1. Uniq(list[o])
    BY DEF TableInv, InHand, Writing
  <2> QED
    BY <1>1, <2>1, SameFacts
<1>3. InHand(o)' /\ InHand(r)' /\ (pc[r] # "append")'
  BY DEF TableInv, InHand, Left, Writing, Uniq, Has
<1>4. Opened' /\ OfflineList'
  BY DEF Opened, OfflineList, Left, Writing
<1>5. RouterList'
  <2>1. pc[r] \in {"rewrite", "close"} => Same(list[r], list[o])
    BY DEF TableInv, OfflineList, Writing
  <2>2. pc[r] \in {"rewrite", "close"} => Same(list[r], data1')
    BY <1>1, <2>1 DEF Same
  <2> QED
    BY <2>2 DEF RouterList, Left, Lacks
<1>6. RouterLine'
  BY <1>2 DEF TableInv, RouterLine, Left
<1> QED
  BY <1>2, <1>3, <1>4, <1>5, <1>6 DEF TableInv, Uniq

\* Router closes the file.
LEMMA RouterCloses ==
  ASSUME TypeOK, TableInv, pc[r] = "close", pc'[r] = "next", Left(o),
         data1' = Closing(r)
  PROVE  TableInv'
<1>1. data1' \in Seq(Entries) /\ Same(data1', list[r]) /\ list[r] \in Seq(Entries)
  BY ClosingFile, Values DEF Threads, r
<1>2. Uniq(data1')
  <2>1. Uniq(list[r])
    BY DEF TableInv, InHand, Writing
  <2> QED
    BY <1>1, <2>1, SameFacts
<1>3. InHand(o)' /\ InHand(r)' /\ (pc[r] # "append")'
  BY DEF TableInv, InHand, Left, Writing, Uniq, Has
<1>4. Opened' /\ RouterList' /\ RouterLine'
  BY DEF TableInv, Opened, RouterList, RouterLine, Left, Writing
<1>5. OfflineList'
  <2>1. Writing(o) => Same(list[r], list[o])
    BY DEF TableInv, OfflineList, Writing
  <2>2. Writing(o) => Same(data1', list[o])
    BY <1>1, <2>1 DEF Same
  <2> QED
    BY <2>2 DEF OfflineList, Left, Writing
<1> QED
  BY <1>2, <1>3, <1>4, <1>5 DEF TableInv, Uniq

\* A line appended to both of two files with the same modules.
LEMMA SameAppend ==
  ASSUME NEW s \in Seq(Entries), NEW u \in Seq(Entries), Same(s, u), NEW l \in Entries
  PROVE  Same(Append(s, l), Append(u, l))
BY DEF Same

\* Offline appends the line of a module it did not find.
LEMMA OfflineAppends ==
  ASSUME TypeOK, TableInv, pc[o] = "append", pc'[o] = "next", Left(r),
         data1' = Append(data1, line[o])
  PROVE  TableInv'
<1>1. /\ data1 \in Seq(Entries) /\ list[o] \in Seq(Entries) /\ list[r] \in Seq(Entries)
      /\ line[o] \in Addressed /\ line[o] \in Entries /\ ~Has(list[o], line[o].mac)
  BY Values DEF TableInv, InHand, Writing
<1>2. data1 = <<>> \/ Same(data1, list[o])
  BY DEF TableInv, OfflineList, Writing
<1>3. ~Has(data1, line[o].mac)
  <2>1. CASE data1 = <<>>
    BY <2>1 DEF Has
  <2>2. CASE Same(data1, list[o])
    BY <1>1, <2>2, SameFacts
  <2> QED
    BY <1>2, <2>1, <2>2
<1>4. Uniq(data1')
  <2>1. Uniq(data1)
    BY DEF TableInv
  <2> QED
    BY <1>1, <1>3, <2>1, AppendFacts
<1>5. InHand(o)' /\ InHand(r)' /\ (pc[r] # "append")'
  BY DEF TableInv, InHand, Left, Writing, Uniq, Has
<1>6. Opened' /\ OfflineList'
  <2>1. pc[r] # "close" \/ data1 = <<>>
    BY DEF TableInv, Opened, Writing
  <2> QED
    BY DEF Opened, OfflineList, Left, Writing
<1>7. RouterList'
  <2>1. CASE pc[r] = "rewrite"
    <3>1. Same(list[r], list[o]) /\ Same(data1, list[o])
      BY <2>1 DEF TableInv, OfflineList, Writing
    <3>2. Same(list[r], data1) /\ ~Has(list[r], line[o].mac)
      BY <1>1, <3>1, SameFacts, SameTransitive
    <3>3. Same(Append(list[r], line[o]), data1')
      BY <1>1, <3>2, SameAppend
    <3>4. Lacks(list[r], data1')
      BY <1>1, <3>2, <3>3 DEF Lacks
    <3> QED
      BY <2>1, <3>4 DEF RouterList, Left
  <2>2. CASE pc[r] = "close"
    <3>1. data1 = <<>>
      BY <2>2 DEF TableInv, Opened, Writing
    <3>2. data1' = <<line[o]>>
      BY <3>1
    <3> QED
      BY <1>1, <2>2, <3>2 DEF RouterList, Left
  <2>3. CASE pc[r] \notin {"rewrite", "close"}
    BY <2>3 DEF RouterList, Left
  <2> QED
    BY <2>1, <2>2, <2>3
<1>8. RouterLine'
  <2>1. \A m : Has(data1, m) => Has(data1', m)
    BY <1>1 DEF Has
  <2> QED
    BY <2>1 DEF TableInv, RouterLine, Left
<1> QED
  BY <1>4, <1>5, <1>6, <1>7, <1>8 DEF TableInv, Uniq

----------------------------------------------------------------------------
(* Every step *)

LEMMA OneThread == \A t \in Threads : t = o \/ t = r
BY DEF Threads, o, r

LEMMA TableStep ==
  ASSUME TypeInv, TableInv, [Next]_vars, ~torn'
  PROVE  TableInv'
<1> USE DEF Threads, o, r, file
<1>0. TypeOK
  BY DEF TypeInv
<1> HIDE DEF Threads
<1>1. CASE Configure \/ Forward \/ Outage
  <2>1. /\ data1' = data1 /\ list' = list /\ line' = line
        /\ \/ pc["offline"] = "idle" /\ pc' = [pc EXCEPT !["offline"] = "next"]
           \/ pc["router"] = "due" /\ pc' = [pc EXCEPT !["router"] = "next"]
           \/ pc["router"] = "idle" /\ pc' = [pc EXCEPT !["router"] = "due"]
    BY <1>1 DEF Configure, Forward, Outage, Goto, local
  <2> QED
    BY <1>0, <2>1, FreeStep DEF TypeOK, Left, Free, Threads
<1>2. CASE PowerCut
  <2>1. data1' = data1 /\ pc'[o] \in Free /\ pc'[r] \in Free
    BY <1>2 DEF PowerCut, Free, Threads
  <2> QED
    BY <1>0, <2>1, FreeStep
<1>3. ASSUME NEW t \in Threads, data1' = data1, pc[t] # "close", NEW place \in Free,
             pc' = [pc EXCEPT ![t] = place],
             line' = line \/ line' = [line EXCEPT ![t] = Dummy],
             list' = list \/ list' = [list EXCEPT ![t] = <<>>]
      PROVE  TableInv'
  <2>1. CASE t = o
    BY <1>0, <1>3, <2>1, FreeStep DEF TypeOK, Left, Threads
  <2>2. CASE t = r
    BY <1>0, <1>3, <2>2, FreeStep DEF TypeOK, Left, Threads
  <2> QED
    BY <2>1, <2>2 DEF Threads
<1>4. ASSUME NEW t \in Threads, Fail(t), data1' = data1, pc[t] # "close" PROVE TableInv'
  BY <1>3, <1>4 DEF Fail, Goto, Forgotten, Free
<1>5. ASSUME NEW t \in Threads, Continue(t), data1' = data1, pc[t] # "close"
      PROVE  TableInv'
  BY <1>3, <1>5 DEF Continue, Goto, Free
<1>6. ASSUME NEW t \in Threads, Read(t) PROVE TableInv'
  <2>1. CASE data1 = <<>>
    BY <1>5, <1>6, <2>1 DEF Read
  <2>2. CASE data1 # <<>>
    <3>1. /\ data1' = data1 /\ line' = line /\ list' = [list EXCEPT ![t] = data1]
          /\ pc[t] = "read"
          /\ pc' = [pc EXCEPT ![t] = IF Has(data1, line[t].mac) THEN "rewrite"
                                                                ELSE "append"]
      BY <1>6, <2>2 DEF Read, Goto
    <3>2. CASE t = o
      BY <1>0, <2>2, <3>1, <3>2, OfflineReads DEF TypeOK, Left, Threads
    <3>3. CASE t = r
      BY <1>0, <2>2, <3>1, <3>3, RouterReads DEF TypeOK, Left, Threads
    <3> QED
      BY <3>2, <3>3 DEF Threads
  <2> QED
    BY <2>1, <2>2
<1>7. ASSUME NEW t \in Threads, Truncate(t) PROVE TableInv'
  <2>1. /\ data1' = <<>> /\ line' = line /\ list' = list /\ pc[t] = "rewrite"
        /\ pc' = [pc EXCEPT ![t] = "close"]
    BY <1>7 DEF Truncate, Goto, local
  <2>2. PICK u \in Threads : t # u
    BY DEF Threads
  <2>3. pc'[t] = "close" /\ Left(u) /\ line'[t] = line[t] /\ list'[t] = list[t]
    BY <1>0, <2>1, <2>2 DEF TypeOK, Left
  <2> QED
    BY <1>0, <2>1, <2>2, <2>3, Truncates
<1>8. ASSUME NEW t \in Threads, Close(t) PROVE TableInv'
  <2>0. data1' = Closing(t)
    BY <1>8, CloseFacts
  <2>1. /\ pc[t] = "close"
        /\ pc' = [pc EXCEPT ![t] = "next"]
        /\ line' = [line EXCEPT ![t] = Dummy] /\ list' = [list EXCEPT ![t] = <<>>]
    BY <1>8 DEF Close, Continue, Goto
  <2>2. CASE t = o
    BY <1>0, <2>0, <2>1, <2>2, OfflineCloses DEF TypeOK, Left, Threads
  <2>3. CASE t = r
    BY <1>0, <2>0, <2>1, <2>3, RouterCloses DEF TypeOK, Left, Threads
  <2> QED
    BY <2>2, <2>3 DEF Threads
<1>9. ASSUME NEW t \in Threads, AppendLine(t) PROVE TableInv'
  <2>1. /\ data1' = Append(data1, line[t]) /\ pc[t] = "append"
        /\ pc' = [pc EXCEPT ![t] = "next"]
        /\ line' = [line EXCEPT ![t] = Dummy] /\ list' = [list EXCEPT ![t] = <<>>]
    BY <1>9 DEF AppendLine, Continue, Goto
  <2>2. t = o
    BY <2>1 DEF TableInv, Threads
  <2> QED
    BY <1>0, <2>1, <2>2, OfflineAppends DEF TypeOK, Left, Threads
<1>10. ASSUME NEW t \in Threads, Take(t) PROVE TableInv'
  <2>1. CASE t = "router" /\ at[t] >= Len(data1)
    BY <1>4, <1>10, <2>1 DEF Take
  <2>2. CASE ~(t = "router" /\ at[t] >= Len(data1))
    <3>1. /\ data1' = data1 /\ list' = list /\ pc[t] = "next"
          /\ pc' = [pc EXCEPT ![t] = "scan"]
          /\ line' = [line EXCEPT ![t] = IF t = "router" THEN data1[at[t] + 1]
                                                        ELSE message[at[t] + 1]]
      BY <1>10, <2>2 DEF Take, Goto
    <3>2. PICK u \in Threads : t # u
      BY DEF Threads
    <3>3. t = r => Has(data1, line'[t].mac)
      <4>1. t = r => at[t] + 1 \in 1..Len(data1) /\ line'[t] = data1[at[t] + 1]
        BY <1>0, <2>2, <3>1 DEF TypeOK
      <4>2. DOMAIN data1 = 1..Len(data1)
        BY <1>0, LenProperties DEF TypeOK
      <4> QED
        BY <4>1, <4>2 DEF Has
    <3>4. pc'[t] = "scan" /\ Left(u)
      BY <1>0, <3>1, <3>2 DEF TypeOK, Left
    <3> QED
      BY <1>0, <3>1, <3>2, <3>3, <3>4, ScanStep
  <2> QED
    BY <2>1, <2>2
<1>11. ASSUME NEW t \in Threads, Scan(t) PROVE TableInv'
  <2>1. CASE Continue(t)
    BY <1>5, <1>11, <2>1 DEF Scan
  <2>2. CASE line[t].mac \in Modules /\ Goto(t, "read") /\ UNCHANGED <<at, line, list>>
    <3>1. PICK u \in Threads : t # u
      BY DEF Threads
    <3>2. /\ ~Writing(u) /\ pc[t] = "scan" /\ data1' = data1
          /\ pc' = [pc EXCEPT ![t] = "read"] /\ line' = line /\ list' = list
      BY <1>11, <2>2, <3>1 DEF Scan, Unhurried, Goto
    <3>3. pc'[t] = "read" /\ Left(u) /\ line'[t] = line[t]
      BY <1>0, <3>1, <3>2 DEF TypeOK, Left
    <3>4. line[t] \in Addressed
      BY <1>0, <2>2, ModuleLine DEF TypeOK
    <3> QED
      BY <1>0, <3>1, <3>2, <3>3, <3>4, ScanStep
  <2>3. CASE Fail(t)
    BY <1>4, <1>11, <2>3 DEF Scan
  <2> QED
    BY <1>11, <2>1, <2>2, <2>3 DEF Scan
<1>12. ASSUME NEW t \in Threads, BeginTell(t) PROVE TableInv'
  BY <1>3, <1>12 DEF BeginTell, Goto, Free
<1>13. ASSUME NEW t \in Threads, Tell(t) PROVE TableInv'
  <2>1. CASE Fail(t)
    BY <1>4, <1>13, <2>1 DEF Tell
  <2>2. CASE ~Fail(t)
    <3>1. Left(o) /\ Left(r) /\ data1' = data1
      BY <1>13, <2>2 DEF Tell, Left
    <3> QED
      BY <1>0, <3>1, FreeStep
  <2> QED
    BY <2>1, <2>2
<1>14. ASSUME NEW t \in Threads, EndTell(t) PROVE TableInv'
  BY <1>3, <1>14 DEF EndTell, Goto, Forgotten, Free
<1>15. CASE UNCHANGED vars
  <2>1. Left(o) /\ Left(r) /\ data1' = data1
    BY <1>15 DEF vars, local, Left
  <2> QED
    BY <1>0, <2>1, FreeStep
<1> QED
  BY <1>1, <1>2, <1>6, <1>7, <1>8, <1>9, <1>10, <1>11, <1>12, <1>13, <1>14, <1>15
     DEF Next, Step


----------------------------------------------------------------------------
(* What a thread knows that is alone in its pass *)

Resting(t) == pc[t] \in {"idle", "due"}

Alone(t) == alone[t] /\ ~Resting(t)

In(l, s) == \E i \in 1..Len(s) : s[i] = l

\* Router's line is of the file, and its list the file, or what is written to
\* it.
RouterAlone ==
    Alone(r) =>
        /\ pc[r] = "close" => data1 = <<>>
        /\ pc[r] = "rewrite" => list[r] = data1
        /\ pc[r] \in {"scan", "read"} => In(line[r], data1)
        /\ pc[r] \in {"rewrite", "close"} => In(line[r], list[r])

\* tcp_client has sent to the lines it has come to.
Telling(t) ==
    Alone(t) /\ pc[t] = "tell" =>
        /\ limit[t] = TellEnd(t) /\ at[t] >= 1
        /\ \A i \in 2..Len(data1) :
              i <= at[t] /\ data1[i].mac \in Modules => data1[i].mac \in tried[t]

SoloInv ==
    /\ Alone(o) => Resting(r)
    /\ Alone(r) => Resting(o)
    /\ RouterAlone /\ Telling(o) /\ Telling(r)

\* A step of a thread that is in its pass: the other one is not alone, so it
\* is enough to know what this one does.
LEMMA SoloOfOne ==
  ASSUME TypeInv, SoloInv, NEW t \in Threads, NEW u \in Threads, t # u,
         ~Resting(t), pc'[u] = pc[u], alone'[u] = alone[u],
         Alone(t)' => Alone(t),
         t = r => RouterAlone', Telling(t)'
  PROVE  SoloInv'
<1>1. ~Alone(u) /\ ~Alone(u)'
  BY DEF SoloInv, Alone, Resting, Threads, o, r
<1>2. Alone(t)' => Resting(u)'
  BY DEF SoloInv, Alone, Resting, Threads, o, r
<1>3. CASE t = r
  BY <1>1, <1>2, <1>3 DEF SoloInv, Telling, Threads, o, r
<1>4. CASE t = o
  BY <1>1, <1>2, <1>4 DEF SoloInv, Telling, RouterAlone, Threads, o, r
<1> QED
  BY <1>3, <1>4, OneThread

LEMMA SoloStep ==
  ASSUME TypeInv, SoloInv, [Next]_vars
  PROVE  SoloInv'
<1>0. TypeOK
  BY DEF TypeInv
<1> USE DEF o, r, file
<1>1. CASE Configure
  <2>1. pc' = [pc EXCEPT !["offline"] = "next"]
    BY <1>1 DEF Configure, Goto
  <2>2. /\ pc[o] = "idle"
        /\ alone' = [v \in Threads |-> pc["router"] \in {"idle", "due"}]
    BY <1>1 DEF Configure, Meet
  <2>3. /\ pc'[o] = "next" /\ pc'[r] = pc[r]
        /\ alone'[o] = Resting(r) /\ alone'[r] = Resting(r)
    BY <1>0, <2>1, <2>2 DEF TypeOK, Threads, Resting
  <2> QED
    BY <2>3 DEF SoloInv, Alone, Resting, RouterAlone, Telling
<1>2. CASE Forward
  <2>1. pc' = [pc EXCEPT !["router"] = "next"]
    BY <1>2 DEF Forward, Goto
  <2>2. /\ pc[r] = "due"
        /\ alone' = [v \in Threads |-> pc["offline"] \in {"idle", "due"}]
    BY <1>2 DEF Forward, Meet
  <2>3. /\ pc'[r] = "next" /\ pc'[o] = pc[o]
        /\ alone'[o] = Resting(o) /\ alone'[r] = Resting(o)
    BY <1>0, <2>1, <2>2 DEF TypeOK, Threads, Resting
  <2> QED
    BY <2>3 DEF SoloInv, Alone, Resting, RouterAlone, Telling
<1>3. CASE Outage
  <2>1. /\ pc' = [pc EXCEPT !["router"] = "due"] /\ pc[r] = "idle"
        /\ alone' = alone /\ tried' = tried /\ data1' = data1 /\ limit' = limit
        /\ at' = at /\ message' = message
    BY <1>3 DEF Outage, Goto, local, history
  <2>2. pc'[r] = "due" /\ pc'[o] = pc[o]
    BY <1>0, <2>1 DEF TypeOK, Threads
  <2> QED
    BY <2>1, <2>2 DEF SoloInv, Alone, Resting, RouterAlone, Telling, TellEnd
<1>4. CASE PowerCut
  <2>1. Resting(o)' /\ Resting(r)'
    BY <1>4 DEF PowerCut, Resting, Threads
  <2> QED
    BY <2>1 DEF SoloInv, Alone, RouterAlone, Telling
<1>5. CASE UNCHANGED vars
  BY <1>5 DEF vars, local, history, SoloInv, Alone, Resting, RouterAlone, Telling,
     TellEnd, In
<1> SUFFICES ASSUME NEW t \in Threads, Step(t)
             PROVE  SoloInv'
  BY <1>1, <1>2, <1>3, <1>4, <1>5 DEF Next
<1>6. PICK u \in Threads : t # u
  BY DEF Threads
\* A step that ends in a place where nothing is claimed.
<1>7. ASSUME NEW place \in {"idle", "due", "next", "append"},
             pc' = [pc EXCEPT ![t] = place],
             \/ alone' = alone
             \/ place \in {"idle", "due"} /\ alone' = [alone EXCEPT ![t] = TRUE],
             ~Resting(t)
      PROVE  SoloInv'
  <2>1. pc'[t] = place /\ pc'[u] = pc[u] /\ alone'[u] = alone[u]
    BY <1>0, <1>6, <1>7 DEF TypeOK
  <2>2. Alone(t)' => Alone(t)
    BY <1>7, <2>1 DEF Alone, Resting
  <2>3. (t = r => RouterAlone') /\ Telling(t)'
    BY <2>1 DEF RouterAlone, Telling, Alone, Resting
  <2> QED
    BY <1>6, <1>7, <2>1, <2>2, <2>3, SoloOfOne
<1>8. ASSUME Fail(t), ~Resting(t) PROVE SoloInv'
  BY <1>7, <1>8 DEF Fail, Goto, Forgotten
<1>9. ASSUME Continue(t), ~Resting(t), alone' = alone PROVE SoloInv'
  <2>1. pc' = [pc EXCEPT ![t] = "next"]
    BY <1>9 DEF Continue, Goto
  <2> QED
    BY <1>7, <1>9, <2>1
\* A step that ends in a place where something is claimed.
<1>10. ASSUME NEW place \in Places, pc' = [pc EXCEPT ![t] = place], alone' = alone,
              ~Resting(t), t = r /\ Alone(r) => RouterAlone',
              place = "tell" => Telling(t)'
       PROVE  SoloInv'
  <2>1. pc'[t] = place /\ pc'[u] = pc[u] /\ alone'[u] = alone[u]
    BY <1>0, <1>6, <1>10 DEF TypeOK
  <2>2. Alone(t)' => Alone(t)
    BY <1>10, <2>1 DEF Alone, Resting
  <2>3. (t = r => RouterAlone') /\ Telling(t)'
    BY <1>10, <2>1, <2>2 DEF RouterAlone, Telling
  <2> QED
    BY <1>6, <1>10, <2>1, <2>2, <2>3, SoloOfOne
<1>11. CASE Read(t)
  <2>1. pc[t] = "read" /\ ~Resting(t) /\ data1' = data1 /\ alone' = alone
    BY <1>11 DEF Read, Resting, history
  <2>2. CASE data1 = <<>>
    BY <1>9, <1>11, <2>1, <2>2 DEF Read
  <2>3. CASE data1 # <<>>
    <3>1. /\ list' = [list EXCEPT ![t] = data1] /\ line' = line
          /\ pc' = [pc EXCEPT ![t] = IF Has(data1, line[t].mac) THEN "rewrite"
                                                                ELSE "append"]
      BY <1>11, <2>3 DEF Read, Goto
    <3>2. ASSUME t = r, Alone(r) PROVE RouterAlone'
      <4>1. In(line[r], data1)
        BY <2>1, <3>2 DEF SoloInv, RouterAlone
      <4>2. list'[r] = data1 /\ pc'[r] \in {"rewrite", "append"}
        BY <1>0, <3>1, <3>2 DEF TypeOK
      <4> QED
        BY <2>1, <3>1, <4>1, <4>2 DEF RouterAlone, In
    <3> QED
      BY <1>10, <2>1, <3>1, <3>2 DEF Places
  <2> QED
    BY <2>2, <2>3
<1>12. CASE Truncate(t)
  <2>1. /\ pc[t] = "rewrite" /\ ~Resting(t) /\ data1' = <<>> /\ alone' = alone
        /\ pc' = [pc EXCEPT ![t] = "close"] /\ list' = list /\ line' = line
    BY <1>12 DEF Truncate, Resting, history, local, Goto
  <2>2. ASSUME t = r, Alone(r) PROVE RouterAlone'
    <3>1. In(line[r], list[r])
      BY <2>1, <2>2 DEF SoloInv, RouterAlone
    <3>2. pc'[r] = "close"
      BY <1>0, <2>1, <2>2 DEF TypeOK
    <3> QED
      BY <2>1, <3>1, <3>2 DEF RouterAlone, In
  <2> QED
    BY <1>10, <2>1, <2>2 DEF Places
<1>13. CASE Close(t)
  BY <1>9, <1>13 DEF Close, Resting, history
<1>14. CASE AppendLine(t)
  BY <1>9, <1>14 DEF AppendLine, Resting, history
<1>15. CASE Take(t)
  <2>1. pc[t] = "next" /\ ~Resting(t) /\ data1' = data1
    BY <1>15 DEF Take, Resting
  <2>2. CASE t = "router" /\ at[t] >= Len(data1)
    BY <1>8, <1>15, <2>1, <2>2 DEF Take
  <2>3. CASE ~(t = "router" /\ at[t] >= Len(data1))
    <3>1. /\ pc' = [pc EXCEPT ![t] = "scan"] /\ alone' = alone
          /\ line' = [line EXCEPT ![t] = IF t = "router" THEN data1[at[t] + 1]
                                                        ELSE message[at[t] + 1]]
      BY <1>15, <2>3 DEF Take, Goto, history
    <3>2. ASSUME t = r, Alone(r) PROVE RouterAlone'
      <4>1. at[r] + 1 \in 1..Len(data1) /\ line'[r] = data1[at[r] + 1]
        BY <1>0, <2>3, <3>1, <3>2 DEF TypeOK
      <4>2. In(line'[r], data1)
        BY <4>1 DEF In
      <4>3. pc'[r] = "scan"
        BY <1>0, <3>1, <3>2 DEF TypeOK
      <4> QED
        BY <2>1, <4>2, <4>3 DEF RouterAlone, In
    <3> QED
      BY <1>10, <2>1, <3>1, <3>2 DEF Places
  <2> QED
    BY <2>2, <2>3
<1>16. CASE Scan(t)
  <2>1. pc[t] = "scan" /\ ~Resting(t) /\ data1' = data1
        /\ (alone' = alone \/ Fail(t))
    BY <1>16 DEF Scan, Resting, history
  <2>2. CASE Continue(t)
    BY <1>8, <1>9, <2>1, <2>2
  <2>3. CASE Goto(t, "read") /\ UNCHANGED <<at, line, list>> /\ ~Fail(t)
    <3>1. pc' = [pc EXCEPT ![t] = "read"] /\ line' = line
      BY <2>3 DEF Goto
    <3>2. ASSUME t = r, Alone(r) PROVE RouterAlone'
      <4>1. In(line[r], data1)
        BY <2>1, <3>2 DEF SoloInv, RouterAlone
      <4>2. pc'[r] = "read"
        BY <1>0, <3>1, <3>2 DEF TypeOK
      <4> QED
        BY <2>1, <3>1, <4>1, <4>2 DEF RouterAlone, In
    <3> QED
      BY <1>10, <2>1, <2>3, <3>1, <3>2 DEF Places
  <2>4. CASE Fail(t)
    BY <1>8, <2>1, <2>4
  <2> QED
    BY <1>16, <2>2, <2>3, <2>4 DEF Scan
<1>17. CASE BeginTell(t)
  <2>1. /\ pc[t] = "next" /\ ~Resting(t) /\ data1' = data1 /\ alone' = alone
        /\ pc' = [pc EXCEPT ![t] = "tell"] /\ message' = message
        /\ at' = [at EXCEPT ![t] = 1] /\ limit' = [limit EXCEPT ![t] = TellEnd(t)]
    BY <1>17 DEF BeginTell, Resting, history, Goto
  <2>2. /\ at'[t] = 1 /\ limit'[t] = TellEnd(t) /\ TellEnd(t)' = TellEnd(t)
        /\ Len(data1) \in Nat
    BY <1>0, <2>1 DEF TypeOK, TellEnd
  <2>3. Telling(t)'
    BY <2>1, <2>2 DEF Telling
  <2>4. t = r => RouterAlone'
    BY <1>0, <2>1 DEF TypeOK, RouterAlone
  <2> QED
    BY <1>10, <2>1, <2>3, <2>4 DEF Places
<1>18. CASE Tell(t)
  <2>1. pc[t] = "tell" /\ ~Resting(t) /\ data1' = data1
    BY <1>18 DEF Tell, Resting
  <2>2. CASE Fail(t)
    BY <1>8, <2>1, <2>2
  <2>3. CASE ~Fail(t)
    <3>1. /\ pc' = pc /\ limit' = limit /\ message' = message /\ alone' = alone
          /\ data1 = <<>> \/ at[t] < Len(data1)
          /\ at' = [at EXCEPT ![t] = @ + 1]
          /\ tried' = [tried EXCEPT ![t] = IF data1 = <<>> THEN @
                         ELSE @ \cup ({data1[at[t] + 1].mac} \cap Modules)]
      BY <1>18, <2>3 DEF Tell
    <3>2. /\ at[t] \in Nat /\ at'[t] = at[t] + 1 /\ TellEnd(t)' = TellEnd(t)
          /\ Len(data1) \in Nat /\ pc' = [pc EXCEPT ![t] = "tell"]
      BY <1>0, <2>1, <3>1 DEF TypeOK, TellEnd
    <3>3. ASSUME data1 # <<>>
          PROVE  tried'[t] = tried[t] \cup ({data1[at[t] + 1].mac} \cap Modules)
      BY <1>0, <3>1, <3>3 DEF TypeOK
    <3>4. ASSUME Alone(t), NEW i \in 2..Len(data1), i <= at[t] + 1,
                 data1[i].mac \in Modules
          PROVE  data1[i].mac \in tried'[t]
      <4>1. data1 # <<>>
        BY <3>4
      <4>2. CASE i = at[t] + 1
        BY <3>3, <3>4, <4>1, <4>2
      <4>3. CASE i <= at[t]
        <5>1. data1[i].mac \in tried[t]
          BY <2>1, <3>4, <4>3, OneThread DEF SoloInv, Telling
        <5> QED
          BY <3>3, <4>1, <5>1
      <4> QED
        BY <3>2, <3>4, <4>2, <4>3
    <3>5. Telling(t)'
      <4>1. Alone(t)' => Alone(t) /\ limit[t] = TellEnd(t) /\ at[t] >= 1
        BY <2>1, <3>1, OneThread DEF SoloInv, Telling, Alone, Resting
      <4> QED
        BY <2>1, <3>1, <3>2, <3>4, <4>1 DEF Telling
    <3>6. t = r => RouterAlone'
      BY <2>1, <3>1 DEF RouterAlone
    <3> QED
      BY <1>10, <2>1, <3>1, <3>2, <3>5, <3>6 DEF Places
  <2> QED
    BY <2>2, <2>3
<1>19. CASE EndTell(t)
  BY <1>7, <1>19 DEF EndTell, Goto, Forgotten, Resting
<1> QED
  BY <1>11, <1>12, <1>13, <1>14, <1>15, <1>16, <1>17, <1>18, <1>19 DEF Step

----------------------------------------------------------------------------
(* The theorems *)

\* A file that is not torn has no line without a whole address.
Whole(l) == l # Scrap
Clean ==
    /\ \A i \in 1..Len(data1) : Whole(data1[i])
    /\ \A t \in Threads : /\ Whole(line[t])
                          /\ \A i \in 1..Len(list[t]) : Whole(list[t][i])

LEMMA WholeHeader == Whole(Header) /\ Whole(Dummy) /\ \A l \in Lines : Whole(l)
BY RegistryAssumption DEF Whole, Header, Dummy, Scrap, Lines

LEMMA CleanStep ==
  ASSUME TypeInv, Clean, [Next]_vars, ~torn'
  PROVE  Clean'
<1>0. TypeOK
  BY DEF TypeInv
<1> USE WholeHeader DEF Clean, file
\* Lines go, and none comes.
<1>1. ASSUME data1' = data1,
             line' = line \/ (\E t \in Threads : line' = [line EXCEPT ![t] = Dummy]),
             list' = list \/ (\E t \in Threads : list' = [list EXCEPT ![t] = <<>>])
      PROVE  Clean'
  <2>1. \A t \in Threads : line'[t] = line[t] \/ line'[t] = Dummy
    BY <1>0, <1>1 DEF TypeOK
  <2>2. \A t \in Threads : list'[t] = list[t] \/ list'[t] = <<>>
    BY <1>0, <1>1 DEF TypeOK
  <2> QED
    BY <1>1, <2>1, <2>2
<1>2. CASE Configure \/ Forward \/ Outage \/ UNCHANGED vars
  BY <1>1, <1>2 DEF Configure, Forward, Outage, local, vars
<1>3. CASE PowerCut
  BY <1>3 DEF PowerCut
<1> SUFFICES ASSUME NEW t \in Threads, Step(t)
             PROVE  Clean'
  BY <1>2, <1>3 DEF Next
<1>4. /\ data1 \in Seq(Entries) /\ list[t] \in Seq(Entries) /\ line[t] \in Entries
      /\ message \in Seq(Lines) /\ at[t] \in Nat /\ limit[t] \in Nat
  BY <1>0 DEF TypeOK
<1>5. CASE Read(t)
  <2>1. CASE list' = [list EXCEPT ![t] = data1] /\ line' = line /\ data1' = data1
    BY <1>0, <2>1 DEF TypeOK
  <2> QED
    BY <1>1, <1>5, <2>1 DEF Read, Continue
<1>6. CASE Truncate(t)
  BY <1>6 DEF Truncate, local
<1>7. CASE Close(t)
  <2>1. data1' = Closing(t) /\ Len(Closing(t)) = Len(list[t])
    BY <1>4, <1>7, CloseFacts, ReplacedFacts DEF Closing
  <2>2. \A i \in 1..Len(data1') : data1'[i] = line[t] \/ data1'[i] = list[t][i]
    BY <1>4, <2>1 DEF Closing, Replaced
  <2>3. /\ line' = [line EXCEPT ![t] = Dummy] /\ list' = [list EXCEPT ![t] = <<>>]
    BY <1>7 DEF Close, Continue
  <2>4. \A i \in 1..Len(data1') : Whole(data1'[i])
    BY <2>1, <2>2
  <2>5. \A u \in Threads : line'[u] = line[u] \/ line'[u] = Dummy
    BY <1>0, <2>3 DEF TypeOK
  <2>6. \A u \in Threads : list'[u] = list[u] \/ list'[u] = <<>>
    BY <1>0, <2>3 DEF TypeOK
  <2> QED
    BY <2>4, <2>5, <2>6
<1>8. CASE AppendLine(t)
  <2>1. /\ data1' = Append(data1, line[t])
        /\ line' = [line EXCEPT ![t] = Dummy] /\ list' = [list EXCEPT ![t] = <<>>]
    BY <1>8 DEF AppendLine, Continue
  <2>2. \A i \in 1..Len(data1') : Whole(data1'[i])
    BY <1>4, <2>1
  <2> QED
    BY <1>0, <2>1, <2>2 DEF TypeOK
<1>9. CASE Fail(t) /\ data1' = data1
  BY <1>1, <1>9 DEF Fail, Forgotten
<1>10. CASE Take(t)
  <2>1. CASE t = "router" /\ at[t] >= Len(data1)
    BY <1>9, <1>10, <2>1 DEF Take
  <2>2. CASE t = "router" /\ ~(at[t] >= Len(data1))
    <3>1. line' = [line EXCEPT ![t] = data1[at[t] + 1]] /\ list' = list /\ data1' = data1
      BY <1>10, <2>2 DEF Take
    <3>2. Whole(data1[at[t] + 1])
      BY <1>4, <2>2
    <3> QED
      BY <1>0, <3>1, <3>2 DEF TypeOK
  <2>3. CASE t # "router"
    <3>1. line' = [line EXCEPT ![t] = message[at[t] + 1]] /\ list' = list /\ data1' = data1
      BY <1>10, <2>3 DEF Take
    <3>2. Whole(message[at[t] + 1])
      <4>1. t = o /\ at[t] + 1 \in 1..Len(message)
        BY <1>4, <1>10, <2>3 DEF Take, TypeInv, Busy, o, Threads
      <4> QED
        BY <1>4, <4>1
    <3> QED
      BY <1>0, <3>1, <3>2 DEF TypeOK
  <2> QED
    BY <2>1, <2>2, <2>3
<1>11. CASE Scan(t)
  BY <1>1, <1>9, <1>11 DEF Scan, Continue
<1>12. CASE BeginTell(t)
  BY <1>1, <1>12 DEF BeginTell
<1>13. CASE Tell(t)
  BY <1>1, <1>9, <1>13 DEF Tell
<1>14. CASE EndTell(t)
  BY <1>1, <1>14 DEF EndTell, Forgotten
<1> QED
  BY <1>5, <1>6, <1>7, <1>8, <1>10, <1>11, <1>12, <1>13, <1>14 DEF Step

\* A torn file stays torn.
LEMMA TornStays ==
  ASSUME TypeOK, [Next]_vars, torn
  PROVE  torn'
<1>1. CASE \E t \in Threads : Close(t)
  BY <1>1 DEF Close
<1>2. CASE \A t \in Threads : ~Close(t)
  BY <1>2 DEF Next, Step, Configure, Forward, Outage, PowerCut, Read, Truncate,
     AppendLine, Take, Scan, BeginTell, Tell, EndTell, file, vars
<1> QED
  BY <1>1, <1>2

IInv == TypeInv /\ (~torn => TableInv /\ Clean) /\ SoloInv

LEMMA InitInv == Init => IInv
<1> SUFFICES ASSUME Init PROVE IInv
  OBVIOUS
<1>1. TypeInv
  <2>1. data1 \in Seq(Entries) /\ torn \in BOOLEAN
    <3>1. Header \in Entries /\ Dummy \in Entries
      BY HeaderTypes
    <3>2. <<Header, Dummy>> \in Seq(Entries)
      BY <3>1
    <3> QED
      BY <3>2 DEF Init, First
  <2>2. Dummy \in Entries /\ <<>> \in Seq(Entries) /\ <<>> \in Seq(Lines)
    BY HeaderTypes, EmptySeq
  <2> QED
    BY <2>1, <2>2 DEF Init, TypeInv, TypeOK, Threads, Places, Busy, o
<1>2. TableInv
  <2>1. "header" # "dummy"
    OBVIOUS
  <2>2. Uniq(data1)
    BY DEF Init, First, Uniq, Header, Dummy
  <2>3. pc[o] = "idle" /\ pc[r] = "due"
    BY DEF Init, Threads, o, r
  <2> QED
    BY <2>2, <2>3 DEF TableInv, InHand, Opened, OfflineList, RouterList, RouterLine,
       Writing
<1>3. SoloInv
  BY DEF Init, SoloInv, Alone, Resting, RouterAlone, Telling, Threads, o, r
<1>4. Clean
  BY WholeHeader DEF Init, First, Clean
<1> QED
  BY <1>1, <1>2, <1>3, <1>4 DEF IInv

LEMMA InvHolds == Spec => []IInv
<1>1. ASSUME IInv, [Next]_vars PROVE IInv'
  <2>1. torn => torn'
    BY <1>1, TornStays DEF IInv, TypeInv
  <2> QED
    BY <1>1, <2>1, TypeStep, TableStep, CleanStep, SoloStep DEF IInv
<1> QED
  BY InitInv, <1>1, PTL DEF Spec

\* Every variable keeps its type, whatever the two threads do.
THEOREM TypeCorrect == Spec => []TypeOK
<1>1. IInv => TypeOK
  BY DEF IInv, TypeInv
<1> QED
  BY InvHolds, <1>1, PTL

\* No module has two lines in data1.txt, whatever the two threads and the
\* power do, until the end of one text sticks out behind another (new.py 42-69).
THEOREM OneLineEach == Spec => []Distinct
<1>1. IInv => Distinct
  <2> SUFFICES ASSUME IInv, ~torn PROVE Distinct
    BY DEF Distinct
  <2>1. DOMAIN data1 = 1..Len(data1)
    BY LenProperties DEF IInv, TypeInv, TypeOK
  <2> QED
    BY <2>1 DEF IInv, TableInv, Uniq, Distinct
<1> QED
  BY InvHolds, <1>1, PTL

\* A pass alone, but for one of a single module, sends to every module listed
\* (new.py 138, 243, 276).
THEOREM AllTold == Spec => []WholePass
<1>1. IInv => WholePass
  <2> SUFFICES ASSUME IInv, NEW t \in Threads,
                      pc[t] = "tell", alone[t], t = "offline" => Len(message) >= 2,
                      at[t] >= limit[t] \/ at[t] >= Len(data1)
               PROVE  Listed(data1) \subseteq tried[t]
    BY DEF WholePass
  <2>1. Len(data1) \in Nat /\ Len(message) \in Nat /\ at[t] \in Nat
    BY DEF IInv, TypeInv, TypeOK
  <2>2. /\ limit[t] = TellEnd(t)
        /\ \A i \in 2..Len(data1) :
              i <= at[t] /\ data1[i].mac \in Modules => data1[i].mac \in tried[t]
    BY OneThread DEF IInv, SoloInv, Telling, Alone, Resting
  <2>3. at[t] >= Len(data1)
    BY <2>1, <2>2, OneThread DEF TellEnd, o, r
  <2> QED
    BY <2>1, <2>2, <2>3 DEF Listed
<1> QED
  BY InvHolds, <1>1, PTL

\* An empty table stays empty (new.py 47, 61: the loop that appends runs over
\* the lines there are).
THEOREM EmptyForGood == Spec => WipedStays
<1>1. ASSUME IInv, [Next]_vars, Wiped PROVE Wiped'
  <2> USE DEF file
  <2>0. TypeOK /\ data1 = <<>> /\ \A t \in Threads : ~Writing(t)
    BY <1>1 DEF IInv, TypeInv, Wiped
  <2>1. ASSUME data1' = data1,
               \A t \in Threads : pc'[t] = pc[t] \/ pc'[t] \in Free \cup {"scan", "read"}
        PROVE  Wiped'
    BY <2>0, <2>1 DEF Wiped, Writing, Free
  <2>2. ASSUME NEW t \in Threads, NEW place \in Free \cup {"scan", "read"},
               data1' = data1, pc' = [pc EXCEPT ![t] = place]
        PROVE  Wiped'
    BY <2>0, <2>1, <2>2 DEF TypeOK
  <2>3. CASE Configure
    BY <2>2, <2>3 DEF Configure, Goto, Free, Threads
  <2>4. CASE Forward
    BY <2>2, <2>4 DEF Forward, Goto, Free, Threads
  <2>5. CASE Outage
    BY <2>2, <2>5 DEF Outage, Goto, Free, Threads
  <2>6. CASE PowerCut
    BY <2>1, <2>6 DEF PowerCut, Free
  <2>7. CASE UNCHANGED vars
    BY <2>1, <2>7 DEF vars
  <2>8. ASSUME NEW t \in Threads, Step(t) PROVE Wiped'
    <3>1. CASE Read(t)
      BY <2>0, <2>2, <3>1 DEF Read, Continue, Goto, Free
    <3>2. CASE Take(t)
      BY <2>2, <3>2 DEF Take, Fail, Goto, Free
    <3>3. CASE Scan(t)
      BY <2>2, <3>3 DEF Scan, Continue, Fail, Goto, Free
    <3>4. CASE BeginTell(t)
      BY <2>2, <3>4 DEF BeginTell, Goto, Free
    <3>5. CASE Tell(t)
      <4>1. CASE Fail(t)
        BY <2>2, <3>5, <4>1 DEF Tell, Fail, Goto, Free
      <4>2. CASE ~Fail(t)
        BY <2>1, <3>5, <4>2 DEF Tell
      <4> QED
        BY <4>1, <4>2
    <3>6. CASE EndTell(t)
      BY <2>2, <3>6 DEF EndTell, Goto, Free
    <3>7. ~Truncate(t) /\ ~Close(t) /\ ~AppendLine(t)
      BY <2>0 DEF Truncate, Close, AppendLine, Writing
    <3> QED
      BY <2>8, <3>1, <3>2, <3>3, <3>4, <3>5, <3>6, <3>7 DEF Step
  <2> QED
    BY <1>1, <2>3, <2>4, <2>5, <2>6, <2>7, <2>8 DEF Next
<1>2. IInv /\ [Next]_vars => [Wiped => Wiped']_vars
  BY <1>1
<1> QED
  BY InvHolds, <1>2, PTL DEF Spec, WipedStays

\* A file with its own line written again.
LEMMA ReplacedSelf ==
  ASSUME NEW s \in Seq(Entries), NEW l, In(l, s), Uniq(s)
  PROVE  Replaced(s, l) = s
<1>1. PICK k \in 1..Len(s) : s[k] = l
  BY DEF In
<1>2. \A i \in 1..Len(s) : (IF FirstOf(s, l.mac, i) THEN l ELSE s[i]) = s[i]
  BY <1>1 DEF FirstOf, Uniq
<1>3. s = [i \in 1..Len(s) |-> s[i]]
  BY LenProperties
<1> QED
  BY <1>2, <1>3 DEF Replaced

\* The states and steps in which the file is not open.
LEMMA NotOpen ==
  ASSUME pc[o] # "close", pc[r] # "close"
  PROVE  Committed = data1
BY DEF Committed, o, r

\* Router alone writes the file back as it was, if it is whole (new.py 245-265).
THEOREM RouterRenamesNothing == Spec => RouterKeeps
<1>1. ASSUME IInv, IInv', Step(r), alone[r], ~torn, ~torn' PROVE Committed' = Committed
  <2> USE DEF file
  <2>0. /\ TypeOK /\ TypeOK' /\ data1 \in Seq(Entries) /\ list[r] \in Seq(Entries)
        /\ line[r] \in Entries /\ r \in Threads
    BY <1>1, Values DEF IInv, TypeInv, Threads, r
  <2>1. ~Resting(r)
    BY <1>1 DEF Step, Read, Truncate, Close, AppendLine, Take, Scan, BeginTell, Tell,
       EndTell, Resting
  <2>2. Alone(r) /\ Resting(o) /\ RouterAlone
    BY <1>1, <2>1 DEF IInv, SoloInv, Alone
  <2>3. pc[o] # "close"
    BY <2>2 DEF Resting
  <2>4. ASSUME NEW place, place # "close", pc' = [pc EXCEPT ![r] = place], data1' = data1,
               pc[r] # "close"
        PROVE  Committed' = Committed
    <3>1. pc'[o] # "close" /\ pc'[r] # "close"
      BY <2>0, <2>3, <2>4 DEF TypeOK, Threads, o, r
    <3>2. Committed' = data1'
      BY <3>1 DEF Committed, o, r
    <3> QED
      BY <2>3, <2>4, <3>2, NotOpen
  <2>5. CASE Read(r) \/ Take(r) \/ Scan(r) \/ BeginTell(r) \/ EndTell(r)
    BY <2>4, <2>5 DEF Read, Take, Scan, BeginTell, EndTell, Continue, Fail, Goto
  <2>6. CASE Tell(r)
    <3>1. CASE Fail(r)
      BY <2>4, <2>6, <3>1 DEF Tell, Fail, Goto
    <3>2. CASE ~Fail(r)
      <4>1. pc' = pc /\ data1' = data1 /\ pc[r] # "close"
        BY <2>6, <3>2 DEF Tell
      <4> QED
        BY <2>3, <4>1 DEF Committed, o, r
    <3> QED
      BY <3>1, <3>2
  <2>7. CASE Truncate(r)
    <3>1. /\ pc[r] = "rewrite" /\ data1' = <<>> /\ list' = list /\ line' = line
          /\ pc' = [pc EXCEPT ![r] = "close"]
      BY <2>7 DEF Truncate, Goto, local
    <3>2. list[r] = data1 /\ In(line[r], list[r]) /\ Uniq(list[r])
      BY <1>1, <2>2, <3>1 DEF RouterAlone, IInv, TableInv, InHand, Writing, In
    <3>3. Replaced(list[r], line[r]) = data1
      BY <2>0, <3>2, ReplacedSelf
    <3>4. pc'[o] # "close" /\ pc'[r] = "close"
      BY <2>0, <2>3, <3>1 DEF TypeOK, Threads, o, r
    <3> QED
      BY <2>3, <3>1, <3>3, <3>4, NotOpen DEF Committed, Closing, o, r
  <2>8. CASE Close(r)
    <3>1. pc[r] = "close" /\ data1' = Closing(r) /\ pc' = [pc EXCEPT ![r] = "next"]
      BY <1>1, <2>0, <2>8, CloseFacts DEF IInv, Close, Continue, Goto
    <3>2. pc'[o] # "close" /\ pc'[r] # "close"
      BY <2>0, <2>3, <3>1 DEF TypeOK, Threads, o, r
    <3> QED
      BY <2>3, <3>1, <3>2 DEF Committed, o, r
  <2>9. ~AppendLine(r)
    BY <1>1 DEF AppendLine, IInv, TableInv
  <2> QED
    BY <1>1, <2>5, <2>6, <2>7, <2>8, <2>9 DEF Step
<1>2. IInv /\ IInv' /\ [Next]_vars =>
        [Step("router") /\ alone["router"] /\ ~torn' => Committed' = Committed]_vars
  BY <1>1, TornStays DEF r, IInv, TypeInv
<1> QED
  BY InvHolds, <1>2, PTL DEF Spec, RouterKeeps

----------------------------------------------------------------------------
(* Registry implements DeviceTable *)

\* Files with the same modules are the same table.
LEMMA SameMacs ==
  ASSUME NEW s \in Seq(Entries), NEW u \in Seq(Entries), Same(s, u)
  PROVE  Macs(s) = Macs(u)
BY DEF Same, Macs

\* The table has as many entries as the file lines.
LEMMA MacsFacts ==
  ASSUME NEW s \in Seq(Entries)
  PROVE  /\ Len(Macs(s)) = Len(s) /\ DOMAIN Macs(s) = 1..Len(s)
         /\ s = <<>> => Macs(s) = <<>>
         /\ \A l \in Entries : Macs(Append(s, l)) = Append(Macs(s), l.mac)
BY DEF Macs

\* What the table is: what the last of the threads to close the file has read,
\* or the file.
TableKnown ==
    /\ Committed \in Seq(Entries)
    /\ pc[o] = "close" => Same(Committed, list[o])
    /\ pc[o] # "close" /\ pc[r] = "close" => Same(Committed, list[r])
    /\ pc[o] # "close" /\ pc[r] # "close" => Committed = data1

LEMMA TableIs == IInv => TableKnown
<1> SUFFICES ASSUME TypeOK PROVE TableKnown
  BY DEF IInv, TypeInv
<1>1. data1 \in Seq(Entries)
  BY Values
<1>2. \A t \in Threads : Closing(t) \in Seq(Entries) /\ Same(Closing(t), list[t])
  BY ClosingFile
<1> QED
  BY <1>1, <1>2 DEF TableKnown, Committed, Threads, o, r

\* What a step of the file is to the table: none, or a step of DeviceTable.
TableStays == Macs(Committed') = Macs(Committed)

LEMMA StaysIfSame ==
  ASSUME NEW s \in Seq(Entries), TableKnown, TableKnown', Same(Committed, s), Same(Committed', s)
  PROVE  TableStays
<1>1. Committed \in Seq(Entries) /\ Committed' \in Seq(Entries)
  BY DEF TableKnown
<1> QED
  BY <1>1, SameMacs DEF TableStays

\* A step of a thread that has not the file open and does not open it, and
\* leaves the file as it is.
LEMMA OtherStays ==
  ASSUME NEW t \in Threads, NEW u \in Threads, t # u, data1' = data1, Left(u),
         pc[t] # "close", pc'[t] # "close"
  PROVE  TableStays
BY DEF TableStays, Committed, Closing, Left, Threads, o, r

\* A line appended by offline is a new entry, unless router has the file open
\* and will write over it.
LEMMA AppendIsAdd ==
  ASSUME TypeOK, TableInv, TableKnown, TableKnown', pc[o] = "append", pc'[o] = "next", Left(r),
         data1' = Append(data1, line[o]), ~torn, ~torn'
  PROVE  Table!Change \/ TableStays
<1>1. /\ data1 \in Seq(Entries) /\ list[o] \in Seq(Entries) /\ list[r] \in Seq(Entries)
      /\ line[o] \in Addressed /\ line[o] \in Entries /\ ~Has(list[o], line[o].mac)
      /\ list[o] # <<>> /\ line[o].mac \in Modules
  BY Values DEF TableInv, InHand, Writing, Addressed
<1>2. CASE pc[r] = "close"
  BY <1>1, <1>2, StaysIfSame DEF TableKnown, Left
<1>3. CASE pc[r] # "close"
  <2>1. Committed = data1 /\ Committed' = data1'
    BY <1>3 DEF TableKnown, Left
  <2>2. Same(data1, list[o])
    BY <1>3 DEF TableInv, OfflineList, Writing
  <2>3. data1 # <<>> /\ ~Has(data1, line[o].mac)
    BY <1>1, <2>2, SameFacts
  <2>4. Macs(data1) # <<>> /\ Macs(data1') = Append(Macs(data1), line[o].mac)
    BY <1>1, <2>3, MacsFacts
  <2>5. ~\E i \in DOMAIN Macs(data1) : Macs(data1)[i] = line[o].mac
    BY <1>1, <2>3 DEF Macs, Has
  <2>6. Table!Add(line[o].mac)
    BY <2>1, <2>4, <2>5 DEF Table!Add, Table!Holds
  <2> QED
    BY <1>1, <2>6 DEF Table!Change
<1> QED
  BY <1>2, <1>3

\* Router opens the file: what offline has appended since router read it is
\* forgotten.
LEMMA TruncateIsForget ==
  ASSUME TypeOK, TableInv, TableKnown, TableKnown', NEW t \in Threads, NEW u \in Threads,
         t # u, data1' = <<>>, pc[t] = "rewrite", pc'[t] = "close", Left(u),
         list'[t] = list[t], ~torn, ~torn'
  PROVE  Table!Change \/ TableStays
<1>1. /\ data1 \in Seq(Entries) /\ list[o] \in Seq(Entries) /\ list[r] \in Seq(Entries)
  BY Values
<1>2. CASE t = o /\ pc[r] = "close"
  <2>1. Same(list[r], list[o])
    BY <1>2 DEF TableInv, OfflineList, Writing
  <2>2. Same(Committed, list[o]) /\ Same(Committed', list[o])
    BY <1>2, <2>1, SameTransitive DEF TableKnown, o, r
  <2> QED
    BY <1>1, <2>2, StaysIfSame
<1>3. CASE t = o /\ pc[r] # "close"
  <2>1. Same(Committed, list[o])
    BY <1>3 DEF TableKnown, TableInv, OfflineList, Writing
  <2>2. Same(Committed', list[o])
    BY <1>3 DEF TableKnown
  <2> QED
    BY <1>1, <2>1, <2>2, StaysIfSame
<1>4. CASE t = r /\ pc[o] = "close"
  <2>1. u = o
    BY <1>4, OneThread
  <2> QED
    BY <1>1, <1>4, <2>1, StaysIfSame DEF TableKnown, Left
<1>5. CASE t = r /\ pc[o] # "close"
  <2>1. u = o
    BY <1>5, OneThread
  <2>2. Committed = data1 /\ Same(Committed', list[r]) /\ Lacks(list[r], data1)
    BY <1>5, <2>1 DEF TableKnown, TableInv, RouterList, Left
  <2>3. CASE Same(list[r], data1)
    <3>1. Same(Committed, list[r])
      BY <1>1, <2>2, <2>3, SameFacts
    <3> QED
      BY <1>1, <2>2, <3>1, StaysIfSame
  <2>4. ASSUME NEW l \in Addressed, Same(Append(list[r], l), data1) PROVE Table!Forget
    <3>1. /\ Len(data1) = Len(list[r]) + 1 /\ Len(list[r]) > 0
          /\ \A i \in 1..Len(list[r]) : data1[i].mac = list[r][i].mac
      <4>1. list[r] # <<>>
        BY <1>5 DEF TableInv, InHand, Writing
      <4> QED
        BY <1>1, <2>4, <4>1 DEF Same
    <3>2. Macs(Committed') = Macs(list[r])
      BY <1>1, <2>2, SameMacs DEF TableKnown
    <3>3. Macs(list[r]) = SubSeq(Macs(data1), 1, Len(Macs(data1)) - 1)
      BY <1>1, <3>1 DEF Macs
    <3>4. Len(Macs(data1)) > 1
      BY <1>1, <3>1, MacsFacts
    <3> QED
      BY <2>2, <3>2, <3>3, <3>4 DEF Table!Forget
  <2> QED
    BY <2>2, <2>3, <2>4 DEF Lacks, Table!Change
<1> QED
  BY <1>2, <1>3, <1>4, <1>5, OneThread

\* The file is closed: the table was that already.
LEMMA CloseStays ==
  ASSUME TypeOK, TableInv, TableKnown, TableKnown', NEW t \in Threads, NEW u \in Threads,
         t # u, data1' = Closing(t), pc[t] = "close", pc'[t] = "next", Left(u)
  PROVE  TableStays
<1>1. list[o] \in Seq(Entries) /\ list[r] \in Seq(Entries)
  BY Values
<1>2. CASE pc[u] = "close"
  <2>1. Same(list[r], list[o])
    BY <1>2, OneThread DEF TableInv, OfflineList, Writing
  <2>2. Same(Committed, list[o]) /\ Same(Committed', list[u])
    BY <1>2, OneThread DEF TableKnown, Left, Threads, o, r
  <2>3. Same(Committed', list[o])
    BY <2>1, <2>2, OneThread, SameTransitive
  <2> QED
    BY <1>1, <2>2, <2>3, StaysIfSame
<1>3. CASE pc[u] # "close"
  BY <1>3 DEF TableStays, Committed, Closing, Left, Threads, o, r
<1> QED
  BY <1>2, <1>3

\* A power cut leaves the table, or ruins it.
LEMMA PowerCutIsRuin ==
  ASSUME TypeOK, TableInv, TableKnown, TableKnown', data1' = data1,
         pc'[o] \in Free, pc'[r] \in Free, ~torn, ~torn'
  PROVE  Table!Change \/ TableStays
<1>1. data1 \in Seq(Entries) /\ list[o] \in Seq(Entries) /\ list[r] \in Seq(Entries)
  BY Values
<1>2. Committed' = data1
  BY DEF TableKnown, Free
<1>3. CASE data1 = <<>>
  <2>1. Macs(Committed') = <<>>
    BY <1>1, <1>2, <1>3, MacsFacts
  <2> QED
    BY <2>1 DEF Table!Change, Table!Ruin
<1>4. ASSUME NEW s \in Seq(Entries), Same(Committed, s), Same(data1, s) PROVE TableStays
  BY <1>2, <1>4, StaysIfSame
<1>5. CASE pc[o] # "close" /\ pc[r] # "close"
  BY <1>2, <1>5 DEF TableKnown, TableStays
<1>6. CASE pc[o] = "close" /\ data1 # <<>>
  BY <1>1, <1>4, <1>6 DEF TableKnown, TableInv, OfflineList, Writing
<1>7. CASE pc[o] # "close" /\ pc[r] = "close" /\ Same(list[r], data1)
  BY <1>1, <1>4, <1>7, SameFacts DEF TableKnown
<1>8. ASSUME pc[o] # "close", pc[r] = "close", NEW l \in Addressed, data1 = <<l>>
      PROVE  Table!Change
  <2>1. Macs(Committed') = <<l.mac>> /\ l.mac \in Modules
    BY <1>2, <1>8 DEF Macs, Addressed
  <2>2. Committed # <<>> /\ Committed \in Seq(Entries)
    <3>1. list[r] # <<>> /\ Same(Committed, list[r]) /\ Committed \in Seq(Entries)
      BY <1>8 DEF TableKnown, TableInv, InHand, Writing
    <3> QED
      BY <1>1, <3>1, SameFacts
  <2>3. Macs(Committed) # <<>>
    BY <2>2, MacsFacts
  <2> QED
    BY <2>1, <2>3 DEF Table!Change, Table!Ruin
<1> QED
  BY <1>3, <1>5, <1>6, <1>7, <1>8 DEF TableInv, RouterList

\* Every step is one of the table, or none.
LEMMA TableNext ==
  ASSUME IInv, TableKnown, TableKnown', [Next]_vars, ~torn, ~torn'
  PROVE  Table!Change \/ TableStays
<1>0. TypeOK /\ TableInv
  BY DEF IInv, TypeInv
<1> USE DEF file
<1>1. CASE UNCHANGED vars
  BY <1>1 DEF vars, local, TableStays, Committed, Closing
\* The steps that leave the file, and do not open it.
<1>2. ASSUME NEW t \in Threads, data1' = data1, pc[t] # "close",
             NEW place, place # "close", pc' = [pc EXCEPT ![t] = place],
             \A u \in Threads \ {t} : line'[u] = line[u] /\ list'[u] = list[u]
      PROVE  TableStays
  <2>1. PICK u \in Threads : t # u
    BY DEF Threads
  <2>2. Left(u) /\ pc'[t] = place
    BY <1>0, <1>2, <2>1 DEF TypeOK, Left
  <2> QED
    BY <1>2, <2>1, <2>2, OtherStays
<1>3. CASE Configure
  <2>1. /\ pc["offline"] = "idle" /\ pc' = [pc EXCEPT !["offline"] = "next"]
        /\ data1' = data1 /\ line' = line /\ list' = list
    BY <1>3 DEF Configure, Goto
  <2> QED
    BY <1>2, <2>1 DEF Threads
<1>4. CASE Forward
  <2>1. /\ pc["router"] = "due" /\ pc' = [pc EXCEPT !["router"] = "next"]
        /\ data1' = data1 /\ line' = line /\ list' = list
    BY <1>4 DEF Forward, Goto
  <2> QED
    BY <1>2, <2>1 DEF Threads
<1>5. CASE Outage
  <2>1. /\ pc["router"] = "idle" /\ pc' = [pc EXCEPT !["router"] = "due"]
        /\ data1' = data1 /\ line' = line /\ list' = list
    BY <1>5 DEF Outage, Goto, local
  <2> QED
    BY <1>2, <2>1 DEF Threads
<1>6. CASE PowerCut
  <2>1. data1' = data1 /\ pc'[o] \in Free /\ pc'[r] \in Free
    BY <1>6 DEF PowerCut, Free, Threads, o, r
  <2> QED
    BY <1>0, <2>1, PowerCutIsRuin
<1> SUFFICES ASSUME NEW t \in Threads, Step(t)
             PROVE  Table!Change \/ TableStays
  BY <1>1, <1>3, <1>4, <1>5, <1>6 DEF Next
<1>7. PICK u \in Threads : t # u
  BY DEF Threads
<1>8. ASSUME Fail(t), data1' = data1, pc[t] # "close" PROVE TableStays
  <2>1. \A v \in Threads \ {t} : line'[v] = line[v] /\ list'[v] = list[v]
    BY <1>0, <1>8 DEF Fail, Forgotten, TypeOK
  <2> QED
    BY <1>2, <1>8, <2>1 DEF Fail, Goto
<1>9. ASSUME Continue(t), data1' = data1, pc[t] # "close" PROVE TableStays
  <2>1. \A v \in Threads \ {t} : line'[v] = line[v] /\ list'[v] = list[v]
    BY <1>0, <1>9 DEF Continue, TypeOK
  <2> QED
    BY <1>2, <1>9, <2>1 DEF Continue, Goto
<1>10. CASE Read(t)
  <2>1. CASE data1 = <<>>
    BY <1>9, <1>10, <2>1 DEF Read
  <2>2. CASE data1 # <<>>
    <3>1. /\ pc[t] = "read" /\ data1' = data1 /\ line' = line
          /\ list' = [list EXCEPT ![t] = data1]
          /\ pc' = [pc EXCEPT ![t] = IF Has(data1, line[t].mac) THEN "rewrite"
                                                                ELSE "append"]
      BY <1>10, <2>2 DEF Read, Goto
    <3>2. \A v \in Threads \ {t} : line'[v] = line[v] /\ list'[v] = list[v]
      BY <1>0, <3>1 DEF TypeOK
    <3> QED
      BY <1>2, <3>1, <3>2
  <2> QED
    BY <2>1, <2>2
<1>11. CASE Truncate(t)
  <2>1. /\ data1' = <<>> /\ line' = line /\ list' = list /\ pc[t] = "rewrite"
        /\ pc' = [pc EXCEPT ![t] = "close"]
    BY <1>11 DEF Truncate, Goto, local
  <2>2. pc'[t] = "close" /\ Left(u) /\ list'[t] = list[t]
    BY <1>0, <1>7, <2>1 DEF TypeOK, Left
  <2> QED
    BY <1>0, <1>7, <2>1, <2>2, TruncateIsForget
<1>12. CASE Close(t)
  <2>1. /\ data1' = Closing(t) /\ pc[t] = "close" /\ pc' = [pc EXCEPT ![t] = "next"]
        /\ line' = [line EXCEPT ![t] = Dummy] /\ list' = [list EXCEPT ![t] = <<>>]
    BY <1>12, CloseFacts DEF IInv, Close, Continue, Goto
  <2>2. pc'[t] = "next" /\ Left(u)
    BY <1>0, <1>7, <2>1 DEF TypeOK, Left
  <2> QED
    BY <1>0, <1>7, <2>1, <2>2, CloseStays
<1>13. CASE AppendLine(t)
  <2>1. /\ data1' = Append(data1, line[t]) /\ pc[t] = "append"
        /\ pc' = [pc EXCEPT ![t] = "next"]
        /\ line' = [line EXCEPT ![t] = Dummy] /\ list' = [list EXCEPT ![t] = <<>>]
    BY <1>13 DEF AppendLine, Continue, Goto
  <2>2. t = o /\ u = r
    BY <1>0, <1>7, <2>1, OneThread DEF TableInv
  <2>3. pc'[o] = "next" /\ Left(r)
    BY <1>0, <1>7, <2>1, <2>2 DEF TypeOK, Left
  <2> QED
    BY <1>0, <2>1, <2>2, <2>3, AppendIsAdd
<1>14. CASE Take(t)
  <2>1. CASE t = "router" /\ at[t] >= Len(data1)
    BY <1>8, <1>14, <2>1 DEF Take
  <2>2. CASE ~(t = "router" /\ at[t] >= Len(data1))
    <3>1. /\ data1' = data1 /\ list' = list /\ pc[t] = "next"
          /\ pc' = [pc EXCEPT ![t] = "scan"]
          /\ line' = [line EXCEPT ![t] = IF t = "router" THEN data1[at[t] + 1]
                                                        ELSE message[at[t] + 1]]
      BY <1>14, <2>2 DEF Take, Goto
    <3>2. \A v \in Threads \ {t} : line'[v] = line[v] /\ list'[v] = list[v]
      BY <1>0, <3>1 DEF TypeOK
    <3> QED
      BY <1>2, <3>1, <3>2
  <2> QED
    BY <2>1, <2>2
<1>15. CASE Scan(t)
  <2>1. CASE Continue(t)
    BY <1>9, <1>15, <2>1 DEF Scan
  <2>2. CASE Goto(t, "read") /\ UNCHANGED <<at, line, list>>
    BY <1>2, <1>15, <2>2 DEF Scan, Goto
  <2>3. CASE Fail(t)
    BY <1>8, <1>15, <2>3 DEF Scan
  <2> QED
    BY <1>15, <2>1, <2>2, <2>3 DEF Scan
<1>16. CASE BeginTell(t)
  BY <1>2, <1>16 DEF BeginTell, Goto
<1>17. CASE Tell(t)
  <2>1. CASE Fail(t)
    BY <1>8, <1>17, <2>1 DEF Tell
  <2>2. CASE ~Fail(t)
    <3>1. /\ data1' = data1 /\ pc' = pc /\ line' = line /\ list' = list
      BY <1>17, <2>2 DEF Tell
    <3> QED
      BY <3>1 DEF TableStays, Committed, Closing
  <2> QED
    BY <2>1, <2>2
<1>18. CASE EndTell(t)
  <2>1. \A v \in Threads \ {t} : line'[v] = line[v] /\ list'[v] = list[v]
    BY <1>0, <1>18 DEF EndTell, Forgotten, TypeOK
  <2> QED
    BY <1>2, <1>18, <2>1 DEF EndTell, Goto
<1> QED
  BY <1>10, <1>11, <1>12, <1>13, <1>14, <1>15, <1>16, <1>17, <1>18 DEF Step

\* A file that is not torn is no torn table.
LEMMA NotTorn ==
  ASSUME IInv, ~torn
  PROVE  Macs(Committed) # Torn
<1>1. TypeOK /\ Clean
  BY DEF IInv, TypeInv
<1>2. ASSUME NEW l \in Entries, Whole(l) PROVE l.mac # "scrap"
  BY <1>2, RegistryAssumption DEF Entries, Header, Dummy, Scrap, Whole
<1>3. ASSUME NEW s \in Seq(Entries), \A i \in 1..Len(s) : Whole(s[i])
      PROVE  Macs(s) # Torn
  <2> SUFFICES ASSUME Macs(s) = Torn PROVE FALSE
    OBVIOUS
  <2>1. Len(s) = 1 /\ s[1].mac = "scrap"
    <3>1. Len(Torn) = 1 /\ Torn[1] = "scrap"
      BY DEF Torn
    <3>2. Len(s) = 1 /\ Macs(s)[1] = "scrap"
      BY <3>1, MacsFacts
    <3> QED
      BY <3>2 DEF Macs
  <2>2. s[1] \in Entries /\ Whole(s[1])
    <3>1. 1 \in 1..Len(s)
      BY <2>1
    <3> QED
      BY <1>3, <3>1, ElementOfSeq
  <2> QED
    BY <1>2, <2>1, <2>2
<1>4. ASSUME NEW t \in Threads PROVE Macs(Closing(t)) # Torn
  <2>1. list[t] \in Seq(Entries) /\ line[t] \in Entries
    BY <1>1 DEF TypeOK
  <2>2. Closing(t) \in Seq(Entries) /\ Len(Closing(t)) = Len(list[t])
    BY <2>1, ReplacedFacts DEF Closing
  <2>3. \A i \in 1..Len(list[t]) : Closing(t)[i] = line[t] \/ Closing(t)[i] = list[t][i]
    BY <2>1 DEF Closing, Replaced
  <2>4. \A i \in 1..Len(Closing(t)) : Whole(Closing(t)[i])
    BY <1>1, <2>2, <2>3 DEF Clean
  <2> QED
    BY <1>3, <2>2, <2>4
<1>5. Macs(data1) # Torn
  BY <1>1, <1>3 DEF TypeOK, Clean
<1> QED
  BY <1>4, <1>5 DEF Committed, Threads

\* data1.txt, opened and closed by two threads without a lock and cut off by
\* power cuts, is a table that grows at its end, forgets at most its last line
\* at a time, and is ruined only as DeviceTable says, until the end of one text
\* sticks out behind another (new.py 42-69, 212-276).
THEOREM ImplementsTable == Spec => TableSpec
<1> DEFINE table == IF torn THEN Torn ELSE Macs(Committed)
<1>1. Init => Table!Init
  BY DEF Init, Table!Init, Committed, Threads
<1>2. IInv /\ IInv' /\ [Next]_vars => [Table!Next]_table
  <2>1. IInv => TableKnown
    BY TableIs
  <2>2. IInv' => TableKnown'
    BY <2>1, PTL
  <2>3. ASSUME IInv, IInv', [Next]_vars, ~torn, ~torn' PROVE Table!Next \/ UNCHANGED table
    <3>1. Table!Change \/ TableStays
      BY <2>1, <2>2, <2>3, TableNext
    <3>2. TableStays => UNCHANGED table
      BY <2>3 DEF TableStays, Macs
    <3>3. Table!Change => Table!Next
      BY <2>3, NotTorn DEF Table!Next
    <3> QED
      BY <3>1, <3>2, <3>3
  <2>4. ASSUME IInv, ~torn, torn' PROVE Table!Next
    BY <2>4, NotTorn DEF Table!Next, Table!Change, Table!Tear
  <2>5. ASSUME IInv, [Next]_vars, torn PROVE UNCHANGED table
    BY <2>5, TornStays DEF IInv, TypeInv, Torn
  <2> QED
    BY <2>3, <2>4, <2>5
<1> QED
  BY <1>1, <1>2, InvHolds, PTL DEF Spec, TableSpec, Table!Spec
----------------------------------------------------------------------------
(* The passes end *)

\* How far thread t is from rest: what its pass does yet, for how many lines,
\* and what for the line it is at.
Phase(t) == CASE pc[t] = "due"  -> 3
              [] pc[t] = "tell" -> 1
              [] pc[t] = "idle" -> 0
              [] OTHER          -> 2
ToGo(t)  == IF at[t] < limit[t] THEN limit[t] - at[t] ELSE 0
Stage(t) == CASE pc[t] = "next"    -> 5
              [] pc[t] = "scan"    -> 4
              [] pc[t] = "read"    -> 3
              [] pc[t] = "rewrite" -> 2
              [] OTHER             -> 1

\* It comes nearer, or stays where it is.
Nearer(t) == \/ Phase(t)' < Phase(t)
             \/ Phase(t)' = Phase(t) /\ ToGo(t)' < ToGo(t)
             \/ Phase(t)' = Phase(t) /\ ToGo(t)' = ToGo(t) /\ Stage(t)' < Stage(t)
Stands(t) == UNCHANGED <<Phase(t), ToGo(t), Stage(t)>>

\* The file router will find, or is about to write, has fewer lines than it
\* counted: Data_Forward may fail for want of a line, and start over.
Exposed == limit[r] > (IF pc[r] \in {"rewrite", "close"} THEN Len(list[r])
                                                         ELSE Len(data1))

\* The offline thread comes nearer to rest; or it stands, and the file becomes
\* long enough for router; or that stays, and router comes nearer to rest.
ComesToRest ==
    \/ Nearer(o)
    \/ /\ Stands(o)
       /\ \/ Exposed /\ ~Exposed'
          \/ (Exposed' => Exposed) /\ Nearer(r)

RunOut == [][~Disturbance /\ ~torn => ComesToRest]_vars

\* A thread at a module has not come to its limit.
AtModule == {"scan", "read", "rewrite", "close", "append"}
InRange == \A t \in Threads : pc[t] \in AtModule => at[t] < limit[t]

LEMMA RangeInit == Init => InRange
BY DEF Init, InRange, AtModule

\* The places a step leads to, and what it leaves of the others.
LEMMA StepApart ==
  ASSUME TypeOK, NEW t \in Threads, Step(t), NEW u \in Threads, u # t
  PROVE  pc'[u] = pc[u] /\ at'[u] = at[u] /\ limit'[u] = limit[u] /\ list'[u] = list[u]
<1> USE DEF TypeOK, Goto, Continue, Fail, Forgotten
<1>1. CASE Read(t)
  BY <1>1 DEF Read
<1>2. CASE Truncate(t)
  BY <1>2 DEF Truncate, local
<1>3. CASE Close(t)
  BY <1>3 DEF Close
<1>4. CASE AppendLine(t)
  BY <1>4 DEF AppendLine
<1>5. CASE Take(t)
  BY <1>5 DEF Take
<1>6. CASE Scan(t)
  BY <1>6 DEF Scan
<1>7. CASE BeginTell(t)
  BY <1>7 DEF BeginTell
<1>8. CASE Tell(t)
  BY <1>8 DEF Tell
<1>9. CASE EndTell(t)
  BY <1>9 DEF EndTell
<1> QED
  BY <1>1, <1>2, <1>3, <1>4, <1>5, <1>6, <1>7, <1>8, <1>9 DEF Step

LEMMA StandsIf ==
  ASSUME NEW t, pc'[t] = pc[t], at'[t] = at[t], limit'[t] = limit[t]
  PROVE  Stands(t)
BY DEF Stands, Phase, ToGo, Stage

\* With a module behind it the thread has one less to go.
LEMMA ContinueNearer ==
  ASSUME TypeOK, NEW t \in Threads, pc[t] \in AtModule, at[t] < limit[t],
         Continue(t), limit' = limit
  PROVE  Nearer(t) /\ pc'[t] = "next"
<1>1. /\ pc'[t] = "next" /\ at'[t] = at[t] + 1 /\ limit'[t] = limit[t]
      /\ at[t] \in Nat /\ limit[t] \in Nat
  BY DEF TypeOK, Continue, Goto
<1>2. Phase(t) = 2 /\ Phase(t)' = 2
  BY <1>1 DEF Phase, AtModule
<1>3. ToGo(t)' < ToGo(t)
  BY <1>1 DEF ToGo
<1> QED
  BY <1>1, <1>2, <1>3 DEF Nearer

\* A step at a module is one stage.
LEMMA StageNearer ==
  ASSUME TypeOK, NEW t \in Threads, pc[t] \in AtModule \cup {"next"},
         pc'[t] \in AtModule, at'[t] = at[t], limit'[t] = limit[t],
         Stage(t)' < Stage(t)
  PROVE  Nearer(t)
<1>1. Phase(t) = 2 /\ Phase(t)' = 2
  BY DEF Phase, AtModule
<1>2. ToGo(t)' = ToGo(t)
  BY DEF ToGo
<1> QED
  BY <1>1, <1>2 DEF Nearer

\* Each step of a thread brings it nearer to rest, but for the failure that
\* makes Data_Forward start over. (The one for an empty address is left out.)
LEMMA StepNearer ==
  ASSUME TypeInv, InRange, NEW t \in Threads, Step(t), ~NoNetwork(t),
         line[t] = Scrap => ~Fail(t)
  PROVE  \/ Nearer(t) /\ (pc'[t] \in AtModule => at'[t] < limit'[t])
         \/ t = r /\ Fail(t) /\ Exposed
<1>0. /\ TypeOK /\ at[t] \in Nat /\ limit[t] \in Nat /\ Len(data1) \in Nat
      /\ pc[t] \in AtModule => at[t] < limit[t]
      /\ DOMAIN pc = Threads /\ DOMAIN at = Threads /\ DOMAIN limit = Threads
  BY DEF TypeInv, TypeOK, InRange
<1>1. CASE Read(t)
  <2>1. CASE data1 = <<>>
    <3>1. pc[t] \in AtModule /\ Continue(t) /\ limit' = limit
      BY <1>1, <2>1 DEF Read, AtModule
    <3> QED
      BY <1>0, <3>1, ContinueNearer DEF AtModule
  <2>2. CASE data1 # <<>>
    <3>1. /\ pc[t] = "read" /\ pc'[t] \in {"rewrite", "append"}
          /\ at' = at /\ limit' = limit
      BY <1>0, <1>1, <2>2 DEF Read, Goto
    <3>2. Stage(t)' < Stage(t)
      BY <3>1 DEF Stage
    <3> QED
      BY <1>0, <3>1, <3>2, StageNearer DEF AtModule
  <2> QED
    BY <2>1, <2>2
<1>2. CASE Truncate(t)
  <2>1. pc[t] = "rewrite" /\ pc'[t] = "close" /\ at' = at /\ limit' = limit
    BY <1>0, <1>2 DEF Truncate, Goto, local
  <2>2. Stage(t)' < Stage(t)
    BY <2>1 DEF Stage
  <2> QED
    BY <1>0, <2>1, <2>2, StageNearer DEF AtModule
<1>3. CASE Close(t) \/ AppendLine(t)
  <2>1. pc[t] \in AtModule /\ Continue(t) /\ limit' = limit
    BY <1>3 DEF Close, AppendLine, AtModule
  <2> QED
    BY <1>0, <2>1, ContinueNearer DEF AtModule
<1>4. CASE Take(t)
  <2>1. CASE t = "router" /\ at[t] >= Len(data1)
    <3>1. Fail(t) /\ pc[t] = "next" /\ at[t] < limit[t]
      BY <1>4, <2>1 DEF Take
    <3>2. Exposed
      BY <1>0, <2>1, <3>1 DEF Exposed, r
    <3> QED
      BY <2>1, <3>1, <3>2 DEF r
  <2>2. CASE ~(t = "router" /\ at[t] >= Len(data1))
    <3>1. /\ pc[t] = "next" /\ pc'[t] = "scan" /\ at' = at /\ limit' = limit
          /\ at[t] < limit[t]
      BY <1>0, <1>4, <2>2 DEF Take, Goto
    <3>2. Stage(t)' < Stage(t)
      BY <3>1 DEF Stage
    <3> QED
      BY <1>0, <3>1, <3>2, StageNearer DEF AtModule
  <2> QED
    BY <2>1, <2>2
<1>5. CASE Scan(t)
  <2>1. CASE Continue(t)
    <3>1. pc[t] \in AtModule /\ limit' = limit
      BY <1>5 DEF Scan, AtModule
    <3> QED
      BY <1>0, <2>1, <3>1, ContinueNearer DEF AtModule
  <2>2. CASE ~Continue(t)
    <3>1. pc[t] = "scan" /\ pc'[t] = "read" /\ at' = at /\ limit' = limit
      BY <1>0, <1>5, <2>2 DEF Scan, Goto
    <3>2. Stage(t)' < Stage(t)
      BY <3>1 DEF Stage
    <3> QED
      BY <1>0, <3>1, <3>2, StageNearer DEF AtModule
  <2> QED
    BY <2>1, <2>2
<1>6. CASE BeginTell(t)
  <2>1. pc[t] = "next" /\ pc'[t] = "tell"
    BY <1>0, <1>6 DEF BeginTell, Goto
  <2> QED
    BY <2>1 DEF Nearer, Phase, AtModule
<1>7. CASE Tell(t)
  <2>1. CASE Fail(t)
    <3>1. pc[t] = "tell" /\ at[t] < limit[t] /\ at[t] >= Len(data1)
      BY <1>0, <1>7, <2>1 DEF Tell, NoNetwork
    <3>2. CASE t = "router"
      <4>1. Exposed
        BY <1>0, <3>1, <3>2 DEF Exposed, r
      <4> QED
        BY <2>1, <3>2, <4>1 DEF r
    <3>3. CASE t # "router"
      <4>1. pc'[t] = "idle"
        BY <1>0, <2>1, <3>3 DEF Fail, Goto
      <4> QED
        BY <3>1, <4>1 DEF Nearer, Phase, AtModule
    <3> QED
      BY <3>2, <3>3
  <2>2. CASE ~Fail(t)
    <3>1. /\ pc[t] = "tell" /\ pc' = pc /\ limit' = limit /\ at'[t] = at[t] + 1
          /\ at[t] < limit[t]
      BY <1>0, <1>7, <2>2 DEF Tell
    <3>2. ToGo(t)' < ToGo(t) /\ Phase(t)' = Phase(t)
      BY <1>0, <3>1 DEF ToGo, Phase
    <3> QED
      BY <3>1, <3>2 DEF Nearer, AtModule
  <2> QED
    BY <2>1, <2>2
<1>8. CASE EndTell(t)
  <2>1. pc[t] = "tell" /\ pc'[t] = "idle"
    BY <1>0, <1>8 DEF EndTell, Goto
  <2> QED
    BY <2>1 DEF Nearer, Phase, AtModule
<1> QED
  BY <1>1, <1>2, <1>3, <1>4, <1>5, <1>6, <1>7, <1>8 DEF Step

\* A step keeps to the range.
LEMMA RangeStep ==
  ASSUME TypeInv, InRange, [Next]_vars
  PROVE  InRange'
<1>0. TypeOK
  BY DEF TypeInv
<1>1. ASSUME NEW t \in Threads, Step(t) PROVE InRange'
  <2>1. pc'[t] \in AtModule => at'[t] < limit'[t]
    <3>1. CASE Fail(t)
      <4>1. pc'[t] \in {"due", "idle"}
        BY <1>0, <3>1 DEF Fail, Goto, TypeOK
      <4> QED
        BY <4>1 DEF AtModule
    <3>2. CASE ~Fail(t)
      BY <1>1, <3>2, StepNearer DEF NoNetwork
    <3> QED
      BY <3>1, <3>2
  <2> QED
    BY <1>0, <1>1, <2>1, StepApart DEF InRange
<1>2. CASE Configure
  BY <1>0, <1>2 DEF Configure, Goto, InRange, AtModule, TypeOK
<1>3. CASE Forward
  BY <1>0, <1>3 DEF Forward, Goto, InRange, AtModule, TypeOK
<1>4. CASE Outage
  BY <1>0, <1>4 DEF Outage, Goto, local, InRange, AtModule, TypeOK
<1>5. CASE PowerCut
  BY <1>5 DEF PowerCut, InRange, AtModule
<1>6. CASE UNCHANGED vars
  BY <1>6 DEF vars, local, InRange
<1> QED
  BY <1>1, <1>2, <1>3, <1>4, <1>5, <1>6 DEF Next

\* Router itself does not make the file shorter than it counted.
LEMMA RouterStaysShort ==
  ASSUME TypeInv, Step(r)
  PROVE  /\ Exposed' => Exposed
         /\ Fail(r) => ~Exposed'
<1> USE DEF file
<1>0. /\ r \in Threads /\ TypeOK /\ data1 \in Seq(Entries) /\ list[r] \in Seq(Entries)
      /\ line[r] \in Entries /\ limit[r] \in Nat /\ at[r] \in Nat
      /\ Len(data1) \in Nat /\ Len(list[r]) \in Nat
      /\ DOMAIN pc = Threads /\ DOMAIN at = Threads /\ DOMAIN limit = Threads
      /\ DOMAIN list = Threads
  BY DEF TypeInv, TypeOK, Threads, r
<1>1. CASE Fail(r) /\ UNCHANGED data1
  <2>1. pc'[r] = "due" /\ limit'[r] = 0
    BY <1>0, <1>1 DEF Fail, Goto, Forgotten, r
  <2> QED
    BY <1>0, <1>1, <2>1 DEF Exposed
<1>2. CASE Read(r)
  <2>1. /\ pc[r] = "read" /\ limit' = limit /\ data1' = data1
        /\ pc'[r] \in {"rewrite", "append"} => list'[r] = data1
        /\ pc'[r] \in {"next", "rewrite", "append"}
    BY <1>0, <1>2 DEF Read, Continue, Goto
  <2> QED
    BY <1>0, <1>2, <2>1 DEF Exposed, Read, Fail, Goto, r
<1>3. CASE Truncate(r)
  <2>1. /\ pc[r] = "rewrite" /\ pc'[r] = "close" /\ limit' = limit /\ list' = list
    BY <1>0, <1>3 DEF Truncate, Goto, local
  <2> QED
    BY <1>0, <2>1 DEF Exposed, Fail, Goto, r
<1>4. CASE Close(r)
  <2>1. Len(data1') >= Len(list[r]) /\ Len(data1') \in Nat
    <3>1. data1' \in Seq(Entries)
      BY <1>0, <1>4, CloseFacts
    <3> QED
      BY <1>0, <1>4, <3>1, CloseFacts, LenProperties
  <2>2. pc[r] = "close" /\ pc'[r] = "next" /\ limit' = limit
    BY <1>0, <1>4 DEF Close, Continue, Goto
  <2> QED
    BY <1>0, <2>1, <2>2 DEF Exposed, Fail, Goto, r
<1>5. CASE AppendLine(r)
  <2>1. /\ pc[r] = "append" /\ pc'[r] = "next" /\ limit' = limit
        /\ Len(data1') = Len(data1) + 1
    BY <1>0, <1>5 DEF AppendLine, Continue, Goto
  <2> QED
    BY <1>0, <2>1 DEF Exposed, Fail, Goto, r
<1>6. CASE (Take(r) \/ Scan(r) \/ Tell(r)) /\ ~Fail(r)
  <2>1. /\ pc[r] \in {"next", "scan", "tell"} /\ limit' = limit /\ data1' = data1
        /\ pc'[r] \in {"next", "scan", "read", "tell"}
    BY <1>0, <1>6 DEF Take, Scan, Tell, Continue, Goto
  <2> QED
    BY <1>6, <2>1 DEF Exposed
<1>7. CASE BeginTell(r)
  <2>1. pc'[r] = "tell" /\ limit'[r] = Len(data1) /\ data1' = data1
    BY <1>0, <1>7 DEF BeginTell, Goto, TellEnd, r
  <2> QED
    BY <1>0, <2>1 DEF Exposed
<1>8. CASE EndTell(r)
  <2>1. pc'[r] = "idle" /\ limit'[r] = 0 /\ data1' = data1
    BY <1>0, <1>8 DEF EndTell, Goto, Forgotten
  <2> QED
    BY <1>0, <2>1 DEF Exposed
<1>9. Take(r) \/ Scan(r) \/ Tell(r) => UNCHANGED data1
  BY DEF Take, Scan, Tell
<1> QED
  BY <1>1, <1>2, <1>3, <1>4, <1>5, <1>6, <1>7, <1>8, <1>9 DEF Step

\* While phones, the power and the network leave the threads alone, every step
\* brings the offline thread nearer to the end of its pass; or leaves it where
\* it is and ends the one condition under which Data_Forward starts over, a
\* file shorter than it was counted; or leaves both and brings router nearer to
\* its end. Each of the three goes down at most so often, so that no pass goes
\* on, or starts over, for ever (new.py 113-144, 215-281), unless the file is
\* torn.
THEOREM PassesRunOut == Spec => RunOut
<1>1. ASSUME TypeInv, InRange, Clean, Next, ~Disturbance PROVE ComesToRest
  <2> USE DEF file
  <2>0. o \in Threads /\ r \in Threads /\ o # r /\ TypeOK
    BY <1>1 DEF Threads, o, r, TypeInv
  <2>1. CASE Forward
    <3>1. /\ pc[r] = "due" /\ pc'[r] = "next" /\ limit'[r] = Len(data1)
          /\ data1' = data1 /\ pc'[o] = pc[o] /\ at'[o] = at[o] /\ limit'[o] = limit[o]
      BY <2>0, <2>1 DEF Forward, Goto, TypeOK, o, r
    <3>2. Stands(o)
      BY <3>1, StandsIf
    <3>3. Nearer(r)
      BY <3>1 DEF Nearer, Phase
    <3>4. ~Exposed'
      <4>1. Len(data1) \in Nat
        BY <2>0 DEF TypeOK
      <4> QED
        BY <3>1, <4>1 DEF Exposed
    <3> QED
      BY <3>2, <3>3, <3>4 DEF ComesToRest
  <2>2. CASE Step(o)
    <3>1. ~NoNetwork(o)
      BY <1>1, <2>0 DEF Disturbance
    <3> QED
      BY <1>1, <2>0, <2>2, <3>1, StepNearer DEF ComesToRest, Clean, Whole
  <2>3. CASE Step(r)
    <3>1. Stands(o)
      BY <2>0, <2>3, StepApart, StandsIf
    <3>2. Nearer(r) \/ (Fail(r) /\ Exposed)
      <4>1. ~NoNetwork(r)
        BY <1>1, <2>0 DEF Disturbance
      <4> QED
        BY <1>1, <2>0, <2>3, <4>1, StepNearer DEF Clean, Whole
    <3>3. (Exposed' => Exposed) /\ (Fail(r) => ~Exposed')
      BY <1>1, <2>3, RouterStaysShort
    <3> QED
      BY <3>1, <3>2, <3>3 DEF ComesToRest
  <2> QED
    BY <1>1, <2>1, <2>2, <2>3, OneThread DEF Next, Disturbance
<1>2. TypeInv /\ (~torn => Clean) /\ InRange /\ [Next]_vars =>
        [~Disturbance /\ ~torn => ComesToRest]_vars
  BY <1>1
<1>3. Spec => []InRange
  <2>1. IInv => TypeInv
    BY DEF IInv
  <2>2. TypeInv /\ InRange /\ [Next]_vars => InRange'
    BY RangeStep
  <2> QED
    BY RangeInit, InvHolds, <2>1, <2>2, PTL DEF Spec
<1>4. IInv => TypeInv /\ (~torn => Clean)
  BY DEF IInv
<1> QED
  BY InvHolds, <1>2, <1>3, <1>4, PTL DEF Spec, RunOut

============================================================================
