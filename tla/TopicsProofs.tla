---------------------------- MODULE TopicsProofs ----------------------------
(***************************************************************************)
(* For every set of modules and names, every number of switches and every  *)
(* length of the file: the types, what the offline thread hears, and, as   *)
(* long as one thread has not written into the text of another, that the   *)
(* lines of a module stay one block, that the file keeps the modules it    *)
(* had when no thread was at it, and that one which had the file for       *)
(* itself has listed the modules it told.                                  *)
(***************************************************************************)
EXTENDS Topics, SequenceTheorems, TLAPS

\* A thread is at a module.
Current(t) == pc[t] \in {"read", "seek", "close"}

\* A count is complete only until the file is closed.
Counts == \A t \in Threads : /\ pc[t] # "close" => counter[t] < Outlets
                             /\ Current(t) => module[t] \in Entries

TypeInv == TypeOK /\ Counts

\* The lines stay in blocks.
Whole(s) == \A i \in DOMAIN s : InBlock(s, i)

\* Thread t has read a whole text with all modules. It has not met its module
\* in it, or has just renamed the switch that its counter gives.
Turn(t) ==
    IF pc[t] \in {"seek", "close"}
      THEN /\ list[t] # <<>> /\ Whole(list[t]) /\ settled \subseteq Known(list[t])
           /\ IF counter[t] = 0
                THEN pc[t] = "seek" /\ num[t] = 1
                ELSE /\ num[t] - 1 \in DOMAIN list[t]
                     /\ list[t][num[t] - 1] = Switch(module[t], counter[t])
           /\ \A no \in 1..counter[t] : \E i \in DOMAIN list[t] :
                 i < num[t] /\ list[t][i] = Switch(module[t], no)
      ELSE counter[t] = 0 /\ num[t] = 1

\* Until one thread has written into the text of another, the file has whole
\* texts, and has all modules unless it is emptied.
Kept  == topics # <<>> \/ ~Open => settled \subseteq Known(topics)
Clean == /\ Whole(topics) /\ \A t \in Threads : Whole(newfo[t]) /\ Whole(held[t])
         /\ \A t \in Threads : Turn(t)
         /\ Kept

\* The text that thread t has or will have written, and a line of it.
Shown(t) == IF pc[t] = "close" THEN list[t] ELSE topics
Holds(s, entry, no) == \E i \in DOMAIN s : s[i] = Switch(entry, no)

\* A thread that has the file for itself: what it has told are lines it has been
\* at, and, until one has written into the text of another, all of them but the
\* one it is at are in the text or appended to it.
Listed(t) == \A entry \in told[t] :
    \/ Current(t) /\ entry = module[t]
    \/ \A no \in 1..Outlets : Holds(Shown(t), entry, no) \/ Holds(newfo[t], entry, no)
Solo(t) ==
    /\ \A u \in Threads \ {t} : pc[u] = "idle"
    /\ Current(t) => at[t] \in DOMAIN table /\ table[at[t]] = module[t]
    /\ \A entry \in told[t] : \E k \in DOMAIN table :
          table[k] = entry /\ (k < at[t] \/ (Current(t) /\ k = at[t]))
    /\ ~torn => /\ pc[t] = "seek" => topics = list[t]
                /\ Shown(t) = <<>> => newfo[t] = <<>>
                /\ Shown(t) # <<>> => Listed(t)

Once == \A i, j \in DOMAIN table : table[i].mac = table[j].mac => i = j
AloneInv ==
    /\ Once
    /\ \A t \in Threads : /\ pc[t] \in {"idle", "return"} => newfo[t] = <<>>
                          /\ alone[t] /\ pc[t] # "idle" => Solo(t)

IInv == TypeInv /\ HearsKnown /\ (~torn => Clean) /\ AloneInv

----------------------------------------------------------------------------
(* Operators *)

\* A switch of a module is a line.
LEMMA SwitchType ==
    ASSUME NEW entry \in Entries, NEW no \in 1..Outlets
    PROVE  /\ Switch(entry, no) \in Switches /\ Switch(entry, no) \in Lines
           /\ Switch(entry, no).mac = entry.mac /\ Switch(entry, no).no = no
BY DEF Switch, Switches, Entries, Lines

\* A block is made of switches.
LEMMA BlockType ==
    ASSUME NEW entry \in Entries
    PROVE  Block(entry) \in Seq(Switches)
BY TopicsAssumption DEF Block, Switch, Switches, Entries

\* What sticks out of lines is lines.
LEMMA EndsType ==
    ASSUME NEW old \in Seq(Lines), NEW sticks \in Ends(old)
    PROVE  sticks \in Seq(Lines)
<1>1. CASE sticks = <<>>
  BY <1>1
<1>2. CASE sticks # <<>>
  <2>1. PICK i \in DOMAIN old : \E piece \in {old[i], Scrap} :
            sticks = <<piece>> \o SubSeq(old, i + 1, Len(old))
    BY <1>2 DEF Ends
  <2> PICK piece \in {old[i], Scrap} : sticks = <<piece>> \o SubSeq(old, i + 1, Len(old))
    BY <2>1
  <2>2. piece \in Lines
    BY DEF Lines
  <2>3. SubSeq(old, i + 1, Len(old)) \in Seq(Lines)
    BY SubSeqProperties
  <2> QED BY <2>2, <2>3
<1> QED BY <1>1, <1>2

\* Appending loses no module.
LEMMA AppendKeeps ==
    ASSUME NEW s \in Seq(Lines), NEW e \in Seq(Lines)
    PROVE  /\ s \o e \in Seq(Lines) /\ Known(s) \subseteq Known(s \o e)
           /\ s \o e = <<>> => s = <<>> /\ e = <<>>
<1>2. \A i \in DOMAIN s : i \in DOMAIN (s \o e) /\ (s \o e)[i] = s[i]
  OBVIOUS
<1>3. Len(s \o e) = Len(s) + Len(e) /\ Len(s) \in Nat /\ Len(e) \in Nat
  OBVIOUS
<1>4. s \o e = <<>> => s = <<>> /\ e = <<>>
  BY <1>3, EmptySeq
<1> QED BY <1>2, <1>4 DEF Known

\* The modules of lines.
LEMMA KnownType ==
    ASSUME NEW s \in Seq(Lines)
    PROVE  Known(s) \subseteq Modules \cup {"header", "scrap"}
<1>1. ASSUME NEW i \in DOMAIN s
      PROVE  s[i].mac \in Modules \cup {"header", "scrap"}
  <2>1. s[i] \in Lines
    OBVIOUS
  <2> QED BY <2>1 DEF Lines, Switches, Header, Scrap
<1> QED BY <1>1 DEF Known

\* The topics of lines are topics, with no line's address missing.
LEMMA TopicType ==
    ASSUME NEW lines \in Seq(Lines)
    PROVE  /\ Statuses(lines) \subseteq Topic /\ Commands(lines) \subseteq Topic
           /\ \A u \in Statuses(lines) : u.status /\ u.mac # "none"
           /\ \A u \in Commands(lines) : ~u.status
<1>1. ASSUME NEW i \in DOMAIN lines, NEW b \in BOOLEAN
      PROVE  Of(lines[i], b) \in Topic /\ Of(lines[i], b).mac # "none"
  <2>1. lines[i] \in Lines
    OBVIOUS
  <2>2. CASE lines[i] \in {Header, Scrap}
    BY <2>2, TopicsAssumption DEF Of, Header, Scrap, Topic
  <2>3. CASE lines[i] \in Switches
    BY <2>3, TopicsAssumption DEF Of, Switches, Topic
  <2> QED BY <2>1, <2>2, <2>3 DEF Lines
<1>2. \A i \in DOMAIN lines, b \in BOOLEAN : Of(lines[i], b).status = b
  BY DEF Of
<1> QED BY <1>1, <1>2 DEF Statuses, Commands

\* A message on /config/ leaves data1.txt a list of modules.
LEMMA NamedType ==
    ASSUME table \in Seq(Entries), NEW entry \in Entries
    PROVE  Named(entry) \in Seq(Entries)
<1> DEFINE g(i) == IF table[i].mac = entry.mac THEN entry ELSE table[i]
<1>1. \A i \in 1..Len(table) : g(i) \in Entries
  OBVIOUS
<1>2. [i \in 1..Len(table) |-> g(i)] \in Seq(Entries)
  BY <1>1, SeqDef
<1> QED BY <1>2, LenProperties, AppendProperties DEF Named

----------------------------------------------------------------------------
(* The types *)

\* The variables a thread has for itself, when it goes on to the next module.
LEMMA ContinueTypes ==
    ASSUME TypeInv, NEW t \in Threads, Continue(t)
    PROVE  /\ pc' \in [Threads -> {"idle", "send", "read", "seek", "close", "return"}]
           /\ at' \in [Threads -> Nat \ {0}] /\ module' \in [Threads -> Entries \cup {Nobody}]
           /\ list' \in [Threads -> Seq(Lines)] /\ num' \in [Threads -> Nat \ {0}]
           /\ pc'[t] = "send" /\ \A u \in Threads \ {t} : pc'[u] = pc[u] /\ module'[u] = module[u]
<1>1. <<>> \in Seq(Lines)
  BY EmptySeq
<1>2. list' \in [Threads -> Seq(Lines)]
  BY <1>1 DEF TypeInv, TypeOK, Continue
<1> QED BY <1>2 DEF TypeInv, TypeOK, Continue, Goto

\* Only what a thread is at is its business.
LEMMA Business ==
    ASSUME TypeInv, NEW t \in Threads,
           pc'[t] # "close" => counter'[t] < Outlets,
           pc'[t] \in {"read", "seek", "close"} => module'[t] \in Entries,
           \A u \in Threads \ {t} : pc'[u] = pc[u] /\ module'[u] = module[u]
                                    /\ counter'[u] = counter[u]
    PROVE  Counts'
BY DEF TypeInv, Counts, Current

LEMMA TellType ==
    ASSUME TypeInv, NEW t \in Threads, Tell(t), Settle
    PROVE  TypeInv'
<1> USE DEF TypeInv, TypeOK, Tell, hub, late, Goto
<1>1. table[at[t]] \in Entries
  OBVIOUS
<1>2. told' \in [Threads -> SUBSET Entries]
  <2>1. (told[t] \cup {table[at[t]]}) \in SUBSET Entries
    BY <1>1
  <2> QED BY <2>1
<1>3. module' \in [Threads -> Entries \cup {Nobody}]
  BY <1>1
<1>4. Counts'
  <2>1. /\ pc[t] = "send" /\ pc'[t] = "read" /\ module'[t] \in Entries /\ counter' = counter
        /\ \A u \in Threads \ {t} : pc'[u] = pc[u] /\ module'[u] = module[u]
    BY <1>1
  <2> HIDE DEF Tell
  <2> QED BY <2>1, Business DEF Counts
<1>5. settled' \subseteq Modules \cup {"header", "scrap"}
  BY KnownType DEF Settle
<1> QED BY <1>2, <1>3, <1>4, <1>5

LEMMA SkipType ==
    ASSUME TypeInv, NEW t \in Threads, Skip(t), Settle
    PROVE  TypeInv'
<1> USE DEF Skip, hub, late, history
<1>3. /\ pc[t] = "send" /\ counter' = counter /\ pc'[t] = "send"
      /\ \A u \in Threads \ {t} : pc'[u] = pc[u] /\ module'[u] = module[u]
  BY ContinueTypes
<1>1. Counts'
  BY <1>3, Business DEF TypeInv, Counts
<1>2. settled' \subseteq Modules \cup {"header", "scrap"}
  BY KnownType DEF Settle, TypeInv, TypeOK
<1> QED BY <1>1, <1>2, ContinueTypes DEF TypeInv, TypeOK

LEMMA ReadType ==
    ASSUME TypeInv, NEW t \in Threads, Read(t), Settle
    PROVE  TypeInv'
<1> USE DEF Read, hub, late, history
<1>1. settled' \subseteq Modules \cup {"header", "scrap"}
  BY KnownType DEF Settle, TypeInv, TypeOK
<1>2. CASE topics = <<>>
  <2>2. /\ pc[t] = "read" /\ counter' = counter /\ pc'[t] = "send"
        /\ \A u \in Threads \ {t} : pc'[u] = pc[u] /\ module'[u] = module[u]
    BY <1>2, ContinueTypes
  <2>1. Counts'
    BY <2>2, Business DEF TypeInv, Counts
  <2> QED BY <1>1, <1>2, <2>1, ContinueTypes DEF TypeInv, TypeOK
<1>3. CASE topics # <<>>
  <2>2. /\ pc[t] = "read" /\ counter' = counter /\ module' = module /\ pc'[t] = "seek"
        /\ \A u \in Threads \ {t} : pc'[u] = pc[u]
    BY <1>3 DEF Goto, TypeInv, TypeOK
  <2>1. Counts'
    BY <2>2, Business DEF TypeInv, Counts, Current
  <2>3. pc' \in [Threads -> {"idle", "send", "read", "seek", "close", "return"}]
    BY <1>3 DEF TypeInv, TypeOK, Goto
  <2>4. list' \in [Threads -> Seq(Lines)]
    <3>1. topics \in Seq(Lines) /\ list \in [Threads -> Seq(Lines)]
      BY DEF TypeInv, TypeOK
    <3>2. list' = [list EXCEPT ![t] = topics]
      BY <1>3
    <3> QED BY <3>1, <3>2, Zenon
  <2> QED BY <1>1, <1>3, <2>1, <2>3, <2>4 DEF TypeInv, TypeOK
<1> QED BY <1>2, <1>3

LEMMA RenameType ==
    ASSUME TypeInv, NEW t \in Threads, Rename(t), Settle
    PROVE  TypeInv'
<1> USE DEF Rename, hub, late, history
<1>0. pc[t] = "seek" /\ counter[t] \in 0..Outlets
  BY DEF TypeInv, TypeOK
<1>1. module[t] \in Entries /\ counter[t] + 1 \in 1..Outlets
  <2>1. module[t] \in Entries /\ counter[t] < Outlets
    BY <1>0, Zenon DEF TypeInv, Counts, Current
  <2> HIDE DEF Rename, hub, late, history
  <2> QED BY <1>0, <2>1, TopicsAssumption
<1>2. PICK i \in DOMAIN list[t] :
          /\ list' = [list EXCEPT ![t][i] = Switch(module[t], counter[t] + 1)]
          /\ num' = [num EXCEPT ![t] = i + 1]
  OBVIOUS
<1>3. list' \in [Threads -> Seq(Lines)] /\ num' \in [Threads -> Nat \ {0}]
  <2>1. Switch(module[t], counter[t] + 1) \in Lines
    BY <1>1, SwitchType
  <2>2. list[t] \in Seq(Lines) /\ i \in Nat
    BY DEF TypeInv, TypeOK
  <2>3. [list[t] EXCEPT ![i] = Switch(module[t], counter[t] + 1)] \in Seq(Lines)
    BY <2>1, <2>2
  <2> QED BY <1>2, <2>2, <2>3 DEF TypeInv, TypeOK
<1>4. counter' \in [Threads -> 0..Outlets] /\ topics' \in Seq(Lines)
  BY <1>1, EmptySeq, TopicsAssumption DEF TypeInv, TypeOK
<1>5. Counts'
  BY <1>1, Business DEF TypeInv, TypeOK, Goto
<1>6. settled' \subseteq Modules \cup {"header", "scrap"}
  BY <1>4, KnownType DEF Settle, TypeInv, TypeOK
<1> QED BY <1>3, <1>4, <1>5, <1>6 DEF TypeInv, TypeOK, Goto

LEMMA CloseType ==
    ASSUME TypeInv, NEW t \in Threads, Close(t), Settle
    PROVE  TypeInv'
<1> USE DEF Close, hub, late, history
<1>1. topics' \in Seq(Lines) /\ torn' \in BOOLEAN
  <2>1. PICK sticks \in Ends(topics) : /\ topics' = list[t] \o sticks
                                      /\ torn' = (torn \/ sticks # <<>>)
    BY DEF Text
  <2>2. sticks \in Seq(Lines) /\ list[t] \in Seq(Lines)
    BY EndsType DEF TypeInv, TypeOK
  <2> HIDE DEF Close
  <2> QED BY <2>1, <2>2
<1>2. settled' \subseteq Modules \cup {"header", "scrap"}
  BY <1>1, KnownType DEF Settle, TypeInv, TypeOK
<1>3. pc[t] = "close" /\ counter[t] \in 0..Outlets /\ module[t] \in Entries
  BY DEF TypeInv, TypeOK, Counts, Current
<1>4. CASE Complete(counter[t])
  <2>1. Continue(t) /\ counter' = [counter EXCEPT ![t] = 0]
    BY <1>4
  <2>2. counter'[t] = 0 /\ 0 < Outlets /\ counter' \in [Threads -> 0..Outlets]
    BY <2>1, TopicsAssumption DEF TypeInv, TypeOK
  <2>3. \A u \in Threads \ {t} : counter'[u] = counter[u]
    BY <2>1 DEF TypeInv, TypeOK
  <2>4. Counts'
    BY <2>1, <2>2, <2>3, ContinueTypes, Business
  <2> QED BY <1>1, <1>2, <2>1, <2>2, <2>4, ContinueTypes DEF TypeInv, TypeOK
<1>5. CASE ~Complete(counter[t])
  <2>1. pc' = [pc EXCEPT ![t] = "seek"] /\ UNCHANGED local
    BY <1>5 DEF Goto
  <2>2. pc' \in [Threads -> {"idle", "send", "read", "seek", "close", "return"}]
    BY <2>1 DEF TypeInv, TypeOK
  <2>3. counter'[t] < Outlets
    BY <1>3, <1>5, <2>1, TopicsAssumption DEF local, Complete
  <2>4. \A u \in Threads \ {t} : pc'[u] = pc[u]
    BY <2>1 DEF TypeInv, TypeOK
  <2>5. Counts'
    BY <1>3, <2>1, <2>3, <2>4, Business DEF local
  <2> QED BY <1>1, <1>2, <2>1, <2>2, <2>5 DEF TypeInv, TypeOK, local
<1> QED BY <1>4, <1>5

\* An appended text is lines.
LEMMA FlushType ==
    ASSUME TypeInv, NEW e \in Seq(Switches), Flush(e)
    PROVE  /\ topics' \in Seq(Lines) /\ torn' \in BOOLEAN
           /\ Known(topics) \subseteq Known(topics')
<1>1. e \in Seq(Lines)
  BY DEF Lines
<1>2. topics \in Seq(Lines) /\ torn \in BOOLEAN
  BY DEF TypeInv, TypeOK
<1> QED BY <1>1, <1>2, AppendKeeps DEF Flush

LEMMA AppendBlockType ==
    ASSUME TypeInv, NEW t \in Threads, AppendBlock(t), Settle
    PROVE  TypeInv'
<1> USE DEF AppendBlock, hub, history
<1>1. newfo[t] \in Seq(Switches) /\ module[t] \in Entries
  BY DEF TypeInv, TypeOK, Counts, Current
<1>2. topics' \in Seq(Lines) /\ torn' \in BOOLEAN
  BY <1>1, FlushType
<1>3. settled' \subseteq Modules \cup {"header", "scrap"}
  BY <1>2, KnownType DEF Settle, TypeInv, TypeOK
<1>4. newfo' \in [Threads -> Seq(Switches)]
  BY <1>1, BlockType DEF TypeInv, TypeOK
<1>5. pc[t] = "seek" /\ counter' = counter
  OBVIOUS
<1>6. Counts'
  BY <1>5, ContinueTypes, Business DEF TypeInv, Counts
<1> QED BY <1>2, <1>3, <1>4, <1>6, ContinueTypes DEF TypeInv, TypeOK

LEMMA ReturnType ==
    ASSUME TypeInv, NEW t \in Threads, Return(t), Settle
    PROVE  TypeInv'
<1> USE DEF Return, hub, history, local
<1>1. newfo[t] \in Seq(Switches)
  BY DEF TypeInv, TypeOK
<1>2. topics' \in Seq(Lines) /\ torn' \in BOOLEAN
  BY <1>1, FlushType
<1>3. settled' \subseteq Modules \cup {"header", "scrap"}
  BY <1>2, KnownType DEF Settle, TypeInv, TypeOK
<1>4. newfo' \in [Threads -> Seq(Switches)]
  BY DEF TypeInv, TypeOK
<1>5. pc[t] = "send" /\ pc' = [pc EXCEPT ![t] = "return"]
  BY DEF Goto
<1>6. /\ pc' \in [Threads -> {"idle", "send", "read", "seek", "close", "return"}]
      /\ pc'[t] = "return" /\ \A u \in Threads \ {t} : pc'[u] = pc[u]
  BY <1>5 DEF TypeInv, TypeOK
<1>7. Counts'
  BY <1>5, <1>6, Business DEF TypeInv, Counts
<1> QED BY <1>2, <1>3, <1>4, <1>6, <1>7 DEF TypeInv, TypeOK

\* The variables a thread has for itself, when it is back.
LEMMA LeaveTypes ==
    ASSUME TypeInv, NEW t \in Threads, Leave(t)
    PROVE  /\ pc' \in [Threads -> {"idle", "send", "read", "seek", "close", "return"}]
           /\ at' \in [Threads -> Nat \ {0}] /\ counter' \in [Threads -> 0..Outlets]
           /\ told' \in [Threads -> SUBSET Entries]
           /\ pc'[t] = "idle" /\ \A u \in Threads \ {t} : pc'[u] = pc[u]
           /\ counter'[t] = 0 /\ \A u \in Threads \ {t} : counter'[u] = counter[u]
           /\ Counts'
<1> USE DEF Leave, Goto
<1>1. /\ pc' \in [Threads -> {"idle", "send", "read", "seek", "close", "return"}]
      /\ at' \in [Threads -> Nat \ {0}] /\ counter' \in [Threads -> 0..Outlets]
  BY TopicsAssumption DEF TypeInv, TypeOK
<1>2. told' \in [Threads -> SUBSET Entries]
  BY DEF TypeInv, TypeOK
<1>3. /\ pc'[t] = "idle" /\ \A u \in Threads \ {t} : pc'[u] = pc[u]
      /\ counter'[t] = 0 /\ \A u \in Threads \ {t} : counter'[u] = counter[u]
  BY DEF TypeInv, TypeOK
<1>4. 0 < Outlets /\ module' = module
  BY TopicsAssumption
<1>5. Counts'
  BY <1>3, <1>4, Business
<1> QED BY <1>1, <1>2, <1>3, <1>5

LEMMA RaiseType ==
    ASSUME TypeInv, NEW t \in Threads, Raise(t), Settle
    PROVE  TypeInv'
<1> USE DEF Raise
<1>1. held[t] \in Seq(Switches) /\ newfo[t] \in Seq(Switches)
  BY DEF TypeInv, TypeOK
<1>2. topics' \in Seq(Lines) /\ torn' \in BOOLEAN
  BY <1>1, FlushType
<1>3. settled' \subseteq Modules \cup {"header", "scrap"}
  BY <1>2, KnownType DEF Settle, TypeInv, TypeOK
<1>4. newfo' \in [Threads -> Seq(Switches)] /\ held' \in [Threads -> Seq(Switches)]
  BY <1>1 DEF TypeInv, TypeOK
<1>5. alone' \in [Threads -> BOOLEAN]
  BY Zenon
<1>6. session' \in BOOLEAN /\ subs' \subseteq Topic /\ data_topic' = data_topic
  BY DEF Ended, TypeInv, TypeOK, hub
<1>7. module' = module /\ list' = list /\ num' = num /\ table' = table
  BY DEF Leave
<1>8. Leave(t)
  OBVIOUS
<1> HIDE DEF Raise
<1> QED BY <1>2, <1>3, <1>4, <1>5, <1>6, <1>7, <1>8, LeaveTypes DEF TypeInv, TypeOK

LEMMA BeginType ==
    ASSUME TypeInv, NEW t \in Threads, Begin(t), table' \in Seq(Entries), Settle
    PROVE  TypeInv' /\ UNCHANGED <<topics, torn, hub, local, late>>
<1> USE DEF Begin
<1>1. UNCHANGED <<topics, torn, hub, local, late>>
  OBVIOUS
<1>2. pc[t] = "idle" /\ pc' = [pc EXCEPT ![t] = "send"]
  BY DEF Goto
<1>3. /\ pc' \in [Threads -> {"idle", "send", "read", "seek", "close", "return"}]
      /\ pc'[t] = "send" /\ \A u \in Threads \ {t} : pc'[u] = pc[u]
  BY <1>2 DEF TypeInv, TypeOK
<1>4. told' \in [Threads -> SUBSET Entries]
  BY DEF Reset
<1>5. alone' \in [Threads -> BOOLEAN]
  BY Zenon
<1>6. Counts'
  BY <1>1, <1>2, <1>3, Business DEF TypeInv, Counts, local
<1>7. settled' \subseteq Modules \cup {"header", "scrap"}
  BY <1>1, KnownType DEF Settle, TypeInv, TypeOK
<1> HIDE DEF Begin
<1>8. TypeInv'
  BY <1>1, <1>3, <1>4, <1>5, <1>6, <1>7 DEF TypeInv, TypeOK, hub, local, late
<1> QED BY <1>1, <1>8

LEMMA RestType ==
    ASSUME TypeInv, Rest, Settle
    PROVE  TypeInv'
<1> USE DEF Rest
<1>1. Leave("router") /\ "router" \in Threads
  BY DEF Threads
<1>2. UNCHANGED <<table, topics, torn, hub, late, alone, module, list, num>>
  BY DEF Leave
<1>3. settled' \subseteq Modules \cup {"header", "scrap"}
  BY KnownType DEF Settle, TypeInv, TypeOK
<1> HIDE DEF Rest
<1> QED BY <1>1, <1>2, <1>3, LeaveTypes DEF TypeInv, TypeOK, hub, late

LEMMA ConnectInv ==
    ASSUME TypeInv, Connect, Settle
    PROVE  TypeInv' /\ HearsKnown'
<1> USE DEF Connect
<1>1. data_topic \in Seq(Lines)
  BY DEF TypeInv, TypeOK
<1>2. settled' \subseteq Modules \cup {"header", "scrap"}
  BY KnownType DEF Settle, TypeInv, TypeOK
<1>3. TypeInv'
  BY <1>1, <1>2, TopicType DEF TypeInv, TypeOK, Counts, Current, local, late, history
<1>4. {u \in subs' : u.status /\ u.mac # "none"} = Statuses(data_topic)
  BY <1>1, TopicType
<1>5. HearsKnown'
  BY <1>4 DEF HearsKnown, Statuses, Of
<1> QED BY <1>3, <1>5

LEMMA ResubscribeInv ==
    ASSUME TypeInv, HearsKnown, Resubscribe, Settle
    PROVE  TypeInv' /\ HearsKnown'
<1> USE DEF Resubscribe
<1> DEFINE new == {[u EXCEPT !.mac = "none"] : u \in Statuses(topics) \cup Commands(topics)}
<1>1. data_topic \in Seq(Lines) /\ topics \in Seq(Lines)
  BY DEF TypeInv, TypeOK
<1>2. new \subseteq Topic /\ \A u \in new : u.mac = "none"
  BY <1>1, TopicType DEF Topic
<1>3. subs' = (subs \ Commands(data_topic)) \cup new
  OBVIOUS
<1> HIDE DEF new
<1>4. TypeInv'
  <2>1. subs' \subseteq Topic
    BY <1>2, <1>3 DEF TypeInv, TypeOK
  <2>2. Leave("offline") /\ "offline" \in Threads
    BY DEF Threads
  <2>3. UNCHANGED <<table, topics, torn, data_topic, session, late, alone, module, list, num>>
    BY DEF Leave
  <2>4. settled' \subseteq Modules \cup {"header", "scrap"}
    BY KnownType DEF Settle, TypeInv, TypeOK
  <2> HIDE DEF Resubscribe
  <2> QED BY <2>1, <2>2, <2>3, <2>4, LeaveTypes DEF TypeInv, TypeOK, late
<1>5. {u \in subs' : u.status /\ u.mac # "none"}
        = {u \in subs : u.status /\ u.mac # "none"}
  BY <1>1, <1>2, <1>3, TopicType
<1>6. HearsKnown'
  BY <1>5 DEF HearsKnown, Statuses, Of
<1> QED BY <1>4, <1>6

LEMMA RestartInv ==
    ASSUME TypeInv, Restart, Settle
    PROVE  TypeInv' /\ HearsKnown'
<1> USE DEF Restart, Reset
<1>1. /\ table' \in Seq(Entries) /\ topics' \in Seq(Lines) /\ data_topic' \in Seq(Lines)
      /\ session' \in BOOLEAN /\ subs' \subseteq Topic /\ torn' \in BOOLEAN
  BY DEF TypeInv, TypeOK
<1>2. <<>> \in Seq(Lines) /\ <<>> \in Seq(Switches)
  BY EmptySeq
<1>3. /\ pc' \in [Threads -> {"idle", "send", "read", "seek", "close", "return"}]
      /\ at' \in [Threads -> Nat \ {0}] /\ module' \in [Threads -> Entries \cup {Nobody}]
      /\ list' \in [Threads -> Seq(Lines)] /\ num' \in [Threads -> Nat \ {0}]
      /\ counter' \in [Threads -> 0..Outlets]
      /\ newfo' \in [Threads -> Seq(Switches)] /\ held' \in [Threads -> Seq(Switches)]
      /\ told' \in [Threads -> SUBSET Entries]
  BY <1>2, TopicsAssumption
<1>4. alone' \in [Threads -> BOOLEAN]
  BY Zenon
<1>5. settled' \subseteq Modules \cup {"header", "scrap"}
  BY KnownType DEF Settle, TypeInv, TypeOK
<1>6. Counts'
  BY TopicsAssumption DEF Counts, Current
<1>7. HearsKnown'
  BY DEF HearsKnown
<1> HIDE DEF Restart
<1> QED BY <1>1, <1>3, <1>4, <1>5, <1>6, <1>7 DEF TypeInv, TypeOK

LEMMA HubSame ==
    ASSUME HearsKnown, UNCHANGED hub
    PROVE  HearsKnown'
BY DEF HearsKnown, hub, Statuses, Of

LEMMA RaiseHears ==
    ASSUME HearsKnown, NEW t \in Threads, Raise(t)
    PROVE  HearsKnown'
<1>1. CASE t = "offline"
  BY <1>1 DEF Raise, Ended, HearsKnown
<1>2. CASE t # "offline"
  BY <1>2, HubSame DEF Raise, Ended
<1> QED BY <1>1, <1>2

LEMMA InitTypes == Init => TypeInv /\ HearsKnown
<1> SUFFICES ASSUME Init PROVE TypeInv /\ HearsKnown
  OBVIOUS
<1> USE DEF Init, Reset
<1>1. Header \in Lines /\ <<Header>> \in Seq(Lines)
  BY DEF Lines
<1>2. topics \in Seq(Lines) /\ data_topic \in Seq(Lines)
  BY <1>1, Zenon
<1>3. table \in Seq(Entries)
  BY EmptySeq
<1>4. session \in BOOLEAN /\ subs \subseteq Topic /\ torn \in BOOLEAN
  BY Zenon
<1>5. <<>> \in Seq(Lines) /\ <<>> \in Seq(Switches)
  BY EmptySeq
<1>6. /\ pc \in [Threads -> {"idle", "send", "read", "seek", "close", "return"}]
      /\ at \in [Threads -> Nat \ {0}] /\ module \in [Threads -> Entries \cup {Nobody}]
      /\ list \in [Threads -> Seq(Lines)] /\ num \in [Threads -> Nat \ {0}]
      /\ counter \in [Threads -> 0..Outlets]
      /\ newfo \in [Threads -> Seq(Switches)] /\ held \in [Threads -> Seq(Switches)]
      /\ told \in [Threads -> SUBSET Entries]
  BY <1>5, TopicsAssumption
<1>7. alone \in [Threads -> BOOLEAN]
  BY Zenon
<1>8. settled \subseteq Modules \cup {"header", "scrap"}
  BY <1>2, KnownType
<1>9. Counts
  BY TopicsAssumption DEF Counts, Current
<1>10. HearsKnown
  BY DEF HearsKnown
<1> HIDE DEF Init
<1> QED BY <1>2, <1>3, <1>4, <1>6, <1>7, <1>8, <1>9, <1>10 DEF TypeInv, TypeOK

\* Every step keeps the types and what the offline thread hears.
LEMMA TypesStep ==
    ASSUME TypeInv, HearsKnown, [Next]_vars
    PROVE  TypeInv' /\ HearsKnown'
<1>1. CASE UNCHANGED vars
  <2>1. TypeInv'
    BY <1>1 DEF TypeInv, TypeOK, Counts, Current, vars, hub, local, late, history
  <2> QED BY <1>1, <2>1, HubSame DEF vars
<1>2. CASE Next
  <2>1. Settle
    BY <1>2 DEF Next
  <2>2. ASSUME NEW t \in Threads, Tell(t)
        PROVE  TypeInv' /\ HearsKnown'
    BY <2>1, <2>2, TellType, HubSame DEF Tell
  <2>3. ASSUME NEW t \in Threads, Skip(t)
        PROVE  TypeInv' /\ HearsKnown'
    BY <2>1, <2>3, SkipType, HubSame DEF Skip
  <2>4. ASSUME NEW t \in Threads, Read(t)
        PROVE  TypeInv' /\ HearsKnown'
    BY <2>1, <2>4, ReadType, HubSame DEF Read
  <2>5. ASSUME NEW t \in Threads, Rename(t)
        PROVE  TypeInv' /\ HearsKnown'
    BY <2>1, <2>5, RenameType, HubSame DEF Rename
  <2>6. ASSUME NEW t \in Threads, Close(t)
        PROVE  TypeInv' /\ HearsKnown'
    BY <2>1, <2>6, CloseType, HubSame DEF Close
  <2>7. ASSUME NEW t \in Threads, AppendBlock(t)
        PROVE  TypeInv' /\ HearsKnown'
    BY <2>1, <2>7, AppendBlockType, HubSame DEF AppendBlock
  <2>8. ASSUME NEW t \in Threads, Return(t)
        PROVE  TypeInv' /\ HearsKnown'
    BY <2>1, <2>8, ReturnType, HubSame DEF Return
  <2>9. ASSUME NEW t \in Threads, Raise(t)
        PROVE  TypeInv' /\ HearsKnown'
    BY <2>1, <2>9, RaiseType, RaiseHears
  <2>10. ASSUME NEW entry \in Entries, Configure(entry)
         PROVE  TypeInv' /\ HearsKnown'
    <3>1. table' \in Seq(Entries) /\ Begin("offline") /\ "offline" \in Threads
      BY <2>10, NamedType DEF Configure, TypeInv, TypeOK, Threads
    <3> QED BY <2>1, <3>1, BeginType, HubSame
  <2>11. CASE Forward
    <3>1. table' \in Seq(Entries) /\ Begin("router") /\ "router" \in Threads
      BY <2>11 DEF Forward, TypeInv, TypeOK, Threads
    <3> QED BY <2>1, <3>1, BeginType, HubSame
  <2>12. CASE Rest
    BY <2>1, <2>12, RestType, HubSame DEF Rest
  <2>13. CASE Connect
    BY <2>1, <2>13, ConnectInv
  <2>14. CASE Resubscribe
    BY <2>1, <2>14, ResubscribeInv
  <2>15. CASE Restart
    BY <2>1, <2>15, RestartInv
  <2> QED
    BY <1>2, <2>2, <2>3, <2>4, <2>5, <2>6, <2>7, <2>8, <2>9, <2>10, <2>11, <2>12,
       <2>13, <2>14, <2>15 DEF Next, Steps
<1> QED BY <1>1, <1>2

----------------------------------------------------------------------------
(* Blocks *)

\* The first line is known by its address.
LEMMA HeaderMac ==
    ASSUME NEW l \in Lines
    PROVE  /\ l = Header <=> l.mac = "header"
           /\ l.mac \in Modules => l.no \in 1..Outlets /\ l \in Switches
           /\ l \in Switches => l.mac \in Modules
           /\ l.no \in 0..Outlets /\ (l.no > 0 => l \in Switches)
BY TopicsAssumption DEF Lines, Switches, Header, Scrap

\* A text stays whole when each line keeps its module and its number.
LEMMA SameWhole ==
    ASSUME NEW s \in Seq(Lines), NEW r \in Seq(Lines), Len(r) = Len(s), Whole(s),
           \A i \in DOMAIN s : r[i].mac = s[i].mac /\ r[i].no = s[i].no
    PROVE  Whole(r) /\ Known(r) = Known(s)
<1>1. DOMAIN r = DOMAIN s /\ DOMAIN s = 1..Len(s) /\ Len(s) \in Nat
  OBVIOUS
<1>2. ASSUME NEW i \in DOMAIN r
      PROVE  InBlock(r, i)
  <2>1. InBlock(s, i) /\ i \in DOMAIN s /\ i \in Nat
    BY <1>1 DEF Whole
  <2>2. s[i] \in Lines /\ r[i] \in Lines
    BY <1>1
  <2>3. r[i] = Header => s[i] = Header
    BY <1>1, <2>2, HeaderMac
  <2>4. s[i].no \in 0..Outlets
    BY <2>2, HeaderMac
  <2>5. i > 1 => i - 1 \in DOMAIN s
    BY <1>1, <2>1
  <2>6. i < Len(s) => i + 1 \in DOMAIN s
    BY <1>1, <2>1
  <2> QED BY <1>1, <2>1, <2>3, <2>4, <2>5, <2>6 DEF InBlock
<1>3. Known(r) = Known(s)
  BY <1>1 DEF Known
<1> QED BY <1>2, <1>3 DEF Whole

\* Switches appended to a text leave it whole.
LEMMA WholeConcat ==
    ASSUME NEW s \in Seq(Lines), NEW e \in Seq(Switches), Whole(s), Whole(e)
    PROVE  Whole(s \o e)
<1> DEFINE r == s \o e
<1>1. /\ e \in Seq(Lines) /\ r \in Seq(Lines) /\ Len(r) = Len(s) + Len(e)
      /\ Len(s) \in Nat /\ Len(e) \in Nat
  BY DEF Lines
<1>2. /\ \A i \in 1..Len(s) : r[i] = s[i]
      /\ \A i \in 1..Len(e) : r[Len(s) + i] = e[i]
  BY <1>1
<1>3. ASSUME NEW i \in 1..Len(s)
      PROVE  InBlock(r, i)
  <2>1. InBlock(s, i)
    BY DEF Whole
  <2>2. i > 1 => i - 1 \in 1..Len(s)
    BY <1>1
  <2>3. i < Len(s) => i + 1 \in 1..Len(s) /\ i < Len(r)
    BY <1>1
  <2> HIDE DEF r
  <2> QED BY <1>1, <1>2, <2>1, <2>2, <2>3 DEF InBlock
<1>4. ASSUME NEW k \in 1..Len(e)
      PROVE  InBlock(r, Len(s) + k)
  <2>1. InBlock(e, k) /\ e[k] \in Switches
    BY DEF Whole
  <2>2. k > 1 => k - 1 \in 1..Len(e) /\ Len(s) + k > 1 /\ Len(s) + (k - 1) = (Len(s) + k) - 1
    BY <1>1
  <2>3. k < Len(e) => k + 1 \in 1..Len(e) /\ Len(s) + k < Len(r)
                      /\ Len(s) + (k + 1) = (Len(s) + k) + 1
    BY <1>1
  <2>4. e[k] # Header
    BY <2>1, TopicsAssumption DEF Switches, Header
  <2>5. r[Len(s) + k] = e[k] /\ (k > 1 => r[(Len(s) + k) - 1] = e[k - 1])
        /\ (k < Len(e) => r[(Len(s) + k) + 1] = e[k + 1])
    BY <1>2, <2>2, <2>3
  <2> HIDE DEF r
  <2> QED BY <1>1, <2>1, <2>2, <2>3, <2>4, <2>5 DEF InBlock
<1>5. ASSUME NEW i \in DOMAIN r, i \notin 1..Len(s)
      PROVE  \E k \in 1..Len(e) : i = Len(s) + k
  <2>1. i \in 1..(Len(s) + Len(e))
    BY <1>1
  <2>2. i - Len(s) \in 1..Len(e) /\ i = Len(s) + (i - Len(s))
    BY <1>1, <1>5, <2>1
  <2> QED BY <2>2
<1> HIDE DEF r
<1>6. Whole(r)
  BY <1>3, <1>4, <1>5 DEF Whole
<1> QED BY <1>6 DEF r

\* A new block is whole.
LEMMA BlockWhole ==
    ASSUME NEW entry \in Entries
    PROVE  Whole(Block(entry))
<1> DEFINE b == Block(entry)
<1>1. Outlets \in Nat /\ DOMAIN b = 1..Outlets /\ Len(b) = Outlets
  BY TopicsAssumption, BlockType, LenProperties DEF Block
<1>2. \A i \in 1..Outlets : b[i].mac = entry.mac /\ b[i].no = i
  BY DEF Block, Switch
<1>3. b \in Seq(Switches)
  BY BlockType
<1>4. ASSUME NEW i \in 1..Outlets
      PROVE  InBlock(b, i)
  <2>1. b[i] # Header
    BY <1>1, <1>3, TopicsAssumption DEF Switches, Header
  <2>2. i > 1 => i - 1 \in 1..Outlets
    BY <1>1
  <2>3. i < Outlets => i + 1 \in 1..Outlets
    BY <1>1
  <2> HIDE DEF b
  <2> QED BY <1>1, <1>2, <2>1, <2>2, <2>3 DEF InBlock
<1> QED BY <1>1, <1>4 DEF Whole

----------------------------------------------------------------------------
(* Whole texts and all modules, until one thread writes into another's text *)

\* Only thread t's own variables change.
Alone(t) == \A u \in Threads \ {t} :
    /\ pc'[u] = pc[u] /\ module'[u] = module[u] /\ list'[u] = list[u]
    /\ num'[u] = num[u] /\ counter'[u] = counter[u]

\* While a thread is at tcp_client the modules to be kept are the same.
LEMMA Unsettled ==
    ASSUME Settle, NEW u \in Threads, pc'[u] # "idle"
    PROVE  settled' = settled
BY DEF Settle, Reset

\* A step of one thread leaves the turns of the others as they are.
LEMMA Turns ==
    ASSUME Settle, NEW t \in Threads, Alone(t), \A u \in Threads : Turn(u), Turn(t)'
    PROVE  \A u \in Threads : Turn(u)'
<1> SUFFICES ASSUME NEW u \in Threads \ {t} PROVE Turn(u)'
  OBVIOUS
<1>1. /\ pc'[u] = pc[u] /\ module'[u] = module[u] /\ list'[u] = list[u]
      /\ num'[u] = num[u] /\ counter'[u] = counter[u]
  BY DEF Alone
<1>2. pc[u] \in {"seek", "close"} => settled' = settled
  BY <1>1, Unsettled
<1> QED BY <1>1, <1>2 DEF Turn, Whole, InBlock, Known, Switch

\* A step after which thread t is not at the file, and had not opened it.
LEMMA OffFile ==
    ASSUME Clean, Settle, NEW t \in Threads, Alone(t),
           pc[t] # "close", pc'[t] \notin {"seek", "close"},
           counter'[t] = 0, num'[t] = 1,
           Whole(topics)', \A u \in Threads : Whole(newfo[u])' /\ Whole(held[u])',
           topics' # <<>> \/ ~Open => settled \subseteq Known(topics')
    PROVE  Clean'
<1>1. Turn(t)'
  BY DEF Turn
<1>2. \A u \in Threads : Turn(u)'
  BY <1>1, Turns DEF Clean
<1>3. Open' <=> Open
  BY DEF Open, Alone
<1>4. Kept'
  BY <1>3 DEF Kept, Settle, Known
<1> QED BY <1>2, <1>4 DEF Clean

\* An appended text leaves the file whole.
LEMMA FlushClean ==
    ASSUME TypeInv, Clean, NEW e \in Seq(Switches), Whole(e), Flush(e), ~torn'
    PROVE  /\ Whole(topics)'
           /\ topics' # <<>> \/ ~Open => settled \subseteq Known(topics')
<1>1. topics \in Seq(Lines) /\ e \in Seq(Lines)
  BY DEF TypeInv, TypeOK, Lines
<1>2. topics' = topics \o e
  BY DEF Flush
<1>3. Whole(topics')
  BY <1>1, <1>2, WholeConcat DEF Clean
<1>4. CASE e = <<>>
  <2>1. topics' = topics
    BY <1>1, <1>2, <1>4, ConcatEmptySeq
  <2> QED BY <1>3, <2>1 DEF Clean, Kept, Whole, InBlock
<1>5. CASE ~Open
  <2>1. settled \subseteq Known(topics) /\ Known(topics) \subseteq Known(topics \o e)
    BY <1>1, <1>5, AppendKeeps DEF Clean, Kept
  <2> QED BY <1>2, <1>3, <2>1 DEF Whole, InBlock
<1> QED BY <1>4, <1>5 DEF Flush

\* The pieces of an idle step.
LEMMA Untouched ==
    ASSUME Clean, UNCHANGED <<topics, newfo, held>>
    PROVE  /\ Whole(topics)' /\ \A u \in Threads : Whole(newfo[u])' /\ Whole(held[u])'
           /\ topics' # <<>> \/ ~Open => settled \subseteq Known(topics')
BY DEF Clean, Kept, Whole, InBlock

\* Thread t goes on with the next module.
LEMMA ContinueAlone ==
    ASSUME TypeInv, NEW t \in Threads, Continue(t),
           \A u \in Threads \ {t} : counter'[u] = counter[u]
    PROVE  Alone(t) /\ pc'[t] = "send" /\ num'[t] = 1
BY DEF TypeInv, TypeOK, Continue, Goto, Alone

LEMMA TellClean ==
    ASSUME TypeInv, Clean, Settle, NEW t \in Threads, Tell(t)
    PROVE  Clean'
<1>1. /\ Alone(t) /\ pc[t] = "send" /\ pc'[t] = "read"
      /\ counter'[t] = counter[t] /\ num'[t] = num[t]
      /\ UNCHANGED <<topics, newfo, held>>
  BY DEF Tell, Goto, TypeInv, TypeOK, Alone, late
<1>2. counter[t] = 0 /\ num[t] = 1
  BY <1>1 DEF Clean, Turn
<1> QED BY <1>1, <1>2, Untouched, OffFile

LEMMA SkipClean ==
    ASSUME TypeInv, Clean, Settle, NEW t \in Threads, Skip(t)
    PROVE  Clean'
<1>1. Alone(t) /\ pc'[t] = "send" /\ num'[t] = 1
  BY ContinueAlone DEF Skip
<1>2. /\ pc[t] = "send" /\ counter'[t] = counter[t]
      /\ UNCHANGED <<topics, newfo, held>>
  BY DEF Skip, late
<1>3. counter[t] = 0
  BY <1>2 DEF Clean, Turn
<1> QED BY <1>1, <1>2, <1>3, Untouched, OffFile

\* A step of thread t at the file.
LEMMA AtFile ==
    ASSUME Clean, Settle, NEW t \in Threads, Alone(t), Turn(t)', pc'[t] # "idle",
           UNCHANGED <<newfo, held>>, Whole(topics)',
           topics' # <<>> \/ ~Open' => settled \subseteq Known(topics')
    PROVE  Clean'
<1>1. \A u \in Threads : Turn(u)'
  BY Turns DEF Clean
<1>2. settled' = settled
  BY Unsettled
<1>3. Kept'
  BY <1>2 DEF Kept, Known
<1>4. \A u \in Threads : Whole(newfo[u])' /\ Whole(held[u])'
  BY DEF Clean, Whole, InBlock
<1> QED BY <1>1, <1>3, <1>4 DEF Clean

\* The text that is read is whole, and has all modules.
LEMMA ReadClean ==
    ASSUME TypeInv, Clean, Settle, NEW t \in Threads, Read(t)
    PROVE  Clean'
<1>1. /\ pc[t] = "read" /\ counter' = counter /\ UNCHANGED <<topics, newfo, held>>
  BY DEF Read, late
<1>2. counter[t] = 0 /\ num[t] = 1
  BY <1>1 DEF Clean, Turn
<1>3. CASE topics = <<>>
  <2>1. Alone(t) /\ pc'[t] = "send" /\ num'[t] = 1
    BY <1>1, <1>3, ContinueAlone DEF Read
  <2> QED BY <1>1, <1>2, <2>1, Untouched, OffFile
<1>4. CASE topics # <<>>
  <2>1. /\ Alone(t) /\ pc'[t] = "seek" /\ list'[t] = topics /\ num' = num
    BY <1>4 DEF Read, Goto, TypeInv, TypeOK, Alone
  <2>2. settled' = settled
    BY <2>1, Unsettled
  <2>3. Whole(topics) /\ settled \subseteq Known(topics)
    BY <1>4 DEF Clean, Kept
  <2>5. list'[t] # <<>> /\ counter'[t] = 0 /\ num'[t] = 1 /\ 1..0 = {}
    BY <1>1, <1>2, <1>4, <2>1
  <2>6. settled' \subseteq Known(list[t])'
    BY <2>1, <2>2, <2>3 DEF Known
  <2>7. Whole(list[t])'
    BY <2>1, <2>3 DEF Whole, InBlock
  <2>4. Turn(t)'
    BY <2>1, <2>5, <2>6, <2>7 DEF Turn
  <2> QED BY <1>1, <2>1, <2>3, <2>4, AtFile, Untouched DEF Whole, InBlock
<1> QED BY <1>3, <1>4

\* The line that is renamed has had its number: it is the module's first, or
\* follows the one renamed before.
LEMMA NextLine ==
    ASSUME TypeInv, NEW t \in Threads, pc[t] = "seek", Turn(t),
           NEW i \in DOMAIN list[t], NextOf(t, i)
    PROVE  /\ list[t][i].no = counter[t] + 1 /\ list[t][i].mac = module[t].mac
           /\ counter[t] > 0 => i = num[t]
<1> DEFINE l == list[t]  c == counter[t]  n == num[t]  m == module[t]
<1>1. /\ l \in Seq(Lines) /\ c \in Nat /\ c < Outlets /\ n \in Nat \ {0} /\ m \in Entries
      /\ m.mac \in Modules /\ i \in 1..Len(l) /\ Len(l) \in Nat
  <2>1. l \in Seq(Lines) /\ c \in 0..Outlets /\ n \in Nat \ {0}
    BY DEF TypeInv, TypeOK
  <2>2. c < Outlets /\ m \in Entries
    BY Zenon DEF TypeInv, Counts, Current
  <2> HIDE DEF l, c, n, m
  <2> QED BY <2>1, <2>2, TopicsAssumption DEF Entries, l
<1>2. /\ i >= n /\ l[i].mac = m.mac /\ \A j \in n..(i - 1) : l[j].mac # m.mac
  BY DEF NextOf
<1>3. l[i] \in Lines /\ l[i].no \in 1..Outlets
  BY <1>1, <1>2, HeaderMac
<1>4. Whole(l)
  BY DEF Turn
<1>5. CASE c = 0
  <2>1. n = 1
    BY <1>5 DEF Turn
  <2>2. ASSUME l[i].no > 1 PROVE FALSE
    <3>1. i > 1 /\ l[i - 1].mac = m.mac
      BY <1>1, <1>2, <1>4, <2>2 DEF Whole, InBlock
    <3> HIDE DEF l, c, n, m
    <3>2. i - 1 \in n..(i - 1)
      BY <1>1, <2>1, <3>1
    <3> QED BY <1>2, <3>1, <3>2
  <2> HIDE DEF l, c, n, m
  <2>3. l[i].no = 1
    BY <1>1, <1>3, <2>2
  <2> QED BY <1>2, <1>5, <2>3 DEF l, c, n, m
<1>6. CASE c > 0
  <2>1. n - 1 \in DOMAIN l /\ l[n - 1] = Switch(m, c)
    BY <1>1, <1>6 DEF Turn
  <2>2. InBlock(l, n - 1) /\ l[n - 1].mac = m.mac /\ l[n - 1].no = c
    BY <1>4, <2>1 DEF Whole, Switch
  <2> HIDE DEF l, c, n, m
  <2>3. n - 1 < Len(l) /\ l[(n - 1) + 1].mac = m.mac /\ l[(n - 1) + 1].no = c + 1
    BY <1>1, <2>2 DEF InBlock
  <2>4. (n - 1) + 1 = n /\ n \in 1..Len(l)
    BY <1>1, <2>3
  <2>5. i = n
    BY <1>1, <1>2, <2>3, <2>4
  <2> QED BY <1>2, <2>3, <2>4, <2>5 DEF l, c, n, m
<1> QED BY <1>1, <1>5, <1>6

\* The file is emptied, and the list keeps its blocks.
LEMMA RenameClean ==
    ASSUME TypeInv, Clean, Settle, NEW t \in Threads, Rename(t)
    PROVE  Clean'
<1> DEFINE l == list[t]  c == counter[t]  new == Switch(module[t], c + 1)
<1>1. PICK i \in DOMAIN l : /\ NextOf(t, i)
                            /\ list' = [list EXCEPT ![t][i] = new]
                            /\ num' = [num EXCEPT ![t] = i + 1]
  BY DEF Rename
<1>2. /\ pc[t] = "seek" /\ pc' = [pc EXCEPT ![t] = "close"] /\ topics' = <<>>
      /\ counter' = [counter EXCEPT ![t] = c + 1]
      /\ UNCHANGED <<module, newfo, held>>
  BY DEF Rename, Goto, late
<1>3. Turn(t)
  BY DEF Clean
<1>4. /\ l[i].no = c + 1 /\ l[i].mac = module[t].mac /\ (c > 0 => i = num[t])
  BY <1>1, <1>2, <1>3, NextLine
<1>5. l \in Seq(Lines) /\ c \in Nat /\ c + 1 \in 1..Outlets /\ module[t] \in Entries /\ i \in Nat
  <2>1. l \in Seq(Lines) /\ c \in 0..Outlets
    BY DEF TypeInv, TypeOK
  <2>2. c < Outlets /\ module[t] \in Entries
    BY <1>2, Zenon DEF TypeInv, Counts, Current
  <2> HIDE DEF l, c
  <2> QED BY <2>1, <2>2, TopicsAssumption
<1>6. new \in Lines /\ new.mac = l[i].mac /\ new.no = l[i].no
  BY <1>4, <1>5, SwitchType
<1>7. /\ Alone(t) /\ pc'[t] = "close" /\ num'[t] = i + 1 /\ counter'[t] = c + 1
      /\ list'[t] = [l EXCEPT ![i] = new]
  BY <1>1, <1>2 DEF TypeInv, TypeOK, Alone
<1> DEFINE r == [l EXCEPT ![i] = new]
<1>8. /\ r \in Seq(Lines) /\ Len(r) = Len(l) /\ DOMAIN r = DOMAIN l /\ r[i] = new
      /\ \A j \in DOMAIN l : j # i => r[j] = l[j]
  <2> HIDE DEF new
  <2> QED BY <1>5, <1>6
<1>9. \A j \in DOMAIN l : r[j].mac = l[j].mac /\ r[j].no = l[j].no
  <2> HIDE DEF new, r
  <2> QED BY <1>6, <1>8
<1>10. Whole(l) /\ settled \subseteq Known(l)
  BY <1>2, <1>3 DEF Turn
<1>11. Whole(r) /\ settled \subseteq Known(r)
  <2> HIDE DEF r, l
  <2> QED BY <1>5, <1>8, <1>9, <1>10, SameWhole DEF l
<1>12. settled' = settled
  BY <1>7, Unsettled
<1>13. \A no \in 1..(c + 1) : \E j \in DOMAIN r : j < i + 1 /\ r[j] = Switch(module[t], no)
  <2> SUFFICES ASSUME NEW no \in 1..(c + 1)
               PROVE  \E j \in DOMAIN r : j < i + 1 /\ r[j] = Switch(module[t], no)
    OBVIOUS
  <2> HIDE DEF r
  <2>1. CASE no = c + 1
    BY <1>5, <1>8, <2>1
  <2>2. CASE no # c + 1
    <3>1. no \in 1..c /\ c > 0
      BY <1>5, <2>2
    <3>2. PICK j \in DOMAIN l : j < num[t] /\ l[j] = Switch(module[t], no)
      BY <1>2, <1>3, <3>1 DEF Turn
    <3>3. i = num[t] /\ j < i /\ j \in Nat
      BY <1>4, <1>5, <3>1, <3>2
    <3> QED BY <1>5, <1>8, <3>2, <3>3
  <2> QED BY <2>1, <2>2
<1>14. Turn(t)'
  <2>1. pc'[t] = "close" /\ c + 1 # 0 /\ (i + 1) - 1 = i /\ i \in DOMAIN r /\ r[i] = new
    BY <1>5, <1>7, <1>8
  <2> HIDE DEF r, l, c
  <2>2. list'[t] = r /\ num'[t] = i + 1 /\ counter'[t] = c + 1 /\ module' = module
    BY <1>2, <1>7 DEF r, l
  <2>3. r # <<>>
    BY <1>8
  <2> QED BY <1>11, <2>3, <1>12, <1>13, <2>1, <2>2 DEF Turn, Whole, InBlock, Known, Switch
<1>15. topics' = <<>> /\ Open' /\ Whole(topics)'
  BY <1>2, <1>7 DEF Open, Whole
<1> QED BY <1>2, <1>7, <1>14, <1>15, AtFile

\* The text is whole, and has all modules.
LEMMA CloseClean ==
    ASSUME TypeInv, Clean, Settle, NEW t \in Threads, Close(t), ~torn'
    PROVE  Clean'
<1>1. Turn(t) /\ pc[t] = "close"
  BY DEF Clean, Close
<1>2. /\ Whole(list[t]) /\ settled \subseteq Known(list[t])
      /\ UNCHANGED <<newfo, held>> /\ list[t] \in Seq(Lines)
  BY <1>1 DEF Turn, Close, late, TypeInv, TypeOK
<1>3. topics' = list[t]
  <2>1. PICK sticks \in Ends(topics) : /\ topics' = list[t] \o sticks
                                      /\ torn' = (torn \/ sticks # <<>>)
    BY DEF Close, Text
  <2> QED BY <1>2, <2>1, ConcatEmptySeq
<1>4. Whole(topics)' /\ settled \subseteq Known(topics')
  BY <1>2, <1>3 DEF Whole, InBlock
<1>5. CASE Complete(counter[t])
  <2>1. Continue(t) /\ counter' = [counter EXCEPT ![t] = 0]
    BY <1>5 DEF Close
  <2>2. /\ counter'[t] = 0 /\ Alone(t) /\ pc'[t] = "send" /\ num'[t] = 1
    BY <2>1, ContinueAlone DEF TypeInv, TypeOK
  <2>3. Turn(t)'
    BY <2>2 DEF Turn
  <2> QED BY <1>2, <1>4, <2>2, <2>3, AtFile
<1>6. CASE ~Complete(counter[t])
  <2>1. pc' = [pc EXCEPT ![t] = "seek"] /\ UNCHANGED <<at, module, list, num, counter>>
    BY <1>6 DEF Close, Goto, local
  <2>2. Alone(t) /\ pc'[t] = "seek"
    BY <2>1 DEF Alone, TypeInv, TypeOK
  <2>3. settled' = settled
    BY <2>2, Unsettled
  <2>4. Turn(t)'
    BY <1>1, <2>1, <2>2, <2>3 DEF Turn, Whole, InBlock, Known, Switch
  <2> QED BY <1>2, <1>4, <2>2, <2>4, AtFile
<1> QED BY <1>5, <1>6

\* Lines are appended only for a module that has none.
LEMMA AppendBlockClean ==
    ASSUME TypeInv, Clean, Settle, NEW t \in Threads, AppendBlock(t), ~torn'
    PROVE  Clean'
<1>1. /\ pc[t] = "seek" /\ \A i \in DOMAIN list[t] : ~NextOf(t, i)
      /\ Continue(t) /\ counter' = counter /\ held' = held
      /\ newfo' = [newfo EXCEPT ![t] = Block(module[t])]
  BY DEF AppendBlock
<1>2. newfo[t] \in Seq(Switches) /\ Whole(newfo[t]) /\ Flush(newfo[t])
  BY DEF TypeInv, TypeOK, Clean, AppendBlock
<1>3. module[t] \in Entries
  BY <1>1, Zenon DEF TypeInv, Counts, Current
<1>4. \A u \in Threads : Whole(newfo[u])' /\ Whole(held[u])'
  <2>1. Whole(Block(module[t]))
    BY <1>3, BlockWhole
  <2>2. \A u \in Threads : newfo'[u] = IF u = t THEN Block(module[t]) ELSE newfo[u]
    BY <1>1 DEF TypeInv, TypeOK
  <2>3. \A u \in Threads : Whole(newfo'[u])
    BY <2>1, <2>2 DEF Clean
  <2> QED BY <1>1, <2>3 DEF Clean, Whole, InBlock
<1>5. Alone(t) /\ pc'[t] = "send" /\ num'[t] = 1
  BY <1>1, ContinueAlone
<1>6. counter[t] = 0
  <2> SUFFICES ASSUME counter[t] # 0 PROVE FALSE
    OBVIOUS
  <2> DEFINE l == list[t]  c == counter[t]  n == num[t]  m == module[t]
  <2>1. l \in Seq(Lines) /\ c \in Nat /\ n \in Nat \ {0} /\ c < Outlets /\ m.mac \in Modules
    <3>1. c < Outlets
      BY <1>1, Zenon DEF TypeInv, Counts
    <3> QED BY <1>3, <3>1, TopicsAssumption DEF TypeInv, TypeOK, Entries
  <2>2. n - 1 \in DOMAIN l /\ l[n - 1] = Switch(m, c) /\ Whole(l)
    BY <1>1 DEF Turn, Clean
  <2>3. InBlock(l, n - 1) /\ l[n - 1].mac = m.mac /\ l[n - 1].no = c
    BY <2>2 DEF Whole, Switch
  <2>4. \A i \in DOMAIN l : ~(i >= n /\ l[i].mac = m.mac
                              /\ \A j \in n..(i - 1) : l[j].mac # m.mac)
    BY <1>1 DEF NextOf
  <2> HIDE DEF l, c, n, m
  <2>5. n - 1 < Len(l) /\ l[(n - 1) + 1].mac = m.mac /\ (n - 1) + 1 = n /\ n \in DOMAIN l
    BY <2>1, <2>2, <2>3 DEF InBlock
  <2>6. n..(n - 1) = {}
    BY <2>1
  <2> QED BY <2>1, <2>4, <2>5, <2>6
<1>7. /\ Whole(topics)' /\ (topics' # <<>> \/ ~Open => settled \subseteq Known(topics'))
  BY <1>2, FlushClean
<1> QED BY <1>1, <1>4, <1>5, <1>6, <1>7, OffFile

LEMMA ReturnClean ==
    ASSUME TypeInv, Clean, Settle, NEW t \in Threads, Return(t), ~torn'
    PROVE  Clean'
<1>1. /\ pc[t] = "send" /\ pc' = [pc EXCEPT ![t] = "return"]
      /\ newfo' = [newfo EXCEPT ![t] = <<>>]
      /\ UNCHANGED <<module, list, num, counter, held>>
  BY DEF Return, Goto, local
<1>2. newfo[t] \in Seq(Switches) /\ Whole(newfo[t]) /\ Flush(newfo[t])
  BY DEF TypeInv, TypeOK, Clean, Return
<1>3. counter[t] = 0 /\ num[t] = 1
  BY <1>1 DEF Clean, Turn
<1>4. Alone(t) /\ pc'[t] = "return" /\ counter'[t] = 0 /\ num'[t] = 1
  BY <1>1, <1>3 DEF Alone, TypeInv, TypeOK
<1>5. \A u \in Threads : Whole(newfo[u])' /\ Whole(held[u])'
  <2>1. /\ \A u \in Threads : newfo'[u] = IF u = t THEN <<>> ELSE newfo[u]
        /\ \A u \in Threads : held'[u] = held[u]
    BY <1>1 DEF TypeInv, TypeOK
  <2>2. \A u \in Threads : Whole(newfo'[u]) /\ Whole(held'[u])
    BY <2>1 DEF Clean, Whole
  <2> QED BY <2>2 DEF Whole, InBlock
<1>6. /\ Whole(topics)' /\ (topics' # <<>> \/ ~Open => settled \subseteq Known(topics'))
  BY <1>2, FlushClean
<1> QED BY <1>1, <1>4, <1>5, <1>6, OffFile

\* A thread that is back has no other thread's variables changed.
LEMMA LeaveAlone ==
    ASSUME TypeInv, NEW t \in Threads, Leave(t)
    PROVE  /\ Alone(t) /\ pc'[t] = "idle" /\ counter'[t] = 0
           /\ UNCHANGED <<module, list, num>>
BY DEF Leave, Goto, Alone, TypeInv, TypeOK

LEMMA RaiseClean ==
    ASSUME TypeInv, Clean, Settle, NEW t \in Threads, Raise(t), ~torn'
    PROVE  Clean'
<1>1. /\ pc[t] \in {"idle", "send", "return"} /\ Leave(t)
      /\ held' = [held EXCEPT ![t] = newfo[t]]
      /\ newfo' = [newfo EXCEPT ![t] = <<>>]
  BY DEF Raise
<1>2. held[t] \in Seq(Switches) /\ Whole(held[t]) /\ Flush(held[t])
  BY DEF TypeInv, TypeOK, Clean, Raise
<1>3. Alone(t) /\ pc'[t] = "idle" /\ counter'[t] = 0 /\ num' = num
  BY <1>1, LeaveAlone
<1>4. num[t] = 1
  BY <1>1 DEF Clean, Turn
<1>5. \A u \in Threads : Whole(newfo[u])' /\ Whole(held[u])'
  <2>1. /\ \A u \in Threads : newfo'[u] = IF u = t THEN <<>> ELSE newfo[u]
        /\ \A u \in Threads : held'[u] = IF u = t THEN newfo[t] ELSE held[u]
    BY <1>1 DEF TypeInv, TypeOK
  <2>2. \A u \in Threads : Whole(newfo'[u]) /\ Whole(held'[u])
    BY <2>1 DEF Clean, Whole
  <2> QED BY <2>2 DEF Whole, InBlock
<1>6. /\ Whole(topics)' /\ (topics' # <<>> \/ ~Open => settled \subseteq Known(topics'))
  BY <1>2, FlushClean
<1> QED BY <1>1, <1>3, <1>4, <1>5, <1>6, OffFile

LEMMA BeginClean ==
    ASSUME TypeInv, Clean, Settle, NEW t \in Threads, Begin(t)
    PROVE  Clean'
<1>1. /\ pc[t] = "idle" /\ pc' = [pc EXCEPT ![t] = "send"]
      /\ UNCHANGED <<module, list, num, counter, topics, newfo, held>>
  BY DEF Begin, Goto, local, late
<1>2. counter[t] = 0 /\ num[t] = 1
  BY <1>1 DEF Clean, Turn
<1>3. Alone(t) /\ pc'[t] = "send" /\ counter'[t] = 0 /\ num'[t] = 1
  BY <1>1, <1>2 DEF Alone, TypeInv, TypeOK
<1> QED BY <1>1, <1>3, Untouched, OffFile

LEMMA LeaveClean ==
    ASSUME TypeInv, Clean, Settle, NEW t \in Threads, pc[t] = "return", Leave(t),
           UNCHANGED <<topics, newfo, held>>
    PROVE  Clean'
<1>1. Alone(t) /\ pc'[t] = "idle" /\ counter'[t] = 0 /\ num' = num
  BY LeaveAlone
<1>2. num[t] = 1
  BY DEF Clean, Turn
<1> QED BY <1>1, <1>2, Untouched, OffFile

LEMMA RestartClean ==
    ASSUME TypeInv, Clean, Settle, Restart
    PROVE  Clean'
<1> USE DEF Restart, Reset
<1>1. \A u \in Threads : Turn(u)'
  BY DEF Turn
<1>2. \A u \in Threads : newfo'[u] = <<>> /\ held'[u] = <<>>
  OBVIOUS
<1>3. \A u \in Threads : Whole(newfo[u])' /\ Whole(held[u])'
  BY <1>2 DEF Whole
<1>4. Kept'
  BY DEF Kept, Settle, Known
<1>5. Whole(topics)'
  BY DEF Clean, Whole, InBlock
<1> QED BY <1>1, <1>3, <1>4, <1>5 DEF Clean

\* Once one thread has written into the text of another, it has.
LEMMA TornStays ==
    ASSUME TypeInv, [Next]_vars
    PROVE  torn => torn'
<1>1. CASE UNCHANGED vars
  BY <1>1 DEF vars
<1>2. CASE Next
  BY <1>2 DEF Next, Steps, Tell, Skip, Read, Rename, Close, AppendBlock, Return, Raise, Flush,
              Configure, Begin, Forward, Rest, Connect, Resubscribe, Restart
<1> QED BY <1>1, <1>2

\* Every step keeps whole texts and all modules.
LEMMA CleanStep ==
    ASSUME TypeInv, ~torn => Clean, [Next]_vars
    PROVE  ~torn' => Clean'
<1> SUFFICES ASSUME ~torn' PROVE Clean'
  OBVIOUS
<1> Clean
  BY TornStays
<1>1. CASE UNCHANGED vars
  BY <1>1 DEF Clean, Kept, Open, Turn, Whole, InBlock, Known, Switch, vars, local, late
<1>2. CASE Next
  <2>1. Settle
    BY <1>2 DEF Next
  <2>2. ASSUME NEW entry \in Entries, Configure(entry)
        PROVE  Clean'
    BY <2>1, <2>2, BeginClean DEF Configure, Threads
  <2>3. CASE Forward
    BY <2>1, <2>3, BeginClean DEF Forward, Threads
  <2>4. CASE Rest
    BY <2>1, <2>4, LeaveClean DEF Rest, Threads, late
  <2>5. CASE Connect
    <3>1. UNCHANGED <<topics, pc, module, list, num, counter, newfo, held>>
      BY <2>5 DEF Connect, local, late
    <3>2. Alone("offline") /\ pc["offline"] = "idle" /\ pc'["offline"] = "idle"
      BY <2>5, <3>1 DEF Connect, Alone
    <3>3. counter["offline"] = 0 /\ num["offline"] = 1
      BY <3>2 DEF Clean, Turn, Threads
    <3> QED BY <2>1, <3>1, <3>2, <3>3, Untouched, OffFile DEF Threads
  <2>6. CASE Resubscribe
    BY <2>1, <2>6, LeaveClean DEF Resubscribe, Threads, late
  <2>7. CASE Restart
    BY <2>1, <2>7, RestartClean
  <2> QED
    BY <1>2, <2>1, <2>2, <2>3, <2>4, <2>5, <2>6, <2>7, TellClean, SkipClean, ReadClean,
       RenameClean, CloseClean, AppendBlockClean, ReturnClean, RaiseClean DEF Next, Steps
<1> QED BY <1>1, <1>2

----------------------------------------------------------------------------
(* A thread that has the file for itself *)

\* The step of a thread that is at tcp_client: no other has the file for itself.
LEMMA OneAlone ==
    ASSUME AloneInv, NEW t \in Threads, pc[t] # "idle", UNCHANGED <<table, alone>>,
           \A u \in Threads \ {t} : pc'[u] = pc[u] /\ newfo'[u] = newfo[u],
           pc'[t] \in {"idle", "return"} => newfo'[t] = <<>>,
           alone[t] /\ pc'[t] # "idle" => Solo(t)'
    PROVE  AloneInv'
<1>1. Once'
  BY DEF AloneInv, Once
<1>2. ASSUME NEW u \in Threads \ {t}
      PROVE  /\ pc'[u] \in {"idle", "return"} => newfo'[u] = <<>>
             /\ ~(alone'[u] /\ pc'[u] # "idle")
  <2>1. alone[u] /\ pc[u] # "idle" => pc[t] = "idle"
    BY DEF AloneInv, Solo
  <2> QED BY <2>1 DEF AloneInv
<1> QED BY <1>1, <1>2 DEF AloneInv

\* A thread's pass, when nothing it is about changes.
LEMMA SameSolo ==
    ASSUME NEW u \in Threads, Solo(u), \A v \in Threads \ {u} : pc'[v] = "idle",
           pc'[u] = pc[u], module'[u] = module[u], list'[u] = list[u], at'[u] = at[u],
           told'[u] = told[u], newfo'[u] = newfo[u], UNCHANGED <<table, topics, torn>>
    PROVE  Solo(u)'
BY DEF Solo, Listed, Current, Shown, Holds, Switch

\* When thread t is at another module, the lines of one it has told stay listed.
LEMMA GoesOn ==
    ASSUME TypeInv, NEW t \in Threads, Solo(t), Continue(t), UNCHANGED table,
           told'[t] = told[t],
           pc[t] = "send" => at[t] \in DOMAIN table,
           ~torn' => /\ topics' = <<>> => newfo'[t] = <<>>
                     /\ topics' # <<>> => \A entry \in told[t], no \in 1..Outlets :
                           Holds(topics', entry, no) \/ Holds(newfo'[t], entry, no)
    PROVE  Solo(t)'
<1>1. /\ pc'[t] = "send" /\ at'[t] = at[t] + 1 /\ at[t] \in Nat
      /\ \A u \in Threads \ {t} : pc'[u] = pc[u]
  BY DEF Continue, Goto, TypeInv, TypeOK
<1>2. \A entry \in told'[t] : \E k \in DOMAIN table : table'[k] = entry /\ k < at'[t]
  <2> SUFFICES ASSUME NEW entry \in told[t]
               PROVE  \E k \in DOMAIN table : table[k] = entry /\ k < at[t] + 1
    BY <1>1
  <2>1. PICK k \in DOMAIN table : table[k] = entry /\ (k < at[t] \/ k = at[t])
    BY DEF Solo
  <2>2. k \in Nat
    BY DEF TypeInv, TypeOK
  <2> QED BY <1>1, <2>1, <2>2
<1>3. ~Current(t)' /\ Shown(t)' = topics'
  BY <1>1 DEF Current, Shown
<1>4. ~torn' => /\ Shown(t)' = <<>> => newfo'[t] = <<>>
                /\ Shown(t)' # <<>> => Listed(t)'
  BY <1>3 DEF Listed, Holds, Switch
<1> QED BY <1>1, <1>2, <1>3, <1>4 DEF Solo

\* Entries of one module told are the line that the thread is at.
LEMMA OtherModule ==
    ASSUME TypeInv, Once, NEW t \in Threads, Solo(t), Current(t), NEW entry \in told[t],
           entry # module[t]
    PROVE  entry.mac # module[t].mac
<1>1. PICK k \in DOMAIN table : table[k] = entry
  BY DEF Solo
<1>2. at[t] \in DOMAIN table /\ table[at[t]] = module[t]
  BY DEF Solo
<1> QED BY <1>1, <1>2 DEF Once

LEMMA TellSolo ==
    ASSUME TypeInv, AloneInv, NEW t \in Threads, Tell(t)
    PROVE  AloneInv'
<1>1. /\ pc[t] = "send" /\ at[t] \in 1..Len(table) /\ pc' = [pc EXCEPT ![t] = "read"]
      /\ module' = [module EXCEPT ![t] = table[at[t]]]
      /\ told' = [told EXCEPT ![t] = IF alone[t] THEN @ \cup {table[at[t]]} ELSE @]
      /\ UNCHANGED <<table, topics, torn, at, list, newfo, alone>>
  BY DEF Tell, Goto, late, TypeInv, TypeOK
<1>2. /\ pc'[t] = "read" /\ \A u \in Threads \ {t} : pc'[u] = pc[u]
      /\ module'[t] = table[at[t]] /\ (alone[t] => told'[t] = told[t] \cup {table[at[t]]})
      /\ at[t] \in DOMAIN table
  BY <1>1 DEF TypeInv, TypeOK
<1>3. ASSUME alone[t] PROVE Solo(t)'
  <2>1. Solo(t)
    BY <1>1, <1>3 DEF AloneInv
  <2>2. ~Current(t) /\ Current(t)' /\ Shown(t) = topics /\ Shown(t)' = topics
    BY <1>1, <1>2 DEF Current, Shown
  <2>3. \A entry \in told'[t] : \E k \in DOMAIN table :
          table[k] = entry /\ (k < at[t] \/ k = at[t])
    BY <1>2, <1>3, <2>1, <2>2 DEF Solo
  <2>4. ~torn /\ topics # <<>> => Listed(t)'
    BY <1>1, <1>2, <1>3, <2>1, <2>2 DEF Solo, Listed, Holds, Switch
  <2> QED BY <1>1, <1>2, <2>1, <2>2, <2>3, <2>4 DEF Solo
<1> QED BY <1>1, <1>2, <1>3, OneAlone

LEMMA SkipSolo ==
    ASSUME TypeInv, AloneInv, NEW t \in Threads, Skip(t)
    PROVE  AloneInv'
<1>1. /\ pc[t] = "send" /\ at[t] \in DOMAIN table /\ Continue(t)
      /\ UNCHANGED <<table, topics, torn, newfo, alone, told>>
  BY DEF Skip, late, history, TypeInv, TypeOK
<1>2. pc'[t] = "send" /\ \A u \in Threads \ {t} : pc'[u] = pc[u]
  BY <1>1 DEF Continue, Goto, TypeInv, TypeOK
<1>3. ASSUME alone[t] PROVE Solo(t)'
  <2>1. Solo(t) /\ ~Current(t) /\ Shown(t) = topics
    BY <1>1, <1>3 DEF AloneInv, Current, Shown
  <2> QED BY <1>1, <2>1, GoesOn DEF Solo, Listed
<1> QED BY <1>1, <1>2, <1>3, OneAlone

LEMMA ReadSolo ==
    ASSUME TypeInv, AloneInv, NEW t \in Threads, Read(t)
    PROVE  AloneInv'
<1>1. /\ pc[t] = "read" /\ UNCHANGED <<table, topics, torn, newfo, alone, told>>
  BY DEF Read, late, history
<1>2. CASE topics = <<>>
  <2>1. Continue(t)
    BY <1>2 DEF Read
  <2>2. pc'[t] = "send" /\ \A u \in Threads \ {t} : pc'[u] = pc[u]
    BY <2>1 DEF Continue, Goto, TypeInv, TypeOK
  <2>3. ASSUME alone[t] PROVE Solo(t)'
    <3>1. Solo(t) /\ Shown(t) = topics
      BY <1>1, <2>3 DEF AloneInv, Shown
    <3>2. ~torn => newfo[t] = <<>>
      BY <1>2, <3>1 DEF Solo
    <3> QED BY <1>1, <1>2, <2>1, <3>1, <3>2, GoesOn
  <2> QED BY <1>1, <2>2, <2>3, OneAlone
<1>3. CASE topics # <<>>
  <2>1. /\ pc'[t] = "seek" /\ list'[t] = topics /\ UNCHANGED <<at, module>>
        /\ \A u \in Threads \ {t} : pc'[u] = pc[u]
    BY <1>3 DEF Read, Goto, TypeInv, TypeOK
  <2>2. ASSUME alone[t] PROVE Solo(t)'
    <3>1. Solo(t) /\ Shown(t) = topics /\ Shown(t)' = topics /\ Current(t) /\ Current(t)'
      BY <1>1, <2>1, <2>2 DEF AloneInv, Shown, Current
    <3>2. ~torn => Listed(t)'
      BY <1>1, <1>3, <2>1, <3>1 DEF Solo, Listed, Holds, Switch
    <3> QED BY <1>1, <1>3, <2>1, <3>1, <3>2 DEF Solo
  <2> QED BY <1>1, <2>1, <2>2, OneAlone
<1> QED BY <1>2, <1>3

\* Only lines of the module the thread is at are renamed.
LEMMA RenameSolo ==
    ASSUME TypeInv, AloneInv, NEW t \in Threads, Rename(t)
    PROVE  AloneInv'
<1> DEFINE l == list[t]  new == Switch(module[t], counter[t] + 1)
<1>1. PICK i \in DOMAIN l : /\ NextOf(t, i)
                            /\ list' = [list EXCEPT ![t][i] = new]
  BY DEF Rename
<1>2. /\ pc[t] = "seek" /\ pc' = [pc EXCEPT ![t] = "close"]
      /\ UNCHANGED <<table, torn, at, module, newfo, alone, told>>
  BY DEF Rename, Goto, late, history
<1>3. pc'[t] = "close" /\ list'[t] = [l EXCEPT ![i] = new]
      /\ \A u \in Threads \ {t} : pc'[u] = pc[u]
  BY <1>1, <1>2 DEF TypeInv, TypeOK
<1>4. ASSUME alone[t] PROVE Solo(t)'
  <2>1. Solo(t) /\ Shown(t) = topics /\ Shown(t)' = list'[t] /\ Current(t) /\ Current(t)'
    BY <1>2, <1>3, <1>4 DEF AloneInv, Shown, Current
  <2>2. ASSUME ~torn PROVE Shown(t)' # <<>> /\ Listed(t)'
    <3>1. l \in Seq(Lines) /\ i \in Nat /\ topics = l /\ l # <<>>
      BY <1>2, <2>1, <2>2 DEF Solo, TypeInv, TypeOK
    <3>2. /\ DOMAIN list'[t] = DOMAIN l /\ list'[t] # <<>>
          /\ \A j \in DOMAIN l : j # i => list'[t][j] = l[j]
      BY <1>3, <3>1
    <3>3. ASSUME NEW entry \in told[t], entry # module[t], NEW no \in 1..Outlets,
                 Holds(topics, entry, no)
          PROVE  Holds(list'[t], entry, no)
      <4>1. PICK j \in DOMAIN l : l[j] = Switch(entry, no)
        BY <3>1, <3>3 DEF Holds
      <4>2. l[i].mac = module[t].mac /\ l[j].mac = entry.mac
        BY <1>1, <4>1 DEF NextOf, Switch
      <4>3. entry.mac # module[t].mac
        BY <2>1, <3>3, OtherModule DEF AloneInv
      <4>4. j # i
        BY <4>2, <4>3
      <4> QED BY <3>2, <4>1, <4>4 DEF Holds
    <3>4. Listed(t)
      BY <2>1, <2>2, <3>1 DEF Solo
    <3>5. \A entry \in told[t] : entry # module[t] => \A no \in 1..Outlets :
             Holds(list'[t], entry, no) \/ Holds(newfo[t], entry, no)
      BY <2>1, <3>3, <3>4 DEF Listed
    <3> HIDE DEF new, l
    <3>6. Listed(t)'
      BY <1>2, <2>1, <3>5 DEF Listed, Holds, Switch
    <3> QED BY <2>1, <3>2, <3>6
  <2> HIDE DEF new, l
  <2>3. \A u \in Threads \ {t} : pc'[u] = "idle"
    BY <1>3, <2>1 DEF Solo
  <2> QED BY <1>2, <1>3, <2>1, <2>2, <2>3 DEF Solo
<1> HIDE DEF new, l
<1> QED BY <1>2, <1>3, <1>4, OneAlone

\* Of the module whose last switch has been renamed all switches are listed.
LEMMA CloseSolo ==
    ASSUME TypeInv, ~torn => Clean, AloneInv, NEW t \in Threads, Close(t)
    PROVE  AloneInv'
<1>1. /\ pc[t] = "close" /\ UNCHANGED <<table, newfo, alone, told>>
  BY DEF Close, late, history
<1>2. torn => torn'
  BY DEF Close
<1>3. ~torn' => topics' = list[t] /\ list[t] # <<>>
  <2>1. PICK sticks \in Ends(topics) : /\ topics' = list[t] \o sticks
                                      /\ torn' = (torn \/ sticks # <<>>)
    BY DEF Close, Text
  <2>2. list[t] \in Seq(Lines)
    BY DEF TypeInv, TypeOK
  <2>3. ~torn => list[t] # <<>>
    BY <1>1 DEF Clean, Turn
  <2> QED BY <2>1, <2>2, <2>3, ConcatEmptySeq
<1>4. ASSUME alone[t]
      PROVE  /\ Solo(t) /\ Current(t)
             /\ ~torn' => \A entry \in told[t] : entry # module[t] => \A no \in 1..Outlets :
                   Holds(list[t], entry, no) \/ Holds(newfo[t], entry, no)
  <2>1. Solo(t) /\ Shown(t) = list[t] /\ Current(t)
    BY <1>1, <1>4 DEF AloneInv, Shown, Current
  <2> QED BY <1>2, <1>3, <2>1 DEF Solo, Listed
<1>5. CASE Complete(counter[t])
  <2>1. Continue(t) /\ counter[t] = Outlets
    BY <1>5 DEF Close, Complete
  <2>2. pc'[t] = "send" /\ \A u \in Threads \ {t} : pc'[u] = pc[u]
    BY <2>1 DEF Continue, Goto, TypeInv, TypeOK
  <2>3. ~torn' => \A no \in 1..Outlets : Holds(list[t], module[t], no)
    BY <1>1, <1>2, <2>1 DEF Clean, Turn, Holds
  <2>4. ASSUME alone[t] PROVE Solo(t)'
    <3>1. ~torn' => \A entry \in told[t], no \in 1..Outlets :
             Holds(topics', entry, no) \/ Holds(newfo'[t], entry, no)
      <4> SUFFICES ASSUME ~torn', NEW entry \in told[t], NEW no \in 1..Outlets
                   PROVE  Holds(topics', entry, no) \/ Holds(newfo'[t], entry, no)
        OBVIOUS
      <4>1. CASE entry = module[t]
        BY <1>3, <2>3, <4>1
      <4>2. CASE entry # module[t]
        BY <1>1, <1>3, <1>4, <2>4, <4>2
      <4> QED BY <4>1, <4>2
    <3>2. Solo(t) /\ (~torn' => topics' # <<>>)
      BY <1>3, <1>4, <2>4
    <3> QED BY <1>1, <2>1, <3>1, <3>2, GoesOn
  <2> QED BY <1>1, <2>2, <2>4, OneAlone
<1>6. CASE ~Complete(counter[t])
  <2>1. /\ pc'[t] = "seek" /\ UNCHANGED <<at, module, list>>
        /\ \A u \in Threads \ {t} : pc'[u] = pc[u]
    BY <1>6 DEF Close, Goto, local, TypeInv, TypeOK
  <2>2. ASSUME alone[t] PROVE Solo(t)'
    <3>1. Solo(t) /\ Current(t) /\ Current(t)' /\ Shown(t)' = topics'
      BY <1>4, <2>1, <2>2 DEF Current, Shown
    <3>2. ~torn' => Listed(t)'
      BY <1>1, <1>3, <1>4, <2>1, <2>2, <3>1 DEF Listed, Holds, Switch
    <3> QED BY <1>1, <1>2, <1>3, <2>1, <3>1, <3>2 DEF Solo
  <2> QED BY <1>1, <2>1, <2>2, OneAlone
<1> QED BY <1>5, <1>6

\* What is in one of two texts is in the text of both.
LEMMA HoldsBoth ==
    ASSUME NEW s \in Seq(Lines), NEW e \in Seq(Lines), NEW entry, NEW no,
           Holds(s, entry, no) \/ Holds(e, entry, no)
    PROVE  Holds(s \o e, entry, no)
<1>1. CASE Holds(s, entry, no)
  <2>1. PICK i \in DOMAIN s : s[i] = Switch(entry, no)
    BY <1>1 DEF Holds
  <2>2. i \in DOMAIN (s \o e) /\ (s \o e)[i] = s[i]
    OBVIOUS
  <2> QED BY <2>1, <2>2 DEF Holds
<1>2. CASE Holds(e, entry, no)
  <2>1. PICK i \in DOMAIN e : e[i] = Switch(entry, no)
    BY <1>2 DEF Holds
  <2>2. Len(s) + i \in DOMAIN (s \o e) /\ (s \o e)[Len(s) + i] = e[i]
    OBVIOUS
  <2> QED BY <2>1, <2>2 DEF Holds
<1> QED BY <1>1, <1>2

LEMMA AppendBlockSolo ==
    ASSUME TypeInv, ~torn => Clean, AloneInv, NEW t \in Threads, AppendBlock(t)
    PROVE  AloneInv'
<1>1. /\ pc[t] = "seek" /\ Continue(t) /\ UNCHANGED <<table, alone, told>>
      /\ newfo' = [newfo EXCEPT ![t] = Block(module[t])] /\ Flush(newfo[t])
  BY DEF AppendBlock, history
<1>2. /\ pc'[t] = "send" /\ newfo'[t] = Block(module[t])
      /\ \A u \in Threads \ {t} : pc'[u] = pc[u] /\ newfo'[u] = newfo[u]
  BY <1>1 DEF Continue, Goto, TypeInv, TypeOK
<1>3. /\ topics \in Seq(Lines) /\ newfo[t] \in Seq(Lines)
      /\ topics' = topics \o newfo[t] /\ (torn => torn')
  BY <1>1 DEF TypeInv, TypeOK, Flush, Lines
<1>4. ASSUME alone[t] PROVE Solo(t)'
  <2>1. Solo(t) /\ Current(t) /\ Shown(t) = topics
    BY <1>1, <1>4 DEF AloneInv, Current, Shown
  <2>2. \A no \in 1..Outlets : Holds(newfo'[t], module[t], no)
    BY <1>2 DEF Holds, Block
  <2>3. ~torn => topics # <<>>
    <3> SUFFICES ASSUME ~torn, topics = <<>> PROVE FALSE
      OBVIOUS
    <3>1. list[t] = <<>> /\ Turn(t)
      BY <1>1, <2>1 DEF Solo, Clean
    <3> QED BY <1>1, <3>1 DEF Turn
  <2>4. ~torn => \A entry \in told[t], no \in 1..Outlets :
             Holds(topics', entry, no) \/ Holds(newfo'[t], entry, no)
    <3> SUFFICES ASSUME ~torn, NEW entry \in told[t], NEW no \in 1..Outlets
                 PROVE  Holds(topics', entry, no) \/ Holds(newfo'[t], entry, no)
      OBVIOUS
    <3>1. CASE entry = module[t]
      BY <2>2, <3>1
    <3>2. CASE entry # module[t]
      <4>1. Holds(topics, entry, no) \/ Holds(newfo[t], entry, no)
        BY <2>1, <2>3, <3>2 DEF Solo, Listed
      <4> QED BY <1>3, <4>1, HoldsBoth
    <3> QED BY <3>1, <3>2
  <2>5. ~torn => topics' # <<>>
    BY <1>3, <2>3, AppendKeeps
  <2> QED BY <1>1, <1>3, <2>1, <2>4, <2>5, GoesOn
<1> QED BY <1>1, <1>2, <1>4, OneAlone

\* The file of the last new module is closed when tcp_client returns.
LEMMA ReturnSolo ==
    ASSUME TypeInv, AloneInv, NEW t \in Threads, Return(t)
    PROVE  AloneInv'
<1>1. /\ pc[t] = "send" /\ pc' = [pc EXCEPT ![t] = "return"]
      /\ newfo' = [newfo EXCEPT ![t] = <<>>] /\ Flush(newfo[t])
      /\ UNCHANGED <<table, at, module, list, alone, told>>
  BY DEF Return, Goto, local, history
<1>2. /\ pc'[t] = "return" /\ newfo'[t] = <<>>
      /\ \A u \in Threads \ {t} : pc'[u] = pc[u] /\ newfo'[u] = newfo[u]
  BY <1>1 DEF TypeInv, TypeOK
<1>3. /\ topics \in Seq(Lines) /\ newfo[t] \in Seq(Lines)
      /\ topics' = topics \o newfo[t] /\ (torn => torn')
  BY <1>1 DEF TypeInv, TypeOK, Flush, Lines
<1>4. ASSUME alone[t] PROVE Solo(t)'
  <2>1. Solo(t) /\ ~Current(t) /\ ~Current(t)' /\ Shown(t) = topics /\ Shown(t)' = topics'
    BY <1>1, <1>2, <1>4 DEF AloneInv, Current, Shown
  <2>2. ~torn /\ topics' # <<>> => Listed(t)'
    <3> SUFFICES ASSUME ~torn, topics' # <<>>, NEW entry \in told[t], NEW no \in 1..Outlets
                 PROVE  Holds(topics', entry, no)
      BY <1>1, <2>1 DEF Listed, Holds, Switch
    <3>1. topics # <<>>
      <4> SUFFICES ASSUME topics = <<>> PROVE FALSE
        OBVIOUS
      <4>1. newfo[t] = <<>>
        BY <2>1 DEF Solo
      <4> QED BY <1>3, <4>1, ConcatEmptySeq
    <3>2. Holds(topics, entry, no) \/ Holds(newfo[t], entry, no)
      BY <2>1, <3>1 DEF Solo, Listed
    <3> QED BY <1>3, <3>2, HoldsBoth
  <2>3. \A u \in Threads \ {t} : pc'[u] = "idle"
    BY <1>2, <2>1 DEF Solo
  <2>4. \A entry \in told'[t] : \E k \in DOMAIN table' : table'[k] = entry /\ k < at'[t]
    BY <1>1, <2>1 DEF Solo
  <2> QED BY <1>2, <1>3, <2>1, <2>2, <2>3, <2>4 DEF Solo
<1> QED BY <1>1, <1>2, <1>4, OneAlone

\* A thread that raises while the other has the file for itself held nothing.
LEMMA RaiseSolo ==
    ASSUME TypeInv, AloneInv, NEW t \in Threads, Raise(t)
    PROVE  AloneInv'
<1>1. /\ pc' = [pc EXCEPT ![t] = "idle"] /\ newfo' = [newfo EXCEPT ![t] = <<>>]
      /\ alone' = [u \in Threads |-> u = t \/ (alone[u] /\ held[t] = <<>>)]
      /\ told' = [told EXCEPT ![t] = {}] /\ at' = [at EXCEPT ![t] = 1]
      /\ UNCHANGED <<table, module, list>> /\ Flush(held[t])
  BY DEF Raise, Leave, Goto
<1>2. /\ pc'[t] = "idle" /\ newfo'[t] = <<>>
      /\ \A u \in Threads \ {t} : /\ pc'[u] = pc[u] /\ newfo'[u] = newfo[u]
                                  /\ told'[u] = told[u] /\ at'[u] = at[u]
                                  /\ (alone'[u] => alone[u] /\ held[t] = <<>>)
  BY <1>1 DEF TypeInv, TypeOK
<1>3. Once'
  BY <1>1 DEF AloneInv, Once
<1>4. ASSUME NEW u \in Threads \ {t}, alone'[u], pc'[u] # "idle"
      PROVE  Solo(u)'
  <2>1. Solo(u) /\ held[t] = <<>>
    BY <1>2, <1>4 DEF AloneInv
  <2>2. UNCHANGED <<topics, torn>>
    BY <1>1, <2>1, ConcatEmptySeq DEF Flush, TypeInv, TypeOK
  <2>3. \A v \in Threads \ {u} : pc'[v] = "idle"
    BY <1>2, <2>1 DEF Solo
  <2> QED BY <1>1, <1>2, <2>1, <2>2, <2>3, SameSolo
<1> QED BY <1>2, <1>3, <1>4 DEF AloneInv

\* A pass begins with nothing told.
LEMMA BeginSolo ==
    ASSUME TypeInv, AloneInv, NEW t \in Threads, Begin(t), Once'
    PROVE  AloneInv'
<1>1. /\ pc[t] = "idle" /\ pc' = [pc EXCEPT ![t] = "send"] /\ newfo' = newfo
      /\ alone' = [u \in Threads |-> \A v \in Threads \ {t} : pc[v] = "idle"]
      /\ told' = Reset({})
  BY DEF Begin, Goto, late
<1>2. /\ pc'[t] = "send" /\ \A u \in Threads \ {t} : pc'[u] = pc[u]
      /\ told'[t] = {} /\ newfo[t] = <<>>
  BY <1>1 DEF TypeInv, TypeOK, Reset, AloneInv
<1>3. ASSUME NEW u \in Threads, alone'[u], pc'[u] # "idle"
      PROVE  Solo(u)'
  <2>1. u = t /\ \A v \in Threads \ {t} : pc'[v] = "idle"
    BY <1>1, <1>2, <1>3
  <2>2. ~Current(t)' /\ newfo'[t] = <<>>
    BY <1>1, <1>2 DEF Current
  <2> QED BY <1>2, <2>1, <2>2 DEF Solo, Listed
<1> QED BY <1>1, <1>2, <1>3 DEF AloneInv

\* A message on /config/ adds a module only when it is not in data1.txt.
LEMMA NamedOnce ==
    ASSUME table \in Seq(Entries), Once, NEW entry \in Entries, table' = Named(entry)
    PROVE  Once'
<1>1. CASE \E i \in DOMAIN table : table[i].mac = entry.mac
  <2>1. /\ DOMAIN table' = DOMAIN table
        /\ \A i \in DOMAIN table : table'[i].mac = table[i].mac
    BY <1>1 DEF Named
  <2> QED BY <2>1 DEF Once
<1>2. CASE ~\E i \in DOMAIN table : table[i].mac = entry.mac
  <2>1. /\ DOMAIN table' = 1..(Len(table) + 1) /\ table'[Len(table) + 1] = entry
        /\ \A i \in 1..Len(table) : table'[i] = table[i] /\ table[i].mac # entry.mac
    BY <1>2 DEF Named
  <2>2. Len(table) \in Nat /\ DOMAIN table = 1..Len(table)
    OBVIOUS
  <2>3. \A i \in DOMAIN table' : i \in 1..Len(table) \/ i = Len(table) + 1
    BY <2>1, <2>2
  <2> QED BY <2>1, <2>2, <2>3 DEF Once
<1> QED BY <1>1, <1>2

LEMMA LeaveSolo ==
    ASSUME TypeInv, AloneInv, NEW t \in Threads, pc[t] = "return", Leave(t),
           UNCHANGED <<table, newfo, alone>>
    PROVE  AloneInv'
<1>1. pc'[t] = "idle" /\ newfo[t] = <<>> /\ \A u \in Threads \ {t} : pc'[u] = pc[u]
  BY DEF Leave, Goto, TypeInv, TypeOK, AloneInv
<1> QED BY <1>1, OneAlone

\* Every step keeps what is known of a thread that has the file for itself.
LEMMA AloneStep ==
    ASSUME TypeInv, ~torn => Clean, AloneInv, [Next]_vars
    PROVE  AloneInv'
<1>1. ASSUME UNCHANGED <<table, topics, torn, pc, at, module, list, newfo, alone, told>>
      PROVE  AloneInv'
  <2>1. ASSUME NEW u \in Threads, alone[u], pc[u] # "idle"
        PROVE  Solo(u)'
    <3>1. Solo(u) /\ \A v \in Threads \ {u} : pc'[v] = "idle"
      BY <1>1, <2>1 DEF AloneInv, Solo
    <3> QED BY <1>1, <3>1, SameSolo
  <2>2. Once'
    BY <1>1 DEF AloneInv, Once
  <2> QED BY <1>1, <2>1, <2>2 DEF AloneInv
<1>2. CASE UNCHANGED vars
  BY <1>1, <1>2 DEF vars, local, late, history
<1>3. CASE Next
  <2>1. ASSUME NEW entry \in Entries, Configure(entry)
        PROVE  AloneInv'
    <3>1. Once' /\ Begin("offline")
      BY <2>1, NamedOnce DEF Configure, AloneInv, TypeInv, TypeOK
    <3> QED BY <3>1, BeginSolo DEF Threads
  <2>2. CASE Forward
    <3>1. Once' /\ Begin("router")
      BY <2>2 DEF Forward, AloneInv, Once
    <3> QED BY <3>1, BeginSolo DEF Threads
  <2>3. CASE Rest
    BY <2>3, LeaveSolo DEF Rest, Threads, late
  <2>4. CASE Connect
    BY <1>1, <2>4 DEF Connect, local, late, history
  <2>5. CASE Resubscribe
    BY <2>5, LeaveSolo DEF Resubscribe, Threads, late
  <2>6. CASE Restart
    <3>1. Once' /\ \A u \in Threads : pc'[u] = "idle" /\ newfo'[u] = <<>>
      BY <2>6 DEF Restart, Reset, AloneInv, Once
    <3> QED BY <3>1 DEF AloneInv
  <2> QED
    BY <1>3, <2>1, <2>2, <2>3, <2>4, <2>5, <2>6, TellSolo, SkipSolo, ReadSolo,
       RenameSolo, CloseSolo, AppendBlockSolo, ReturnSolo, RaiseSolo DEF Next, Steps
<1> QED BY <1>2, <1>3

----------------------------------------------------------------------------
(* Theorems *)

LEMMA InitInv == Init => IInv
<1> SUFFICES ASSUME Init PROVE IInv
  OBVIOUS
<1>1. TypeInv /\ HearsKnown
  BY InitTypes
<1>2. Whole(topics)
  <2>1. topics = <<Header>>
    BY DEF Init
  <2>2. InBlock(topics, 1)
    BY <2>1, TopicsAssumption DEF InBlock, Header
  <2> QED BY <2>1, <2>2 DEF Whole
<1>3. Clean
  <2>1. \A u \in Threads : newfo[u] = <<>> /\ held[u] = <<>> /\ Turn(u)
    BY DEF Init, Reset, Turn
  <2>2. \A u \in Threads : Whole(newfo[u]) /\ Whole(held[u])
    BY <2>1 DEF Whole
  <2>3. Kept
    BY DEF Init, Kept
  <2> QED BY <1>2, <2>1, <2>2, <2>3 DEF Clean
<1>4. AloneInv
  BY DEF Init, Reset, AloneInv, Once
<1> QED BY <1>1, <1>3, <1>4 DEF IInv

LEMMA StepInv == IInv /\ [Next]_vars => IInv'
BY TypesStep, CleanStep, AloneStep DEF IInv

\* Every variable keeps its type.
THEOREM TypeCorrect == Spec => []TypeOK
<1>1. IInv => TypeOK
  BY DEF IInv, TypeInv
<1> QED BY <1>1, InitInv, StepInv, PTL DEF Spec

\* However often /config/ changes the file, the offline thread hears the
\* statuses of the switches known when the program started, and no others.
THEOREM DeafToNews == Spec => []HearsKnown
<1>1. IInv => HearsKnown
  BY DEF IInv
<1> QED BY <1>1, InitInv, StepInv, PTL DEF Spec

\* Whatever is written back from old copies, and wherever the power fails, the
\* lines of a module stay one block, from its first switch to its last, and no
\* count is carried over to the next module: until one thread has written into
\* the text of another.
THEOREM WholeBlocks == Spec => []Blocks
<1>1. IInv => Blocks
  BY DEF IInv, Blocks, Clean, Whole, Turn
<1> QED BY <1>1, InitInv, StepInv, PTL DEF Spec

\* A thread that had the file for itself returns from tcp_client with all
\* switches listed of the modules it has told, under the names it read.
THEOREM ToldAreListed == Spec => []AllListed
<1>1. IInv => AllListed
  <2> SUFFICES ASSUME IInv, NEW t \in Threads, pc[t] = "return", alone[t], ~torn,
                      topics # <<>>, NEW entry \in told[t], NEW no \in 1..Outlets
               PROVE  Holds(topics, entry, no)
    BY DEF AllListed, Holds
  <2>1. Solo(t) /\ newfo[t] = <<>>
    BY DEF IInv, AloneInv
  <2>2. Holds(topics, entry, no) \/ Holds(newfo[t], entry, no)
    BY <2>1 DEF Solo, Listed, Current, Shown
  <2> QED BY <2>1, <2>2 DEF Holds
<1> QED BY <1>1, InitInv, StepInv, PTL DEF Spec

\* A file that is empty for good.
LEMMA WipedStays ==
    ASSUME TypeInv, Wiped, [Next]_vars
    PROVE  Wiped'
<1> USE DEF Wiped
<1>1. \A u \in Threads : newfo[u] = <<>> /\ held[u] = <<>> /\ pc[u] \notin {"seek", "close"}
  BY DEF Reset
<1>2. <<>> \o <<>> = <<>>
  OBVIOUS
<1>3. CASE UNCHANGED vars
  BY <1>3 DEF vars, local, late, Reset
<1>4. CASE Next
  <2>1. ASSUME NEW t \in Threads, Tell(t) \/ Skip(t) \/ Read(t)
        PROVE  Wiped'
    <3>1. /\ UNCHANGED <<topics, newfo, held>>
          /\ \A u \in Threads : pc'[u] = pc[u] \/ pc'[u] \in {"send", "read"}
      BY <2>1 DEF Tell, Skip, Read, Continue, Goto, late, TypeInv, TypeOK
    <3> QED BY <1>1, <3>1 DEF Reset
  <2>2. ASSUME NEW t \in Threads, Rename(t) \/ Close(t) \/ AppendBlock(t)
        PROVE  FALSE
    BY <1>1, <2>2 DEF Rename, Close, AppendBlock
  <2>3. ASSUME NEW t \in Threads, Return(t)
        PROVE  Wiped'
    <3>1. /\ topics' = <<>> /\ held' = held /\ newfo' = [newfo EXCEPT ![t] = <<>>]
          /\ \A u \in Threads : pc'[u] = pc[u] \/ pc'[u] = "return"
      BY <1>1, <1>2, <2>3 DEF Return, Flush, Goto, TypeInv, TypeOK
    <3> QED BY <1>1, <3>1 DEF Reset
  <2>4. ASSUME NEW t \in Threads, Raise(t)
        PROVE  Wiped'
    <3>1. /\ topics' = <<>> /\ held' = [held EXCEPT ![t] = <<>>]
          /\ newfo' = [newfo EXCEPT ![t] = <<>>]
          /\ \A u \in Threads : pc'[u] = pc[u] \/ pc'[u] = "idle"
      BY <1>1, <1>2, <2>4 DEF Raise, Flush, Leave, Goto, TypeInv, TypeOK
    <3> QED BY <1>1, <3>1 DEF Reset
  <2>5. ASSUME NEW t \in Threads, Begin(t)
        PROVE  Wiped'
    <3>1. /\ UNCHANGED <<topics, newfo, held>>
          /\ \A u \in Threads : pc'[u] = pc[u] \/ pc'[u] = "send"
      BY <2>5 DEF Begin, Goto, late, TypeInv, TypeOK
    <3> QED BY <1>1, <3>1 DEF Reset
  <2>6. CASE Rest \/ Connect \/ Resubscribe
    <3>1. /\ UNCHANGED <<topics, newfo, held>>
          /\ \A u \in Threads : pc'[u] = pc[u] \/ pc'[u] = "idle"
      BY <2>6 DEF Rest, Connect, Resubscribe, Leave, Goto, late, TypeInv, TypeOK
    <3> QED BY <1>1, <3>1 DEF Reset
  <2>7. CASE Restart
    BY <2>7 DEF Restart, Reset
  <2> QED
    BY <1>4, <2>1, <2>2, <2>3, <2>4, <2>5, <2>6, <2>7
       DEF Next, Steps, Configure, Forward, Threads
<1> QED BY <1>3, <1>4

\* When the last thread is back no thread has had the file open, and no module
\* is taken from it.
LEMMA LastBack ==
    ASSUME TypeInv, [Next]_vars, pc' = Reset("idle"), ~Restart
    PROVE  ~Open /\ Known(topics) \subseteq Known(topics')
<1>1. \A u \in Threads : pc'[u] = "idle"
  BY DEF Reset
<1>2. CASE UNCHANGED vars
  BY <1>1, <1>2 DEF vars, Open, Known
<1>3. CASE Next
  <2>1. ASSUME NEW t \in Threads,
               Tell(t) \/ Skip(t) \/ Read(t) \/ Rename(t) \/ Close(t) \/ AppendBlock(t)
                 \/ Return(t) \/ Begin(t)
        PROVE  FALSE
    <3>1. pc'[t] # "idle"
      BY <2>1 DEF Tell, Skip, Read, Rename, Close, AppendBlock, Return, Begin, Continue, Goto,
                  TypeInv, TypeOK
    <3> QED BY <1>1, <3>1
  <2>2. ASSUME NEW t \in Threads, Raise(t)
        PROVE  ~Open /\ Known(topics) \subseteq Known(topics')
    <3>1. /\ pc[t] # "close" /\ \A u \in Threads \ {t} : pc'[u] = pc[u]
          /\ Flush(held[t]) /\ held[t] \in Seq(Switches)
      BY <2>2 DEF Raise, Leave, Goto, TypeInv, TypeOK
    <3>2. ~Open
      BY <1>1, <3>1 DEF Open
    <3> QED BY <3>1, <3>2, FlushType
  <2>3. CASE Rest \/ Connect \/ Resubscribe
    <3>1. topics' = topics /\ \A u \in Threads : pc'[u] = pc[u] \/ pc[u] = "return"
      BY <2>3 DEF Rest, Connect, Resubscribe, Leave, Goto, TypeInv, TypeOK
    <3> QED BY <1>1, <3>1 DEF Open, Known
  <2> QED
    BY <1>3, <2>1, <2>2, <2>3 DEF Next, Steps, Configure, Forward, Threads
<1> QED BY <1>2, <1>3

\* No step that leaves the file closed takes a module from it that it had when
\* last no thread was at it, but one: a power cut that leaves it empty for good.
THEOREM AllOrNothing == Spec => NoneLost
<1> DEFINE A == IF Wiped THEN Wiped'
                ELSE ~torn' /\ ~Open' => settled \subseteq Known(topics') \/ (Restart /\ Wiped')
<1>1. IInv /\ [Next]_vars => A
  <2> SUFFICES ASSUME IInv, [Next]_vars, ~Wiped, ~torn', ~Open'
               PROVE  settled \subseteq Known(topics') \/ (Restart /\ Wiped')
    BY WipedStays DEF IInv
  <2>1. Clean /\ Clean'
    BY StepInv, TornStays DEF IInv
  <2>2. CASE ~Restart /\ pc' = Reset("idle")
    BY <2>1, <2>2, LastBack DEF Clean, Kept, IInv
  <2>4. CASE pc' # Reset("idle")
    <3>1. settled' = settled
      BY <2>4 DEF Next, Settle, vars
    <3> QED BY <2>1, <3>1 DEF Clean, Kept, Known
  <2>3. CASE Restart
    <3>1. topics' = topics /\ (topics' = <<>> => Wiped')
      BY <2>3 DEF Restart, Wiped, Reset
    <3>2. topics # <<>> => settled \subseteq Known(topics)
      BY <2>1 DEF Clean, Kept
    <3> QED BY <2>3, <3>1, <3>2 DEF Known
  <2> QED BY <2>2, <2>3, <2>4
<1>2. IInv /\ [Next]_vars => [A]_vars
  BY <1>1
<1> QED BY <1>2, InitInv, StepInv, PTL DEF Spec, NoneLost

=============================================================================
