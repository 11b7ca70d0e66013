------------------------------- MODULE Topics -------------------------------
(***************************************************************************)
(* topics.txt, the switches the hub's threads subscribe at their brokers:  *)
(* a line per switch, Outlets lines for each module. tcp_client (new.py)   *)
(* writes the lines of each module it has sent ASDFG to, in the thread     *)
(* offline for a message on /config/, in the thread router after an outage.*)
(* Mosquitto_1.py reads the file when the program starts, and again for    *)
(* each message on /config/.                                               *)
(*                                                                         *)
(* Nothing locks the file. A thread reads it, and for each line of its     *)
(* module opens it anew, which empties it, and writes back all it has      *)
(* read: every read, opening and closing is a step. The lines of a new     *)
(* module are appended, but that file (newfo) is closed only when the next *)
(* is opened or tcp_client returns; when it raises instead, the thread's   *)
(* traceback keeps them (held) until the thread's next exception. How      *)
(* data1.txt is kept is in Registry; here it has a module once, and is     *)
(* rewritten in one step.                                                  *)
(***************************************************************************)
EXTENDS Integers, Sequences

CONSTANTS
    Modules,     \* the switch modules, by their MAC address
    Names,       \* the names people give them
    Outlets,     \* the switches of a module
    MaxLines     \* bound on the lines of topics.txt

ASSUME TopicsAssumption == /\ {"header", "none", "scrap"} \cap Modules = {}
                           /\ Outlets \in Nat \ {0} /\ MaxLines \in Nat

Threads  == {"offline", "router"}
Entries  == [mac : Modules, name : Names]
Nobody   == [mac |-> "none", name |-> "none"]
Header   == [mac |-> "header", name |-> "test", no |-> 0]
Scrap    == [mac |-> "scrap", name |-> "none", no |-> 0]  \* an end of a line
Switches == [mac : Modules, name : Names, no : 1..Outlets]
Lines    == Switches \cup {Header, Scrap}

VARIABLES
    table,       \* the modules of data1.txt
    topics,      \* the lines of topics.txt
    data_topic,  \* those it had when the program started
    session,     \* the offline client is connected
    subs,        \* the topics of switches it is subscribed to
    pc,          \* where each thread is
    at,          \* num: the line of data1.txt it is at, from 1
    module,      \* name, mac: that line, when it has sent ASDFG for it
    list,        \* data: the lines of topics.txt it has read
    num,         \* the line of these it is at, from 1
    counter,     \* the lines of the module it has rewritten
    newfo,       \* the lines it has appended and not closed
    held,        \* those of a pass that failed
    alone,       \* history: no other thread was at the file in its pass
    told,        \* history: if so, the lines it has sent ASDFG for in it
    torn,        \* history: one thread has written into the text of another
    settled      \* history: the modules in the file when last none was at it

hub     == <<data_topic, session, subs>>
local   == <<at, module, list, num, counter>>
late    == <<newfo, held>>
history == <<alone, told>>
vars    == <<table, topics, torn, hub, pc, local, late, history, settled>>

\* The topic of a switch or of its status, with the module's address or not.
Topic == [mac : Modules \cup {"header", "scrap", "none"},
          name : Names \cup {"test", "none"}, no : 0..Outlets, status : BOOLEAN]

\* Every variable has its type.
TypeOK ==
    /\ table \in Seq(Entries) /\ topics \in Seq(Lines) /\ data_topic \in Seq(Lines)
    /\ session \in BOOLEAN /\ subs \subseteq Topic
    /\ pc \in [Threads -> {"idle", "send", "read", "seek", "close", "return"}]
    /\ at \in [Threads -> Nat \ {0}] /\ module \in [Threads -> Entries \cup {Nobody}]
    /\ list \in [Threads -> Seq(Lines)] /\ num \in [Threads -> Nat \ {0}]
    /\ counter \in [Threads -> 0..Outlets]
    /\ newfo \in [Threads -> Seq(Switches)] /\ held \in [Threads -> Seq(Switches)]
    /\ told \in [Threads -> SUBSET Entries] /\ alone \in [Threads -> BOOLEAN]
    /\ torn \in BOOLEAN /\ settled \subseteq Modules \cup {"header", "scrap"}

Reset(x) == [t \in Threads |-> x]

Known(lines) == {lines[i].mac : i \in DOMAIN lines}

Init ==
    /\ table = <<>> /\ topics = <<Header>> /\ data_topic = <<Header>>
    /\ torn = FALSE /\ settled = Known(topics)
    /\ session = FALSE /\ subs = {}
    /\ pc = Reset("idle") /\ at = Reset(1) /\ module = Reset(Nobody)
    /\ list = Reset(<<>>) /\ num = Reset(1) /\ counter = Reset(0)
    /\ newfo = Reset(<<>>) /\ held = Reset(<<>>)
    /\ told = Reset({}) /\ alone = Reset(TRUE)

----------------------------------------------------------------------------
(* Lines and files *)

Switch(entry, no) == [mac |-> entry.mac, name |-> entry.name, no |-> no]

\* Mutant: range(1, 7) is one too long.
BlockLong(entry) == [no \in 1..(Outlets + 1) |-> Switch(entry, no)]

\* The lines of a module that is new to the file.
Block(entry) == [no \in 1..Outlets |-> Switch(entry, no)]

\* What sticks out of the lines old when a text is written over them: nothing,
\* or any end. The address is at the front of a line.
Ends(old) == {<<>>} \cup UNION {{<<piece>> \o SubSeq(old, i + 1, Len(old)) :
                                   piece \in {old[i], Scrap}} : i \in DOMAIN old}

\* A thread has the file open with 'w', and it was emptied.
Open == \E t \in Threads : pc[t] = "close"

\* An appended text comes to the file when it is closed.
Flush(lines) ==
    /\ topics' = topics \o lines
    /\ Len(topics') <= MaxLines
    /\ torn' = (torn \/ (lines # <<>> /\ Open))

Goto(t, place) == pc' = [pc EXCEPT ![t] = place]

----------------------------------------------------------------------------
(* tcp_client *)

\* Thread t goes on with the next module.
Continue(t) ==
    /\ Goto(t, "send")
    /\ at' = [at EXCEPT ![t] = @ + 1] /\ module' = [module EXCEPT ![t] = Nobody]
    /\ list' = [list EXCEPT ![t] = <<>>] /\ num' = [num EXCEPT ![t] = 1]

\* ASDFG is on its way to the module of the line.
Tell(t) ==
    /\ pc[t] = "send" /\ at[t] <= Len(table)
    /\ Goto(t, "read")
    /\ module' = [module EXCEPT ![t] = table[at[t]]]
    /\ told' = [told EXCEPT ![t] = IF alone[t] THEN @ \cup {table[at[t]]} ELSE @]
    /\ UNCHANGED <<table, topics, torn, hub, at, list, num, counter, late, alone>>

\* A module that cannot be reached is passed over.
Skip(t) ==
    /\ pc[t] = "send" /\ at[t] <= Len(table)
    /\ Continue(t)
    /\ UNCHANGED <<table, topics, torn, hub, counter, late, history>>

\* The lines are read. Of an empty file no line is looked at.
Read(t) ==
    /\ pc[t] = "read"
    /\ IF topics = <<>>
         THEN Continue(t)
         ELSE /\ list' = [list EXCEPT ![t] = topics]
              /\ Goto(t, "seek")
              /\ UNCHANGED <<at, module, num>>
    /\ UNCHANGED <<table, topics, torn, hub, counter, late, history>>

\* The line i of the list is the next one of the module.
NextOf(t, i) ==
    /\ i >= num[t] /\ list[t][i].mac = module[t].mac
    /\ \A j \in num[t]..(i - 1) : list[t][j].mac # module[t].mac

\* The next line of the module gets the next number, and open(..., 'w').
Rename(t) ==
    /\ pc[t] = "seek"
    /\ \E i \in DOMAIN list[t] :
          /\ NextOf(t, i)
          /\ list' = [list EXCEPT ![t][i] = Switch(module[t], counter[t] + 1)]
          /\ num' = [num EXCEPT ![t] = i + 1]
    /\ counter' = [counter EXCEPT ![t] = @ + 1]
    /\ topics' = <<>>
    /\ Goto(t, "close")
    /\ UNCHANGED <<table, torn, hub, at, module, late, history>>

\* Mutant of Text: only the module's own lines are written.
TextAlone(t) == SelectSeq(list[t], LAMBDA l : l.mac = module[t].mac)

\* What is written: all lines, as they were read or renamed.
Text(t) == list[t]

\* Mutant of Complete: counter is compared with one switch too many.
CompleteLate(c) == c = Outlets + 1

\* The line was that of the last switch, and the loop over the lines ends.
Complete(c) == c = Outlets

\* writelines and close
Close(t) ==
    /\ pc[t] = "close"
    /\ \E end \in Ends(topics) :
          /\ topics' = Text(t) \o end
          /\ end # <<>> => Len(topics') <= MaxLines
          /\ torn' = (torn \/ end # <<>>)
    /\ IF Complete(counter[t])
         THEN Continue(t) /\ counter' = [counter EXCEPT ![t] = 0]
         ELSE Goto(t, "seek") /\ UNCHANGED local
    /\ UNCHANGED <<table, hub, late, history>>

\* After the last line without the last switch the module's lines are
\* appended, and newfo is closed with those of the module before.
AppendBlock(t) ==
    /\ pc[t] = "seek" /\ \A i \in DOMAIN list[t] : ~NextOf(t, i)
    /\ Flush(newfo[t])
    /\ newfo' = [newfo EXCEPT ![t] = Block(module[t])]
    /\ Continue(t)
    /\ UNCHANGED <<table, hub, counter, held, history>>

\* The thread is back from tcp_client; its history ends.
Leave(t) ==
    /\ Goto(t, "idle")
    /\ at' = [at EXCEPT ![t] = 1] /\ counter' = [counter EXCEPT ![t] = 0]
    /\ told' = [told EXCEPT ![t] = {}]
    /\ UNCHANGED <<module, list, num>>

\* Mutant of Return: the file of the last new module is left open.
ReturnOpen(t) ==
    /\ pc[t] = "send"
    /\ held' = [held EXCEPT ![t] = newfo[t]]
    /\ newfo' = [newfo EXCEPT ![t] = <<>>]
    /\ Goto(t, "return")
    /\ UNCHANGED <<table, topics, torn, hub, local, history>>

\* The range of tcp_client, which may miss modules (see Registry), is over.
Return(t) ==
    /\ pc[t] = "send"
    /\ Flush(newfo[t])
    /\ newfo' = [newfo EXCEPT ![t] = <<>>]
    /\ Goto(t, "return")
    /\ UNCHANGED <<table, hub, local, held, history>>

\* The client of the offline thread ends.
Ended(t) ==
    IF t = "offline" THEN session' = FALSE /\ subs' = {} /\ UNCHANGED data_topic
                     ELSE UNCHANGED hub

\* An exception in thread t: in tcp_client before it has sent, or, for the
\* offline thread, in its client or in the handler after it. What was held goes
\* to the file, and newfo is held.
Raise(t) ==
    /\ \/ pc[t] \in {"idle", "send"}
       \/ t = "offline" /\ pc[t] = "return" /\ \E i \in DOMAIN topics : topics[i] = Scrap
    /\ Flush(held[t])
    /\ held' = [held EXCEPT ![t] = newfo[t]]
    /\ newfo' = [newfo EXCEPT ![t] = <<>>]
    /\ Leave(t)
    /\ alone' = [u \in Threads |-> u = t \/ (alone[u] /\ held[t] = <<>>)]
    /\ Ended(t)
    /\ UNCHANGED table

----------------------------------------------------------------------------
(* The two threads *)

\* tcp_client is called.
Begin(t) ==
    /\ pc[t] = "idle"
    /\ Goto(t, "send")
    /\ alone' = [u \in Threads |-> \A v \in Threads \ {t} : pc[v] = "idle"]
    /\ told' = Reset({})
    /\ UNCHANGED <<topics, torn, hub, local, late>>

\* A message on /config/ puts a module into data1.txt, or gives it a name.
Named(entry) ==
    IF \E i \in DOMAIN table : table[i].mac = entry.mac
      THEN [i \in DOMAIN table |-> IF table[i].mac = entry.mac THEN entry
                                                              ELSE table[i]]
      ELSE Append(table, entry)

Configure(entry) ==
    /\ session
    /\ table' = Named(entry)
    /\ Begin("offline")

\* Data_Forward, after an outage.
Forward == Begin("router") /\ UNCHANGED table

\* The router thread polls its interfaces again.
Rest == /\ pc["router"] = "return"
        /\ Leave("router")
        /\ UNCHANGED <<table, topics, torn, hub, late, alone>>

Of(line, status) == [mac |-> line.mac, name |-> line.name, no |-> line.no,
                     status |-> status]
Statuses(lines) == {Of(lines[i], TRUE)  : i \in DOMAIN lines}
Commands(lines) == {Of(lines[i], FALSE) : i \in DOMAIN lines}

\* on_connect of offline1: the topics the program read when it started.
Connect ==
    /\ ~session /\ pc["offline"] = "idle"
    /\ session' = TRUE
    /\ subs' = Statuses(data_topic) \cup Commands(data_topic)
    /\ UNCHANGED <<table, topics, torn, data_topic, pc, local, late, history>>

\* Mutant: the statuses are unsubscribed, too.
ResubscribeAll ==
    /\ pc["offline"] = "return"
    /\ Leave("offline")
    /\ subs' = {[u EXCEPT !.mac = "none"] : u \in Statuses(topics) \cup Commands(topics)}
    /\ UNCHANGED <<table, topics, torn, data_topic, session, late, alone>>

\* After Data_Acquisition the handler of /config/ unsubscribes the switches it
\* read, though not their statuses, and subscribes those that topics.txt has
\* now, without the module's address. Of an end of a line too short to have
\* anything behind the address the topic is empty: see Raise.
Resubscribe ==
    /\ pc["offline"] = "return"
    /\ Leave("offline")
    /\ subs' = (subs \ Commands(data_topic))
                 \cup {[u EXCEPT !.mac = "none"] :
                          u \in Statuses(topics) \cup Commands(topics)}
    /\ UNCHANGED <<table, topics, torn, data_topic, session, late, alone>>

\* The power of the hub fails, and its program starts again, with the file as
\* it is: empty, if a thread had it open.
Restart ==
    /\ data_topic' = topics /\ session' = FALSE /\ subs' = {}
    /\ pc' = Reset("idle") /\ at' = Reset(1) /\ module' = Reset(Nobody)
    /\ list' = Reset(<<>>) /\ num' = Reset(1) /\ counter' = Reset(0)
    /\ newfo' = Reset(<<>>) /\ held' = Reset(<<>>)
    /\ told' = Reset({}) /\ alone' = Reset(TRUE)
    /\ UNCHANGED <<table, topics, torn>>

Steps ==
    \/ \E t \in Threads : \/ Tell(t) \/ Skip(t) \/ Read(t) \/ Rename(t) \/ Close(t)
                          \/ AppendBlock(t) \/ Return(t) \/ Raise(t)
    \/ \E entry \in Entries : Configure(entry)
    \/ Forward \/ Rest \/ Connect \/ Resubscribe \/ Restart

Settle == settled' = IF pc' = Reset("idle") THEN Known(topics') ELSE settled

Next == Steps /\ Settle

Spec == Init /\ [][Next]_vars

----------------------------------------------------------------------------
(* Properties *)

\* Appended late, appended twice, renamed, half renamed by a power cut or
\* written back from an old copy, the lines stay in blocks: those of a module
\* come together, from its first switch to its last; with that no count is
\* carried over from one module to the next. (A block may have two names.) Only
\* where one thread has written into the text of another a block may be broken.
InBlock(s, i) ==
    /\ s[i] = Header => i = 1
    /\ s[i].no > 1 => /\ i > 1 /\ s[i - 1].mac = s[i].mac
                      /\ s[i - 1].no = s[i].no - 1
    /\ s[i].mac \in Modules /\ s[i].no < Outlets =>
           /\ i < Len(s) /\ s[i + 1].mac = s[i].mac
           /\ s[i + 1].no = s[i].no + 1
Blocks ==
    ~torn => /\ \A i \in DOMAIN topics : InBlock(topics, i)
             /\ \A t \in Threads : pc[t] \notin {"seek", "close"} => counter[t] = 0

\* When a thread that had the file for itself returns from tcp_client the file
\* has all switches of the modules it has told, under the names it read.
AllListed ==
    \A t \in Threads : pc[t] = "return" /\ alone[t] /\ ~torn /\ topics # <<>> =>
        \A entry \in told[t] : \A no \in 1..Outlets :
            \E i \in DOMAIN topics : topics[i] = Switch(entry, no)

\* Whatever the threads write back from old copies, the file keeps the modules
\* it had when last none was at it: a race can lose only what was appended
\* during it. A power cut may lose all, and what it has emptied stays empty.
Wiped == /\ topics = <<>> /\ \A t \in Threads : pc[t] \notin {"seek", "close"}
         /\ newfo = Reset(<<>>) /\ held = Reset(<<>>)
NoneLost ==
    [][IF Wiped THEN Wiped'
       ELSE ~torn' /\ ~Open' => settled \subseteq Known(topics') \/ (Restart /\ Wiped')]_vars

\* In session the offline thread hears the statuses of the switches that were
\* known, and as they were named, when the program started, and of no others:
\* what /config/ adds or renames is not heard before the next start.
HearsKnown ==
    session => {u \in subs : u.status /\ u.mac # "none"} = Statuses(data_topic)

============================================================================
