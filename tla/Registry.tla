------------------------------ MODULE Registry ------------------------------
(***************************************************************************)
(* The hub's table of modules (new.py): data1.txt, a line per module. Two  *)
(* threads use it without a lock: offline, whose /config/ handler runs     *)
(* Data_Acquisition, and router, whose check of the network runs           *)
(* Data_Forward. Both look each module up in the network, write its line   *)
(* (Data1Writing), and then send ASDFG to the modules listed (tcp_client). *)
(*                                                                         *)
(* The file is read at once; it is rewritten by opening it, which empties  *)
(* it, and closing it, which puts the text there from the start. Names and *)
(* IP addresses, and so lines, have any length: of a text another thread   *)
(* has put there meanwhile any end may stick out behind it. IP addresses   *)
(* are left out else: a send reaches its module or does not. What          *)
(* tcp_client does to topics.txt is in Topics.                             *)
(***************************************************************************)
EXTENDS Naturals, Sequences

CONSTANTS
    Modules,     \* the switch modules, by their MAC address
    Names,       \* the names people give them
    Messages,    \* what phones send on /config/: the lines of data2.txt
    MaxLines     \* bound on the lines of a file of which an end sticks out

Lines   == [mac : Modules, name : Names]
Header  == [mac |-> "header", name |-> "none"]    \* "data1"
Dummy   == [mac |-> "dummy", name |-> "none"]     \* xx:xx:xx:xx:xx:xx
Scrap   == [mac |-> "scrap", name |-> "none"]     \* a line without a whole address
Entries == [mac : Modules, name : Names \cup {"cut"}] \cup {Header, Dummy, Scrap}

ASSUME RegistryAssumption ==
    /\ {"header", "dummy", "scrap"} \cap Modules = {}
    /\ Messages \subseteq Seq(Lines)
    /\ MaxLines \in Nat

Threads == {"offline", "router"}

VARIABLES
    data1,       \* the lines of data1.txt
    torn,        \* history: an end of another text stuck out behind a text
    pc,          \* where each thread is
    at,          \* numb, num: the line it is at, from 0
    limit,       \* the end of its range(...)
    line,        \* the module in hand
    list,        \* data: the lines it has read
    message,     \* data2.txt
    found,       \* history: the modules offline located in this pass
    tried,       \* history: those a thread sent ASDFG to, or tried to
    alone        \* history: the other thread did not run in its pass

local   == <<at, limit, line, list>>
history == <<found, tried, alone>>
file    == <<data1, torn>>
vars    == <<file, pc, local, message, history>>

\* "due": the router check is to run Data_Forward (temp1).
Places == {"idle", "due", "next", "scan", "read", "rewrite", "close",
           "append", "tell"}

TypeOK ==
    /\ data1 \in Seq(Entries) /\ torn \in BOOLEAN
    /\ pc \in [Threads -> Places] /\ at \in [Threads -> Nat]
    /\ limit \in [Threads -> Nat] /\ line \in [Threads -> Entries]
    /\ list \in [Threads -> Seq(Entries)] /\ message \in Seq(Lines)
    /\ found \subseteq Modules /\ tried \in [Threads -> SUBSET Modules]
    /\ alone \in [Threads -> BOOLEAN]

First == <<Header, Dummy>>

Init ==
    /\ data1 = First /\ torn = FALSE
    /\ pc = [t \in Threads |-> IF t = "router" THEN "due" ELSE "idle"]
    /\ at = [t \in Threads |-> 0] /\ limit = [t \in Threads |-> 0]
    /\ line = [t \in Threads |-> Dummy] /\ list = [t \in Threads |-> <<>>]
    /\ message = <<>> /\ found = {} /\ tried = [t \in Threads |-> {}]
    /\ alone = [t \in Threads |-> TRUE]

----------------------------------------------------------------------------
(* Lines and files *)

\* Mutant of Has: only the last line is compared.
HasLast(s, mac) == s # <<>> /\ s[Len(s)].mac = mac

Has(s, mac) == \E i \in DOMAIN s : s[i].mac = mac

\* The first line of a module in s, where data[num].find(addrnew) is not -1.
FirstOf(s, mac, i) == s[i].mac = mac /\ \A j \in 1..(i - 1) : s[j].mac # mac

\* Mutants of Replaced: the line before it is replaced; name and address are
\* swapped.
ReplacedBefore(s, l) == [i \in 1..Len(s) |->
    IF i < Len(s) /\ FirstOf(s, l.mac, i + 1) THEN l ELSE s[i]]
ReplacedSwapped(s, l) == [i \in 1..Len(s) |->
    IF FirstOf(s, l.mac, i) THEN [mac |-> l.name, name |-> l.mac] ELSE s[i]]

\* s with the first line of a module replaced.
Replaced(s, l) ==
    [i \in 1..Len(s) |-> IF FirstOf(s, l.mac, i) THEN l ELSE s[i]]

\* What an end of a line is: the line, its address with less before it, or
\* less than its address.
Pieces(l) == {l, Scrap} \cup (IF l.mac \in Modules THEN {[l EXCEPT !.name = "cut"]} ELSE {})

\* What sticks out of the lines old when a text is written over them: nothing,
\* or any end.
Ends(old) == {<<>>} \cup UNION {{<<piece>> \o SubSeq(old, i + 1, Len(old)) :
                                   piece \in Pieces(old[i])} : i \in DOMAIN old}

\* A thread between its decision what to write and the end of the write. It
\* takes no other thread's scan (1.5 s) to get through.
Writing(t)   == pc[t] \in {"rewrite", "close", "append"}
Unhurried(t) == \A u \in Threads \ {t} : ~Writing(u)

Goto(t, place) == pc' = [pc EXCEPT ![t] = place]

\* Thread t goes on with the next module.
Continue(t) ==
    /\ Goto(t, "next")
    /\ at' = [at EXCEPT ![t] = @ + 1]
    /\ line' = [line EXCEPT ![t] = Dummy]
    /\ list' = [list EXCEPT ![t] = <<>>]

\* Pass t is over, and its locals gone.
Forgotten(t) ==
    /\ at' = [at EXCEPT ![t] = 0] /\ limit' = [limit EXCEPT ![t] = 0]
    /\ line' = [line EXCEPT ![t] = Dummy] /\ list' = [list EXCEPT ![t] = <<>>]
    /\ tried' = [tried EXCEPT ![t] = {}] /\ alone' = [alone EXCEPT ![t] = TRUE]
    /\ IF t = "router" THEN UNCHANGED <<message, found>>
                       ELSE message' = <<>> /\ found' = {}

\* An exception: the client of offline is made anew, and router_c starts over.
Fail(t) == Goto(t, IF t = "router" THEN "due" ELSE "idle") /\ Forgotten(t)

----------------------------------------------------------------------------
(* Data1Writing *)

\* Mutant of Read: an empty file is written like any other.
ReadEmpty(t) ==
    /\ pc[t] = "read"
    /\ list' = [list EXCEPT ![t] = data1]
    /\ Goto(t, IF Has(data1, line[t].mac) THEN "rewrite" ELSE "append")
    /\ UNCHANGED <<file, at, line, limit, message, history>>

\* The lines are read. Of an empty file nothing comes.
Read(t) ==
    /\ pc[t] = "read"
    /\ IF data1 = <<>>
         THEN Continue(t)
         ELSE /\ list' = [list EXCEPT ![t] = data1]
              /\ Goto(t, IF Has(data1, line[t].mac) THEN "rewrite" ELSE "append")
              /\ UNCHANGED <<at, line>>
    /\ UNCHANGED <<file, limit, message, history>>

\* open(..., 'w')
Truncate(t) ==
    /\ pc[t] = "rewrite"
    /\ data1' = <<>>
    /\ Goto(t, "close")
    /\ UNCHANGED <<torn, local, message, history>>

\* writelines and close
Close(t) ==
    /\ pc[t] = "close"
    /\ \E end \in Ends(data1) :
          /\ data1' = Replaced(list[t], line[t]) \o end
          /\ end # <<>> => Len(data1') <= MaxLines
          /\ torn' = (torn \/ end # <<>>)
    /\ Continue(t)
    /\ UNCHANGED <<limit, message, history>>

\* open(..., 'a'), write and close
AppendLine(t) ==
    /\ pc[t] = "append"
    /\ data1' = Append(data1, line[t])
    /\ Continue(t)
    /\ UNCHANGED <<torn, limit, message, history>>

----------------------------------------------------------------------------
(* The two passes *)

\* Thread t begins its pass: is u in one?
Meet(t, u) == alone' = [v \in Threads |-> pc[u] \in {"idle", "due"}]

\* A message on /config/ is written to data2.txt (FileWriting).
Configure ==
    /\ pc["offline"] = "idle"
    /\ message' \in Messages
    /\ Goto("offline", "next")
    /\ limit' = [limit EXCEPT !["offline"] = Len(message')]
    /\ Meet("offline", "router")
    /\ UNCHANGED <<file, at, line, list, found, tried>>

\* router_c finds the network, and runs Data_Forward.
Forward ==
    /\ pc["router"] = "due"
    /\ Goto("router", "next")
    /\ at' = [at EXCEPT !["router"] = 1]
    /\ limit' = [limit EXCEPT !["router"] = Len(data1)]
    /\ Meet("router", "offline")
    /\ UNCHANGED <<file, line, list, message, found, tried>>

\* The next module: offline has it from data2.txt, router from data1.txt,
\* where the line may be gone (IndexError) and the file empty (TypeError).
Take(t) ==
    /\ pc[t] = "next" /\ at[t] < limit[t]
    /\ IF t = "router" /\ at[t] >= Len(data1)
         THEN Fail(t)
         ELSE /\ line' = [line EXCEPT ![t] = IF t = "router" THEN data1[at[t] + 1]
                                                        ELSE message[at[t] + 1]]
              /\ Goto(t, "scan")
              /\ UNCHANGED <<at, limit, list, message, history>>
    /\ UNCHANGED file

\* ARPScanner, up to three times: the module answers, or is passed over. For
\* an empty address, which is in every answer, it raises.
Scan(t) ==
    /\ pc[t] = "scan" /\ Unhurried(t)
    /\ \/ /\ line[t].mac \in Modules
          /\ Goto(t, "read") /\ UNCHANGED <<at, line, list, limit, message, tried, alone>>
          /\ found' = IF t = "offline" THEN found \cup {line[t].mac} ELSE found
       \/ Continue(t) /\ UNCHANGED <<limit, message, history>>
       \/ line[t] = Scrap /\ Fail(t)
    /\ UNCHANGED file

\* Mutant of TellEnd: Data_Forward calls tcp_client(data_len2).
TellEndShort(t) ==
    IF t = "router" THEN Len(SubSeq(data1, 2, Len(data1)))
    ELSE IF Len(message) + Len(data1) < 2 THEN 0
    ELSE Len(message) + Len(data1) - 2

\* The end of the range of tcp_client(index): range(1, index - 1), where
\* index is n + L - 1 in Data_Acquisition, for n lines of data2.txt and L of
\* data1.txt, and L + 1 in Data_Forward.
TellEnd(t) ==
    IF t = "router" THEN Len(data1)
    ELSE IF Len(message) + Len(data1) < 2 THEN 0
    ELSE Len(message) + Len(data1) - 2

\* All are written, and tcp_client begins.
BeginTell(t) ==
    /\ pc[t] = "next" /\ at[t] >= limit[t]
    /\ Goto(t, "tell")
    /\ at' = [at EXCEPT ![t] = 1] /\ limit' = [limit EXCEPT ![t] = TellEnd(t)]
    /\ UNCHANGED <<file, line, list, message, history>>

\* The next line, and up to two connections to port 325 of its module, that
\* reach it or not. Of an empty file comes no address; a line that is gone
\* raises IndexError, and so does my_ip_address when there is no network.
Tell(t) ==
    /\ pc[t] = "tell" /\ at[t] < limit[t]
    /\ \/ /\ data1 = <<>> \/ at[t] < Len(data1)
          /\ at' = [at EXCEPT ![t] = @ + 1]
          /\ tried' = [tried EXCEPT ![t] = IF data1 = <<>> THEN @
                          ELSE @ \cup ({data1[at[t] + 1].mac} \cap Modules)]
          /\ UNCHANGED <<pc, limit, line, list, message, found, alone>>
       \/ Fail(t)
    /\ UNCHANGED file

\* Mutant of EndTell: router_c does not reset temp1.
EndTellDue(t) ==
    /\ pc[t] = "tell" /\ at[t] >= limit[t]
    /\ Goto(t, IF t = "router" THEN "due" ELSE "idle")
    /\ Forgotten(t)
    /\ UNCHANGED file

\* tcp_client returns.
EndTell(t) ==
    /\ pc[t] = "tell" /\ at[t] >= limit[t]
    /\ Goto(t, "idle")
    /\ Forgotten(t)
    /\ UNCHANGED file

----------------------------------------------------------------------------
\* The router check sees the network gone.
Outage ==
    /\ pc["router"] = "idle" /\ Goto("router", "due")
    /\ UNCHANGED <<file, local, message, history>>

\* The hub's power fails, and it starts again.
PowerCut ==
    /\ pc' = [t \in Threads |-> IF t = "router" THEN "due" ELSE "idle"]
    /\ at' = [t \in Threads |-> 0] /\ limit' = [t \in Threads |-> 0]
    /\ line' = [t \in Threads |-> Dummy] /\ list' = [t \in Threads |-> <<>>]
    /\ message' = <<>> /\ found' = {} /\ tried' = [t \in Threads |-> {}]
    /\ alone' = [t \in Threads |-> TRUE]
    /\ UNCHANGED file

Step(t) == \/ Read(t) \/ Truncate(t) \/ Close(t) \/ AppendLine(t)
           \/ Take(t) \/ Scan(t) \/ BeginTell(t) \/ Tell(t) \/ EndTell(t)

Next == Configure \/ Forward \/ Outage \/ PowerCut \/ \E t \in Threads : Step(t)

Spec == Init /\ [][Next]_vars

\* The threads run, and the network lets them come to an end.
FairSpec == Spec /\ WF_vars(Forward) /\ \A t \in Threads : WF_vars(Step(t))

----------------------------------------------------------------------------
(* Properties *)

\* No module has two lines, whichever thread wrote last: Data1Writing appends
\* only a module it did not find, and router never has one that is not there.
\* Only an end that sticks out behind a text may repeat an address.
Distinct ==
    ~torn => \A i, j \in DOMAIN data1 : data1[i].mac = data1[j].mac => i = j

\* The modules tcp_client can come to: those behind the first line.
Listed(s) == {s[i].mac : i \in 2..Len(s)} \cap Modules

\* A pass that had the table for itself has sent to every module of it once
\* tcp_client is at its end or past the file's, unless the message named one
\* module only (the range of new.py:138 ends one line early then).
WholePass ==
    \A t \in Threads :
        /\ pc[t] = "tell" /\ alone[t] /\ (t = "offline" => Len(message) >= 2)
        /\ at[t] >= limit[t] \/ at[t] >= Len(data1)
        => Listed(data1) \subseteq tried[t]

\* A file that a power cut left empty is never written again: Data1Writing
\* appends behind the last line it reads, and there is none.
Wiped      == data1 = <<>> /\ \A t \in Threads : ~Writing(t)
WipedStays == [][Wiped => Wiped']_vars

\* What the file will hold when the thread that has opened it closes it, if
\* nothing sticks out.
Closing(t) == Replaced(list[t], line[t])
Committed ==
    IF pc["offline"] = "close" THEN Closing("offline")
    ELSE IF pc["router"] = "close" THEN Closing("router")
    ELSE data1

\* The router check renames nothing and loses nothing while no /config/ is
\* served, and the file is not torn: it writes each line as it read it.
RouterKeeps ==
    [][Step("router") /\ alone["router"] /\ ~torn' => Committed' = Committed]_vars

\* A send fails for want of a network, not of a line.
NoNetwork(t) ==
    /\ pc[t] = "tell" /\ at[t] < limit[t]
    /\ data1 = <<>> \/ at[t] < Len(data1)
    /\ Fail(t)

Disturbance == \/ Configure \/ Outage \/ PowerCut
               \/ \E t \in Threads : NoNetwork(t)

\* The threads come to rest when the phones, the power and the network leave
\* them alone: whatever the other one did to the file, router's pass ends, or
\* starts over and then ends, and is not run again (temp1). In a torn file an
\* empty address may stop every pass.
Rests == <>[][~Disturbance]_vars =>
             <>torn \/ <>[](\A t \in Threads : pc[t] = "idle")

\* The file, without names, is a table to which modules are added and from
\* which at most the last is lost at a time, or all but one to a power cut;
\* until it is torn, after which nothing is said of it.
Macs(s) == [i \in 1..Len(s) |-> s[i].mac]
Torn    == <<"scrap">>
Table   == INSTANCE DeviceTable
           WITH table <- IF torn THEN Torn ELSE Macs(Committed),
                First <- Macs(First), Entries <- Modules
TableSpec == Table!Spec

============================================================================
