----------------------------- MODULE HubThreads -----------------------------
(***************************************************************************)
(* Who tells a switch module to connect: ModuleLink with the program of    *)
(* the hub, which sends ASDFG. Its offline thread serves the wills on /lwt *)
(* (Mosquitto_1.py), its router check looks at the network every six       *)
(* seconds and sends ASDFG to every module of data1.txt after an outage it *)
(* saw (reconnect.py, Data_Forward), and both start when there is a        *)
(* network, and start over after an exception (thread.py).                 *)
(*                                                                         *)
(* A will that is published while the offline thread has no client is lost *)
(* (WillGone). on_disconnect of offline1 does not wait for the network as  *)
(* it means to: all_interfaces is not defined in Mosquitto_1.py, and the   *)
(* NameError takes the thread back to its loop in thread.py.               *)
(***************************************************************************)
EXTENDS ModuleLink

CONSTANT Configured     \* the modules of data1.txt

ASSUME ThreadsAssumption == Configured \subseteq Modules

VARIABLES
    net,         \* the hub's interfaces: no address, no route, or "up"
    offline,     \* the offline thread: "off", its client down, or in session;
                 \* "ended" when the program ended at its start
    router,      \* the router check: between polls, or in Data_Forward
    temp1,       \* temp1: Data_Forward is to be run
    todo,        \* the modules it has yet to look up, or to send to
    located,     \* those arp-scan found in this pass
    missed       \* history: the last ASDFG due to a module started no client
                 \* there, or one whose attempt has failed

hub         == <<net, offline, router, temp1, todo, located>>
thread_vars == <<vars, hub, missed>>

ThreadsTypeOK ==
    /\ TypeOK
    /\ net \in {"down", "noroute", "up"}
    /\ offline \in {"off", "wait", "session", "ended"}
    /\ router \in {"off", "poll", "scan", "tell"}
    /\ temp1 \in Bits
    /\ todo \subseteq Configured /\ located \subseteq Configured
    /\ missed \in [Modules -> BOOLEAN]

ThreadsInit ==
    /\ Init
    /\ net = "down" /\ offline = "off" /\ router = "off"
    /\ temp1 = 1 /\ todo = {} /\ located = {}
    /\ missed = [d \in Modules |-> FALSE]

----------------------------------------------------------------------------
(* The program starts, and ends *)

\* thread.py waits for a network and starts the threads.
Start ==
    /\ offline = "off" /\ net = "up"
    /\ offline' = "wait" /\ router' = "poll"
    /\ UNCHANGED <<vars, net, temp1, todo, located, missed>>

\* With an address but no route get_ip_address raises, and nobody catches it.
StartFails ==
    /\ offline = "off" /\ net = "noroute"
    /\ offline' = "ended"
    /\ UNCHANGED <<vars, net, router, temp1, todo, located, missed>>

\* The hub loses its power, and with it what the broker knew.
HubStops ==
    /\ BrokerStops
    /\ net' = "down" /\ offline' = "off" /\ router' = "off"
    /\ temp1' = 1 /\ todo' = {} /\ located' = {}
    /\ UNCHANGED missed

NetChanges ==
    /\ net' \in {"down", "noroute", "up"} \ {net}
    /\ UNCHANGED <<vars, offline, router, temp1, todo, located, missed>>

----------------------------------------------------------------------------
(* The offline thread *)

\* One of the tests of script1.lua (127-140) finds something to do.
Hears(d) == \/ check1[d] = 1
            \/ tact[d] = 0
            \/ temp[d] = 1 /\ link[d].m = "open"

\* offline1 connects and subscribes /lwt. What was published before is lost.
OfflineConnect ==
    /\ offline = "wait" /\ net = "up" /\ wills = <<>>
    /\ offline' = "session"
    /\ UNCHANGED <<vars, net, router, temp1, todo, located, missed>>

\* Mutant of OfflineDrop: what was queued for the client goes with it.
OfflineDropClears ==
    /\ offline = "session"
    /\ offline' = "wait"
    /\ wills' = <<>>
    /\ UNCHANGED <<on, known, station, ram, link, net, router, temp1, todo,
                   located, missed>>

\* Its client ends by a network error, and the NameError of on_disconnect, or
\* by an exception in on_message. The loop of thread.py makes another.
OfflineDrop ==
    /\ offline = "session"
    /\ offline' = "wait"
    /\ UNCHANGED <<vars, net, router, temp1, todo, located, missed>>

WillGone ==
    /\ offline # "session"
    /\ WillLost
    /\ missed' = [missed EXCEPT ![Head(wills)] = TRUE]
    /\ UNCHANGED hub

\* on_message for /lwt. Without a route my_ip_address raises, which is caught
\* there, and the module is not told.
TellWill ==
    /\ offline = "session"
    /\ IF net = "up" THEN HubServesWill ELSE WillLost
    /\ missed' = [missed EXCEPT ![Head(wills)] =
                    net # "up" \/ ~Reachable(Head(wills)) \/ ~Hears(Head(wills))]
    /\ UNCHANGED hub

\* A message on /config/: Data_Acquisition sends ASDFG.
PhoneConfigures(d) ==
    /\ offline = "session" /\ net = "up" /\ d \in Configured
    /\ HubForward(d)
    /\ missed' = [missed EXCEPT ![d] = ~Hears(d)]
    /\ UNCHANGED hub

----------------------------------------------------------------------------
(* The router check *)

\* Mutants of Poll: temp1 counts; it is reset before the pass; a pass is run
\* at every poll.
PollCounts ==
    /\ router = "poll"
    /\ IF net # "up"
         THEN temp1' = temp1 + 1 /\ UNCHANGED <<router, todo>>
         ELSE /\ temp1 = 1
              /\ router' = "scan" /\ todo' = Configured
              /\ UNCHANGED temp1
    /\ UNCHANGED <<vars, net, offline, located, missed>>
PollEarly ==
    /\ router = "poll"
    /\ IF net # "up"
         THEN temp1' = 1 /\ UNCHANGED <<router, todo>>
         ELSE /\ temp1 = 1
              /\ router' = "scan" /\ todo' = Configured
              /\ temp1' = 0
    /\ UNCHANGED <<vars, net, offline, located, missed>>
PollAlways ==
    /\ router = "poll"
    /\ IF net # "up"
         THEN temp1' = 1 /\ UNCHANGED <<router, todo>>
         ELSE /\ router' = "scan" /\ todo' = Configured
              /\ UNCHANGED temp1
    /\ UNCHANGED <<vars, net, offline, located, missed>>

\* One look at the interfaces, six seconds after the last. The exception
\* without a route starts router_c over, which sets temp1 too.
Poll ==
    /\ router = "poll"
    /\ IF net # "up"
         THEN temp1' = 1 /\ UNCHANGED <<router, todo>>
         ELSE /\ temp1 = 1
              /\ router' = "scan" /\ todo' = Configured
              /\ UNCHANGED temp1
    /\ UNCHANGED <<vars, net, offline, located, missed>>

\* Data_Forward looks a module up.
Scan(d) ==
    /\ router = "scan" /\ d \in todo
    /\ todo' = todo \ {d}
    /\ located' = IF net # "down" /\ Reachable(d) THEN located \cup {d} ELSE located
    /\ UNCHANGED <<vars, net, offline, router, temp1, missed>>

\* Mutant of ScanEnds: the range of tcp_client ends one line early.
ScanEndsShort ==
    /\ router = "scan" /\ todo = {}
    /\ router' = "tell" /\ \E d \in Configured : todo' = Configured \ {d}
    /\ UNCHANGED <<vars, net, offline, temp1, located, missed>>

ScanEnds ==
    /\ router = "scan" /\ todo = {}
    /\ router' = "tell" /\ todo' = Configured
    /\ UNCHANGED <<vars, net, offline, temp1, located, missed>>

\* tcp_client sends ASDFG to the address in data1.txt, which may be out of
\* date for a module that was not located.
Tell(d) ==
    /\ router = "tell" /\ d \in todo /\ net = "up"
    /\ todo' = todo \ {d}
    /\ \/ /\ HubForward(d)
          /\ missed' = [missed EXCEPT ![d] = ~Hears(d)]
       \/ /\ d \notin located \/ ~Reachable(d)
          /\ UNCHANGED vars
          /\ missed' = [missed EXCEPT ![d] = TRUE]
    /\ UNCHANGED <<net, offline, router, temp1, located>>

\* my_ip_address raises, and router_c starts over.
TellFails ==
    /\ router = "tell" /\ todo # {} /\ net # "up"
    /\ router' = "poll" /\ temp1' = 1
    /\ todo' = {} /\ located' = {}
    /\ UNCHANGED <<vars, net, offline, missed>>

\* Mutant of TellEnds: temp1 is not reset.
TellEndsDue ==
    /\ router = "tell" /\ todo = {}
    /\ router' = "poll"
    /\ located' = {}
    /\ UNCHANGED <<vars, net, offline, temp1, todo, missed>>

\* Data_Forward returns.
TellEnds ==
    /\ router = "tell" /\ todo = {}
    /\ router' = "poll" /\ temp1' = 0
    /\ located' = {}
    /\ UNCHANGED <<vars, net, offline, todo, missed>>

----------------------------------------------------------------------------
(* The modules and their broker *)

\* What is no business of the hub's program. The broker accepts a client when
\* the hub has an address.
LinkStep(d) ==
    /\ \/ Boot(d) \/ StationUp(d) \/ Tick(d)
       \/ net # "down" /\ (Accept(d) \/ AcceptStray(d))
       \/ Connected(d) \/ ConnectedStray(d) \/ Expire(d)
       \/ \E who \in {"m", "older"} : OfflineEvent(d, who)
    /\ UNCHANGED <<hub, missed>>

LinkFails(d) ==
    /\ \/ Off(d) \/ StationDown(d) \/ Configure(d) \/ Break(d)
    /\ UNCHANGED <<hub, missed>>

AttemptFails(d) ==
    /\ Refused(d)
    /\ missed' = [missed EXCEPT ![d] = TRUE]
    /\ UNCHANGED hub

Router == Poll \/ ScanEnds \/ TellFails \/ TellEnds
            \/ \E d \in Configured : Scan(d) \/ Tell(d)

Trouble ==
    \/ HubStops \/ OfflineDrop
    \/ NetChanges /\ net = "up"
    \/ \E d \in Modules : LinkFails(d) \/ AttemptFails(d) \/ PhoneConfigures(d)

ThreadsNext ==
    \/ Start \/ StartFails \/ NetChanges
    \/ OfflineConnect \/ WillGone \/ TellWill
    \/ Router
    \/ \E d \in Modules : LinkStep(d)
    \/ Trouble

ThreadsSpec == ThreadsInit /\ [][ThreadsNext]_thread_vars

\* The threads run, each callback and timer of a module does, and the broker
\* and the network see to what is theirs, as in ModuleLink.
Own(d, A) == A /\ UNCHANGED <<hub, missed>>

ThreadsFairness ==
    /\ WF_thread_vars(Start) /\ WF_thread_vars(OfflineConnect)
    /\ WF_thread_vars(WillGone) /\ WF_thread_vars(TellWill)
    /\ WF_thread_vars(Router)
    /\ \A d \in Modules :
          /\ WF_thread_vars(Own(d, Boot(d))) /\ WF_thread_vars(Own(d, StationUp(d)))
          /\ WF_thread_vars(Own(d, Tick(d)))
          /\ WF_thread_vars(Own(d, net # "down" /\ Accept(d)))
          /\ WF_thread_vars(Own(d, net # "down" /\ AcceptStray(d)))
          /\ WF_thread_vars(Own(d, Connected(d)))
          /\ WF_thread_vars(Own(d, ConnectedStray(d)))
          /\ WF_thread_vars(Own(d, Expire(d)))
          /\ \A who \in {"m", "older"} : WF_thread_vars(Own(d, OfflineEvent(d, who)))

FairThreadsSpec == ThreadsSpec /\ ThreadsFairness

----------------------------------------------------------------------------
(* Properties *)

\* The module has lost a session, knows it, and waits for ASDFG.
Waiting(d) == on[d] /\ station[d] /\ tact[d] = 0 /\ Settled(d)

\* A module that waits is owed an ASDFG: the broker has yet to notice the end
\* of its session, or its will is on the way, or the router check will send
\* to all; unless the last one due to it came to nothing.
Owed == \A d \in Configured :
    Waiting(d) => Alive(d) \/ temp1 = 1 \/ missed[d]

\* Nothing the system does by itself brings a module back that was missed.
LeftOut(d) == Waiting(d) /\ ~Alive(d) /\ temp1 = 0 /\ net = "up"
LeftOutStays ==
    [][\A d \in Modules : LeftOut(d) => LeftOut(d)' \/ Trouble]_thread_vars

Peace == <>[][~Trouble]_thread_vars /\ <>[](net = "up")

\* Once people and failures leave the system alone, a pass of the router check
\* brings back every module that stays reachable: in the end it is in session,
\* or no ASDFG can start it, or a later one that was due to it has failed.
Undisturbed(d) == net = "up" /\ Reachable(d) /\ timer[d] = "none"
PassToCome     == router = "poll" /\ temp1 = 1
Rescued ==
    Peace => \A d \in Configured :
        [](PassToCome /\ []Undisturbed(d)
             => <>[](Hears(d) => Open(d) \/ missed[d]))

\* And everything comes to rest: the threads find their way back through every
\* exception, unless the program ended at its start, and ASDFG is not sent for
\* ever.
AtRest == /\ \/ offline = "session" /\ router = "poll"
             \/ offline = "ended"
          /\ wills = <<>>
          /\ \A d \in Modules : Settled(d)
Settles == Peace => <>[]AtRest

\* What ModuleLink says of the modules holds with the hub's program.
ImplementsLink == Spec

============================================================================
