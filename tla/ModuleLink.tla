----------------------------- MODULE ModuleLink -----------------------------
(***************************************************************************)
(* How switch modules come to a session on the hub's broker, and come back *)
(* to one. A module waits for its Wi-Fi address (timer 0 of init.lua), the *)
(* hub sends it the message ASDFG with the broker's address (new.py), its  *)
(* TCP server takes the message and runs m1.lua (script1.lua), and m1.lua  *)
(* opens an MQTT client. When the broker loses the session it publishes    *)
(* the module's will on /lwt, and the hub sends ASDFG again                *)
(* (tcp_client_lwt).                                                       *)
(*                                                                         *)
(* m1.lua gives every client of every module the same client id, and the   *)
(* broker has one session for an id: a new one takes it over, and the will *)
(* of the old one is published. Each run of m1.lua makes a new client and  *)
(* forgets the one before it, which stays as it is ("older").              *)
(***************************************************************************)
EXTENDS Naturals, Sequences

CONSTANTS
    Modules,     \* the switch modules
    Flashed,     \* those that know the Wi-Fi network from the start
    Torn,        \* those with an empty switchN.lua, which fun.lua stumbles on
    Phones,      \* whether somebody (re)configures modules with the phone
    MaxWills,    \* bound: with so many wills waiting, HubForward stops
    Prompt       \* a module sees its old connection end before the answer
                 \* to a new one, and that within the four seconds the hub
                 \* takes over a will

ASSUME LinkAssumption == /\ Flashed \subseteq Modules /\ Torn \subseteq Modules
                         /\ Phones \in BOOLEAN /\ Prompt \in BOOLEAN
                         /\ MaxWills \in Nat \ {0}

VARIABLES
    on,          \* the module runs
    known,       \* its flash holds the credentials of the Wi-Fi network
    station,     \* it has an address there
    timer,       \* whose callback timer 0 runs: "none", "boot" or "config"
    check1,      \* check1: an address was got since power-up, no client yet
    tact,        \* tact: 0 after an offline event
    temp,        \* temp: the broker was reached since power-up
    link,        \* the clients of the module, see Links
    wills        \* the /lwt messages for the hub's offline thread

ram  == <<timer, check1, tact, temp>>
vars == <<on, known, station, ram, link, wills>>

Bits == {0, 1}

\* m is the client m1.lua made last, stray the attempt of an older one, late
\* the offline events on their way, and server the client whose session the
\* broker has for this module ("gone": one that broke, or lost its module).
Links == [m      : {"none", "opening", "accepted", "open", "closed"},
          stray  : {"none", "opening", "accepted"},
          late   : SUBSET {"m", "older"},
          server : {"none", "m", "older", "gone"}]

TypeOK ==
    /\ on \in [Modules -> BOOLEAN] /\ known \in [Modules -> BOOLEAN]
    /\ station \in [Modules -> BOOLEAN]
    /\ timer \in [Modules -> {"none", "boot", "config"}]
    /\ check1 \in [Modules -> Bits] /\ tact \in [Modules -> Bits]
    /\ temp \in [Modules -> Bits]
    /\ link \in [Modules -> Links]
    /\ wills \in Seq(Modules)

NoLink == [m |-> "none", stray |-> "none", late |-> {}, server |-> "none"]

Init ==
    /\ on = [d \in Modules |-> FALSE] /\ station = [d \in Modules |-> FALSE]
    /\ known = [d \in Modules |-> d \in Flashed]
    /\ timer = [d \in Modules |-> "none"]
    /\ check1 = [d \in Modules |-> 0] /\ tact = [d \in Modules |-> 1]
    /\ temp = [d \in Modules |-> 0]
    /\ link = [d \in Modules |-> NoLink]
    /\ wills = <<>>

----------------------------------------------------------------------------
(* Power and Wi-Fi *)

\* init.lua: the variables, the server of script1.lua, and timer 0 when the
\* flash holds the name of a network.
Boot(d) ==
    /\ ~on[d]
    /\ on' = [on EXCEPT ![d] = TRUE]
    /\ check1' = [check1 EXCEPT ![d] = 0] /\ tact' = [tact EXCEPT ![d] = 1]
    /\ temp' = [temp EXCEPT ![d] = 0]
    /\ timer' = [timer EXCEPT ![d] = IF known[d] THEN "boot" ELSE "none"]
    /\ UNCHANGED <<known, station, link, wills>>

\* The memory goes, and the broker does not hear of it.
Restart(d) ==
    /\ on' = [on EXCEPT ![d] = FALSE] /\ station' = [station EXCEPT ![d] = FALSE]
    /\ check1' = [check1 EXCEPT ![d] = 0] /\ tact' = [tact EXCEPT ![d] = 1]
    /\ temp' = [temp EXCEPT ![d] = 0] /\ timer' = [timer EXCEPT ![d] = "none"]
    /\ link' = [link EXCEPT ![d] =
                  [NoLink EXCEPT !.server = IF link[d].server = "none"
                                              THEN "none" ELSE "gone"]]
    /\ UNCHANGED <<known, wills>>

\* The power fails, or a phone sends "R" or a new name (QWERT).
Off(d) == on[d] /\ Restart(d)

StationUp(d) ==
    /\ on[d] /\ known[d] /\ ~station[d]
    /\ station' = [station EXCEPT ![d] = TRUE]
    /\ UNCHANGED <<on, known, ram, link, wills>>

StationDown(d) ==
    /\ station[d]
    /\ station' = [station EXCEPT ![d] = FALSE]
    /\ UNCHANGED <<on, known, ram, link, wills>>

\* Mutant of Tick: the timer of script1.lua sets check1 too.
TickAny(d) ==
    /\ on[d] /\ station[d] /\ timer[d] # "none"
    /\ timer' = [timer EXCEPT ![d] = "none"]
    /\ check1' = [check1 EXCEPT ![d] = 1]
    /\ UNCHANGED <<on, known, station, tact, temp, link, wills>>

\* The callback of timer 0 that finds an address. Only the one of init.lua
\* sets check1.
Tick(d) ==
    /\ on[d] /\ station[d] /\ timer[d] # "none"
    /\ timer' = [timer EXCEPT ![d] = "none"]
    /\ check1' = [check1 EXCEPT ![d] = IF timer[d] = "boot" THEN 1 ELSE @]
    /\ UNCHANGED <<on, known, station, tact, temp, link, wills>>

\* A phone sends the credentials of a network (ABCDE): the module leaves its
\* network, and timer 0 gets another callback unless the old address can
\* still be read.
Configure(d) ==
    /\ Phones /\ on[d]
    /\ known' = [known EXCEPT ![d] = TRUE]
    /\ station' = [station EXCEPT ![d] = FALSE]
    /\ \/ timer' = [timer EXCEPT ![d] = "config"]
       \/ station[d] /\ UNCHANGED timer
    /\ UNCHANGED <<on, check1, tact, temp, link, wills>>

----------------------------------------------------------------------------
(* ASDFG, the message of the hub *)

\* dofile("m1.lua"): a new client, which starts to connect. Of the older
\* attempts the last is followed.
Fresh(l) ==
    [m      |-> "opening",
     stray  |-> IF l.m \in {"opening", "accepted"} THEN l.m ELSE l.stray,
     late   |-> IF l.late = {} THEN {} ELSE {"older"},
     server |-> IF l.server = "m" THEN "older" ELSE l.server]

\* m:close() of an open client: the broker gets a DISCONNECT when it can.
\* Whether the client has an offline event is left open.
Closed(l) ==
    {[l EXCEPT !.m = "closed", !.late = late,
               !.server = IF @ = "m" THEN "none" ELSE @]
        : late \in {l.late, l.late \cup {"m"}}}

\* Mutant of OnHub: check1 is not spent.
OnHubAgain(d) ==
    LET first  == IF check1[d] = 1 THEN Fresh(link[d]) ELSE link[d]
        second == IF tact[d] = 0 THEN Fresh(first) ELSE first
    IN /\ IF temp[d] = 1 /\ second.m = "open"
            THEN \E l \in Closed(second) : link' = [link EXCEPT ![d] = Fresh(l)]
            ELSE link' = [link EXCEPT ![d] = second]
       /\ UNCHANGED <<on, known, station, timer, check1, tact, temp>>

\* The three tests of script1.lua, one after the other. close() of a client
\* that is not open returns false.
OnHub(d) ==
    LET first  == IF check1[d] = 1 THEN Fresh(link[d]) ELSE link[d]
        second == IF tact[d] = 0 THEN Fresh(first) ELSE first
    IN /\ IF temp[d] = 1 /\ second.m = "open"
            THEN \E l \in Closed(second) : link' = [link EXCEPT ![d] = Fresh(l)]
            ELSE link' = [link EXCEPT ![d] = second]
       /\ check1' = [check1 EXCEPT ![d] = 0]
       /\ UNCHANGED <<on, known, station, timer, tact, temp>>

\* The hub finds the module in the network and reaches its port.
Reachable(d) == on[d] /\ station[d]

\* tcp_client, for a configuration or after an outage of the hub's network.
HubForward(d) ==
    /\ Reachable(d) /\ Len(wills) < MaxWills
    /\ OnHub(d)
    /\ UNCHANGED wills

\* No client of d waits for an answer, or has an event to come.
Settled(d) == link[d].m \notin {"opening", "accepted"} /\ link[d].stray = "none"
                /\ link[d].late = {}

\* on_message of offline1 for /lwt, four seconds on: a module that cannot be
\* reached by then is given up (tcp_client_lwt tries twice).
HubServesWill ==
    /\ wills # <<>>
    /\ Prompt /\ Reachable(Head(wills)) => Settled(Head(wills))
    /\ wills' = Tail(wills)
    /\ IF Reachable(Head(wills))
         THEN OnHub(Head(wills))
         ELSE UNCHANGED <<on, known, station, ram, link>>

\* The offline thread is not in session.
WillLost ==
    /\ wills # <<>>
    /\ wills' = Tail(wills)
    /\ UNCHANGED <<on, known, station, ram, link>>

----------------------------------------------------------------------------
(* Sessions *)

\* Mutants of Lose: who holds the session, and whose event comes, swapped; a
\* client that waits for its answer waits on.
LoseSwapped(l, server, heard) ==
    IF l.server = "none" THEN [l EXCEPT !.server = server]
    ELSE [l EXCEPT !.late = @ \cup {server}, !.server = server]
LoseUntold(l, server, heard) ==
    IF l.m = "accepted" \/ l.server \notin {"m", "older"}
      THEN [l EXCEPT !.server = server]
      ELSE [l EXCEPT !.late = @ \cup {l.server}, !.server = server]

\* The connection of the session ends, for the broker or for both. A client
\* that was told of its session has an offline event, and so has one that
\* still hears the answer first (heard); else the attempt has failed.
Told(l) == \/ l.server = "m" /\ l.m # "accepted"
           \/ l.server = "older" /\ l.stray # "accepted"
Lose(l, server, heard) ==
    LET ends  == l.server \in {"m", "older"} /\ (heard \/ Told(l))
        fails == l.server \in {"m", "older"} /\ ~heard /\ ~Told(l)
    IN [m      |-> IF fails /\ l.server = "m" THEN "closed" ELSE l.m,
        stray  |-> IF fails /\ l.server = "older" THEN "none" ELSE l.stray,
        late   |-> IF ends THEN l.late \cup {l.server} ELSE l.late,
        server |-> server]

Holders == {d \in Modules : link[d].server # "none"}

\* Mutant of TakenOver: each module has an id of its own.
TakenOverOwn(d) == Holders \cap {d}

\* Whose session a client of d ends when it gets one: that of its id.
TakenOver(d) == Holders

\* The broker accepts a client of d, whose record becomes l, and publishes the
\* will of the session it takes over.
Accepts(d, l, heard) ==
    /\ wills' = IF TakenOver(d) = {}
                  THEN wills ELSE Append(wills, CHOOSE e \in TakenOver(d) : TRUE)
    /\ link' = [e \in Modules |->
                  IF e = d THEN l
                  ELSE IF e \in TakenOver(d) THEN Lose(link[e], "none", heard)
                  ELSE link[e]]
    /\ UNCHANGED <<on, known, station, ram>>

Accept(d) ==
    /\ Reachable(d) /\ link[d].m = "opening"
    /\ \E heard \in BOOLEAN :
          Accepts(d, [Lose(link[d], "m", heard) EXCEPT !.m = "accepted"], heard)

AcceptStray(d) ==
    /\ Reachable(d) /\ link[d].stray = "opening"
    /\ \E heard \in BOOLEAN :
          Accepts(d, [Lose(link[d], "older", heard) EXCEPT !.stray = "accepted"],
                  heard)

\* The attempt fails, and nothing tries again.
Refused(d) ==
    /\ \/ /\ link[d].m = "opening"
          /\ link' = [link EXCEPT ![d].m = "closed"]
       \/ /\ link[d].stray = "opening"
          /\ link' = [link EXCEPT ![d].stray = "none"]
    /\ UNCHANGED <<on, known, station, ram, wills>>

\* The order Prompt assumes.
SeesEnd(d) == Prompt => "older" \notin link[d].late

\* Mutant of Connected: tact keeps the mark of the last offline event.
ConnectedMarked(d) ==
    /\ link[d].m = "accepted" /\ SeesEnd(d)
    /\ IF d \in Torn
         THEN Restart(d)
         ELSE /\ link' = [link EXCEPT ![d].m = "open"]
              /\ temp' = [temp EXCEPT ![d] = 1]
              /\ UNCHANGED <<on, known, station, timer, check1, tact, wills>>

\* The connect callback: fun.lua reports, by the client m names.
Connected(d) ==
    /\ link[d].m = "accepted" /\ SeesEnd(d)
    /\ IF d \in Torn
         THEN Restart(d)
         ELSE /\ link' = [link EXCEPT ![d].m = "open"]
              /\ tact' = [tact EXCEPT ![d] = 1] /\ temp' = [temp EXCEPT ![d] = 1]
              /\ UNCHANGED <<on, known, station, timer, check1, wills>>

\* The callback of an older client: it reports by a client that may not be
\* connected, which raises an error.
ConnectedStray(d) ==
    /\ link[d].stray = "accepted"
    /\ IF d \in Torn \/ link[d].m \in {"opening", "accepted"}
         THEN Restart(d)
         ELSE /\ link' = [link EXCEPT ![d].stray = "none"]
              /\ tact' = [tact EXCEPT ![d] = 1] /\ temp' = [temp EXCEPT ![d] = 1]
              /\ UNCHANGED <<on, known, station, timer, check1, wills>>

\* The connection of a session breaks; an answer still on its way is lost.
Break(d) ==
    /\ link[d].server \in {"m", "older"}
    /\ link' = [link EXCEPT ![d] = Lose(@, "gone", FALSE)]
    /\ UNCHANGED <<on, known, station, ram, wills>>

\* The keep-alive runs out: the broker publishes the will.
Expire(d) ==
    /\ link[d].server = "gone"
    /\ link' = [link EXCEPT ![d].server = "none"]
    /\ wills' = Append(wills, d)
    /\ UNCHANGED <<on, known, station, ram>>

\* The hub loses its power: the broker forgets its sessions and publishes no
\* will, and what waits for the hub's threads is gone.
BrokerStops ==
    /\ wills' = <<>>
    /\ link' = [d \in Modules |-> Lose(link[d], "none", FALSE)]
    /\ UNCHANGED <<on, known, station, ram>>

\* The offline callback, of m or of an older client; that of connect first.
OfflineEvent(d, who) ==
    /\ who \in link[d].late
    /\ IF who = "m" THEN link[d].m = "open"
                    ELSE link[d].stray = "accepted" => link[d].server = "older"
    /\ link' = [link EXCEPT ![d].late = @ \ {who},
                            ![d].m = IF who = "m" THEN "closed" ELSE @]
    /\ tact' = [tact EXCEPT ![d] = 0]
    /\ UNCHANGED <<on, known, station, timer, check1, temp, wills>>

----------------------------------------------------------------------------
\* What people and failures do.
Disturbance ==
    \/ WillLost \/ BrokerStops
    \/ \E d \in Modules : \/ Off(d) \/ StationDown(d) \/ Configure(d)
                          \/ HubForward(d) \/ Refused(d) \/ Break(d)

Next ==
    \/ Disturbance
    \/ HubServesWill
    \/ \E d \in Modules : \/ Boot(d) \/ StationUp(d) \/ Tick(d)
                          \/ Accept(d) \/ AcceptStray(d)
                          \/ Connected(d) \/ ConnectedStray(d)
                          \/ Expire(d)
                          \/ \E who \in {"m", "older"} : OfflineEvent(d, who)

Spec == Init /\ [][Next]_vars

\* The callbacks and timers of a module run, an attempt the network carries
\* is answered, the broker minds its keep-alives and the hub its queue.
Fairness ==
    /\ WF_vars(HubServesWill)
    /\ \A d \in Modules :
          /\ WF_vars(Boot(d)) /\ WF_vars(StationUp(d)) /\ WF_vars(Tick(d))
          /\ WF_vars(Accept(d)) /\ WF_vars(AcceptStray(d))
          /\ WF_vars(Connected(d)) /\ WF_vars(ConnectedStray(d))
          /\ WF_vars(Expire(d))
          /\ \A who \in {"m", "older"} : WF_vars(OfflineEvent(d, who))

FairSpec == Spec /\ Fairness

Calm == <>[][~Disturbance]_vars

----------------------------------------------------------------------------
(* Properties *)

\* Of the three tests of script1.lua (127-140) the first excludes the other
\* two: a module that waits for its first ASDFG has no client to close and
\* has seen none go offline.
OneStart ==
    \A d \in Modules : check1[d] = 1 =>
        /\ tact[d] = 1 /\ temp[d] = 0
        /\ link[d].m = "none" /\ link[d].stray = "none" /\ link[d].late = {}

\* The broker's session of a module is of a client that has it or will have
\* the answer, and a client that waits for the answer has the session or will
\* hear of its end: through takeovers, breaks and restarts no client that has been
\* answered rests on a session that is gone (m1.lua 16, 29-31, 107-109). Of one
\* that is still opening nothing is said.
SessionKnown ==
    \A d \in Modules :
        /\ link[d].server = "m" => link[d].m \in {"accepted", "open"}
        /\ link[d].m = "accepted" => link[d].server = "m" \/ "m" \in link[d].late
        /\ link[d].stray = "accepted"
             => link[d].server = "older" \/ "older" \in link[d].late
        /\ "m" \in link[d].late
             => link[d].m \in {"accepted", "open"} /\ link[d].server # "m"

\* No message of the hub can start a client any more.
Deaf(d) ==
    /\ on[d] /\ timer[d] # "boot"
    /\ check1[d] = 0 /\ tact[d] = 1 /\ temp[d] = 0
    /\ link[d].m \in {"none", "closed"} /\ link[d].stray = "none"
    /\ link[d].late = {}

\* Only a restart cures a deaf module: a module whose first attempt failed,
\* or that was configured before its boot timer ran out (script1.lua 35,
\* 127-140, init.lua 183-204).
DeafStays == [][\A d \in Modules : Deaf(d) /\ on'[d] => Deaf(d)']_vars

Open(d) == link[d].m = "open" /\ link[d].server = "m"

\* A module in session on its newest client has tact at 1, so that ASDFG
\* closes this client before it starts the next: had it tact at 0, both would
\* run side by side and take the session from each other (script1.lua 131-140,
\* m1.lua 29-31, 109). It needs Prompt.
OneClient == \A d \in Modules : Open(d) => tact[d] = 1

\* A module that is in session, connecting, or about to be sent ASDFG.
Alive(d) == \/ link[d].server # "none" \/ link[d].m \in {"opening", "accepted"}
            \/ \E i \in DOMAIN wills : wills[i] = d

\* Where several modules are in use, none stays in session: each takes the
\* session of the others over, in calm and for ever (m1.lua 16, 23).
NobodyStays ==
    Calm /\ []<>(\A d \in Modules : Alive(d)) => \A d \in Modules : []<>~Open(d)

============================================================================
