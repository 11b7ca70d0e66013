--------------------------- MODULE HubQuietProofs ---------------------------
(***************************************************************************)
(* What the phones are told in the quiet is what the lamp is. For any      *)
(* number of switches, any bound and either timing of the subscriptions,   *)
(* as long as no phone is in use and the Internet stays: a command from a  *)
(* phone changes the lamp without a status, and what the hub publishes at  *)
(* home during an outage the remote broker never learns.                   *)
(***************************************************************************)
EXTENDS HubBridgeProofs, SequenceTheorems

Undisturbed == Phones = {} /\ "internet" \notin Outages

----------------------------------------------------------------------------
(* The invariant, switch by switch *)

Last(queue) == queue[Len(queue)]

\* The status of the switch is not yet forwarded, or not yet heard of.
UnderWay(s) == Carries(toOffline[s], StatusMsg(status[s]))

\* A file as flashed belongs to a switch that was never driven or reported:
\* the first event of its button finds the commands in their initial pair.
Untouched(s) == file[s] = "fresh" =>
                   status[s] = "none" /\ espNew[s] = 0 /\ espOld[s] = 1

\* In session every switch that was driven has a status.
Spoken(s) == connected => /\ file[s] # "empty"
                          /\ file[s] \in Levels => status[s] # "none"

\* All messages come from statuses, and none is retained at home.
Silent(s) == /\ localBase[s] = "none"
             /\ status[s] = "none" => /\ remoteBase[s] = "none"
                                      /\ toDevice[s] = <<>>
                                      /\ toOffline[s] = <<>>
                                      /\ toOnline[s] = <<>>

\* The remote broker retains the status, or the offline thread has it.
Forwarded(s) == offlineUp /\ status[s] # "none" =>
                   remoteBase[s] = status[s] \/ UnderWay(s)

\* The last message for the online thread is the one the broker retains.
Passed(s) == toOnline[s] # <<>> => onlineUp /\ Last(toOnline[s]) = remoteBase[s]

\* When the hub is done with a status, it is the last message for the module;
\* and when the module has served that, the relay is as the status says.
Arrived(s) ==
    Counts(s) /\ offlineUp /\ onlineUp /\ ~UnderWay(s) /\ toOnline[s] = <<>> =>
        IF toDevice[s] = <<>> THEN status[s] = Report(relay[s])
                              ELSE Last(toDevice[s]) = status[s]

Told(s) == /\ Untouched(s) /\ Spoken(s) /\ Silent(s)
           /\ Forwarded(s) /\ Passed(s) /\ Arrived(s)

QuietIInv == BridgeIInv /\ internet /\ \A s \in Switches : Told(s)

\* What Told reads.
ModuleView(s) == <<connected, file[s], relay[s], espNew[s], espOld[s], status[s],
                   unheard[s]>>
QueueView(s)  == <<toDevice[s], toOffline[s], toOnline[s], localBase[s],
                   remoteBase[s], offlineUp, onlineUp>>

LEMMA SameView ==
  ASSUME NEW s, Told(s), UNCHANGED <<ModuleView(s), QueueView(s)>>
  PROVE  Told(s)'
<1> USE DEF ModuleView, QueueView
<1>1. Untouched(s)' /\ Spoken(s)' /\ Silent(s)' /\ Passed(s)'
  BY DEF Told, Untouched, Spoken, Silent, Passed, Last
<1>2. UnderWay(s)' = UnderWay(s)
  BY DEF UnderWay, Carries
<1>3. Forwarded(s)' /\ Arrived(s)'
  BY <1>2 DEF Told, Forwarded, Arrived, Counts, Last
<1> QED BY <1>1, <1>3 DEF Told

----------------------------------------------------------------------------
(* Queues *)

\* The last message of an appended queue, and of the rest of one.
LEMMA LastAppend ==
  ASSUME NEW S, NEW q \in Seq(S), NEW m \in S
  PROVE  Append(q, m) # <<>> /\ Last(Append(q, m)) = m
<1>1. /\ Len(Append(q, m)) = Len(q) + 1 /\ Append(q, m)[Len(q) + 1] = m
      /\ Len(q) \in Nat
  OBVIOUS
<1>2. Append(q, m) # <<>>
  BY <1>1
<1> QED BY <1>1, <1>2 DEF Last

LEMMA LastTail ==
  ASSUME NEW S, NEW q \in Seq(S), q # <<>>
  PROVE  IF Tail(q) = <<>> THEN Head(q) = Last(q) ELSE Last(Tail(q)) = Last(q)
<1> DEFINE r == Tail(q)
<1>1. /\ Len(q) \in Nat /\ Len(q) >= 1 /\ Len(r) = Len(q) - 1
      /\ Head(q) = q[1] /\ r \in Seq(S)
      /\ \A j \in 1..(Len(q) - 1) : r[j] = q[j + 1]
  OBVIOUS
<1> HIDE DEF r
<1>2. r = <<>> <=> Len(r) = 0
  BY <1>1, EmptySeq
<1>3. CASE Len(q) = 1
  BY <1>1, <1>2, <1>3 DEF r, Last
<1>4. CASE Len(q) > 1
  <2>1. r # <<>> /\ Len(r) \in 1..(Len(q) - 1) /\ Len(r) + 1 = Len(q)
    BY <1>1, <1>2, <1>4
  <2> QED BY <1>1, <2>1 DEF r, Last
<1> QED BY <1>1, <1>3, <1>4

----------------------------------------------------------------------------
(* The module *)

\* A status that is passed on is under way.
LEMMA PassedOn ==
  ASSUME BridgeTypeOK, NEW s \in Switches, NEW reporting, s \in reporting,
         PassStatus(reporting), offlineUp, status'[s] \in Payloads
  PROVE  UnderWay(s)'
<1>1. StatusMsg(status'[s]) \in Messages /\ toOffline[s] \in Seq(Messages)
  BY DEF StatusMsg, Messages, BridgeTypeOK
<1>2. toOffline'[s] = Append(toOffline[s], StatusMsg(status'[s]))
  BY DEF PassStatus
<1>3. Carries(toOffline'[s], StatusMsg(status'[s]))
  BY <1>1, <1>2, CarriesAppend
<1> QED BY <1>3 DEF UnderWay

\* A switch that reports starts anew.
LEMMA Reporting ==
  ASSUME QuietIInv, NEW s \in Switches, NEW reporting, s \in reporting,
         PassStatus(reporting), status'[s] \in Payloads, file'[s] \in Levels,
         UNCHANGED <<toOnline, retained, hub>>
  PROVE  Told(s)'
<1>1. status'[s] # "none" /\ file'[s] \notin {"fresh", "empty"}
  BY DEF Payloads, Levels
<1>2. offlineUp => UnderWay(s)'
  BY PassedOn DEF QuietIInv, BridgeIInv
<1>3. Told(s) /\ UNCHANGED <<toOnline, localBase, remoteBase, offlineUp, onlineUp>>
  BY DEF QuietIInv, retained, hub
<1>4. Untouched(s)' /\ Spoken(s)' /\ Silent(s)' /\ Passed(s)'
  BY <1>1, <1>3 DEF Told, Untouched, Spoken, Silent, Passed, Last
<1>5. Forwarded(s)' /\ Arrived(s)'
  BY <1>2, <1>3 DEF Forwarded, Arrived
<1> QED BY <1>4, <1>5 DEF Told

\* Out of session a switch that reports nothing is as before.
LEMMA OutOfSession ==
  ASSUME NEW s, Told(s), ~connected', toDevice'[s] \in {toDevice[s], <<>>},
         UNCHANGED <<status[s], toOffline[s], toOnline[s], localBase[s],
                     remoteBase[s], offlineUp, onlineUp>>,
         file'[s] = "fresh" => file[s] = "fresh" /\ espNew'[s] = 0 /\ espOld'[s] = 1
  PROVE  Told(s)'
<1>1. UnderWay(s)' = UnderWay(s)
  BY DEF UnderWay, Carries
<1>2. Untouched(s)' /\ Spoken(s)' /\ Silent(s)' /\ Passed(s)'
  BY DEF Told, Untouched, Spoken, Silent, Passed, Last
<1>3. Forwarded(s)' /\ Arrived(s)'
  BY <1>1 DEF Told, Forwarded, Arrived, Counts
<1> QED BY <1>2, <1>3 DEF Told

LEMMA DeviceTold ==
  ASSUME QuietIInv, NEW s \in Switches, DeviceStep
  PROVE  Told(s)'
<1>1. Told(s) /\ Sessions
  BY DEF QuietIInv, BridgeIInv, BridgeInv
<1>2. UNCHANGED <<unheard, QueueView(s)>>
  BY DEF DeviceStep, queues, retained, hub, QueueView
<1>3. CASE Boot
  <2>1. ~connected' /\ UNCHANGED <<status, file>>
    BY <1>1, <1>3 DEF Boot, Sessions
  <2>2. espNew'[s] = 0 /\ espOld'[s] = 1
    BY <1>3 DEF Boot, ResetMemory
  <2> QED BY <1>1, <1>2, <2>1, <2>2, OutOfSession DEF QueueView
<1>4. CASE Armed \/ \E t \in Switches : Toggle(t)
  <2>1. UNCHANGED ModuleView(s)
    BY <1>2, <1>4 DEF Armed, Toggle, memory, mem, ModuleView
  <2> QED BY <1>1, <1>2, <2>1, SameView
<1> QED BY <1>3, <1>4 DEF DeviceStep

\* A file as flashed stays so only if its module was not at work on it.
LEMMA LostFile ==
  ASSUME TypeOK, NEW s \in Switches, Cut \/ Raise \/ Offline, Untouched(s)
  PROVE  /\ ~connected' /\ status' = status
         /\ file'[s] = "fresh" => /\ file[s] = "fresh"
                                  /\ espNew'[s] = 0 /\ espOld'[s] = 1
<1>1. CASE PowerCut \/ OnEmptyMessage \/ Offline
  BY <1>1 DEF PowerCut, OnEmptyMessage, Offline, Down, ResetMemory, memory, mem,
              Untouched
<1>2. ASSUME NEW t \in Switches, NEW a, NEW b, NEW c, NEW d, CutInside(t, a, b, c, d)
      PROVE  /\ ~connected' /\ status' = status
             /\ file'[s] = "fresh" => /\ file[s] = "fresh"
                                      /\ espNew'[s] = 0 /\ espOld'[s] = 1
  BY <1>2 DEF CutInside, Down, ResetMemory, TypeOK
<1>3. ASSUME NEW t \in Switches, HandlerFails(t)
      PROVE  /\ ~connected' /\ status' = status
             /\ file'[s] = "fresh" => /\ file[s] = "fresh"
                                      /\ espNew'[s] = 0 /\ espOld'[s] = 1
  <2>1. ~connected' /\ status' = status /\ espNew'[s] = 0 /\ espOld'[s] = 1
    BY <1>3 DEF HandlerFails, Down, ResetMemory
  <2>2. \/ file' = file
        \/ \E out : file' = [file EXCEPT ![t] = Driven(out)]
    BY <1>3 DEF HandlerFails, Algorithm
  <2> QED BY <2>1, <2>2, DrivenLevel DEF TypeOK, Levels
<1> QED BY <1>1, <1>2, <1>3 DEF Cut, Raise, CutInHandler, CutInMessage

LEMMA LostTold ==
  ASSUME QuietIInv, NEW s \in Switches, SessionLost
  PROVE  Told(s)'
<1>1. Told(s) /\ TypeOK
  BY DEF QuietIInv, BridgeIInv, IInv
<1>2. /\ ~connected' /\ status' = status
      /\ file'[s] = "fresh" => /\ file[s] = "fresh"
                               /\ espNew'[s] = 0 /\ espOld'[s] = 1
  BY <1>1, LostFile DEF SessionLost, Told
<1>3. /\ UNCHANGED <<toOffline, toOnline, localBase, remoteBase, offlineUp, onlineUp>>
      /\ toDevice'[s] = <<>>
  BY DEF SessionLost, retained, hub
<1> QED BY <1>1, <1>2, <1>3, OutOfSession

LEMMA FailingTold ==
  ASSUME QuietIInv, NEW s \in Switches, Failing
  PROVE  Told(s)'
<1>1. PICK t \in Switches : \E sent \in SUBSET Before(t) : ConnectFailsStep(t, sent)
  BY DEF Failing
<1>0. PICK sent \in SUBSET Before(t) : ConnectFailsStep(t, sent)
  BY <1>1
<1> DEFINE reporting == {u \in sent : file[u] \in Levels}
<1>2. /\ PassStatus(reporting) /\ status' = Reported(sent) /\ ~connected'
      /\ file' = file /\ espNew'[s] = 0 /\ espOld'[s] = 1
      /\ UNCHANGED <<toDevice, toOnline, retained, hub>>
  BY <1>0 DEF ConnectFailsStep, ConnectFails, Down, ResetMemory
<1>3. CASE s \in reporting
  <2>1. status'[s] \in Payloads
    BY <1>2, <1>3, SentPayload DEF Reported
  <2> HIDE DEF reporting
  <2>2. file'[s] \in Levels
    BY <1>2, <1>3 DEF reporting
  <2> QED BY <1>2, <1>3, <2>1, <2>2, Reporting
<1>4. CASE s \notin reporting
  <2>1. UNCHANGED <<status[s], toOffline[s]>>
    BY <1>2, <1>4 DEF Reported, PassStatus, QuietIInv, BridgeIInv, BridgeTypeOK
  <2>2. Told(s)
    BY DEF QuietIInv
  <2> QED BY <1>2, <2>1, <2>2, OutOfSession DEF retained, hub
<1> QED BY <1>3, <1>4

\* A handler that reports nothing in session leaves what counts as it was,
\* and one that reports has driven the relay at least once.
LEMMA ButtonTold ==
  ASSUME QuietIInv, NEW s \in Switches, NEW t \in Switches, ButtonStep(t)
  PROVE  Told(s)'
<1> DEFINE sends == connected /\ button[t] # checkbut[t] /\ Publishes(t)
<1>0. Told(s) /\ BridgeTypeOK /\ IInv /\ TypeOK /\ Sessions
  BY DEF QuietIInv, BridgeIInv, BridgeInv, IInv
<1>1. /\ SwitchHandler(t) /\ UNCHANGED <<connected, espNew>>
      /\ UNCHANGED <<toDevice, toOnline, retained, hub>>
      /\ PassStatus(IF sends THEN {t} ELSE {})
      /\ unheard' = [unheard EXCEPT ![t] = IF sends THEN ~subscribed[t] ELSE @]
  BY DEF ButtonStep, SwitchHandler
<1>2. ~sends \/ s # t => UNCHANGED <<QueueView(s), unheard[s]>>
  BY <1>0, <1>1 DEF PassStatus, QueueView, retained, hub, BridgeTypeOK
<1>3. CASE s # t
  <2>1. UNCHANGED <<file[s], relay[s], espOld[s], status[s]>>
    BY <1>0, <1>1, <1>3 DEF SwitchHandler, Algorithm, TypeOK
  <2> QED BY <1>0, <1>1, <1>2, <1>3, <2>1, SameView DEF ModuleView
<1>4. CASE s = t /\ sends
  <2>1. status'[s] \in Payloads
    BY <1>0, <1>1, <1>4, ButtonSends, SentPayload DEF TypeOK
  <2>2. file'[s] \in Levels
    <3>1. CASE Changed(espNew[s], espOld[s], button[s], btnOld[s])
      BY <1>0, <1>1, <1>4, <3>1, DrivenLevel DEF SwitchHandler, Algorithm, TypeOK
    <3>2. CASE ~Changed(espNew[s], espOld[s], button[s], btnOld[s])
      <4>1. file'[s] = file[s] /\ espNew[s] = espOld[s]
        BY <1>1, <1>4, <3>2 DEF SwitchHandler, Algorithm, Changed
      <4> QED BY <1>0, <1>4, <4>1 DEF Told, Untouched, Spoken, TypeOK, Files
    <3> QED BY <3>1, <3>2
  <2> QED BY <1>1, <1>4, <2>1, <2>2, Reporting
<1>5. CASE s = t /\ connected /\ ~sends
  <2>1. UNCHANGED <<relay, file, espOld, status>>
    BY <1>0, <1>1, <1>5, ButtonEffect DEF Sessions
  <2> QED BY <1>0, <1>1, <1>2, <1>5, <2>1, SameView DEF ModuleView
<1>6. CASE s = t /\ ~connected
  <2>1. status' = status
    BY <1>1, <1>6 DEF SwitchHandler
  <2>2. ASSUME file'[s] = "fresh"
        PROVE  file[s] = "fresh" /\ espNew'[s] = 0 /\ espOld'[s] = 1
    <3>1. CASE button[s] # checkbut[s]
             /\ Changed(espNew[s], espOld[s], button[s], btnOld[s])
      <4>1. file'[s] \in Levels
        BY <1>0, <1>1, <1>6, <3>1, DrivenLevel DEF SwitchHandler, Algorithm, TypeOK
      <4> QED BY <2>2, <4>1 DEF Levels
    <3>2. CASE ~(button[s] # checkbut[s]
              /\ Changed(espNew[s], espOld[s], button[s], btnOld[s]))
      <4>1. /\ file' = file
            /\ \/ espOld' = espOld
               \/ espNew[s] = espOld[s]
        BY <1>1, <1>6, <3>2 DEF SwitchHandler, Algorithm, Changed
      <4> QED BY <1>0, <1>1, <2>2, <4>1 DEF Told, Untouched
    <3> QED BY <3>1, <3>2
  <2> QED BY <1>0, <1>1, <1>2, <1>6, <2>1, <2>2, OutOfSession DEF QueueView
<1> QED BY <1>3, <1>4, <1>5, <1>6

\* The last command of a queue is the status, and serving it makes the relay
\* what the status says.
LEMMA CommandTold ==
  ASSUME QuietIInv, NEW s \in Switches, NEW t \in Switches, CommandStep(t)
  PROVE  Told(s)'
<1> DEFINE cmd == Said(Head(toDevice[t]))
<1>0. Told(s) /\ BridgeTypeOK /\ IInv /\ TypeOK /\ EchoMeets
  BY DEF QuietIInv, BridgeIInv, BridgeInv, IInv
<1>1. /\ OnMessage(t, cmd) /\ cmd \in Bits
      /\ toDevice[t] # <<>> /\ toDevice' = [toDevice EXCEPT ![t] = Tail(@)]
      /\ unheard' = [unheard EXCEPT ![t] = @ \/ btnNew[t] # btnOld[t]]
      /\ connected
      /\ UNCHANGED <<connected, status, subscribed, toOffline, toOnline,
                     retained, hub>>
  BY SaidBit DEF CommandStep, OnMessage
<1>2. CASE s # t
  <2>1. UNCHANGED <<file[s], relay[s], espOld[s], espNew[s], unheard[s], toDevice[s]>>
    BY <1>0, <1>1, <1>2 DEF OnMessage, Algorithm, TypeOK, BridgeTypeOK
  <2> QED BY <1>0, <1>1, <2>1, SameView DEF ModuleView, QueueView, retained, hub
<1>3. CASE s = t
  <2>1. status[s] # "none" /\ file[s] \in Levels
    <3>1. status[s] # "none"
      BY <1>0, <1>1, <1>3 DEF Told, Silent
    <3> QED BY <1>0, <1>1, <3>1 DEF Told, Untouched, Spoken, TypeOK, Files
  <2>2. file'[s] \in Levels /\ file'[s] \notin {"fresh", "empty"}
    <3>1. file'[s] \in Levels
      BY <1>0, <1>1, <1>3, <2>1, DrivenLevel DEF OnMessage, Algorithm, TypeOK
    <3> QED BY <3>1 DEF Levels
  <2>3. UnderWay(s)' = UnderWay(s)
    BY <1>1 DEF UnderWay, Carries
  <2>4. Untouched(s)' /\ Spoken(s)' /\ Silent(s)' /\ Forwarded(s)' /\ Passed(s)'
    BY <1>0, <1>1, <2>1, <2>2, <2>3
       DEF Told, Untouched, Spoken, Silent, Forwarded, Passed, Last, retained, hub
  <2>5. Arrived(s)'
    <3> SUFFICES ASSUME Counts(s)', offlineUp, onlineUp, ~UnderWay(s),
                        toOnline[s] = <<>>
                 PROVE  IF toDevice'[s] = <<>>
                          THEN status[s] = Report(relay'[s])
                          ELSE Last(toDevice'[s]) = status[s]
      BY <1>1, <2>3 DEF Arrived, hub, Last
    <3>1. ~unheard[s] /\ btnNew[s] = btnOld[s]
      BY <1>0, <1>1, <1>3 DEF Counts, BridgeTypeOK
    <3>2. Counts(s)
      BY <1>1, <2>1, <3>1 DEF Counts
    <3>3. Last(toDevice[s]) = status[s]
      BY <1>0, <1>1, <1>3, <3>2 DEF Told, Arrived
    <3>4. toDevice[s] \in Seq(Payloads) /\ toDevice'[s] = Tail(toDevice[s])
      BY <1>0, <1>1, <1>3 DEF BridgeTypeOK
    <3>5. CASE Tail(toDevice[s]) # <<>>
      BY <1>1, <1>3, <3>3, <3>4, <3>5, LastTail
    <3>6. CASE Tail(toDevice[s]) = <<>>
      <4>1. Head(toDevice[s]) = status[s]
        BY <1>1, <1>3, <3>3, <3>4, <3>6, LastTail
      <4>2. Payload(cmd) = status[s]
        BY <1>1, <1>3, <3>4, <4>1, SaidPayload
      <4>3. CASE InStep(s)'
        <5>1. espOld'[s] = cmd
          BY <1>0, <1>1, <1>3 DEF OnMessage, TypeOK
        <5> QED BY <3>4, <3>6, <4>2, <4>3, <5>1 DEF InStep
      <4>4. CASE cmd = espOld[s] /\ UNCHANGED <<relay, file, espOld>>
        <5>1. CASE InStep(s)
          BY <3>4, <3>6, <4>2, <4>4, <5>1 DEF InStep
        <5>2. CASE ~InStep(s)
          BY <1>0, <3>2, <3>4, <3>6, <4>4, <5>2 DEF EchoMeets
        <5> QED BY <5>1, <5>2
      <4> QED BY <1>0, <1>1, <1>3, <3>1, <4>3, <4>4, CommandEffect
    <3> QED BY <3>5, <3>6
  <2> QED BY <2>4, <2>5 DEF Told
<1> QED BY <1>2, <1>3

LEMMA ConnectTold ==
  ASSUME QuietIInv, NEW s \in Switches, ConnectStep
  PROVE  Told(s)'
<1> DEFINE reporting == {t \in Switches : file[t] \in Levels}
<1>0. Told(s) /\ BridgeTypeOK /\ TypeOK
  BY DEF QuietIInv, BridgeIInv, IInv
<1>1. /\ file' = file /\ espNew' = espNew /\ espOld' = espOld
      /\ status' = Reported(Switches) /\ PassStatus(reporting)
      /\ file[s] # "empty"
      /\ UNCHANGED <<toDevice, toOnline, retained, hub>>
  BY DEF ConnectStep, Connect, mem
<1>2. CASE file[s] \in Levels
  <2>1. status'[s] \in Payloads /\ file'[s] \in Levels /\ s \in reporting
    BY <1>1, <1>2, SentPayload DEF Reported
  <2> HIDE DEF reporting
  <2> QED BY <1>1, <2>1, Reporting
<1>3. CASE file[s] \notin Levels
  <2>1. file[s] = "fresh" /\ status[s] = "none"
    BY <1>0, <1>1, <1>3 DEF TypeOK, Files, Told, Untouched
  <2>2. UNCHANGED <<status[s], toOffline[s]>>
    BY <1>0, <1>1, <1>3 DEF Reported, PassStatus, BridgeTypeOK
  <2>3. Untouched(s)' /\ Spoken(s)' /\ Silent(s)' /\ Passed(s)'
    BY <1>0, <1>1, <1>3, <2>1, <2>2
       DEF Told, Untouched, Spoken, Silent, Passed, Last, retained, hub
  <2>4. Forwarded(s)' /\ Arrived(s)'
    BY <1>1, <1>3, <2>1, <2>2 DEF Forwarded, Arrived, Counts
  <2> QED BY <2>3, <2>4 DEF Told
<1> QED BY <1>2, <1>3

\* Nothing is retained at home for a new subscription.
LEMMA SubscribeTold ==
  ASSUME QuietIInv, NEW s \in Switches, NEW t \in Switches, SubscribeStep(t)
  PROVE  Told(s)'
<1>1. Told(s) /\ Told(t) /\ BridgeTypeOK /\ Sessions
  BY DEF QuietIInv, BridgeIInv, BridgeInv
<1>2. toDevice[t] = <<>> /\ Replay(localBase[t]) = <<>>
  BY <1>1 DEF SubscribeStep, Sessions, Told, Silent, Replay
<1>3. toDevice'[s] = toDevice[s]
  BY <1>1, <1>2 DEF SubscribeStep, BridgeTypeOK
<1>4. UNCHANGED <<ModuleView(s), QueueView(s)>>
  BY <1>3 DEF SubscribeStep, ModuleView, QueueView, vars, memory, mem, retained, hub
<1> QED BY <1>1, <1>4, SameView

----------------------------------------------------------------------------
(* The hub *)

\* What the hub does leaves what concerns the module alone as it is.
LEMMA ModuleLeft ==
  ASSUME NEW s, Told(s), UNCHANGED <<ModuleView(s), localBase[s]>>,
         status[s] = "none" => UNCHANGED QueueView(s)
                               \/ UNCHANGED <<toDevice[s], toOffline[s],
                                              toOnline[s], remoteBase[s]>>
  PROVE  Untouched(s)' /\ Spoken(s)' /\ Silent(s)'
BY DEF Told, Untouched, Spoken, Silent, ModuleView, QueueView

\* A status leaves the offline thread for the remote broker, and for the
\* online thread if that is connected; one that is out of date is followed by
\* the current one.
LEMMA RemoteTold ==
  ASSUME QuietIInv, NEW s \in Switches, NEW t \in Switches, ForwardRemote(t)
  PROVE  Told(s)'
<1> DEFINE msg == Head(toOffline[t])
<1>0. Told(s) /\ BridgeTypeOK /\ StatusInOrder
  BY DEF QuietIInv, BridgeIInv, BridgeInv
<1>1. /\ UNCHANGED <<toDevice, localBase, offlineUp, onlineUp, unheard>>
      /\ UNCHANGED ModuleView(s) /\ UNCHANGED <<status, relay, file, connected>>
      /\ toOffline[t] # <<>> /\ toOffline' = [toOffline EXCEPT ![t] = Tail(@)]
  BY DEF ForwardRemote, ModuleView, vars, memory, mem, hub
<1>2. \/ /\ Reaches(msg) /\ remoteBase' = [remoteBase EXCEPT ![t] = msg.payload]
         /\ toOnline' = IF onlineUp
                          THEN [toOnline EXCEPT ![t] = Append(@, msg.payload)]
                          ELSE toOnline
      \/ ~Reaches(msg) /\ UNCHANGED <<remoteBase, toOnline>>
  BY DEF ForwardRemote, RemotePublish
<1>3. CASE s # t
  <2>1. UNCHANGED QueueView(s)
    BY <1>0, <1>1, <1>2, <1>3 DEF QueueView, BridgeTypeOK
  <2> QED BY <1>0, <1>1, <2>1, SameView
<1>4. CASE s = t
  <2>1. status[s] # "none"
    BY <1>0, <1>1, <1>4 DEF Told, Silent
  <2>2. Untouched(s)' /\ Spoken(s)' /\ Silent(s)'
    BY <1>0, <1>1, <2>1, ModuleLeft
  <2>3. /\ msg \in Messages /\ msg.payload \in Payloads
        /\ toOffline[s] \in Seq(Messages) /\ toOnline[s] \in Seq(Payloads)
        /\ toOffline'[s] = Tail(toOffline[s])
    BY <1>0, <1>1, <1>4, HeadPayload DEF BridgeTypeOK
  <2> HIDE DEF msg
  <2>4. CASE Reaches(msg)
    <3>1. /\ remoteBase'[s] = msg.payload
          /\ toOnline'[s] = IF onlineUp THEN Append(toOnline[s], msg.payload)
                                        ELSE toOnline[s]
      BY <1>0, <1>2, <1>4, <2>4 DEF BridgeTypeOK
    <3>2. onlineUp => toOnline'[s] # <<>> /\ Last(toOnline'[s]) = msg.payload
      BY <2>3, <3>1, LastAppend
    <3>3. Passed(s)' /\ Arrived(s)'
      BY <1>0, <1>1, <3>1, <3>2 DEF Told, Passed, Arrived, Last
    <3>4. Forwarded(s)'
      <4>1. CASE msg.payload = status[s]
        BY <1>1, <3>1, <4>1 DEF Forwarded
      <4>2. CASE msg.payload # status[s]
        <5>1. Carries(Tail(toOffline[s]), StatusMsg(status[s]))
          BY <1>0, <1>1, <1>4, <2>3, <2>4, <4>2, OrderedHead
             DEF StatusInOrder, Reaches, msg
        <5> QED BY <1>1, <2>3, <5>1 DEF Forwarded, UnderWay
      <4> QED BY <4>1, <4>2
    <3> QED BY <2>2, <3>3, <3>4 DEF Told
  <2>5. CASE ~Reaches(msg)
    <3>1. msg # StatusMsg(status[s])
      BY <2>5 DEF Reaches, StatusMsg
    <3>2. Carries(toOffline[s], StatusMsg(status[s]))
             => Carries(Tail(toOffline[s]), StatusMsg(status[s]))
      BY <1>1, <1>4, <2>3, <3>1, CarriesTail DEF msg
    <3>3. UnderWay(s) => UnderWay(s)'
      BY <1>1, <2>3, <3>2 DEF UnderWay
    <3>4. Passed(s)' /\ Forwarded(s)' /\ Arrived(s)'
      BY <1>0, <1>1, <1>2, <2>5, <3>3
         DEF Told, Passed, Forwarded, Arrived, Counts, Last
    <3> QED BY <2>2, <3>4 DEF Told
  <2> QED BY <2>4, <2>5
<1> QED BY <1>3, <1>4

\* The last of the messages for the online thread is the status, if the hub
\* is done with that, and the module has subscribed when it comes.
LEMMA OnlineTold ==
  ASSUME QuietIInv, NEW s \in Switches, NEW t \in Switches, OnlineForward(t)
  PROVE  Told(s)'
<1> DEFINE payload == Head(toOnline[t])
<1>0. Told(s) /\ BridgeTypeOK /\ EchoMeets
  BY DEF QuietIInv, BridgeIInv, BridgeInv
<1>1. /\ UNCHANGED <<remoteBase, localBase, offlineUp, onlineUp, unheard>>
      /\ UNCHANGED ModuleView(s) /\ UNCHANGED <<status, relay, file, connected>>
      /\ toOnline[t] # <<>> /\ toOnline' = [toOnline EXCEPT ![t] = Tail(@)]
      /\ InTime(t)
      /\ toDevice' = IF subscribed[t]
                       THEN [toDevice EXCEPT ![t] = Append(@, payload)]
                       ELSE toDevice
      /\ toOffline' = IF offlineUp
                        THEN [toOffline EXCEPT
                               ![t] = Append(toOffline[t], BaseMsg(payload))]
                        ELSE [toOffline EXCEPT ![t] = toOffline[t]]
  BY DEF OnlineForward, LocalPublish, ModuleView, vars, memory, mem, hub, retained
<1>3. CASE s # t
  <2>1. UNCHANGED QueueView(s)
    BY <1>0, <1>1, <1>3 DEF QueueView, BridgeTypeOK
  <2> QED BY <1>0, <1>1, <2>1, SameView
<1>4. CASE s = t
  <2>1. status[s] # "none"
    BY <1>0, <1>1, <1>4 DEF Told, Silent
  <2>2. Untouched(s)' /\ Spoken(s)' /\ Silent(s)'
    BY <1>0, <1>1, <2>1, ModuleLeft
  <2>3. /\ payload \in Payloads /\ toOnline'[s] = Tail(toOnline[s])
        /\ toOffline[s] \in Seq(Messages) /\ toOnline[s] \in Seq(Payloads)
        /\ toDevice[s] \in Seq(Payloads)
    BY <1>0, <1>1, <1>4 DEF BridgeTypeOK
  <2>4. /\ BaseMsg(payload) \in Messages
        /\ BaseMsg(payload) # StatusMsg(status[s])
    BY <2>3 DEF BaseMsg, StatusMsg, Messages
  <2>5. IF Tail(toOnline[s]) = <<>>
          THEN payload = Last(toOnline[s])
          ELSE Last(Tail(toOnline[s])) = Last(toOnline[s])
    BY <1>1, <1>4, <2>3, LastTail
  <2> HIDE DEF payload
  <2>6. Passed(s)'
    BY <1>0, <1>1, <1>4, <2>3, <2>5 DEF Told, Passed, Last
  <2>7. UnderWay(s)' <=> UnderWay(s)
    <3>1. Carries(Append(toOffline[s], BaseMsg(payload)), StatusMsg(status[s]))
            <=> Carries(toOffline[s], StatusMsg(status[s]))
      BY <2>3, <2>4, CarriesAppend
    <3>2. \/ toOffline'[s] = Append(toOffline[s], BaseMsg(payload))
          \/ toOffline'[s] = toOffline[s]
      BY <1>0, <1>1, <1>4 DEF BridgeTypeOK
    <3> QED BY <1>1, <3>1, <3>2 DEF UnderWay
  <2>8. Forwarded(s)'
    BY <1>0, <1>1, <2>7 DEF Told, Forwarded
  <2>9. Arrived(s)'
    <3> SUFFICES ASSUME Counts(s), offlineUp, onlineUp, ~UnderWay(s),
                        toOnline'[s] = <<>>
                 PROVE  toDevice'[s] # <<>> /\ Last(toDevice'[s]) = status[s]
      BY <1>1, <2>7 DEF Arrived, Counts, Last
    <3>1. payload = status[s]
      BY <1>0, <1>1, <1>4, <2>1, <2>3, <2>5 DEF Told, Passed, Forwarded
    <3>2. subscribed[s]
      BY <1>0, <1>1, <1>4 DEF EchoMeets, InTime, Counts
    <3>3. toDevice'[s] = Append(toDevice[s], payload)
      BY <1>0, <1>1, <1>4, <3>2 DEF BridgeTypeOK
    <3> QED BY <2>3, <3>1, <3>3, LastAppend
  <2> QED BY <2>2, <2>6, <2>8, <2>9 DEF Told
<1> QED BY <1>3, <1>4

\* A thread that connects again finds what is retained; one that goes takes
\* its queue with it.
LEMMA SessionsTold ==
  ASSUME QuietIInv, NEW s \in Switches,
         OfflineConnect \/ OfflineDrop \/ OnlineConnect \/ OnlineDrop
  PROVE  Told(s)'
<1>0. Told(s) /\ BridgeTypeOK
  BY DEF QuietIInv, BridgeIInv
<1>1. /\ UNCHANGED <<toDevice, remoteBase, localBase, unheard>>
      /\ UNCHANGED ModuleView(s) /\ UNCHANGED <<status, relay, file, connected>>
  BY DEF OfflineConnect, OfflineDrop, OnlineConnect, OnlineDrop, ModuleView, vars,
         memory, mem, retained
<1>2. CASE OfflineConnect
  <2>1. /\ toOffline'[s] = OfflineReplay(s)
        /\ UNCHANGED <<toOnline, onlineUp>>
    BY <1>2 DEF OfflineConnect
  <2>2. status[s] = "none" => toOffline[s] = <<>> /\ OfflineReplay(s) = <<>>
    BY <1>0 DEF Told, Silent, OfflineReplay, BaseReplay
  <2>3. Untouched(s)' /\ Spoken(s)' /\ Silent(s)'
    BY <1>0, <1>1, <2>1, <2>2, ModuleLeft
  <2>4. status[s] # "none" => UnderWay(s)'
    BY <1>0, <1>1, <2>1, OrderedReplay DEF UnderWay
  <2>5. Counts(s)' => status[s] # "none"
    BY <1>0, <1>1 DEF Counts, Told, Spoken
  <2>6. Forwarded(s)' /\ Passed(s)' /\ Arrived(s)'
    BY <1>0, <1>1, <2>1, <2>4, <2>5 DEF Forwarded, Told, Passed, Arrived, Last
  <2> QED BY <2>3, <2>6 DEF Told
<1>3. CASE OfflineDrop
  <2>1. ~offlineUp' /\ toOffline'[s] = <<>> /\ UNCHANGED <<toOnline, onlineUp>>
    BY <1>3 DEF OfflineDrop
  <2>2. Untouched(s)' /\ Spoken(s)' /\ Silent(s)'
    BY <1>0, <1>1, <2>1 DEF Told, Untouched, Spoken, Silent, ModuleView
  <2>3. Forwarded(s)' /\ Passed(s)' /\ Arrived(s)'
    BY <1>0, <1>1, <2>1 DEF Forwarded, Told, Passed, Arrived, Last
  <2> QED BY <2>2, <2>3 DEF Told
<1>4. CASE OnlineConnect
  <2>1. onlineUp' /\ toOnline'[s] = Replay(remoteBase[s])
        /\ UNCHANGED <<toOffline, offlineUp>>
    BY <1>4 DEF OnlineConnect
  <2>2. Untouched(s)' /\ Spoken(s)' /\ Silent(s)'
    BY <1>0, <1>1, <2>1
       DEF Told, Untouched, Spoken, Silent, ModuleView, Replay
  <2>3. UnderWay(s)' = UnderWay(s)
    BY <1>1, <2>1 DEF UnderWay, Carries
  <2>4. Forwarded(s)' /\ Passed(s)'
    BY <1>0, <1>1, <2>1, <2>3 DEF Forwarded, Told, Passed, Last, Replay
  <2>5. ASSUME Counts(s)', offlineUp', ~UnderWay(s)' PROVE toOnline'[s] # <<>>
    <3>1. Counts(s) /\ offlineUp /\ ~UnderWay(s)
      BY <1>1, <2>1, <2>3, <2>5 DEF Counts
    <3>2. remoteBase[s] # "none"
      BY <1>0, <3>1 DEF Told, Spoken, Forwarded, Counts
    <3> QED BY <2>1, <3>2 DEF Replay
  <2>6. Arrived(s)'
    BY <2>5 DEF Arrived
  <2> QED BY <2>2, <2>4, <2>6 DEF Told
<1>5. CASE OnlineDrop
  <2>1. ~onlineUp' /\ toOnline'[s] = <<>> /\ UNCHANGED <<toOffline, offlineUp>>
    BY <1>5 DEF OnlineDrop
  <2>2. Untouched(s)' /\ Spoken(s)' /\ Silent(s)'
    BY <1>0, <1>1, <2>1 DEF Told, Untouched, Spoken, Silent, ModuleView
  <2>3. UnderWay(s)' <=> UnderWay(s)
    BY <1>1, <2>1 DEF UnderWay, Carries
  <2>4. Passed(s)' /\ Arrived(s)'
    BY <2>1 DEF Passed, Arrived
  <2>5. Forwarded(s)'
    <3>1. Forwarded(s) /\ UNCHANGED <<offlineUp, status, remoteBase>>
      BY <1>0, <1>1, <2>1 DEF Told
    <3> QED BY <2>3, <3>1 DEF Forwarded
  <2> QED BY <2>2, <2>4, <2>5 DEF Told
<1> QED BY <1>2, <1>3, <1>4, <1>5

----------------------------------------------------------------------------
(* The theorems *)

LEMMA InitQuiet == BridgeInit => QuietIInv
<1> SUFFICES ASSUME BridgeInit PROVE QuietIInv
  OBVIOUS
<1>1. BridgeIInv /\ internet
  BY InitBridgeIInv DEF BridgeInit
<1>2. ASSUME NEW s \in Switches PROVE Told(s)
  <2>1. /\ espNew[s] = 0 /\ espOld[s] = 1 /\ connected = FALSE /\ offlineUp = FALSE
        /\ status[s] = "none" /\ localBase[s] = "none" /\ remoteBase[s] = "none"
        /\ toDevice[s] = <<>> /\ toOffline[s] = <<>> /\ toOnline[s] = <<>>
    BY DEF BridgeInit, Init
  <2> QED BY <2>1 DEF Told, Untouched, Spoken, Silent, Forwarded, Passed, Arrived
<1> QED BY <1>1, <1>2 DEF QuietIInv

LEMMA NextQuiet ==
  ASSUME Undisturbed, QuietIInv, [BridgeNext]_bridge_vars
  PROVE  QuietIInv'
<1>1. BridgeIInv'
  BY NextBridgeIInv DEF QuietIInv
<1>2. ~InternetFails /\ ~InternetReturns /\ ~Phone
      /\ \A t \in Switches : ~ForwardLocal(t)
  BY DEF Undisturbed, QuietIInv, InternetFails, InternetReturns, Phone, PhoneAtHome,
         PhoneAway, ForwardLocal
<1>3. internet'
  BY <1>2
     DEF QuietIInv, BridgeNext, bridge_vars, hub, DeviceStep, ConnectStep,
         SubscribeStep, Failing, ConnectFailsStep, SessionLost, ButtonStep,
         CommandStep, ForwardRemote, OnlineForward, OfflineConnect, OfflineDrop,
         OnlineConnect, OnlineDrop
<1>4. ASSUME NEW s \in Switches PROVE Told(s)'
  <2>1. CASE UNCHANGED bridge_vars
    <3>1. Told(s) /\ UNCHANGED <<ModuleView(s), QueueView(s)>>
      BY <2>1 DEF QuietIInv, bridge_vars, vars, memory, mem, queues, retained, hub,
                  ModuleView, QueueView
    <3> QED BY <3>1, SameView
  <2> QED
    BY <1>2, <2>1, DeviceTold, ConnectTold, SubscribeTold, FailingTold, LostTold,
       ButtonTold, CommandTold, RemoteTold, OnlineTold, SessionsTold
       DEF BridgeNext
<1> QED BY <1>1, <1>3, <1>4 DEF QuietIInv

\* With no phone in use and no outage of the Internet, what the phones are
\* told in the quiet is what the lamp is, whatever the buttons, restarts,
\* power cuts and outages of the hub's two clients before it.
THEOREM QuietTellsTruth == ASSUME Undisturbed PROVE BridgeSpec => []QuietTruth
<1>1. QuietIInv => QuietTruth
  <2> SUFFICES ASSUME QuietIInv, Quiet, NEW s \in Switches, file[s] \in Levels,
                      ~unheard[s]
               PROVE  status[s] = Report(relay[s]) /\ remoteBase[s] = status[s]
    BY DEF QuietTruth
  <2>1. /\ connected /\ offlineUp /\ onlineUp /\ toDevice[s] = <<>>
        /\ toOnline[s] = <<>> /\ toOffline[s] = <<>>
    BY DEF Quiet, NothingInFlight
  <2>2. ~UnderWay(s)
    BY <2>1 DEF UnderWay, Carries
  <2> QED BY <2>1, <2>2
             DEF QuietIInv, Told, Spoken, Forwarded, Arrived, Counts
<1>2. QuietIInv /\ [BridgeNext]_bridge_vars => QuietIInv'
  BY NextQuiet
<1> QED BY <1>1, <1>2, InitQuiet, PTL DEF BridgeSpec

\* Whatever phones, outages and cuts came before, in the quiet the module's
\* memory of the last command is in step with every relay that counts, so
\* that neither of the two commands is taken for a repetition of the last.
THEOREM QuietInStep ==
  BridgeSpec => [](Quiet => \A s \in Switches : Counts(s) => InStep(s))
<1>1. BridgeIInv => (Quiet => \A s \in Switches : Counts(s) => InStep(s))
  <2> SUFFICES ASSUME EchoMends, Quiet, NEW s \in Switches, Counts(s), ~InStep(s)
               PROVE  FALSE
    BY DEF BridgeIInv
  <2>1. /\ offlineUp /\ onlineUp /\ toDevice[s] = <<>>
        /\ toOnline[s] = <<>> /\ toOffline[s] = <<>>
    BY DEF Quiet, NothingInFlight
  <2>2. Coming(s, Report(relay[s]))
    BY DEF EchoMends
  <2> QED BY <2>1, <2>2 DEF Coming, Carries
<1> QED BY <1>1, BridgeInvariance, PTL

============================================================================
