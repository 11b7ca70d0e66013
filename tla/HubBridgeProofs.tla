-------------------------- MODULE HubBridgeProofs --------------------------
(***************************************************************************)
(* The hub does to a switch module only what any environment of it may do, *)
(* so what is proved of the module holds of it behind the hub; and the     *)
(* echo that mends the module's memory is never lost. For any number of    *)
(* switches, any bound, any phones and any outages.                        *)
(***************************************************************************)
EXTENDS HubBridge, SmartSwitchProofs

----------------------------------------------------------------------------
(* The module behind the hub is the module of SmartSwitch *)

\* A payload is decoded to a bit.
LEMMA SaidBit == \A payload : Said(payload) \in Bits
  BY DEF Said, Bits

\* Every step of the system is a step of the module or leaves it alone.
LEMMA BridgeStep == [BridgeNext]_bridge_vars => [Next]_vars
<1> SUFFICES ASSUME [BridgeNext]_bridge_vars PROVE [Next]_vars
  OBVIOUS
<1>1. CASE UNCHANGED vars
  BY <1>1
<1>2. CASE DeviceStep
  BY <1>2 DEF DeviceStep, Next
<1>3. ASSUME NEW s \in Switches, ButtonStep(s) PROVE [Next]_vars
  BY <1>3 DEF ButtonStep, Next
<1>4. ASSUME NEW s \in Switches, CommandStep(s) PROVE [Next]_vars
  BY <1>4, SaidBit DEF CommandStep, Next
<1>5. CASE ConnectStep
  BY <1>5 DEF ConnectStep, Next
<1>6. CASE Failing
  BY <1>6 DEF Failing, ConnectFailsStep, Next
<1>7. CASE SessionLost
  BY <1>7 DEF SessionLost, Next
<1> QED
  BY <1>1, <1>2, <1>3, <1>4, <1>5, <1>6, <1>7
     DEF BridgeNext, bridge_vars, SubscribeStep, ForwardRemote, ForwardLocal,
         OnlineForward, OfflineConnect, OfflineDrop, OnlineConnect, OnlineDrop,
         InternetFails, InternetReturns, Phone, PhoneAtHome, PhoneAway

\* The system implements the specification of the module.
THEOREM BridgeImplementsSwitch == BridgeSpec => Spec
<1>1. BridgeInit => Init
  BY DEF BridgeInit
<1> QED
  BY <1>1, BridgeStep, PTL DEF BridgeSpec, Spec

----------------------------------------------------------------------------
(* Queues *)

\* An appended queue carries what it carried, and the message appended.
LEMMA CarriesAppend ==
  ASSUME NEW S, NEW q \in Seq(S), NEW m \in S, NEW x
  PROVE  Carries(Append(q, m), x) <=> Carries(q, x) \/ m = x
<1>1. /\ DOMAIN q = 1..Len(q) /\ DOMAIN Append(q, m) = 1..(Len(q) + 1)
      /\ Len(q) \in Nat
      /\ Append(q, m)[Len(q) + 1] = m
      /\ \A i \in 1..Len(q) : Append(q, m)[i] = q[i]
  OBVIOUS
<1> QED
  BY <1>1 DEF Carries

\* The rest of a queue carries what it carried, but for its head.
LEMMA CarriesTail ==
  ASSUME NEW S, NEW q \in Seq(S), q # <<>>, NEW x, Carries(q, x)
  PROVE  Head(q) = x \/ Carries(Tail(q), x)
<1>1. PICK i \in DOMAIN q : q[i] = x
  BY DEF Carries
<1>2. /\ DOMAIN q = 1..Len(q) /\ DOMAIN Tail(q) = 1..(Len(q) - 1)
      /\ Len(q) \in Nat /\ Head(q) = q[1]
      /\ \A j \in 1..(Len(q) - 1) : Tail(q)[j] = q[j + 1]
  OBVIOUS
<1>3. CASE i = 1
  BY <1>1, <1>2, <1>3
<1>4. CASE i # 1
  <2>1. i - 1 \in DOMAIN Tail(q) /\ Tail(q)[i - 1] = x
    BY <1>1, <1>2, <1>4
  <2> QED
    BY <2>1 DEF Carries
<1> QED
  BY <1>3, <1>4

----------------------------------------------------------------------------
(* The order of the statuses for the offline thread *)

\* A queue that ends with the current status is in order, whatever it held.
LEMMA OrderedStatus ==
  ASSUME NEW q \in Seq(Messages), NEW p
  PROVE  Ordered(Append(q, StatusMsg(p)), p)
<1> DEFINE a == Append(q, StatusMsg(p))
<1>1. /\ DOMAIN a = 1..(Len(q) + 1) /\ Len(q) \in Nat
      /\ a[Len(q) + 1] = StatusMsg(p)
  OBVIOUS
<1>2. StatusMsg(p).payload = p
  BY DEF StatusMsg
<1> QED
  BY <1>1, <1>2 DEF Ordered

\* A command behind the statuses leaves them in order.
LEMMA OrderedBase ==
  ASSUME NEW q \in Seq(Messages), NEW p, NEW c, Ordered(q, c)
  PROVE  Ordered(Append(q, BaseMsg(p)), c)
<1> DEFINE a == Append(q, BaseMsg(p))
<1>1. /\ DOMAIN q = 1..Len(q) /\ DOMAIN a = 1..(Len(q) + 1) /\ Len(q) \in Nat
      /\ a[Len(q) + 1] = BaseMsg(p)
      /\ \A i \in 1..Len(q) : a[i] = q[i]
  OBVIOUS
<1>2. BaseMsg(p).topic # "status"
  BY DEF BaseMsg
<1> QED
  BY <1>1, <1>2 DEF Ordered

\* The rest of a queue in order is in order.
LEMMA OrderedTail ==
  ASSUME NEW q \in Seq(Messages), q # <<>>, NEW c, Ordered(q, c)
  PROVE  Ordered(Tail(q), c)
<1>1. /\ DOMAIN q = 1..Len(q) /\ DOMAIN Tail(q) = 1..(Len(q) - 1)
      /\ Len(q) \in Nat
      /\ \A j \in 1..(Len(q) - 1) : Tail(q)[j] = q[j + 1]
  OBVIOUS
<1> SUFFICES ASSUME NEW i \in 1..(Len(q) - 1), q[i + 1].topic = "status",
                    q[i + 1].payload # c
             PROVE  \E j \in 1..(Len(q) - 1) : j > i /\ q[j + 1] = StatusMsg(c)
  BY <1>1 DEF Ordered
<1>2. i + 1 \in 1..Len(q)
  BY <1>1
<1>3. PICK k \in 1..Len(q) : k > i + 1 /\ q[k] = StatusMsg(c)
  BY <1>1, <1>2 DEF Ordered
<1>4. k - 1 \in 1..(Len(q) - 1) /\ k - 1 > i /\ (k - 1) + 1 = k
  BY <1>1, <1>3
<1> QED
  BY <1>3, <1>4

\* An outdated status at the head is followed by the current one.
LEMMA OrderedHead ==
  ASSUME NEW q \in Seq(Messages), q # <<>>, NEW c, Ordered(q, c),
         Head(q).topic = "status", Head(q).payload # c
  PROVE  Carries(Tail(q), StatusMsg(c))
<1>1. /\ DOMAIN q = 1..Len(q) /\ DOMAIN Tail(q) = 1..(Len(q) - 1)
      /\ Len(q) \in Nat /\ Len(q) >= 1 /\ Head(q) = q[1]
      /\ \A j \in 1..(Len(q) - 1) : Tail(q)[j] = q[j + 1]
  OBVIOUS
<1>2. PICK k \in 1..Len(q) : k > 1 /\ q[k] = StatusMsg(c)
  BY <1>1 DEF Ordered
<1>3. k - 1 \in DOMAIN Tail(q) /\ Tail(q)[k - 1] = StatusMsg(c)
  BY <1>1, <1>2
<1> QED
  BY <1>3 DEF Carries

\* An empty queue is in order.
LEMMA OrderedEmpty == \A c : Ordered(<<>>, c)
<1>1. DOMAIN <<>> = {}
  OBVIOUS
<1> QED
  BY <1>1 DEF Ordered

\* What a new subscription brings is in order, and current.
LEMMA OrderedReplay ==
  ASSUME BridgeTypeOK, NEW s \in Switches
  PROVE  /\ OfflineReplay(s) \in Seq(Messages)
         /\ Ordered(OfflineReplay(s), status[s])
         /\ status[s] # "none" =>
                Carries(OfflineReplay(s), StatusMsg(status[s]))
<1>1. BaseReplay(s) \in Seq(Messages) /\ Ordered(BaseReplay(s), status[s])
  <2>1. CASE localBase[s] = "none"
    BY <2>1, OrderedEmpty DEF BaseReplay
  <2>2. CASE localBase[s] # "none"
    <3>1. BaseMsg(localBase[s]) \in Messages
      BY <2>2 DEF BridgeTypeOK, Retained, BaseMsg, Messages
    <3>2. BaseMsg(localBase[s]).topic # "status"
      BY DEF BaseMsg
    <3>3. BaseReplay(s) = <<BaseMsg(localBase[s])>>
      BY <2>2 DEF BaseReplay
    <3>4. DOMAIN BaseReplay(s) = {1} /\ BaseReplay(s)[1] = BaseMsg(localBase[s])
      BY <3>3
    <3> QED
      BY <3>1, <3>2, <3>3, <3>4 DEF Ordered
  <2> QED
    BY <2>1, <2>2
<1>2. CASE status[s] = "none"
  BY <1>1, <1>2 DEF OfflineReplay
<1>3. CASE status[s] # "none"
  <2>1. StatusMsg(status[s]) \in Messages
    BY <1>3 DEF BridgeTypeOK, TypeOK, StatusMsg, Messages, Payloads
  <2>2. OfflineReplay(s) = Append(BaseReplay(s), StatusMsg(status[s]))
    BY <1>3 DEF OfflineReplay
  <2> QED
    BY <1>1, <2>1, <2>2, OrderedStatus, CarriesAppend
<1> QED
  BY <1>2, <1>3

----------------------------------------------------------------------------
(* Types *)

\* What the module publishes is a payload.
LEMMA SentPayload ==
  /\ \A bit : Payload(bit) \in Payloads
  /\ \A level : Report(level) \in Payloads
  BY DEF Payload, Report, Payloads

\* The status a button step sends.
LEMMA ButtonSends ==
  ASSUME TypeOK, NEW s \in Switches, SwitchHandler(s), connected,
         button[s] # checkbut[s], Publishes(s)
  PROVE  status' = [status EXCEPT ![s] = Payload(button[s])]
  BY DEF SwitchHandler

\* The statuses a connection reports.
LEMMA ReportsSend ==
  ASSUME NEW sent \in SUBSET Switches, status' = Reported(sent),
         NEW s \in sent, file[s] \in Levels
  PROVE  status'[s] = Report(file[s])
  BY DEF Reported

\* Passing statuses on keeps the type of the queue.
LEMMA PassTyped ==
  ASSUME BridgeTypeOK, NEW reporting \in SUBSET Switches,
         PassStatus(reporting), \A s \in reporting : status'[s] \in Payloads
  PROVE  toOffline' \in [Switches -> Seq(Messages)]
<1>1. \A s \in reporting : StatusMsg(status'[s]) \in Messages
  BY DEF StatusMsg, Messages
<1> QED
  BY <1>1 DEF PassStatus, BridgeTypeOK

\* A publication at the local broker keeps the types of both queues.
LEMMA LocalPublishTyped ==
  ASSUME BridgeTypeOK, NEW s \in Switches, NEW payload \in Payloads,
         NEW from \in Seq(Messages), LocalPublish(s, payload, from)
  PROVE  /\ toDevice' \in [Switches -> Seq(Payloads)]
         /\ toOffline' \in [Switches -> Seq(Messages)]
<1>1. BaseMsg(payload) \in Messages
  BY DEF BaseMsg, Messages
<1> QED
  BY <1>1 DEF LocalPublish, BridgeTypeOK

\* Queues that are all empty are queues of anything.
LEMMA EmptyQueues == \A S : [s \in Switches |-> <<>>] \in [Switches -> Seq(S)]
<1>1. \A S : <<>> \in Seq(S)
  OBVIOUS
<1> QED
  BY <1>1

\* The head of a queue for the offline thread holds a payload.
LEMMA HeadPayload ==
  ASSUME BridgeTypeOK, NEW s \in Switches, toOffline[s] # <<>>
  PROVE  /\ Head(toOffline[s]) \in Messages
         /\ Head(toOffline[s]).payload \in Payloads
         /\ Tail(toOffline[s]) \in Seq(Messages)
<1>1. toOffline[s] \in Seq(Messages)
  BY DEF BridgeTypeOK
<1>2. Head(toOffline[s]) \in Messages /\ Tail(toOffline[s]) \in Seq(Messages)
  BY <1>1
<1>3. \A msg \in Messages : msg.payload \in Payloads
  BY DEF Messages
<1> QED
  BY <1>2, <1>3

\* The system starts well typed.
LEMMA InitBridgeTypeOK == BridgeInit => BridgeTypeOK
<1> SUFFICES ASSUME BridgeInit PROVE BridgeTypeOK
  OBVIOUS
<1>1. /\ subscribed \in [Switches -> BOOLEAN] /\ unheard \in [Switches -> BOOLEAN]
      /\ offlineUp \in BOOLEAN /\ onlineUp \in BOOLEAN /\ internet \in BOOLEAN
  BY DEF BridgeInit
<1>2. /\ toDevice \in [Switches -> Seq(Payloads)]
      /\ toOnline \in [Switches -> Seq(Payloads)]
      /\ toOffline \in [Switches -> Seq(Messages)]
  BY EmptyQueues DEF BridgeInit
<1>3. localBase \in [Switches -> Retained] /\ remoteBase \in [Switches -> Retained]
  BY DEF BridgeInit, Retained
<1> QED
  BY <1>1, <1>2, <1>3, InitTypeOK DEF BridgeInit, BridgeTypeOK

\* Every step keeps the types.
LEMMA NextBridgeTypeOK ==
  BridgeTypeOK /\ [BridgeNext]_bridge_vars => BridgeTypeOK'
<1> SUFFICES ASSUME BridgeTypeOK, [BridgeNext]_bridge_vars
             PROVE  BridgeTypeOK'
  OBVIOUS
<1>0. TypeOK /\ TypeOK'
  BY BridgeStep, NextTypeOK DEF BridgeTypeOK
<1>1. CASE UNCHANGED bridge_vars
  BY <1>0, <1>1 DEF bridge_vars, BridgeTypeOK, queues, retained, hub
<1>2. CASE DeviceStep
  BY <1>0, <1>2 DEF DeviceStep, BridgeTypeOK, queues, retained, hub
<1>3. ASSUME NEW s \in Switches, ButtonStep(s) PROVE BridgeTypeOK'
  <2> DEFINE sends == connected /\ button[s] # checkbut[s] /\ Publishes(s)
  <2>1. sends => status'[s] \in Payloads
    BY <1>0, <1>3, ButtonSends, SentPayload DEF ButtonStep, TypeOK
  <2>2. toOffline' \in [Switches -> Seq(Messages)]
    BY <1>3, <2>1, PassTyped DEF ButtonStep
  <2>3. unheard' \in [Switches -> BOOLEAN]
    BY <1>3 DEF ButtonStep, BridgeTypeOK
  <2> QED
    BY <1>0, <1>3, <2>2, <2>3 DEF ButtonStep, BridgeTypeOK, retained, hub
<1>4. ASSUME NEW s \in Switches, CommandStep(s) PROVE BridgeTypeOK'
  <2>1. toDevice' \in [Switches -> Seq(Payloads)]
    BY <1>4 DEF CommandStep, BridgeTypeOK
  <2>2. unheard' \in [Switches -> BOOLEAN]
    BY <1>4 DEF CommandStep, BridgeTypeOK
  <2> QED
    BY <1>0, <1>4, <2>1, <2>2 DEF CommandStep, BridgeTypeOK, retained, hub
<1>5. CASE ConnectStep
  <2>1. \A s \in Switches : file[s] \in Levels => status'[s] \in Payloads
    BY <1>5, ReportsSend, SentPayload DEF ConnectStep, Connect
  <2>2. toOffline' \in [Switches -> Seq(Messages)]
    BY <1>5, <2>1, PassTyped DEF ConnectStep
  <2>3. unheard' \in [Switches -> BOOLEAN]
    BY <1>5, BridgeAssumption DEF ConnectStep, BridgeTypeOK
  <2> QED
    BY <1>0, <1>5, <2>2, <2>3 DEF ConnectStep, BridgeTypeOK, retained, hub
<1>6. ASSUME NEW s \in Switches, NEW sent \in SUBSET Before(s),
             ConnectFailsStep(s, sent)
      PROVE  BridgeTypeOK'
  <2>1. sent \in SUBSET Switches
    BY DEF Before
  <2>2. \A t \in sent : file[t] \in Levels => status'[t] \in Payloads
    BY <1>6, <2>1, ReportsSend, SentPayload DEF ConnectFailsStep, ConnectFails
  <2>3. toOffline' \in [Switches -> Seq(Messages)]
    BY <1>6, <2>1, <2>2, PassTyped DEF ConnectFailsStep
  <2> QED
    BY <1>0, <1>6, <2>3 DEF ConnectFailsStep, BridgeTypeOK, retained, hub
<1>7. CASE SessionLost
  BY <1>0, <1>7, EmptyQueues DEF SessionLost, BridgeTypeOK, retained, hub
<1>8. ASSUME NEW s \in Switches, SubscribeStep(s) PROVE BridgeTypeOK'
  <2>1. Replay(localBase[s]) \in Seq(Payloads)
    BY DEF Replay, BridgeTypeOK, Retained
  <2> QED
    BY <1>0, <1>8, <2>1 DEF SubscribeStep, BridgeTypeOK, retained, hub
<1>9. ASSUME NEW s \in Switches, ForwardRemote(s) PROVE BridgeTypeOK'
  <2>1. Head(toOffline[s]).payload \in Payloads
    BY <1>9, HeadPayload DEF ForwardRemote
  <2>2. remoteBase' \in [Switches -> Retained]
    BY <1>9, <2>1 DEF ForwardRemote, RemotePublish, BridgeTypeOK, Retained
  <2>4. toOnline' \in [Switches -> Seq(Payloads)]
    <3>1. toOnline \in [Switches -> Seq(Payloads)]
      BY DEF BridgeTypeOK
    <3>2. Append(toOnline[s], Head(toOffline[s]).payload) \in Seq(Payloads)
      BY <2>1, <3>1
    <3>3. toOnline' = toOnline
          \/ toOnline' = [toOnline EXCEPT ![s] =
                              Append(@, Head(toOffline[s]).payload)]
      BY <1>9 DEF ForwardRemote, RemotePublish
    <3> QED
      BY <3>1, <3>2, <3>3
  <2>3. toOffline' \in [Switches -> Seq(Messages)]
    BY <1>9 DEF ForwardRemote, BridgeTypeOK
  <2> QED
    BY <1>0, <1>9, <2>2, <2>3, <2>4 DEF ForwardRemote, BridgeTypeOK, hub
<1>10. ASSUME NEW s \in Switches, ForwardLocal(s) PROVE BridgeTypeOK'
  <2>1. /\ Head(toOffline[s]).payload \in Payloads
        /\ Tail(toOffline[s]) \in Seq(Messages)
    BY <1>10, HeadPayload DEF ForwardLocal
  <2>2. /\ toDevice' \in [Switches -> Seq(Payloads)]
        /\ toOffline' \in [Switches -> Seq(Messages)]
    <3>1. CASE Reaches(Head(toOffline[s]))
      BY <1>10, <2>1, <3>1, LocalPublishTyped DEF ForwardLocal
    <3>2. CASE ~Reaches(Head(toOffline[s]))
      BY <1>10, <2>1, <3>2 DEF ForwardLocal, BridgeTypeOK
    <3> QED
      BY <3>1, <3>2
  <2>3. localBase' \in [Switches -> Retained]
    BY <1>10, <2>1 DEF ForwardLocal, BridgeTypeOK, Retained
  <2> QED
    BY <1>0, <1>10, <2>2, <2>3 DEF ForwardLocal, BridgeTypeOK, hub
<1>11. ASSUME NEW s \in Switches, OnlineForward(s) PROVE BridgeTypeOK'
  <2>1. /\ Head(toOnline[s]) \in Payloads /\ Tail(toOnline[s]) \in Seq(Payloads)
        /\ toOffline[s] \in Seq(Messages)
    BY <1>11 DEF OnlineForward, BridgeTypeOK
  <2>2. /\ toDevice' \in [Switches -> Seq(Payloads)]
        /\ toOffline' \in [Switches -> Seq(Messages)]
    BY <1>11, <2>1, LocalPublishTyped DEF OnlineForward
  <2>3. toOnline' \in [Switches -> Seq(Payloads)]
    BY <1>11, <2>1 DEF OnlineForward, BridgeTypeOK
  <2> QED
    BY <1>0, <1>11, <2>2, <2>3 DEF OnlineForward, BridgeTypeOK, retained, hub
<1>12. CASE OfflineConnect
  <2>1. \A s \in Switches : OfflineReplay(s) \in Seq(Messages)
    BY OrderedReplay
  <2> QED
    BY <1>0, <1>12, <2>1 DEF OfflineConnect, BridgeTypeOK, retained
<1>13. CASE OfflineDrop
  BY <1>0, <1>13, EmptyQueues DEF OfflineDrop, BridgeTypeOK, retained
<1>14. CASE OnlineConnect
  <2>1. \A s \in Switches : Replay(remoteBase[s]) \in Seq(Payloads)
    BY DEF Replay, BridgeTypeOK, Retained
  <2> QED
    BY <1>0, <1>14, <2>1 DEF OnlineConnect, BridgeTypeOK, retained
<1>15. CASE OnlineDrop
  BY <1>0, <1>15, EmptyQueues DEF OnlineDrop, BridgeTypeOK, retained
<1>16. CASE InternetFails \/ InternetReturns
  BY <1>0, <1>16
     DEF InternetFails, InternetReturns, BridgeTypeOK, queues, retained
<1>17. ASSUME NEW s \in Switches, NEW payload \in Payloads,
              PhoneAtHome(s, payload)
       PROVE  BridgeTypeOK'
  <2>1. toOffline[s] \in Seq(Messages)
    BY DEF BridgeTypeOK
  <2>2. /\ toDevice' \in [Switches -> Seq(Payloads)]
        /\ toOffline' \in [Switches -> Seq(Messages)]
    BY <1>17, <2>1, LocalPublishTyped DEF PhoneAtHome
  <2> QED
    BY <1>0, <1>17, <2>2 DEF PhoneAtHome, BridgeTypeOK, retained, hub
<1>18. ASSUME NEW s \in Switches, NEW payload \in Payloads,
              PhoneAway(s, payload)
       PROVE  BridgeTypeOK'
  <2>1. toOnline' \in [Switches -> Seq(Payloads)]
    BY <1>18 DEF PhoneAway, BridgeTypeOK
  <2> QED
    BY <1>0, <1>18, <2>1 DEF PhoneAway, BridgeTypeOK, retained, hub
<1> QED
  BY <1>1, <1>2, <1>3, <1>4, <1>5, <1>6, <1>7, <1>8, <1>9, <1>10, <1>11,
     <1>12, <1>13, <1>14, <1>15, <1>16, <1>17, <1>18
     DEF BridgeNext, Failing, Phone

\* Every variable of the system keeps its type.
THEOREM BridgeTypeCorrect == BridgeSpec => []BridgeTypeOK
  BY InitBridgeTypeOK, NextBridgeTypeOK, PTL DEF BridgeSpec

----------------------------------------------------------------------------
(* StatusInOrder *)

\* Passing the statuses on leaves every queue in order.
LEMMA PassInOrder ==
  ASSUME BridgeTypeOK, StatusInOrder, Sessions,
         NEW reporting \in SUBSET Switches, PassStatus(reporting),
         \A s \in Switches \ reporting : status'[s] = status[s]
  PROVE  StatusInOrder'
<1> SUFFICES ASSUME NEW s \in Switches
             PROVE  Ordered(toOffline'[s], status'[s])
  BY DEF StatusInOrder, Ordered
<1>0. toOffline[s] \in Seq(Messages)
  BY DEF BridgeTypeOK
<1>1. CASE s \in reporting /\ offlineUp
  BY <1>0, <1>1, OrderedStatus DEF PassStatus
<1>2. CASE s \in reporting /\ ~offlineUp
  <2>1. toOffline'[s] = <<>>
    BY <1>2 DEF PassStatus, Sessions
  <2> QED
    BY <2>1, OrderedEmpty
<1>3. CASE s \notin reporting
  BY <1>3 DEF PassStatus, StatusInOrder
<1> QED
  BY <1>1, <1>2, <1>3

\* A publication at the local broker leaves every queue in order.
LEMMA LocalPublishInOrder ==
  ASSUME BridgeTypeOK, StatusInOrder, NEW s \in Switches, NEW payload,
         NEW from \in Seq(Messages), Ordered(from, status[s]),
         LocalPublish(s, payload, from), status' = status
  PROVE  StatusInOrder'
<1> SUFFICES ASSUME NEW t \in Switches
             PROVE  Ordered(toOffline'[t], status[t])
  BY DEF StatusInOrder, Ordered
<1>1. toOffline'[t] \in {toOffline[t], from, Append(from, BaseMsg(payload))}
      /\ (t # s => toOffline'[t] = toOffline[t])
  BY DEF LocalPublish, BridgeTypeOK
<1>2. Ordered(toOffline[t], status[t])
  BY DEF StatusInOrder
<1> QED
  BY <1>1, <1>2, OrderedBase

\* Every step keeps the statuses for the offline thread in order.
LEMMA NextStatusInOrder ==
  BridgeTypeOK /\ StatusInOrder /\ Sessions /\ [BridgeNext]_bridge_vars
     => StatusInOrder'
<1> SUFFICES ASSUME BridgeTypeOK, StatusInOrder, Sessions,
                    [BridgeNext]_bridge_vars
             PROVE  StatusInOrder'
  OBVIOUS
<1>1. CASE UNCHANGED <<toOffline, status>>
  BY <1>1 DEF StatusInOrder, Ordered
<1>2. CASE DeviceStep
  BY <1>1, <1>2 DEF DeviceStep, Boot, Armed, Toggle, queues
<1>3. ASSUME NEW s \in Switches, ButtonStep(s) PROVE StatusInOrder'
  <2> DEFINE sends == connected /\ button[s] # checkbut[s] /\ Publishes(s)
  <2>1. status' = IF sends THEN [status EXCEPT ![s] = Payload(button[s])]
                           ELSE status
    BY <1>3 DEF ButtonStep, SwitchHandler
  <2>2. PassStatus(IF sends THEN {s} ELSE {})
    BY <1>3 DEF ButtonStep
  <2>3. \A t \in Switches \ (IF sends THEN {s} ELSE {}) : status'[t] = status[t]
    BY <2>1 DEF BridgeTypeOK, TypeOK
  <2> QED
    BY <2>2, <2>3, PassInOrder
<1>4. ASSUME NEW s \in Switches, CommandStep(s) PROVE StatusInOrder'
  BY <1>1, <1>4 DEF CommandStep, OnMessage
<1>5. CASE ConnectStep
  BY <1>5, PassInOrder DEF ConnectStep, Connect, Reported
<1>6. ASSUME NEW s \in Switches, NEW sent \in SUBSET Before(s),
             ConnectFailsStep(s, sent)
      PROVE  StatusInOrder'
  <2>1. sent \in SUBSET Switches
    BY DEF Before
  <2> QED
    BY <1>6, <2>1, PassInOrder DEF ConnectFailsStep, ConnectFails, Reported
<1>7. CASE SessionLost
  BY <1>1, <1>7
     DEF SessionLost, Raise, OnEmptyMessage, HandlerFails, Cut, PowerCut,
         CutInHandler, CutInMessage, CutInside,
         Offline
<1>8. ASSUME NEW s \in Switches, ForwardRemote(s) PROVE StatusInOrder'
  <2>1. Ordered(Tail(toOffline[s]), status[s])
    BY <1>8, OrderedTail DEF ForwardRemote, BridgeTypeOK, StatusInOrder
  <2>2. toOffline' = [toOffline EXCEPT ![s] = Tail(@)] /\ status' = status
    BY <1>8 DEF ForwardRemote, vars
  <2> QED
    BY <2>1, <2>2 DEF StatusInOrder, BridgeTypeOK, Ordered
<1>9. ASSUME NEW s \in Switches, ForwardLocal(s) PROVE StatusInOrder'
  <2>1. Ordered(Tail(toOffline[s]), status[s])
    BY <1>9, OrderedTail DEF ForwardLocal, BridgeTypeOK, StatusInOrder
  <2>2. status' = status
    BY <1>9 DEF ForwardLocal, vars
  <2>3. Tail(toOffline[s]) \in Seq(Messages)
    BY <1>9, HeadPayload DEF ForwardLocal
  <2>4. CASE Reaches(Head(toOffline[s]))
    BY <1>9, <2>1, <2>2, <2>3, <2>4, LocalPublishInOrder DEF ForwardLocal
  <2>5. CASE ~Reaches(Head(toOffline[s]))
    <3>1. toOffline' = [toOffline EXCEPT ![s] = Tail(@)]
      BY <1>9, <2>5 DEF ForwardLocal
    <3> QED
      BY <2>1, <2>2, <3>1 DEF StatusInOrder, BridgeTypeOK, Ordered
  <2> QED
    BY <2>4, <2>5
<1>10. ASSUME NEW s \in Switches, OnlineForward(s) PROVE StatusInOrder'
  BY <1>10, LocalPublishInOrder
     DEF OnlineForward, BridgeTypeOK, StatusInOrder, vars
<1>11. CASE OfflineConnect
  BY <1>11, OrderedReplay DEF OfflineConnect, StatusInOrder, vars
<1>12. CASE OfflineDrop
  BY <1>12, OrderedEmpty DEF OfflineDrop, StatusInOrder, vars
<1>13. ASSUME NEW s \in Switches, NEW payload \in Payloads,
              PhoneAtHome(s, payload)
       PROVE  StatusInOrder'
  BY <1>13, LocalPublishInOrder
     DEF PhoneAtHome, BridgeTypeOK, StatusInOrder, vars
<1> QED
  BY <1>1, <1>2, <1>3, <1>4, <1>5, <1>6, <1>7, <1>8, <1>9, <1>10, <1>11,
     <1>12, <1>13
     DEF BridgeNext, bridge_vars, queues, vars, Failing, Phone, SubscribeStep,
         OnlineConnect, OnlineDrop, InternetFails, InternetReturns, PhoneAway

----------------------------------------------------------------------------
(* Sessions *)

\* A publication at the local broker fills no queue of a dead session.
LEMMA LocalPublishSessions ==
  ASSUME BridgeTypeOK, Sessions, NEW s \in Switches, NEW payload,
         NEW from \in Seq(Messages), from # <<>> => offlineUp,
         LocalPublish(s, payload, from),
         UNCHANGED <<connected, temp, phase, subscribed, offlineUp>>
  PROVE  Sessions'
<1>1. \A t \in Switches : toDevice'[t] # <<>> => subscribed[t]
  BY DEF LocalPublish, Sessions, BridgeTypeOK
<1>2. \A t \in Switches : toOffline'[t] # <<>> => offlineUp
  BY DEF LocalPublish, Sessions, BridgeTypeOK
<1> QED
  BY <1>1, <1>2 DEF Sessions

\* Statuses are passed on to a living session only.
LEMMA PassSessions ==
  ASSUME BridgeTypeOK, Sessions, NEW reporting, PassStatus(reporting)
  PROVE  \A t \in Switches : toOffline'[t] # <<>> => offlineUp
  BY DEF PassStatus, Sessions

\* Every step keeps the queues with their sessions.
LEMMA NextSessions ==
  BridgeTypeOK /\ Sessions /\ [BridgeNext]_bridge_vars => Sessions'
<1> SUFFICES ASSUME BridgeTypeOK, Sessions, [BridgeNext]_bridge_vars
             PROVE  Sessions'
  OBVIOUS
<1>1. CASE UNCHANGED <<connected, temp, phase, subscribed, toDevice, toOffline,
                       offlineUp>>
  BY <1>1 DEF Sessions
<1>2. CASE DeviceStep
  BY <1>2
     DEF DeviceStep, Boot, Armed, Toggle, ResetMemory, memory, queues, hub,
         Sessions
<1>3. ASSUME NEW s \in Switches, ButtonStep(s) PROVE Sessions'
  <2>1. \A t \in Switches : toOffline'[t] # <<>> => offlineUp
    BY <1>3, PassSessions DEF ButtonStep
  <2> QED
    BY <1>3, <2>1 DEF ButtonStep, SwitchHandler, hub, Sessions
<1>4. ASSUME NEW s \in Switches, CommandStep(s) PROVE Sessions'
  BY <1>4 DEF CommandStep, OnMessage, hub, Sessions, BridgeTypeOK
<1>5. CASE ConnectStep
  <2>1. \A t \in Switches : toOffline'[t] # <<>> => offlineUp
    BY <1>5, PassSessions DEF ConnectStep
  <2> QED
    BY <1>5, <2>1 DEF ConnectStep, Connect, Attempt, hub, Sessions
<1>6. ASSUME NEW s \in Switches, NEW sent \in SUBSET Before(s),
             ConnectFailsStep(s, sent)
      PROVE  Sessions'
  <2>1. \A t \in Switches : toOffline'[t] # <<>> => offlineUp
    BY <1>6, PassSessions DEF ConnectFailsStep
  <2>2. ~connected /\ ~connected'
    BY <1>6 DEF ConnectFailsStep, ConnectFails, Attempt, Down
  <2> QED
    BY <1>6, <2>1, <2>2 DEF ConnectFailsStep, hub, Sessions
<1>7. CASE SessionLost
  <2>1. ~connected'
    BY <1>7
       DEF SessionLost, Raise, OnEmptyMessage, HandlerFails, Cut, PowerCut,
           CutInHandler, CutInMessage, CutInside,
           Down, Offline
  <2> QED
    BY <1>7, <2>1 DEF SessionLost, hub, Sessions
<1>8. ASSUME NEW s \in Switches, SubscribeStep(s) PROVE Sessions'
  BY <1>8 DEF SubscribeStep, vars, memory, hub, Sessions, BridgeTypeOK
<1>9. ASSUME NEW s \in Switches, ForwardRemote(s) PROVE Sessions'
  BY <1>9 DEF ForwardRemote, vars, memory, hub, Sessions, BridgeTypeOK
<1>10. ASSUME NEW s \in Switches, ForwardLocal(s) PROVE Sessions'
  <2>1. Tail(toOffline[s]) \in Seq(Messages) /\ offlineUp
    BY <1>10, HeadPayload DEF ForwardLocal, Sessions
  <2>2. UNCHANGED <<connected, temp, phase, subscribed, offlineUp>>
    BY <1>10 DEF ForwardLocal, vars, memory, hub
  <2>3. CASE Reaches(Head(toOffline[s]))
    BY <1>10, <2>1, <2>2, <2>3, LocalPublishSessions DEF ForwardLocal
  <2>4. CASE ~Reaches(Head(toOffline[s]))
    BY <1>10, <2>1, <2>2, <2>4 DEF ForwardLocal, Sessions, BridgeTypeOK
  <2> QED
    BY <2>3, <2>4
<1>11. ASSUME NEW s \in Switches, OnlineForward(s) PROVE Sessions'
  BY <1>11, LocalPublishSessions
     DEF OnlineForward, vars, memory, hub, Sessions, BridgeTypeOK
<1>12. CASE OfflineConnect
  BY <1>12 DEF OfflineConnect, vars, memory, Sessions
<1>13. CASE OfflineDrop
  BY <1>13 DEF OfflineDrop, vars, memory, Sessions
<1>14. ASSUME NEW s \in Switches, NEW payload \in Payloads,
              PhoneAtHome(s, payload)
       PROVE  Sessions'
  BY <1>14, LocalPublishSessions
     DEF PhoneAtHome, vars, memory, hub, Sessions, BridgeTypeOK
<1> QED
  BY <1>1, <1>2, <1>3, <1>4, <1>5, <1>6, <1>7, <1>8, <1>9, <1>10, <1>11,
     <1>12, <1>13, <1>14
     DEF BridgeNext, bridge_vars, queues, hub, vars, memory, Failing, Phone,
         OnlineConnect, OnlineDrop, InternetFails, InternetReturns, PhoneAway

----------------------------------------------------------------------------
(* What the module's callbacks do to its memory of the commands *)

\* A handler of a connected module either publishes the level of the relay,
\* or leaves the memory of the command in step with it, or changes neither.
LEMMA ButtonEffect ==
  ASSUME IInv, NEW s \in Switches, SwitchHandler(s), connected, temp = 1
  PROVE  IF button[s] # checkbut[s] /\ Publishes(s)
           THEN ~InStep(s)' => status'[s] = Report(relay'[s])
           ELSE UNCHANGED <<relay, file, espOld, status>>
<1> USE DEF IInv
<1>0. /\ button[s] \in {0, 1} /\ checkbut[s] \in {0, 1}
      /\ espNew[s] \in {0, 1} /\ espOld[s] \in {0, 1}
      /\ btnNew[s] \in {0, 1} /\ btnOld[s] \in {0, 1}
      /\ newcheck \in {0, 1} /\ relay[s] \in {"HIGH", "LOW"}
  BY DEF TypeOK, Bits, Levels
<1>1. CASE button[s] = checkbut[s]
  BY <1>1 DEF SwitchHandler
<1>2. CASE button[s] # checkbut[s] /\ ~Publishes(s)
  <2>1. ~Changed(espNew[s], espOld[s], button[s], btnOld[s])
    BY <1>0, <1>2 DEF Publishes, NewCheck
  <2>2. espNew[s] = espOld[s]
    BY <2>1 DEF Changed
  <2>3. /\ UNCHANGED <<relay, file, status>>
        /\ espOld' = [espOld EXCEPT ![s] = espNew[s]]
    BY <1>2, <2>1 DEF SwitchHandler, Algorithm
  <2> QED
    BY <1>2, <2>2, <2>3 DEF TypeOK
<1>3. CASE button[s] # checkbut[s] /\ Publishes(s)
  <2> SUFFICES ~InStep(s)' => status'[s] = Report(relay'[s])
    BY <1>3
  <2>1. status'[s] = Payload(button[s]) /\ espOld'[s] = espNew[s]
    BY <1>3 DEF SwitchHandler, TypeOK
  <2>2. CASE Changed(espNew[s], espOld[s], button[s], btnOld[s])
    <3>1. relay'[s] = Driven(Out(espNew[s], espOld[s], button[s], btnOld[s]))
      BY <1>3, <2>2 DEF SwitchHandler, Algorithm, TypeOK
    <3>2. CASE button[s] = 1
      <4>1. btnOld[s] = 0
        BY <1>0, <1>3, <3>2 DEF ButtonMemory
      <4> QED
        BY <2>1, <3>1, <3>2, <4>1 DEF Out, Driven, Payload, Report
    <3>3. CASE button[s] = 0
      <4>1. ~(espOld[s] = 0 /\ espNew[s] = 1)
        BY <1>0 DEF CommandMemory
      <4> QED
        BY <2>1, <3>1, <3>3, <4>1 DEF Out, Driven, Payload, Report
    <3> QED
      BY <1>0, <3>2, <3>3
  <2>3. CASE ~Changed(espNew[s], espOld[s], button[s], btnOld[s])
    <3>1. /\ relay' = relay /\ espNew[s] = espOld[s] /\ button[s] = btnOld[s]
          /\ checkbut[s] = 1 - button[s]
      BY <1>0, <1>3, <2>3 DEF SwitchHandler, Algorithm, Changed
    <3>2. button[s] = 0 /\ btnOld[s] = 0
      BY <1>0, <3>1 DEF ButtonMemory
    <3>3. CASE relay[s] = "LOW"
      <4>1. espOld[s] = 1
        BY <1>0, <3>2, <3>3 DEF LitByButton
      <4> QED
        BY <2>1, <3>1, <3>3, <4>1 DEF InStep, Payload, Report
    <3>4. CASE relay[s] = "HIGH"
      BY <2>1, <3>1, <3>2, <3>4 DEF Payload, Report
    <3> QED
      BY <1>0, <3>3, <3>4
  <2> QED
    BY <1>3, <2>2, <2>3
<1> QED
  BY <1>1, <1>2, <1>3

\* A command that is not misread leaves the memory in step with the relay,
\* or repeats the last command and changes nothing.
LEMMA CommandEffect ==
  ASSUME IInv, NEW s \in Switches, NEW cmd \in Bits, OnMessage(s, cmd),
         btnNew[s] = btnOld[s]
  PROVE  \/ InStep(s)'
         \/ cmd = espOld[s] /\ UNCHANGED <<relay, file, espOld>>
<1>0. cmd \in {0, 1} /\ espOld[s] \in {0, 1} /\ btnOld[s] \in {0, 1}
  BY DEF IInv, TypeOK, Bits
<1>1. espOld' = [espOld EXCEPT ![s] = cmd] /\ espOld'[s] = cmd
  BY DEF OnMessage, IInv, TypeOK
<1>2. CASE cmd = espOld[s]
  <2>1. UNCHANGED <<relay, file>>
    BY <1>2 DEF OnMessage, Algorithm, Changed
  <2> QED
    BY <1>1, <1>2, <2>1 DEF IInv, TypeOK
<1>3. CASE cmd # espOld[s]
  <2>1. relay'[s] = Driven(Out(cmd, espOld[s], btnNew[s], btnOld[s]))
    BY <1>3 DEF OnMessage, Algorithm, Changed, IInv, TypeOK
  <2> QED
    BY <1>0, <1>1, <1>3, <2>1 DEF Out, Driven, InStep, Payload, Report
<1> QED
  BY <1>2, <1>3

\* The module decodes a payload to the bit it encodes.
LEMMA SaidPayload == \A payload \in Payloads : Payload(Said(payload)) = payload
  BY DEF Payloads, Said, Payload

----------------------------------------------------------------------------
(* EchoMeets *)

\* What EchoMeets says of one switch.
Meets(s) == Counts(s) => /\ Prompt \/ subscribed[s]
                         /\ ~InStep(s) => status[s] = Report(relay[s])

\* What EchoMeets reads of the module, for one switch.
Facts(s) == <<connected, file[s], unheard[s], espOld[s], relay[s], status[s]>>

\* Every step keeps the echo of a status that counts apt to be heard.
LEMMA NextEchoMeets ==
  BridgeTypeOK /\ IInv /\ Sessions /\ EchoMeets /\ [BridgeNext]_bridge_vars
     => EchoMeets'
<1> SUFFICES ASSUME BridgeTypeOK, IInv, Sessions, EchoMeets,
                    [BridgeNext]_bridge_vars, NEW s \in Switches
             PROVE  Meets(s)'
  BY DEF EchoMeets, Meets
<1>0. Meets(s) /\ TypeOK
  BY DEF EchoMeets, Meets, IInv
<1>1. CASE UNCHANGED Facts(s) /\ (subscribed[s] => subscribed'[s])
  BY <1>0, <1>1 DEF Facts, Meets, Counts, InStep
<1>2. CASE ~connected'
  BY <1>2 DEF Meets, Counts
<1>3. CASE DeviceStep
  <2>1. CASE Boot
    BY <1>2, <2>1 DEF Boot, Sessions
  <2>2. CASE Armed \/ \E t \in Switches : Toggle(t)
    BY <1>1, <1>3, <2>2 DEF DeviceStep, Armed, Toggle, memory, mem, Facts
  <2> QED
    BY <1>3, <2>1, <2>2 DEF DeviceStep
<1>4. ASSUME NEW t \in Switches, ButtonStep(t) PROVE Meets(s)'
  <2> DEFINE sends == connected /\ button[t] # checkbut[t] /\ Publishes(t)
  <2>0. /\ SwitchHandler(t) /\ subscribed' = subscribed /\ connected' = connected
        /\ unheard' = [unheard EXCEPT ![t] = IF sends THEN ~subscribed[t] ELSE @]
    BY <1>4 DEF ButtonStep, SwitchHandler
  <2>1. CASE s # t
    BY <1>1, <2>0, <2>1
       DEF SwitchHandler, Algorithm, Facts, TypeOK, BridgeTypeOK
  <2>2. CASE s = t /\ sends
    <3>1. ~InStep(s)' => status'[s] = Report(relay'[s])
      BY <2>0, <2>2, ButtonEffect DEF Sessions
    <3>2. unheard'[s] = ~subscribed[s]
      BY <2>0, <2>2 DEF BridgeTypeOK
    <3> QED
      BY <2>0, <3>1, <3>2 DEF Meets, Counts
  <2>3. CASE s = t /\ connected /\ ~sends
    <3>1. UNCHANGED <<relay, file, espOld, status>>
      BY <2>0, <2>3, ButtonEffect DEF Sessions
    <3> QED
      BY <1>1, <2>0, <2>3, <3>1 DEF Facts, BridgeTypeOK
  <2> QED
    BY <1>2, <2>0, <2>1, <2>2, <2>3
<1>5. ASSUME NEW t \in Switches, CommandStep(t) PROVE Meets(s)'
  <2> DEFINE cmd == Said(Head(toDevice[t]))
  <2>0. /\ OnMessage(t, cmd) /\ cmd \in Bits /\ subscribed' = subscribed
        /\ unheard' = [unheard EXCEPT ![t] = @ \/ btnNew[t] # btnOld[t]]
        /\ connected' = connected /\ status' = status
        /\ toDevice[t] # <<>>
    BY <1>5, SaidBit DEF CommandStep, OnMessage
  <2>1. CASE s # t
    BY <1>1, <2>0, <2>1
       DEF OnMessage, Algorithm, Facts, TypeOK, BridgeTypeOK
  <2>2. CASE s = t /\ btnNew[t] # btnOld[t]
    BY <2>0, <2>2 DEF Meets, Counts, BridgeTypeOK
  <2>3. CASE s = t /\ btnNew[t] = btnOld[t]
    <3>1. subscribed'[s]
      BY <2>0, <2>3 DEF Sessions
    <3>2. \/ InStep(s)'
          \/ UNCHANGED <<relay, file, espOld>>
      BY <2>0, <2>3, CommandEffect
    <3>3. CASE InStep(s)'
      BY <3>1, <3>3 DEF Meets
    <3>4. CASE UNCHANGED <<relay, file, espOld>>
      BY <1>1, <2>0, <2>3, <3>4 DEF Facts, BridgeTypeOK
    <3> QED
      BY <3>2, <3>3, <3>4
  <2> QED
    BY <2>1, <2>2, <2>3
<1>6. CASE ConnectStep
  <2>1. /\ unheard'[s] = IF file[s] \in Levels THEN ~Prompt ELSE unheard[s]
        /\ file' = file /\ relay' = relay
        /\ status' = Reported(Switches)
    BY <1>6 DEF ConnectStep, Connect
  <2>2. CASE file[s] \in Levels
    <3>1. status'[s] = Report(relay'[s])
      BY <2>1, <2>2 DEF Reported, IInv, FileMirrorsRelay
    <3> QED
      BY <2>1, <2>2, <3>1 DEF Meets, Counts
  <2>3. CASE file[s] \notin Levels
    BY <2>1, <2>3 DEF Meets, Counts
  <2> QED
    BY <2>2, <2>3
<1>7. CASE Failing
  BY <1>2, <1>7 DEF Failing, ConnectFailsStep, ConnectFails, Down
<1>8. CASE SessionLost
  BY <1>2, <1>8
     DEF SessionLost, Raise, OnEmptyMessage, HandlerFails, Cut, PowerCut,
         CutInHandler, CutInMessage, CutInside, Down,
         Offline
<1>9. ASSUME NEW t \in Switches, SubscribeStep(t) PROVE Meets(s)'
  BY <1>1, <1>9 DEF SubscribeStep, Facts, vars, memory, mem, BridgeTypeOK
<1>10. CASE UNCHANGED <<vars, subscribed, unheard>>
  BY <1>1, <1>10 DEF Facts, vars, memory, mem
<1> QED
  BY <1>3, <1>4, <1>5, <1>6, <1>7, <1>8, <1>9, <1>10
     DEF BridgeNext, bridge_vars, queues, hub, Phone, ForwardRemote,
         ForwardLocal, OnlineForward, OfflineConnect, OfflineDrop,
         OnlineConnect, OnlineDrop, InternetFails, InternetReturns,
         PhoneAtHome, PhoneAway

----------------------------------------------------------------------------
(* EchoMends *)

\* What EchoMends says of one switch, and what is owed to it.
Owed(s)  == Counts(s) /\ ~InStep(s)
Mends(s) == Owed(s) => Coming(s, Report(relay[s]))

\* The statuses, the retained echoes and the sessions of the hub.
Upstream(s) == <<remoteBase[s], onlineUp, toOnline[s], status[s], offlineUp,
                 toOffline[s]>>

\* A step that passes the current status of a switch on starts its echo.
LEMMA StatusComing ==
  ASSUME BridgeTypeOK, NEW s \in Switches, NEW reporting \in SUBSET Switches,
         s \in reporting, PassStatus(reporting), offlineUp' = offlineUp,
         status'[s] \in Payloads
  PROVE  Coming(s, status[s])'
<1>1. StatusMsg(status'[s]) \in Messages
  BY DEF StatusMsg, Messages
<1>2. offlineUp => toOffline'[s] = Append(toOffline[s], StatusMsg(status'[s]))
  BY DEF PassStatus
<1>3. toOffline[s] \in Seq(Messages)
  BY DEF BridgeTypeOK
<1>4. \A m \in Messages : Carries(Append(toOffline[s], m), m)
  BY <1>3, CarriesAppend
<1>5. offlineUp => Carries(toOffline'[s], StatusMsg(status'[s]))
  BY <1>1, <1>2, <1>4
<1> QED
  BY <1>5 DEF Coming

\* A publication at the local broker loses nothing of what the queues carry
\* and, where the module subscribed the topic, reaches it.
LEMMA LocalPublishCarries ==
  ASSUME BridgeTypeOK, NEW s \in Switches, NEW payload \in Payloads,
         NEW from \in Seq(Messages), LocalPublish(s, payload, from)
  PROVE  /\ \A t \in Switches : \A x : Carries(toDevice[t], x)
                                         => Carries(toDevice'[t], x)
         /\ subscribed[s] => Carries(toDevice'[s], payload)
         /\ \A x : Carries(from, x) => Carries(toOffline'[s], x)
         /\ \A t \in Switches : t # s => toOffline'[t] = toOffline[t]
<1>0. toDevice[s] \in Seq(Payloads) /\ BaseMsg(payload) \in Messages
  BY DEF BridgeTypeOK, BaseMsg, Messages
<1>1. \A t \in Switches : toDevice'[t] = IF t = s /\ subscribed[s]
                                           THEN Append(toDevice[s], payload)
                                           ELSE toDevice[t]
  BY DEF LocalPublish, BridgeTypeOK
<1>2. toOffline'[s] \in {from, Append(from, BaseMsg(payload))}
  BY DEF LocalPublish, BridgeTypeOK
<1>3. \A t \in Switches : t # s => toOffline'[t] = toOffline[t]
  BY DEF LocalPublish, BridgeTypeOK
<1>4. \A x : Carries(Append(toDevice[s], payload), x)
             <=> Carries(toDevice[s], x) \/ payload = x
  BY <1>0, CarriesAppend
<1>5. \A x : Carries(Append(from, BaseMsg(payload)), x)
             <=> Carries(from, x) \/ BaseMsg(payload) = x
  BY <1>0, CarriesAppend
<1> QED
  BY <1>1, <1>2, <1>3, <1>4, <1>5

\* Every step of the module and its broker leaves what is owed on its way.
LEMMA ModuleMends ==
  ASSUME BridgeTypeOK, IInv, Sessions, NEW s \in Switches, EchoMeets',
         Mends(s), DeviceStep \/ ConnectStep \/ Failing \/ SessionLost
                   \/ \E t \in Switches : ButtonStep(t) \/ CommandStep(t)
                                           \/ SubscribeStep(t)
  PROVE  Mends(s)'
<1>0. TypeOK
  BY DEF IInv
<1>1. CASE UNCHANGED <<Facts(s), toDevice[s], Upstream(s)>>
  BY <1>1 DEF Facts, Upstream, Mends, Owed, Counts, InStep, Coming
<1>2. CASE ~connected'
  BY <1>2 DEF Mends, Owed, Counts
<1>3. CASE DeviceStep
  <2>1. CASE Boot
    BY <1>2, <2>1 DEF Boot, Sessions
  <2>2. CASE Armed \/ \E t \in Switches : Toggle(t)
    BY <1>1, <1>3, <2>2
       DEF DeviceStep, Armed, Toggle, memory, mem, queues, retained, hub, Facts,
           Upstream
  <2> QED
    BY <1>3, <2>1, <2>2 DEF DeviceStep
<1>4. ASSUME NEW t \in Switches, ButtonStep(t) PROVE Mends(s)'
  <2> DEFINE sends == connected /\ button[t] # checkbut[t] /\ Publishes(t)
  <2>0. /\ SwitchHandler(t) /\ connected' = connected
        /\ UNCHANGED <<toDevice, toOnline, retained, hub>>
        /\ PassStatus(IF sends THEN {t} ELSE {})
        /\ unheard' = [unheard EXCEPT ![t] = IF sends THEN ~subscribed[t] ELSE @]
    BY <1>4 DEF ButtonStep, SwitchHandler
  <2>1. CASE s # t
    <3>1. toOffline'[s] = toOffline[s]
      BY <2>0, <2>1 DEF PassStatus
    <3> QED
      BY <1>0, <1>1, <2>0, <2>1, <3>1
         DEF SwitchHandler, Algorithm, Facts, Upstream, TypeOK, BridgeTypeOK,
             retained, hub
  <2>2. CASE s = t /\ sends
    <3>1. Owed(s)' => status'[s] = Report(relay'[s])
      BY DEF EchoMeets, Owed
    <3>2. status'[s] \in Payloads
      BY <1>0, <2>0, <2>2, ButtonSends, SentPayload DEF TypeOK
    <3>3. Coming(s, status[s])'
      BY <2>0, <2>2, <3>2, StatusComing DEF hub
    <3> QED
      BY <3>1, <3>3 DEF Mends
  <2>3. CASE s = t /\ connected /\ ~sends
    <3>1. UNCHANGED <<relay, file, espOld, status>>
      BY <2>0, <2>3, ButtonEffect DEF Sessions
    <3>2. toOffline'[s] = toOffline[s]
      BY <2>0, <2>3 DEF PassStatus
    <3> QED
      BY <1>1, <2>0, <2>3, <3>1, <3>2
         DEF Facts, Upstream, BridgeTypeOK, retained, hub
  <2> QED
    BY <1>2, <2>0, <2>1, <2>2, <2>3
<1>5. ASSUME NEW t \in Switches, CommandStep(t) PROVE Mends(s)'
  <2> DEFINE cmd == Said(Head(toDevice[t]))
  <2>0. /\ OnMessage(t, cmd) /\ cmd \in Bits
        /\ toDevice[t] # <<>> /\ toDevice' = [toDevice EXCEPT ![t] = Tail(@)]
        /\ unheard' = [unheard EXCEPT ![t] = @ \/ btnNew[t] # btnOld[t]]
        /\ UNCHANGED <<connected, status, subscribed, toOffline, toOnline,
                       retained, hub>>
    BY <1>5, SaidBit DEF CommandStep, OnMessage
  <2>1. CASE s # t
    BY <1>1, <2>0, <2>1
       DEF OnMessage, Algorithm, Facts, Upstream, TypeOK, BridgeTypeOK,
           retained, hub
  <2>2. CASE s = t /\ btnNew[t] # btnOld[t]
    BY <2>0, <2>2 DEF Mends, Owed, Counts, BridgeTypeOK
  <2>3. CASE s = t /\ btnNew[t] = btnOld[t]
    <3>1. CASE InStep(s)'
      BY <3>1 DEF Mends, Owed
    <3>2. CASE cmd = espOld[s] /\ UNCHANGED <<relay, file, espOld>>
      <4> SUFFICES ASSUME Owed(s)' PROVE Coming(s, Report(relay[s]))'
        BY DEF Mends
      <4>1. Owed(s)
        BY <2>0, <2>3, <3>2 DEF Owed, Counts, InStep, BridgeTypeOK
      <4>2. /\ Head(toDevice[s]) \in Payloads /\ toDevice[s] \in Seq(Payloads)
            /\ toDevice'[s] = Tail(toDevice[s])
        BY <2>0, <2>3 DEF BridgeTypeOK
      <4>3. Head(toDevice[s]) # Report(relay[s])
        BY <2>3, <3>2, <4>1, <4>2, SaidPayload DEF Owed, InStep
      <4>4. Carries(toDevice[s], Report(relay[s]))
               => Carries(toDevice'[s], Report(relay[s]))
        BY <2>0, <2>3, <4>2, <4>3, CarriesTail
      <4> QED
        BY <2>0, <3>2, <4>1, <4>4 DEF Mends, Coming, retained, hub
    <3> QED
      BY <2>0, <2>3, <3>1, <3>2, CommandEffect
  <2> QED
    BY <2>1, <2>2, <2>3
<1>6. CASE ConnectStep
  <2>1. /\ unheard'[s] = IF file[s] \in Levels THEN ~Prompt ELSE unheard[s]
        /\ file' = file /\ relay' = relay
        /\ status' = Reported(Switches)
        /\ PassStatus({t \in Switches : file[t] \in Levels})
        /\ offlineUp' = offlineUp
    BY <1>6 DEF ConnectStep, Connect, hub
  <2>2. CASE file[s] \in Levels
    <3>1. status'[s] = Report(relay'[s]) /\ status'[s] \in Payloads
      BY <2>1, <2>2, SentPayload DEF Reported, IInv, FileMirrorsRelay
    <3>2. Coming(s, status[s])'
      BY <2>1, <2>2, <3>1, StatusComing
    <3> QED
      BY <3>1, <3>2 DEF Mends
  <2>3. CASE file[s] \notin Levels
    BY <2>1, <2>3 DEF Mends, Owed, Counts
  <2> QED
    BY <2>2, <2>3
<1>7. CASE Failing
  BY <1>2, <1>7 DEF Failing, ConnectFailsStep, ConnectFails, Down
<1>8. CASE SessionLost
  BY <1>2, <1>8
     DEF SessionLost, Raise, OnEmptyMessage, HandlerFails, Cut, PowerCut,
         CutInHandler, CutInMessage, CutInside, Down,
         Offline
<1>9. ASSUME NEW t \in Switches, SubscribeStep(t) PROVE Mends(s)'
  <2>1. CASE s # t
    BY <1>1, <1>9, <2>1
       DEF SubscribeStep, Facts, Upstream, vars, memory, mem, BridgeTypeOK,
           retained, hub
  <2>2. CASE s = t
    <3>1. toDevice[s] = <<>>
      BY <1>9, <2>2 DEF SubscribeStep, Sessions
    <3>2. \A x : ~Carries(toDevice[s], x)
      BY <3>1 DEF Carries
    <3> QED
      BY <1>9, <3>2
         DEF SubscribeStep, Mends, Owed, Counts, InStep, Coming, vars, memory,
             mem, retained, hub
  <2> QED
    BY <2>1, <2>2
<1> QED
  BY <1>3, <1>4, <1>5, <1>6, <1>7, <1>8, <1>9

\* The steps of the hub and of the world outside.
HubStep ==
    \/ \E t \in Switches : ForwardRemote(t) \/ ForwardLocal(t) \/ OnlineForward(t)
    \/ OfflineConnect \/ OfflineDrop \/ OnlineConnect \/ OnlineDrop
    \/ InternetFails \/ InternetReturns \/ Phone

\* Each of them leaves what is owed on its way.
LEMMA HubMends ==
  ASSUME BridgeTypeOK, StatusInOrder, Sessions, EchoMeets, NEW s \in Switches,
         Mends(s), HubStep
  PROVE  Mends(s)'
<1>0. UNCHANGED <<vars, subscribed, unheard>>
  BY DEF HubStep, ForwardRemote, ForwardLocal, OnlineForward, OfflineConnect,
         OfflineDrop, OnlineConnect, OnlineDrop, InternetFails, InternetReturns,
         Phone, PhoneAtHome, PhoneAway
<1> DEFINE p == Report(relay[s])
<1>1. p' = p /\ Owed(s)' = Owed(s) /\ status' = status
  BY <1>0 DEF Owed, Counts, InStep, vars, memory, mem
<1> SUFFICES ASSUME Owed(s), Coming(s, p)
             PROVE  Coming(s, p)'
  BY <1>1 DEF Mends
<1>2. /\ p \in Payloads /\ status[s] = p /\ connected
      /\ Prompt \/ subscribed[s]
  BY SentPayload DEF Owed, Counts, EchoMeets
<1>3. /\ toDevice[s] \in Seq(Payloads) /\ toOnline[s] \in Seq(Payloads)
      /\ toOffline[s] \in Seq(Messages)
  BY DEF BridgeTypeOK
<1> HIDE DEF p
<1>4. CASE UNCHANGED <<toDevice[s], Upstream(s)>>
  BY <1>1, <1>4 DEF Coming, Upstream
<1>5. ASSUME NEW t \in Switches, ForwardRemote(t) PROVE Coming(s, p)'
  <2> DEFINE h == Head(toOffline[t])
  <2>0. /\ toOffline' = [toOffline EXCEPT ![t] = Tail(@)] /\ toOffline[t] # <<>>
        /\ UNCHANGED <<toDevice, hub>>
        /\ IF Reaches(h) THEN RemotePublish(t, h.payload)
                         ELSE UNCHANGED <<remoteBase, toOnline>>
    BY <1>5 DEF ForwardRemote
  <2>1. CASE s # t
    <3>1. UNCHANGED <<toOffline[s], remoteBase[s], toOnline[s]>>
      BY <2>0, <2>1 DEF RemotePublish, BridgeTypeOK
    <3> QED
      BY <1>1, <1>4, <2>0, <3>1 DEF Upstream, hub
  <2> SUFFICES ASSUME s = t PROVE Coming(s, p)'
    BY <2>1
  <2>2. toOffline'[s] = Tail(toOffline[s])
    BY <2>0 DEF BridgeTypeOK
  <2>3. CASE Reaches(h) /\ h.payload = p
    <3>1. remoteBase'[s] = p
      BY <2>0, <2>3 DEF RemotePublish, BridgeTypeOK
    <3>2. onlineUp => toOnline'[s] = Append(toOnline[s], p)
      BY <2>0, <2>3 DEF RemotePublish, BridgeTypeOK
    <3>3. Carries(Append(toOnline[s], p), p)
      BY <1>2, <1>3, CarriesAppend
    <3> QED
      BY <1>1, <2>0, <3>1, <3>2, <3>3 DEF Coming, hub
  <2>4. CASE Reaches(h) /\ h.payload # p
    <3>1. Carries(toOffline'[s], StatusMsg(p))
      BY <1>2, <1>3, <2>0, <2>2, <2>4, OrderedHead DEF StatusInOrder, Reaches
    <3> QED
      BY <1>1, <1>2, <3>1 DEF Coming
  <2>5. CASE ~Reaches(h)
    <3>1. h # StatusMsg(p)
      BY <2>5 DEF Reaches, StatusMsg
    <3>2. Carries(toOffline[s], StatusMsg(p))
             => Carries(toOffline'[s], StatusMsg(p))
      BY <1>3, <2>0, <2>2, <3>1, CarriesTail
    <3> QED
      BY <1>1, <2>0, <2>5, <3>2 DEF Coming, hub
  <2> QED
    BY <2>3, <2>4, <2>5
<1>6. ASSUME NEW t \in Switches, ForwardLocal(t) PROVE Coming(s, p)'
  <2> DEFINE h == Head(toOffline[t])
  <2>0. /\ InTime(t) /\ toOffline[t] # <<>>
        /\ UNCHANGED <<toOnline, remoteBase, hub>>
        /\ IF Reaches(h)
             THEN LocalPublish(t, h.payload, Tail(toOffline[t]))
             ELSE /\ toOffline' = [toOffline EXCEPT ![t] = Tail(@)]
                  /\ toDevice' = toDevice
    BY <1>6 DEF ForwardLocal
  <2>1. h.payload \in Payloads /\ Tail(toOffline[t]) \in Seq(Messages)
    BY <2>0, HeadPayload
  <2>2. /\ Carries(toDevice[s], p) => Carries(toDevice'[s], p)
        /\ t # s => toOffline'[s] = toOffline[s]
        /\ t = s => \A x : Carries(Tail(toOffline[s]), x)
                             => Carries(toOffline'[s], x)
    <3>1. CASE Reaches(h)
      BY <2>0, <2>1, <3>1, LocalPublishCarries
    <3>2. CASE ~Reaches(h)
      BY <2>0, <3>2 DEF BridgeTypeOK
    <3> QED
      BY <3>1, <3>2
  <2>3. CASE t = s /\ h = StatusMsg(p)
    <3>1. Reaches(h) /\ h.payload = p
      BY <2>3 DEF Reaches, StatusMsg
    <3>2. subscribed[s]
      BY <1>2, <2>0, <2>3 DEF InTime
    <3>3. Carries(toDevice'[s], p)
      BY <2>0, <2>1, <2>3, <3>1, <3>2, LocalPublishCarries
    <3> QED
      BY <1>1, <3>3 DEF Coming
  <2>4. CASE t = s /\ h # StatusMsg(p)
    <3>1. Carries(toOffline[s], StatusMsg(p))
             => Carries(toOffline'[s], StatusMsg(p))
      BY <1>3, <2>0, <2>2, <2>4, CarriesTail
    <3> QED
      BY <1>1, <2>0, <2>2, <3>1 DEF Coming, hub
  <2>5. CASE t # s
    BY <1>1, <2>0, <2>2, <2>5 DEF Coming, hub
  <2> QED
    BY <2>3, <2>4, <2>5
<1>7. ASSUME NEW t \in Switches, OnlineForward(t) PROVE Coming(s, p)'
  <2> DEFINE h == Head(toOnline[t])
  <2>0. /\ InTime(t) /\ toOnline[t] # <<>>
        /\ toOnline' = [toOnline EXCEPT ![t] = Tail(@)]
        /\ LocalPublish(t, h, toOffline[t])
        /\ UNCHANGED <<retained, hub>>
    BY <1>7 DEF OnlineForward
  <2>1. h \in Payloads /\ toOffline[t] \in Seq(Messages)
    BY <2>0 DEF BridgeTypeOK
  <2>2. /\ Carries(toDevice[s], p) => Carries(toDevice'[s], p)
        /\ \A x : Carries(toOffline[s], x) => Carries(toOffline'[s], x)
    BY <2>0, <2>1, LocalPublishCarries
  <2>3. CASE t = s /\ h = p
    <3>1. subscribed[s]
      BY <1>2, <2>0, <2>3 DEF InTime
    <3>2. Carries(toDevice'[s], p)
      BY <2>0, <2>1, <2>3, <3>1, LocalPublishCarries
    <3> QED
      BY <1>1, <3>2 DEF Coming
  <2>4. CASE ~(t = s /\ h = p)
    <3>1. Carries(toOnline[s], p) => Carries(toOnline'[s], p)
      BY <1>3, <2>0, <2>4, CarriesTail DEF BridgeTypeOK
    <3> QED
      BY <1>1, <2>0, <2>2, <3>1 DEF Coming, hub, retained
  <2> QED
    BY <2>3, <2>4
<1>8. CASE OfflineConnect
  <2>1. status[s] # "none"
    BY <1>2 DEF Payloads
  <2>2. Carries(toOffline'[s], StatusMsg(p))
    BY <1>2, <1>8, <2>1, OrderedReplay DEF OfflineConnect
  <2> QED
    BY <1>1, <1>2, <2>2 DEF Coming
<1>9. CASE OfflineDrop
  BY <1>1, <1>2, <1>9 DEF OfflineDrop, Coming
<1>10. CASE OnlineConnect
  <2>1. remoteBase[s] = p => Carries(toOnline'[s], p)
    <3>1. CASE remoteBase[s] = p
      <4>1. toOnline'[s] = <<p>>
        BY <1>2, <1>10, <3>1 DEF OnlineConnect, Replay, Payloads
      <4> QED
        BY <4>1 DEF Carries
    <3> QED
      BY <3>1
  <2> QED
    BY <1>1, <1>10, <2>1 DEF OnlineConnect, Coming, retained
<1>11. CASE OnlineDrop
  BY <1>1, <1>11 DEF OnlineDrop, Coming, retained
<1>12. CASE InternetFails \/ InternetReturns
  BY <1>1, <1>4, <1>12
     DEF InternetFails, InternetReturns, queues, retained, Upstream
<1>13. ASSUME NEW t \in Switches, NEW payload \in Payloads,
              PhoneAtHome(t, payload)
       PROVE  Coming(s, p)'
  <2>1. toOffline[t] \in Seq(Messages)
    BY DEF BridgeTypeOK
  <2>2. /\ Carries(toDevice[s], p) => Carries(toDevice'[s], p)
        /\ \A x : Carries(toOffline[s], x) => Carries(toOffline'[s], x)
    BY <1>13, <2>1, LocalPublishCarries DEF PhoneAtHome
  <2> QED
    BY <1>1, <1>13, <2>2 DEF PhoneAtHome, Coming, hub, retained
<1>14. ASSUME NEW t \in Switches, NEW payload \in Payloads, PhoneAway(t, payload)
       PROVE  Coming(s, p)'
  <2>1. Carries(Append(toOnline[s], payload), p)
          <=> Carries(toOnline[s], p) \/ payload = p
    BY <1>3, CarriesAppend
  <2>2. Carries(toOnline[s], p) => Carries(toOnline'[s], p)
    BY <1>14, <2>1 DEF PhoneAway, BridgeTypeOK
  <2> QED
    BY <1>1, <1>14, <2>2 DEF PhoneAway, Coming, hub, retained
<1> QED
  BY <1>5, <1>6, <1>7, <1>8, <1>9, <1>10, <1>11, <1>12, <1>13, <1>14
     DEF HubStep, Phone

\* Every step leaves what is owed on its way.
LEMMA NextEchoMends ==
  BridgeTypeOK /\ IInv /\ BridgeInv /\ EchoMeets' /\ EchoMends
  /\ [BridgeNext]_bridge_vars => EchoMends'
<1> SUFFICES ASSUME BridgeTypeOK, IInv, BridgeInv, EchoMeets', EchoMends,
                    [BridgeNext]_bridge_vars, NEW s \in Switches
             PROVE  Mends(s)'
  BY DEF EchoMends, Mends, Owed
<1>1. Mends(s)
  BY DEF EchoMends, Mends, Owed
<1>2. CASE UNCHANGED bridge_vars
  BY <1>1, <1>2
     DEF bridge_vars, vars, memory, mem, queues, retained, hub, Mends, Owed,
         Counts, InStep, Coming
<1>3. CASE HubStep
  BY <1>1, <1>3, HubMends DEF BridgeInv
<1>4. CASE BridgeNext /\ ~HubStep
  <2>1. DeviceStep \/ ConnectStep \/ Failing \/ SessionLost
        \/ \E t \in Switches : ButtonStep(t) \/ CommandStep(t) \/ SubscribeStep(t)
    BY <1>4 DEF BridgeNext, HubStep
  <2> QED
    BY <1>1, <2>1, ModuleMends DEF BridgeInv
<1> QED
  BY <1>2, <1>3, <1>4

----------------------------------------------------------------------------
(* The theorems *)

\* The inductive invariant of the system.
BridgeIInv == BridgeTypeOK /\ IInv /\ BridgeInv /\ EchoMends

\* It holds at the start, when no module is in session.
LEMMA InitBridgeIInv == BridgeInit => BridgeIInv
<1> SUFFICES ASSUME BridgeInit PROVE BridgeIInv
  OBVIOUS
<1>1. BridgeTypeOK /\ IInv
  BY InitBridgeTypeOK, InitIInv DEF BridgeInit
<1>2. \A s \in Switches : /\ toDevice[s] = <<>> /\ toOffline[s] = <<>>
                          /\ subscribed[s] = FALSE /\ ~Counts(s)
  BY DEF BridgeInit, Init, Counts
<1>3. connected = FALSE
  BY DEF BridgeInit, Init
<1> QED
  BY <1>1, <1>2, <1>3, OrderedEmpty
     DEF BridgeIInv, BridgeInv, StatusInOrder, Sessions, EchoMeets, EchoMends

\* Every step keeps it.
LEMMA NextBridgeIInv == BridgeIInv /\ [BridgeNext]_bridge_vars => BridgeIInv'
<1> SUFFICES ASSUME BridgeIInv, [BridgeNext]_bridge_vars
             PROVE  BridgeIInv'
  OBVIOUS
<1> USE DEF BridgeIInv, BridgeInv
<1>1. BridgeTypeOK' /\ IInv'
  BY NextBridgeTypeOK, BridgeStep, NextIInv
<1>2. StatusInOrder' /\ Sessions' /\ EchoMeets'
  BY NextStatusInOrder, NextSessions, NextEchoMeets
<1>3. EchoMends'
  BY <1>2, NextEchoMends
<1> QED
  BY <1>1, <1>2, <1>3

\* It holds in every reachable state.
THEOREM BridgeInvariance == BridgeSpec => []BridgeIInv
  BY InitBridgeIInv, NextBridgeIInv, PTL DEF BridgeSpec

\* The statuses for the offline thread are in order, queues belong to living
\* sessions, and an echo that counts will be heard.
THEOREM BridgeInvHolds == BridgeSpec => []BridgeInv
<1>1. BridgeIInv => BridgeInv
  BY DEF BridgeIInv
<1> QED
  BY <1>1, BridgeInvariance, PTL

\* While the module's memory is out of step with a relay the echo that mends
\* it is on its way, through outages of every part of the hub.
THEOREM EchoIsNeverLost == BridgeSpec => []EchoMends
<1>1. BridgeIInv => EchoMends
  BY DEF BridgeIInv
<1> QED
  BY <1>1, BridgeInvariance, PTL

============================================================================
