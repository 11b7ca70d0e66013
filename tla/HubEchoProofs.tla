---------------------------- MODULE HubEchoProofs ----------------------------
(***************************************************************************)
(* An echo is not echoed. For any number of switches, any bound, any       *)
(* phones and any outages: every step that nobody's hand and no failure    *)
(* makes either brings a part of the system up, and none down, or takes    *)
(* messages away by a measure. That is what EchoDies of HubBridge rests    *)
(* on; that the steps are taken at all is the fairness assumed there.      *)
(***************************************************************************)
EXTENDS HubBridgeProofs, FiniteSetTheorems, FunctionTheorems, SequenceTheorems

----------------------------------------------------------------------------
(* What is left to do *)

\* The parts of the system that are not up yet.
Parts == {"boot", "arm", "connect", "offline", "online", "internet"}
Missing == {p \in Parts : \/ p = "boot" /\ phase \in {"off", "reset"}
                          \/ p = "arm" /\ phase # "running"
                          \/ p = "connect" /\ ~connected
                          \/ p = "offline" /\ ~offlineUp
                          \/ p = "online" /\ ~onlineUp
                          \/ p = "internet" /\ ~internet}

\* The edges to be served, and the commands to be subscribed.
Edges        == {s \in Switches : edge[s]}
Unsubscribed == {s \in Switches : ~subscribed[s]}

\* A part comes up, an edge is served or a topic subscribed, and no other is
\* lost.
Advances == /\ Missing' \subseteq Missing /\ Edges' \subseteq Edges
            /\ Unsubscribed' \subseteq Unsubscribed
            /\ <<Missing, Edges, Unsubscribed>>' # <<Missing, Edges, Unsubscribed>>

\* A status makes a message at the remote broker, which makes two at home.
Statuses(queue) == {i \in DOMAIN queue : queue[i].topic = "status"}
Tally(device, offline, reports, online) == device + offline + 3 * (reports + online)
Weight(s) == Tally(Len(toDevice[s]), Len(toOffline[s]),
                   Cardinality(Statuses(toOffline[s])), Len(toOnline[s]))

\* The messages of one switch get less by that measure, of the others they stay.
Wanes == /\ UNCHANGED <<Missing, Edges, Unsubscribed>>
         /\ \E s \in Switches : /\ Weight(s)' < Weight(s)
                                /\ \A t \in Switches \ {s} : Weight(t)' = Weight(t)

WindsDown == [][~Disturbance => Advances \/ Wanes]_bridge_vars

----------------------------------------------------------------------------
(* Messages counted *)

LEMMA StatusesCount ==
  ASSUME NEW q \in Seq(Messages)
  PROVE  IsFiniteSet(Statuses(q)) /\ Cardinality(Statuses(q)) \in Nat
<1>1. Len(q) \in Nat /\ DOMAIN q = 1..Len(q)
  OBVIOUS
<1>2. IsFiniteSet(1..Len(q)) /\ Statuses(q) \in SUBSET (1..Len(q))
  BY <1>1, FS_Interval DEF Statuses
<1>3. IsFiniteSet(Statuses(q))
  BY <1>2, FS_Subset
<1> QED BY <1>3, FS_CardinalityType

\* A command is no status.
LEMMA StatusesBase ==
  ASSUME NEW q \in Seq(Messages), NEW payload \in Payloads
  PROVE  Statuses(Append(q, BaseMsg(payload))) = Statuses(q)
<1> DEFINE a == Append(q, BaseMsg(payload))
<1>1. /\ Len(q) \in Nat /\ DOMAIN q = 1..Len(q) /\ DOMAIN a = 1..(Len(q) + 1)
      /\ \A i \in 1..Len(q) : a[i] = q[i]
      /\ a[Len(q) + 1] = BaseMsg(payload)
  BY DEF BaseMsg, Messages
<1>2. BaseMsg(payload).topic # "status"
  BY DEF BaseMsg
<1>3. \A i \in 1..(Len(q) + 1) : i \in 1..Len(q) \/ i = Len(q) + 1
  BY <1>1
<1>4. 1..Len(q) \subseteq 1..(Len(q) + 1)
  BY <1>1
<1> HIDE DEF a
<1>5. Statuses(a) = Statuses(q)
  BY <1>1, <1>2, <1>3, <1>4 DEF Statuses
<1> QED BY <1>5 DEF a

\* The rest of a queue has the statuses of the queue but for the first message.
LEMMA StatusesTail ==
  ASSUME NEW q \in Seq(Messages), q # <<>>
  PROVE  Cardinality(Statuses(q)) = Cardinality(Statuses(Tail(q)))
                                      + (IF Head(q).topic = "status" THEN 1 ELSE 0)
<1> DEFINE r == Tail(q)
           T == Statuses(r)
           U == Statuses(q) \ {1}
<1>1. /\ Len(q) \in Nat /\ Len(q) >= 1 /\ r \in Seq(Messages)
      /\ DOMAIN q = 1..Len(q) /\ DOMAIN r = 1..(Len(q) - 1)
      /\ \A i \in 1..(Len(q) - 1) : r[i] = q[i + 1]
      /\ Head(q) = q[1]
  BY EmptySeq
<1>2. 1 \in Statuses(q) <=> Head(q).topic = "status"
  BY <1>1 DEF Statuses
<1> HIDE DEF r
<1>3. ASSUME NEW i \in T PROVE i + 1 \in U /\ i \in Int
  BY <1>1, <1>3 DEF Statuses
<1>4. ASSUME NEW j \in U PROVE j - 1 \in T /\ (j - 1) + 1 = j
  <2>1. j \in 2..Len(q) /\ q[j].topic = "status"
    BY <1>1, <1>4 DEF Statuses
  <2>2. j - 1 \in 1..(Len(q) - 1) /\ (j - 1) + 1 = j
    BY <1>1, <2>1
  <2>3. r[j - 1] = q[j]
    BY <1>1, <2>2
  <2> QED BY <1>1, <2>1, <2>2, <2>3 DEF Statuses
<1>5. IsFiniteSet(T) /\ Cardinality(T) \in Nat /\ IsFiniteSet(Statuses(q))
      /\ Cardinality(Statuses(q)) \in Nat
  BY <1>1, StatusesCount
<1> DEFINE f == [i \in T |-> i + 1]
<1> HIDE DEF T, U
<1>6. ExistsBijection(T, U)
  <2>1. f \in [T -> U]
    BY <1>3
  <2>2. ASSUME NEW i \in T, NEW j \in T, f[i] = f[j] PROVE i = j
    BY <1>3, <2>2
  <2>3. \A j \in U : \E i \in T : f[i] = j
    BY <1>4
  <2> HIDE DEF f
  <2> QED BY <2>1, <2>2, <2>3, Fun_IsBij, Fun_ExistsBij
<1>7. Cardinality(U) = Cardinality(T)
  BY <1>5, <1>6, FS_Bijection
<1>8. Cardinality(U) = IF 1 \in Statuses(q) THEN Cardinality(Statuses(q)) - 1
                                             ELSE Cardinality(Statuses(q))
  BY <1>5, FS_RemoveElement DEF U
<1>9. Cardinality(Statuses(q)) = Cardinality(T)
                                   + (IF Head(q).topic = "status" THEN 1 ELSE 0)
  BY <1>2, <1>5, <1>7, <1>8
<1> QED BY <1>9 DEF T, r

----------------------------------------------------------------------------
(* The steps *)

LEMMA TallyCounts ==
  ASSUME NEW a \in Nat, NEW b \in Nat, NEW c \in Nat, NEW d \in Nat
  PROVE  /\ Tally(a, b, c, d) \in Nat
         \* A command is served.
         /\ Tally(a - 1, b, c, d) < Tally(a, b, c, d)
         \* A command of the offline thread comes to nothing.
         /\ Tally(a, b - 1, c, d) < Tally(a, b, c, d)
         \* A status goes to the remote broker.
         /\ \A e \in Nat : c >= 1 /\ e <= d + 1 =>
                Tally(a, b - 1, c - 1, e) < Tally(a, b, c, d)
         \* A status is published at home instead.
         /\ \A e, f \in Nat : e <= a + 1 /\ f <= b =>
                Tally(e, f, c - 1, d) < Tally(a, b, c, d)
         \* A message of the remote broker is published at home.
         /\ \A e, f \in Nat : e <= a + 1 /\ f <= b + 1 =>
                Tally(e, f, c, d - 1) < Tally(a, b, c, d)
BY DEF Tally

LEMMA WeightCounts ==
  ASSUME BridgeTypeOK, NEW s \in Switches
  PROVE  /\ Len(toDevice[s]) \in Nat /\ Len(toOffline[s]) \in Nat
         /\ Len(toOnline[s]) \in Nat /\ Cardinality(Statuses(toOffline[s])) \in Nat
         /\ Weight(s) \in Nat
<1>1. /\ toDevice[s] \in Seq(Payloads) /\ toOnline[s] \in Seq(Payloads)
      /\ toOffline[s] \in Seq(Messages)
  BY DEF BridgeTypeOK
<1>2. Len(toDevice[s]) \in Nat /\ Len(toOffline[s]) \in Nat /\ Len(toOnline[s]) \in Nat
  BY <1>1
<1>3. Cardinality(Statuses(toOffline[s])) \in Nat
  BY <1>1, StatusesCount
<1> QED BY <1>2, <1>3, TallyCounts DEF Weight

\* A step that leaves the parts, and all queues but those of one switch.
LEMMA WanesAt ==
  ASSUME NEW s \in Switches, Weight(s)' < Weight(s),
         UNCHANGED <<phase, edge, connected, subscribed, hub>>,
         \A t \in Switches \ {s} : UNCHANGED <<toDevice[t], toOffline[t], toOnline[t]>>
  PROVE  Wanes
<1>1. UNCHANGED <<Missing, Edges, Unsubscribed>>
  BY DEF hub, Missing, Edges, Unsubscribed
<1>2. \A t \in Switches \ {s} : Weight(t)' = Weight(t)
  BY DEF Weight, Statuses
<1> QED BY <1>1, <1>2 DEF Wanes

\* The rest of a queue.
LEMMA Shorter ==
  ASSUME NEW S, NEW q \in Seq(S), q # <<>>
  PROVE  Tail(q) \in Seq(S) /\ Len(Tail(q)) = Len(q) - 1 /\ Len(q) \in Nat /\ Len(q) >= 1
BY EmptySeq

LEMMA CommandWanes ==
  ASSUME BridgeTypeOK, NEW s \in Switches, CommandStep(s)
  PROVE  Wanes
<1>1. /\ toDevice[s] # <<>> /\ toDevice' = [toDevice EXCEPT ![s] = Tail(@)]
      /\ UNCHANGED <<subscribed, toOffline, toOnline, hub>>
      /\ UNCHANGED <<phase, edge, connected>>
  BY DEF CommandStep, OnMessage, button_vars
<1>2. toDevice \in [Switches -> Seq(Payloads)]
  BY DEF BridgeTypeOK
<1>3. toDevice'[s] = Tail(toDevice[s]) /\ Len(toDevice'[s]) = Len(toDevice[s]) - 1
  BY <1>1, <1>2, Shorter
<1>4. Weight(s)' = Tally(Len(toDevice[s]) - 1, Len(toOffline[s]),
                        Cardinality(Statuses(toOffline[s])), Len(toOnline[s]))
  BY <1>1, <1>3 DEF Weight, Statuses
<1>5. Weight(s)' < Weight(s)
  BY <1>4, WeightCounts, TallyCounts DEF Weight
<1> QED BY <1>1, <1>2, <1>5, WanesAt

\* What the local broker adds: a command for the module and one for the
\* offline thread, at most.
LEMMA LocalAdds ==
  ASSUME BridgeTypeOK, NEW s \in Switches, NEW payload \in Payloads,
         NEW from \in Seq(Messages), LocalPublish(s, payload, from)
  PROVE  /\ Len(toDevice'[s]) \in Nat /\ Len(toDevice'[s]) <= Len(toDevice[s]) + 1
         /\ Len(toOffline'[s]) \in Nat /\ Len(toOffline'[s]) <= Len(from) + 1
         /\ Statuses(toOffline'[s]) = Statuses(from)
         /\ \A t \in Switches \ {s} : UNCHANGED <<toDevice[t], toOffline[t]>>
<1>1. /\ toDevice \in [Switches -> Seq(Payloads)]
      /\ toOffline \in [Switches -> Seq(Messages)]
  BY DEF BridgeTypeOK
<1>2. toDevice'[s] = Append(toDevice[s], payload) \/ toDevice'[s] = toDevice[s]
  BY <1>1 DEF LocalPublish
<1>3. toOffline'[s] = Append(from, BaseMsg(payload)) \/ toOffline'[s] = from
  BY <1>1 DEF LocalPublish
<1>4. BaseMsg(payload) \in Messages
  BY DEF BaseMsg, Messages
<1>5. Len(toDevice'[s]) \in Nat /\ Len(toDevice'[s]) <= Len(toDevice[s]) + 1
  BY <1>1, <1>2
<1>6. Len(toOffline'[s]) \in Nat /\ Len(toOffline'[s]) <= Len(from) + 1
  BY <1>3, <1>4
<1>7. Statuses(toOffline'[s]) = Statuses(from)
  BY <1>3, StatusesBase
<1>8. \A t \in Switches \ {s} : UNCHANGED <<toDevice[t], toOffline[t]>>
  BY <1>1 DEF LocalPublish
<1> QED BY <1>5, <1>6, <1>7, <1>8

LEMMA RemoteWanes ==
  ASSUME BridgeTypeOK, NEW s \in Switches, ForwardRemote(s)
  PROVE  Wanes
<1> DEFINE msg == Head(toOffline[s])
           n   == Cardinality(Statuses(toOffline[s]))
<1>1. /\ toOffline[s] # <<>> /\ toOffline' = [toOffline EXCEPT ![s] = Tail(@)]
      /\ IF Reaches(msg) THEN RemotePublish(s, msg.payload)
                         ELSE UNCHANGED <<remoteBase, toOnline>>
      /\ UNCHANGED <<subscribed, toDevice, hub, phase, edge, connected>>
  BY DEF ForwardRemote, vars, button_vars, hub
<1>2. /\ toOffline \in [Switches -> Seq(Messages)]
      /\ toOnline \in [Switches -> Seq(Payloads)] /\ msg.payload \in Payloads
  BY <1>1, HeadPayload DEF BridgeTypeOK
<1>3. toOffline'[s] = Tail(toOffline[s]) /\ Len(toOffline'[s]) = Len(toOffline[s]) - 1
  BY <1>1, <1>2, Shorter
<1>4. /\ n = Cardinality(Statuses(toOffline'[s])) + (IF Reaches(msg) THEN 1 ELSE 0)
      /\ Cardinality(Statuses(toOffline'[s])) \in Nat
  BY <1>1, <1>2, <1>3, StatusesTail, StatusesCount, Shorter DEF Reaches
<1>5. /\ Len(toOnline'[s]) \in Nat
      /\ Len(toOnline'[s]) <= Len(toOnline[s]) + (IF Reaches(msg) THEN 1 ELSE 0)
  <2>1. toOnline[s] \in Seq(Payloads)
    BY <1>2
  <2>2. CASE Reaches(msg)
    <3>1. toOnline'[s] = Append(toOnline[s], msg.payload) \/ toOnline'[s] = toOnline[s]
      BY <1>1, <1>2, <2>2 DEF RemotePublish
    <3> QED BY <1>2, <2>1, <2>2, <3>1
  <2>3. CASE ~Reaches(msg)
    BY <1>1, <2>1, <2>3
  <2> QED BY <2>2, <2>3
<1>6. Weight(s)' = Tally(Len(toDevice[s]), Len(toOffline[s]) - 1,
                        Cardinality(Statuses(toOffline'[s])), Len(toOnline'[s]))
  BY <1>1, <1>3 DEF Weight, Statuses
<1>7. Weight(s)' < Weight(s)
  <2>1. CASE Reaches(msg)
    <3>1. /\ n \in Nat /\ n >= 1 /\ Cardinality(Statuses(toOffline'[s])) = n - 1
          /\ Len(toOnline'[s]) <= Len(toOnline[s]) + 1
      BY <1>4, <1>5, <2>1, WeightCounts
    <3> QED BY <1>5, <1>6, <3>1, WeightCounts, TallyCounts DEF Weight
  <2>2. CASE ~Reaches(msg)
    <3>1. Cardinality(Statuses(toOffline'[s])) = n /\ toOnline' = toOnline
      BY <1>1, <1>4, <2>2
    <3> QED BY <1>6, <3>1, WeightCounts, TallyCounts DEF Weight
  <2> QED BY <2>1, <2>2
<1>8. \A t \in Switches \ {s} : UNCHANGED <<toDevice[t], toOffline[t], toOnline[t]>>
  BY <1>1, <1>2 DEF RemotePublish
<1> QED BY <1>1, <1>7, <1>8, WanesAt

LEMMA LocalWanes ==
  ASSUME BridgeTypeOK, NEW s \in Switches, ForwardLocal(s)
  PROVE  Wanes
<1> DEFINE msg  == Head(toOffline[s])
           rest == Tail(toOffline[s])
<1>1. /\ toOffline[s] # <<>>
      /\ IF Reaches(msg)
           THEN LocalPublish(s, msg.payload, rest)
           ELSE toOffline' = [toOffline EXCEPT ![s] = rest] /\ UNCHANGED toDevice
      /\ UNCHANGED <<subscribed, toOnline, hub, phase, edge, connected>>
  BY DEF ForwardLocal, vars, button_vars, hub
<1>2. /\ toOffline \in [Switches -> Seq(Messages)] /\ msg.payload \in Payloads
      /\ toDevice \in [Switches -> Seq(Payloads)]
  BY <1>1, HeadPayload DEF BridgeTypeOK
<1>3. rest \in Seq(Messages) /\ Len(rest) = Len(toOffline[s]) - 1
  BY <1>1, <1>2, Shorter
<1>4. /\ Cardinality(Statuses(toOffline[s]))
           = Cardinality(Statuses(rest)) + (IF Reaches(msg) THEN 1 ELSE 0)
      /\ Cardinality(Statuses(rest)) \in Nat
  BY <1>1, <1>2, <1>3, StatusesTail, StatusesCount DEF Reaches
<1>5. Weight(s)' = Tally(Len(toDevice'[s]), Len(toOffline'[s]),
                        Cardinality(Statuses(toOffline'[s])), Len(toOnline[s]))
  BY <1>1 DEF Weight, Statuses
<1> HIDE DEF msg, rest
<1>6. CASE Reaches(msg)
  <2>1. /\ Len(toDevice'[s]) \in Nat /\ Len(toDevice'[s]) <= Len(toDevice[s]) + 1
        /\ Len(toOffline'[s]) \in Nat /\ Len(toOffline'[s]) <= Len(rest) + 1
        /\ Statuses(toOffline'[s]) = Statuses(rest)
        /\ \A t \in Switches \ {s} : UNCHANGED <<toDevice[t], toOffline[t]>>
    BY <1>1, <1>2, <1>3, <1>6, LocalAdds
  <2>2. /\ Cardinality(Statuses(toOffline'[s]))
             = Cardinality(Statuses(toOffline[s])) - 1
        /\ Len(toOffline'[s]) <= Len(toOffline[s])
    BY <1>3, <1>4, <1>6, <2>1, WeightCounts
  <2>3. Weight(s)' < Weight(s)
    BY <1>5, <2>1, <2>2, WeightCounts, TallyCounts DEF Weight
  <2> QED BY <1>1, <2>1, <2>3, WanesAt
<1>7. CASE ~Reaches(msg)
  <2>1. /\ toOffline'[s] = rest /\ toDevice' = toDevice
        /\ \A t \in Switches \ {s} : UNCHANGED <<toDevice[t], toOffline[t]>>
    BY <1>1, <1>2, <1>7
  <2>2. /\ Cardinality(Statuses(toOffline'[s])) = Cardinality(Statuses(toOffline[s]))
        /\ Len(toOffline'[s]) = Len(toOffline[s]) - 1
    BY <1>3, <1>4, <1>7, <2>1, WeightCounts
  <2>3. Weight(s)' < Weight(s)
    BY <1>5, <2>1, <2>2, WeightCounts, TallyCounts DEF Weight
  <2> QED BY <1>1, <2>1, <2>3, WanesAt
<1> QED BY <1>6, <1>7

LEMMA OnlineWanes ==
  ASSUME BridgeTypeOK, NEW s \in Switches, OnlineForward(s)
  PROVE  Wanes
<1>1. /\ toOnline[s] # <<>> /\ toOnline' = [toOnline EXCEPT ![s] = Tail(@)]
      /\ LocalPublish(s, Head(toOnline[s]), toOffline[s])
      /\ UNCHANGED <<subscribed, hub, phase, edge, connected>>
  BY DEF OnlineForward, vars, button_vars, hub
<1>2. /\ toOnline \in [Switches -> Seq(Payloads)]
      /\ toOffline \in [Switches -> Seq(Messages)] /\ Head(toOnline[s]) \in Payloads
  BY <1>1 DEF BridgeTypeOK
<1>3. toOnline'[s] = Tail(toOnline[s]) /\ Len(toOnline'[s]) = Len(toOnline[s]) - 1
  BY <1>1, <1>2, Shorter
<1>4. /\ Len(toDevice'[s]) \in Nat /\ Len(toDevice'[s]) <= Len(toDevice[s]) + 1
      /\ Len(toOffline'[s]) \in Nat /\ Len(toOffline'[s]) <= Len(toOffline[s]) + 1
      /\ Statuses(toOffline'[s]) = Statuses(toOffline[s])
      /\ \A t \in Switches \ {s} : UNCHANGED <<toDevice[t], toOffline[t]>>
  BY <1>1, <1>2, LocalAdds
<1>5. Weight(s)' = Tally(Len(toDevice'[s]), Len(toOffline'[s]),
                        Cardinality(Statuses(toOffline[s])), Len(toOnline[s]) - 1)
  BY <1>3, <1>4 DEF Weight, Statuses
<1>6. Weight(s)' < Weight(s)
  BY <1>4, <1>5, WeightCounts, TallyCounts DEF Weight
<1>7. \A t \in Switches \ {s} : UNCHANGED <<toDevice[t], toOffline[t], toOnline[t]>>
  BY <1>1, <1>2, <1>4
<1> QED BY <1>1, <1>6, <1>7, WanesAt

\* What comes up, or is served.
LEMMA UpAdvances ==
  ASSUME BridgeTypeOK, ~Disturbance,
         \/ DeviceStep \/ ConnectStep \/ OfflineConnect \/ OnlineConnect
         \/ InternetReturns
  PROVE  Advances
<1> USE DEF Missing, Edges, Unsubscribed, Parts
<1>1. CASE DeviceStep
  <2>1. Boot \/ Armed
    BY <1>1 DEF DeviceStep, Disturbance
  <2>2. UNCHANGED <<subscribed, offlineUp, onlineUp, internet, edge, connected>>
    BY <1>1, <2>1 DEF DeviceStep, Boot, Armed, hub, button_vars
  <2>3. CASE Boot
    <3>1. "boot" \in Missing /\ "boot" \notin Missing'
      BY <2>3 DEF Boot
    <3>2. Missing' \subseteq Missing
      BY <2>2, <2>3 DEF Boot
    <3> QED BY <2>2, <3>1, <3>2 DEF Advances
  <2>4. CASE Armed
    <3>1. "arm" \in Missing /\ "arm" \notin Missing'
      BY <2>4 DEF Armed
    <3>2. Missing' \subseteq Missing
      BY <2>2, <2>4 DEF Armed
    <3> QED BY <2>2, <3>1, <3>2 DEF Advances
  <2> QED BY <2>1, <2>3, <2>4
<1>2. CASE ConnectStep
  <2>1. /\ UNCHANGED <<subscribed, offlineUp, onlineUp, internet, edge, phase>>
        /\ ~connected /\ connected' = TRUE
    BY <1>2 DEF ConnectStep, Connect, Attempt, hub, button_vars
  <2>2. "connect" \in Missing /\ "connect" \notin Missing' /\ Missing' \subseteq Missing
    BY <2>1
  <2> QED BY <2>1, <2>2 DEF Advances
<1>3. CASE OfflineConnect
  <2>1. /\ UNCHANGED <<subscribed, connected, onlineUp, internet, edge, phase>>
        /\ ~offlineUp /\ offlineUp' = TRUE
    BY <1>3 DEF OfflineConnect, vars, button_vars
  <2>2. "offline" \in Missing /\ "offline" \notin Missing' /\ Missing' \subseteq Missing
    BY <2>1
  <2> QED BY <2>1, <2>2 DEF Advances
<1>4. CASE OnlineConnect
  <2>1. /\ UNCHANGED <<subscribed, connected, offlineUp, internet, edge, phase>>
        /\ ~onlineUp /\ onlineUp' = TRUE
    BY <1>4 DEF OnlineConnect, vars, button_vars
  <2>2. "online" \in Missing /\ "online" \notin Missing' /\ Missing' \subseteq Missing
    BY <2>1
  <2> QED BY <2>1, <2>2 DEF Advances
<1>5. CASE InternetReturns
  <2>1. /\ UNCHANGED <<subscribed, connected, offlineUp, onlineUp, edge, phase>>
        /\ ~internet /\ internet' = TRUE
    BY <1>5 DEF InternetReturns, vars, button_vars
  <2>2. "internet" \in Missing /\ "internet" \notin Missing' /\ Missing' \subseteq Missing
    BY <2>1
  <2> QED BY <2>1, <2>2 DEF Advances
<1> QED BY <1>1, <1>2, <1>3, <1>4, <1>5

LEMMA ServedAdvances ==
  ASSUME BridgeTypeOK, NEW s \in Switches, ButtonStep(s) \/ SubscribeStep(s)
  PROVE  Advances
<1> USE DEF Missing, Edges, Unsubscribed, Parts
<1>1. edge \in [Switches -> BOOLEAN] /\ subscribed \in [Switches -> BOOLEAN]
  BY DEF BridgeTypeOK, TypeOK
<1>2. CASE ButtonStep(s)
  <2>1. /\ UNCHANGED <<subscribed, connected, offlineUp, onlineUp, internet, phase>>
        /\ edge[s] /\ edge' = [edge EXCEPT ![s] = FALSE]
    BY <1>2 DEF ButtonStep, SwitchHandler, hub
  <2>2. s \in Edges /\ s \notin Edges' /\ Edges' \subseteq Edges
    BY <1>1, <2>1
  <2> QED BY <2>1, <2>2 DEF Advances
<1>3. CASE SubscribeStep(s)
  <2>1. /\ UNCHANGED <<edge, connected, offlineUp, onlineUp, internet, phase>>
        /\ ~subscribed[s] /\ subscribed' = [subscribed EXCEPT ![s] = TRUE]
    BY <1>3 DEF SubscribeStep, hub, vars, button_vars
  <2>2. /\ s \in Unsubscribed /\ s \notin Unsubscribed'
        /\ Unsubscribed' \subseteq Unsubscribed
    BY <1>1, <2>1
  <2> QED BY <2>1, <2>2 DEF Advances
<1> QED BY <1>2, <1>3

\* Every step that is not the work of people or of a failure brings a part of
\* the system up or serves an edge, and undoes nothing of that; or it leaves
\* those alone and takes messages away. With finitely many switches no behaviour
\* can therefore have infinitely many steps without a disturbance: although the
\* hub subscribes the topics its own threads publish on, no message goes round.
THEOREM EchoWanes == BridgeSpec => WindsDown
<1>1. ASSUME BridgeTypeOK, [BridgeNext]_bridge_vars
      PROVE  [~Disturbance => Advances \/ Wanes]_bridge_vars
  <2> SUFFICES ASSUME BridgeNext, ~Disturbance PROVE Advances \/ Wanes
    BY <1>1
  <2> QED
    BY <1>1, UpAdvances, ServedAdvances, CommandWanes, RemoteWanes, LocalWanes,
       OnlineWanes DEF BridgeNext, Disturbance
<1> QED BY <1>1, BridgeTypeCorrect, PTL DEF BridgeSpec, WindsDown

=============================================================================
