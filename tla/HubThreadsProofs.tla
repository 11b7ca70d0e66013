-------------------------- MODULE HubThreadsProofs --------------------------
(***************************************************************************)
(* Proofs about HubThreads, for every set of modules: its steps are steps  *)
(* of ModuleLink, so that the theorems about ModuleLink hold with the      *)
(* program of the hub; and no module is left waiting but for the reasons   *)
(* that Owed names. CaredInv is what makes Owed inductive: from the        *)
(* moment ASDFG was sent to a module in a pass, or a pass is not due, one  *)
(* thing or another looks after each module.                               *)
(***************************************************************************)
EXTENDS HubThreads, ModuleLinkProofs

\* The types of what HubThreads adds, and that a pass runs while it is due.
HubInv ==
    /\ net \in {"down", "noroute", "up"}
    /\ offline \in {"off", "wait", "session", "ended"}
    /\ router \in {"off", "poll", "scan", "tell"}
    /\ temp1 \in Bits
    /\ todo \subseteq Configured /\ located \subseteq Configured
    /\ missed \in [Modules -> BOOLEAN]
    /\ router # "poll" => temp1 = 1

\* The broker has a session of one module at most.
OneHolder == \A d, e \in Holders : d = e

Queued(d) == \E i \in DOMAIN wills : wills[i] = d

\* The broker or the hub will come back to the module, or has failed to.
Promised(d) == link[d].server # "none" \/ Queued(d) \/ missed[d]

\* A module without a client and with nothing to come, which knows of no loss.
Content(d) == link[d].late = {} /\ tact[d] = 1 /\ link[d].m \in {"none", "closed"}

Cared(d) == link[d].m = "opening" \/ Promised(d) \/ Content(d)

\* The pass that is due, if any, is past the module.
Past(d) == temp1 = 0 \/ (router = "tell" /\ d \notin todo)

CaredInv == \A d \in Configured : Past(d) => Cared(d)

----------------------------------------------------------------------------
(* Refinement *)

\* Every step is a step of ModuleLink, or changes nothing there.
LEMMA StepLink == [ThreadsNext]_thread_vars => [Next]_vars
<1> SUFFICES ASSUME [ThreadsNext]_thread_vars PROVE [Next]_vars
  OBVIOUS
<1>1. CASE UNCHANGED vars
  BY <1>1
<1>2. CASE \/ Start \/ StartFails \/ NetChanges \/ OfflineConnect \/ OfflineDrop
           \/ Poll \/ ScanEnds \/ TellFails \/ TellEnds
  BY <1>1, <1>2 DEF Start, StartFails, NetChanges, OfflineConnect, OfflineDrop,
                    Poll, ScanEnds, TellFails, TellEnds
<1>3. CASE HubStops
  BY <1>3 DEF HubStops, Next, Disturbance
<1>4. CASE WillGone \/ TellWill
  BY <1>4 DEF WillGone, TellWill, Next, Disturbance
<1>5. ASSUME NEW d \in Configured, Scan(d) \/ Tell(d)
      PROVE  [Next]_vars
  BY <1>1, <1>5, ThreadsAssumption DEF Scan, Tell, Next, Disturbance
<1>6. ASSUME NEW d \in Modules, PhoneConfigures(d)
      PROVE  [Next]_vars
  BY <1>6 DEF PhoneConfigures, Next, Disturbance
<1>7. ASSUME NEW d \in Modules, LinkStep(d)
      PROVE  [Next]_vars
  BY <1>7 DEF LinkStep, Next
<1>8. ASSUME NEW d \in Modules, LinkFails(d) \/ AttemptFails(d)
      PROVE  [Next]_vars
  BY <1>8 DEF LinkFails, AttemptFails, Next, Disturbance
<1>9. QED
  BY <1>1, <1>2, <1>3, <1>4, <1>5, <1>6, <1>7, <1>8
     DEF ThreadsNext, Trouble, Router, thread_vars

\* With the program of the hub the modules do what ModuleLink says of them.
THEOREM LinkImplemented == ThreadsSpec => ImplementsLink
<1>1. ThreadsInit => Init
  BY DEF ThreadsInit
<1>2. QED
  BY <1>1, StepLink, PTL DEF ThreadsSpec, ImplementsLink, Spec

LEMMA LinkInvariant == ThreadsSpec => []IInv
BY LinkImplemented, LinkInvariance, PTL DEF ImplementsLink

----------------------------------------------------------------------------
(* Types *)

LEMMA HubInvInit == ThreadsInit => HubInv
BY DEF ThreadsInit, HubInv, Bits

LEMMA HubInvStep == HubInv /\ IInv /\ [ThreadsNext]_thread_vars => HubInv'
<1> SUFFICES ASSUME HubInv, IInv, [ThreadsNext]_thread_vars PROVE HubInv'
  OBVIOUS
<1> USE DEF HubInv, Bits
<1>1. CASE UNCHANGED thread_vars
  BY <1>1 DEF thread_vars, hub
<1>2. CASE Start \/ StartFails \/ NetChanges \/ OfflineConnect \/ OfflineDrop
  BY <1>2 DEF Start, StartFails, NetChanges, OfflineConnect, OfflineDrop
<1>3. CASE HubStops
  BY <1>3 DEF HubStops
<1>4. CASE WillGone \/ TellWill
  <2>1. UNCHANGED hub /\ missed' \in [Modules -> BOOLEAN]
    BY <1>4 DEF WillGone, TellWill
  <2>2. QED
    BY <2>1 DEF hub
<1>5. CASE Poll \/ ScanEnds \/ TellFails \/ TellEnds
  BY <1>5 DEF Poll, ScanEnds, TellFails, TellEnds
<1>6. ASSUME NEW d \in Configured, Scan(d) PROVE HubInv'
  BY <1>6 DEF Scan
<1>7. ASSUME NEW d \in Configured, Tell(d) PROVE HubInv'
  <2>1. missed' \in [Modules -> BOOLEAN]
    BY <1>7 DEF Tell
  <2>2. QED
    BY <1>7, <2>1 DEF Tell
<1>8. ASSUME NEW d \in Modules, PhoneConfigures(d) \/ AttemptFails(d) PROVE HubInv'
  <2>1. UNCHANGED hub /\ missed' \in [Modules -> BOOLEAN]
    BY <1>8 DEF PhoneConfigures, AttemptFails
  <2>2. QED
    BY <2>1 DEF hub
<1>9. ASSUME NEW d \in Modules, LinkStep(d) \/ LinkFails(d) PROVE HubInv'
  <2>1. UNCHANGED <<hub, missed>>
    BY <1>9 DEF LinkStep, LinkFails
  <2>2. QED
    BY <2>1 DEF hub
<1>10. QED
  BY <1>1, <1>2, <1>3, <1>4, <1>5, <1>6, <1>7, <1>8, <1>9
     DEF ThreadsNext, Trouble, Router

LEMMA HubInvariant == ThreadsSpec => []HubInv
BY HubInvInit, HubInvStep, LinkInvariant, PTL DEF ThreadsSpec

\* Every variable keeps its type.
THEOREM ThreadsTypeCorrect == ThreadsSpec => []ThreadsTypeOK
<1>1. IInv /\ HubInv => ThreadsTypeOK
  BY DEF IInv, HubInv, ThreadsTypeOK
<1>2. QED
  BY <1>1, LinkInvariant, HubInvariant, PTL

----------------------------------------------------------------------------
(* The queue of wills, and one module at a time *)

LEMMA QueueTail ==
  ASSUME NEW d, NEW w \in Seq(Modules), w # <<>>, Head(w) # d
  PROVE  (\E i \in DOMAIN w : w[i] = d) <=> (\E i \in DOMAIN Tail(w) : Tail(w)[i] = d)
<1>1. ASSUME NEW i \in DOMAIN w, w[i] = d
      PROVE  \E j \in DOMAIN Tail(w) : Tail(w)[j] = d
  <2>1. i # 1 /\ i - 1 \in DOMAIN Tail(w) /\ Tail(w)[i - 1] = w[i]
    BY <1>1
  <2>2. QED
    BY <1>1, <2>1
<1>2. ASSUME NEW j \in DOMAIN Tail(w), Tail(w)[j] = d
      PROVE  \E i \in DOMAIN w : w[i] = d
  <2>1. j + 1 \in DOMAIN w /\ Tail(w)[j] = w[j + 1]
    OBVIOUS
  <2>2. QED
    BY <1>2, <2>1
<1>3. QED
  BY <1>1, <1>2

LEMMA QueueAppend ==
  ASSUME NEW d, NEW w \in Seq(Modules), NEW e \in Modules
  PROVE  (\E i \in DOMAIN Append(w, e) : Append(w, e)[i] = d)
           <=> (e = d \/ \E i \in DOMAIN w : w[i] = d)
<1>1. DOMAIN Append(w, e) = DOMAIN w \cup {Len(w) + 1}
  OBVIOUS
<1>2. Append(w, e)[Len(w) + 1] = e /\ \A i \in DOMAIN w : Append(w, e)[i] = w[i]
  OBVIOUS
<1>3. QED
  BY <1>1, <1>2

\* What ASDFG does to one module it does to no other, and a module it finds
\* something to do in makes a client.
LEMMA OnHubOne ==
  ASSUME IInv, NEW d \in Modules, OnHub(d)
  PROVE  /\ \A e \in Modules \ {d} : link'[e] = link[e]
         /\ UNCHANGED <<on, station, tact>>
         /\ Hears(d) => link'[d].m = "opening"
         /\ link'[d].server # "none" => link[d].server # "none"
<1> DEFINE l == link[d]
<1>1. l \in Links /\ DOMAIN link = Modules /\ tact[d] \in Bits /\ check1[d] \in Bits
        /\ temp[d] \in Bits
  BY DEF IInv, TypeOK
<1>2. \A k : Fresh(k).m = "opening" /\ (k.server = "none" => Fresh(k).server = "none")
  BY DEF Fresh
<1>3. PICK k : /\ link' = [link EXCEPT ![d] = k]
               /\ Hears(d) => k.m = "opening"
               /\ l.server = "none" => k.server = "none"
  <2>1. CASE check1[d] = 1 \/ tact[d] = 0
    <3> DEFINE first  == IF check1[d] = 1 THEN Fresh(link[d]) ELSE link[d]
               second == IF tact[d] = 0 THEN Fresh(first) ELSE first
    <3>4. l.server = "none" => first.server = "none"
      BY <1>2
    <3>5. (check1[d] = 1 => first.m = "opening") /\ (tact[d] # 0 => second = first)
      BY <1>2
    <3>6. tact[d] = 0 => second = Fresh(first)
      OBVIOUS
    <3> HIDE DEF first
    <3>1. second.m = "opening" /\ (l.server = "none" => second.server = "none")
      BY <1>2, <2>1, <3>4, <3>5, <3>6
    <3>2. link' = [link EXCEPT ![d] = second]
      BY <3>1 DEF OnHub, first
    <3>3. QED
      BY <3>1, <3>2
  <2>2. CASE ~(check1[d] = 1 \/ tact[d] = 0) /\ temp[d] = 1 /\ l.m = "open"
    <3>1. PICK j \in Closed(l) : link' = [link EXCEPT ![d] = Fresh(j)]
      BY <2>2 DEF OnHub
    <3>2. l.server = "none" => j.server = "none"
      BY <1>1 DEF Closed, Links
    <3>3. Fresh(j).m = "opening" /\ (j.server = "none" => Fresh(j).server = "none")
      BY <1>2
    <3> QED
      BY <3>1, <3>2, <3>3
  <2>3. CASE ~(check1[d] = 1 \/ tact[d] = 0) /\ ~(temp[d] = 1 /\ l.m = "open")
    <3>1. link' = [link EXCEPT ![d] = l]
      BY <2>3 DEF OnHub
    <3>2. QED
      BY <2>3, <3>1 DEF Hears
  <2>4. QED
    BY <2>1, <2>2, <2>3
<1>4. UNCHANGED <<on, station, tact>>
  BY DEF OnHub
<1>5. QED
  BY <1>1, <1>3, <1>4

\* A new session for a client of c is c's alone: the module that had one
\* before is announced by its will.
LEMMA AcceptOne ==
  ASSUME IInv, OneHolder, NEW c \in Modules, Accept(c) \/ AcceptStray(c)
  PROVE  /\ link'[c].server # "none"
         /\ \A d \in Modules \ {c} : link'[d].server = "none"
         /\ \A d \in Modules \ {c} :
               link[d].server = "none" => link'[d] = link[d] /\ (Queued(d)' => Queued(d))
         /\ \A d \in Modules \ {c} : link[d].server # "none" => Queued(d)'
         /\ \A d \in Modules : Queued(d) => Queued(d)'
         /\ UNCHANGED <<on, station, tact>>
<1>0. \A l, server, heard : Lose(l, server, heard).server = server
  BY DEF Lose
<1>1. PICK k : k.server # "none" /\ \E heard \in BOOLEAN : Accepts(c, k, heard)
  <2>1. CASE Accept(c)
    <3>1. PICK heard \in BOOLEAN :
            Accepts(c, [Lose(link[c], "m", heard) EXCEPT !.m = "accepted"], heard)
      BY <2>1 DEF Accept
    <3>2. [Lose(link[c], "m", heard) EXCEPT !.m = "accepted"].server = "m"
      BY DEF Lose
    <3>3. QED
      BY <3>1, <3>2
  <2>2. CASE AcceptStray(c)
    <3>1. PICK heard \in BOOLEAN :
            Accepts(c, [Lose(link[c], "older", heard) EXCEPT !.stray = "accepted"],
                    heard)
      BY <2>2 DEF AcceptStray
    <3>2. [Lose(link[c], "older", heard) EXCEPT !.stray = "accepted"].server = "older"
      BY DEF Lose
    <3>3. QED
      BY <3>1, <3>2
  <2>3. QED
    BY <2>1, <2>2
<1> DEFINE gone == CHOOSE e \in Holders : TRUE
<1>8. PICK heard : Accepts(c, k, heard)
  BY <1>1
<1>2. /\ link'[c] = k
      /\ \A d \in Modules \ {c} :
            link'[d] = IF d \in Holders THEN Lose(link[d], "none", heard) ELSE link[d]
      /\ UNCHANGED <<on, station, tact>>
  BY <1>8 DEF Accepts, TakenOver, ram
<1>3. \A d \in Modules \ {c} : link'[d].server = "none"
  BY <1>0, <1>2 DEF Holders
<1>4. wills \in Seq(Modules)
  BY DEF IInv, TypeOK
<1>5. CASE Holders = {}
  <2>1. wills' = wills
    BY <1>8, <1>5 DEF Accepts, TakenOver
  <2>2. QED
    BY <1>1, <1>2, <1>3, <1>5, <2>1 DEF Holders, Queued
<1>6. CASE Holders # {}
  <2>1. gone \in Modules /\ gone \in Holders
    BY <1>6 DEF Holders
  <2>2. wills' = Append(wills, gone)
    BY <1>8, <1>6 DEF Accepts, TakenOver
  <2> HIDE DEF gone
  <2>3. \A d \in Modules : Queued(d)' <=> gone = d \/ Queued(d)
    BY <1>4, <2>1, <2>2, QueueAppend DEF Queued
  <2>4. \A d \in Modules : link[d].server # "none" <=> d = gone
    BY <2>1 DEF OneHolder, Holders
  <2>5. QED
    BY <1>1, <1>2, <1>3, <2>3, <2>4 DEF Holders
<1>7. QED
  BY <1>5, <1>6

----------------------------------------------------------------------------
(* One session for all *)

LEMMA HolderInit == Init => OneHolder
BY DEF Init, NoLink, OneHolder, Holders

LEMMA HolderStep == IInv /\ OneHolder /\ [Next]_vars => OneHolder'
<1> SUFFICES ASSUME IInv, OneHolder, [Next]_vars PROVE OneHolder'
  OBVIOUS
<1>1. ASSUME \A d \in Modules : link'[d].server # "none" => link[d].server # "none"
      PROVE  OneHolder'
  BY <1>1 DEF OneHolder, Holders
<1>2. \A d \in Modules : link[d] \in Links
  BY DEF IInv, TypeOK
<1>3. CASE link' = link
  BY <1>1, <1>3
<1>4. ASSUME NEW d \in Modules, OnHub(d) PROVE OneHolder'
  BY <1>1, <1>4, OnHubOne
<1>5. ASSUME NEW d \in Modules, NEW k, link' = [link EXCEPT ![d] = k],
             k.server # "none" => link[d].server # "none"
      PROVE  OneHolder'
  BY <1>1, <1>5 DEF IInv, TypeOK
<1>6. ASSUME NEW d \in Modules, Restart(d) PROVE OneHolder'
  <2>1. link' = [link EXCEPT ![d] = [NoLink EXCEPT !.server =
                    IF link[d].server = "none" THEN "none" ELSE "gone"]]
    BY <1>6 DEF Restart
  <2>2. QED
    BY <1>5, <2>1 DEF NoLink
<1>7. ASSUME NEW d \in Modules, Accept(d) \/ AcceptStray(d) PROVE OneHolder'
  <2>1. \A e \in Modules \ {d} : link'[e].server = "none"
    BY <1>7, AcceptOne
  <2>2. QED
    BY <2>1 DEF OneHolder, Holders
<1>8. ASSUME NEW d \in Modules, Break(d) PROVE OneHolder'
  BY <1>5, <1>8 DEF Break
<1>9. ASSUME NEW d \in Modules, Refused(d) \/ Expire(d) PROVE OneHolder'
  <2>1. CASE link' = [link EXCEPT ![d].m = "closed"]
    <3>1. [link[d] EXCEPT !.m = "closed"].server = link[d].server
      BY <1>2 DEF Links
    <3>2. QED
      BY <1>5, <2>1, <3>1
  <2>2. CASE link' = [link EXCEPT ![d].stray = "none"]
    <3>1. [link[d] EXCEPT !.stray = "none"].server = link[d].server
      BY <1>2 DEF Links
    <3>2. QED
      BY <1>5, <2>2, <3>1
  <2>3. CASE link' = [link EXCEPT ![d].server = "none"]
    <3>1. [link[d] EXCEPT !.server = "none"].server = "none"
      BY <1>2 DEF Links
    <3>2. QED
      BY <1>5, <2>3, <3>1
  <2>4. QED
    BY <1>9, <2>1, <2>2, <2>3 DEF Refused, Expire
<1>10. ASSUME NEW d \in Modules, Connected(d) \/ ConnectedStray(d) PROVE OneHolder'
  <2>1. CASE link' = [link EXCEPT ![d].m = "open"]
    <3>1. [link[d] EXCEPT !.m = "open"].server = link[d].server
      BY <1>2 DEF Links
    <3>2. QED
      BY <1>5, <2>1, <3>1
  <2>2. CASE link' = [link EXCEPT ![d].stray = "none"]
    <3>1. [link[d] EXCEPT !.stray = "none"].server = link[d].server
      BY <1>2 DEF Links
    <3>2. QED
      BY <1>5, <2>2, <3>1
  <2>3. QED
    BY <1>6, <1>10, <2>1, <2>2 DEF Connected, ConnectedStray
<1>11. ASSUME NEW d \in Modules, NEW who \in {"m", "older"}, OfflineEvent(d, who)
       PROVE  OneHolder'
  <2> DEFINE k == [link[d] EXCEPT !.late = @ \ {who},
                                  !.m = IF who = "m" THEN "closed" ELSE @]
  <2>1. link' = [link EXCEPT ![d] = k]
    BY <1>11 DEF OfflineEvent
  <2>2. k.server = link[d].server
    BY <1>2 DEF Links
  <2>3. QED
    BY <1>5, <2>1, <2>2
<1>12. CASE BrokerStops
  BY <1>1, <1>12 DEF BrokerStops, Lose
<1>13. CASE WillLost \/ HubServesWill
  <2>1. Head(wills) \in Modules
    BY <1>13 DEF WillLost, HubServesWill, IInv, TypeOK
  <2>2. QED
    BY <1>3, <1>4, <1>13, <2>1 DEF WillLost, HubServesWill
<1>14. ASSUME NEW d \in Modules,
              \/ Boot(d) \/ StationUp(d) \/ StationDown(d) \/ Tick(d) \/ Configure(d)
       PROVE  OneHolder'
  BY <1>3, <1>14 DEF Boot, StationUp, StationDown, Tick, Configure
<1>15. CASE UNCHANGED vars
  BY <1>3, <1>15 DEF vars
<1>16. QED
  BY <1>4, <1>6, <1>7, <1>8, <1>9, <1>10, <1>11, <1>12, <1>13, <1>14, <1>15
     DEF Next, Disturbance, Off, HubForward

\* The home broker holds the session of one module at most: all modules connect
\* with one client id, so that the newest to come takes the session over.
THEOREM HolderInvariance == ThreadsSpec => []OneHolder
<1>1. Spec => []OneHolder
  BY HolderInit, HolderStep, LinkInvariance, PTL DEF Spec
<1>2. QED
  BY <1>1, LinkImplemented, PTL DEF ImplementsLink

----------------------------------------------------------------------------
(* No module is left waiting *)

\* A module that nothing is done to stays cared for.
LEMMA CaredApart ==
  ASSUME NEW d \in Modules, Cared(d), link'[d] = link[d], tact'[d] = tact[d],
         missed[d] => missed'[d], Queued(d) => Queued(d)'
  PROVE  Cared(d)'
<1>1. Promised(d) => Promised(d)'
  BY DEF Promised
<1>2. Content(d) => Content(d)'
  BY DEF Content
<1>3. QED
  BY <1>1, <1>2 DEF Cared

\* ASDFG starts a client, or the module is marked missed.
LEMMA TellCares ==
  ASSUME IInv, HubInv, NEW d \in Modules,
         \/ OnHub(d) /\ missed' = [missed EXCEPT ![d] = ~Hears(d)]
         \/ missed' = [missed EXCEPT ![d] = TRUE]
  PROVE  Cared(d)'
<1>1. DOMAIN missed = Modules
  BY DEF HubInv
<1>2. CASE missed' = [missed EXCEPT ![d] = TRUE]
  <2>1. missed'[d] = TRUE
    BY <1>1, <1>2
  <2>2. QED
    BY <2>1 DEF Cared, Promised
<1>3. CASE OnHub(d) /\ missed' = [missed EXCEPT ![d] = ~Hears(d)]
  <2>1. Hears(d) => link'[d].m = "opening"
    BY <1>3, OnHubOne
  <2>2. missed'[d] = ~Hears(d)
    BY <1>1, <1>3
  <2>3. QED
    BY <2>1, <2>2 DEF Cared, Promised
<1>4. QED
  BY <1>2, <1>3

\* Whatever is done to one module, the others stay cared for.
LEMMA CaredOthers ==
  ASSUME IInv, HubInv, NEW c \in Modules, NEW d \in Modules, c # d, Cared(d),
         \A e \in Modules \ {c} : link'[e] = link[e] /\ tact'[e] = tact[e]
                                    /\ missed'[e] = missed[e],
         Queued(d) => Queued(d)'
  PROVE  Cared(d)'
BY CaredApart

\* A restart leaves a module content.
LEMMA CaredRestart ==
  ASSUME IInv, NEW d \in Modules, Restart(d)
  PROVE  Cared(d)' /\ \A e \in Modules \ {d} : link'[e] = link[e] /\ tact'[e] = tact[e]
<1>1. link'[d].m = "none" /\ link'[d].late = {} /\ tact'[d] = 1
  BY DEF Restart, NoLink, IInv, TypeOK
<1>2. QED
  BY <1>1 DEF Cared, Content, Restart, IInv, TypeOK

\* The callbacks find a promise that they leave, or a client that is content.
LEMMA CaredCallback ==
  ASSUME IInv, HubInv, NEW c \in Modules, UNCHANGED missed,
         \/ Connected(c) \/ ConnectedStray(c)
         \/ \E who \in {"m", "older"} : OfflineEvent(c, who),
         NEW d \in Modules, Cared(d)
  PROVE  Cared(d)'
<1> DEFINE l == link[c]
<1>1. l \in Links /\ Sound(l) /\ Early(c) /\ DOMAIN link = Modules
        /\ DOMAIN tact = Modules
  BY DEF IInv, TypeOK, Mod
<1>2. CASE Restart(c)
  <2>1. Queued(d) => Queued(d)'
    BY <1>2 DEF Restart, Queued
  <2>2. QED
    BY <1>2, <2>1, CaredRestart, CaredOthers
<1>3. ASSUME NEW k, link' = [link EXCEPT ![c] = k],
             k.server = l.server, UNCHANGED wills,
             \E b : tact' = [tact EXCEPT ![c] = b],
             Cared(c) => \/ Promised(c)
                         \/ k.m = "opening"
                         \/ k.late = {} /\ k.m \in {"none", "closed"} /\ tact'[c] = 1
      PROVE  Cared(d)'
  <2>1. Queued(d)' <=> Queued(d)
    BY <1>3 DEF Queued
  <2>2. CASE c # d
    BY <1>1, <1>3, <2>1, <2>2, CaredOthers
  <2>3. CASE c = d
    <3>1. link'[d] = k
      BY <1>1, <1>3, <2>3
    <3>2. QED
      BY <1>1, <1>3, <2>1, <2>3, <3>1 DEF Cared, Promised, Content
  <2>4. QED
    BY <2>2, <2>3
<1>4. CASE Connected(c) /\ c \notin Torn
  <2>1. [l EXCEPT !.m = "open"].server = l.server
    BY <1>1 DEF Links
  <2>2. l.m = "accepted" /\ link' = [link EXCEPT ![c] = [l EXCEPT !.m = "open"]]
          /\ tact' = [tact EXCEPT ![c] = 1] /\ UNCHANGED wills
    BY <1>4 DEF Connected
  <2>3. Cared(c) => Promised(c)
    BY <2>2 DEF Cared, Content
  <2>4. QED
    BY <1>3, <2>1, <2>2, <2>3
<1>5. CASE /\ ConnectedStray(c) /\ c \notin Torn
           /\ l.m \notin {"opening", "accepted"}
  <2> DEFINE k == [l EXCEPT !.stray = "none"]
  <2>1. k.server = l.server /\ k.late = l.late /\ k.m = l.m
    BY <1>1 DEF Links
  <2>2. link' = [link EXCEPT ![c] = k]
          /\ tact' = [tact EXCEPT ![c] = 1] /\ UNCHANGED wills
    BY <1>5 DEF ConnectedStray
  <2>3. tact'[c] = 1
    BY <1>1, <2>2
  <2>4. QED
    BY <1>3, <1>5, <2>1, <2>2, <2>3 DEF Cared, Content
<1>6. ASSUME NEW who \in {"m", "older"}, OfflineEvent(c, who) PROVE Cared(d)'
  <2> DEFINE k == [l EXCEPT !.late = @ \ {who},
                            !.m = IF who = "m" THEN "closed" ELSE @]
  <2>1. k.server = l.server /\ (who = "older" => k.m = l.m)
    BY <1>1 DEF Links
  <2>2. link' = [link EXCEPT ![c] = k]
          /\ tact' = [tact EXCEPT ![c] = 0] /\ UNCHANGED wills
    BY <1>6 DEF OfflineEvent
  <2>3. l.late # {} /\ (who = "m" => l.m = "open")
    BY <1>6 DEF OfflineEvent
  <2>4. Cared(c) => Promised(c) \/ k.m = "opening"
    BY <1>6, <2>1, <2>3 DEF Cared, Content
  <2>5. QED
    BY <1>3, <2>1, <2>2, <2>4
<1>7. QED
  BY <1>2, <1>4, <1>5, <1>6 DEF Connected, ConnectedStray

\* Nor does the broker forget a module: where a session ends a will follows.
LEMMA CaredBroker ==
  ASSUME IInv, HubInv, OneHolder, NEW c \in Modules, UNCHANGED missed,
         Accept(c) \/ AcceptStray(c) \/ Break(c) \/ Expire(c),
         NEW d \in Modules, Cared(d)
  PROVE  Cared(d)'
<1> DEFINE l == link[c]
<1>1. l \in Links /\ DOMAIN link = Modules /\ DOMAIN tact = Modules
        /\ wills \in Seq(Modules)
  BY DEF IInv, TypeOK
<1>2. CASE Accept(c) \/ AcceptStray(c)
  <2>1. CASE d = c
    BY <1>2, <2>1, AcceptOne DEF Cared, Promised
  <2>2. CASE d # c /\ link[d].server # "none"
    <3>1. Queued(d)'
      BY <1>2, <2>2, AcceptOne
    <3>2. QED
      BY <3>1 DEF Cared, Promised
  <2>3. CASE d # c /\ link[d].server = "none"
    <3>1. link'[d] = link[d] /\ tact' = tact /\ (Queued(d) => Queued(d)')
      BY <1>2, <2>3, AcceptOne
    <3>2. QED
      BY <3>1, CaredApart
  <2>4. QED
    BY <2>1, <2>2, <2>3
<1>3. CASE Break(c)
  <2>1. Lose(l, "gone", FALSE).server = "gone"
    BY DEF Lose
  <2>2. link' = [link EXCEPT ![c] = Lose(l, "gone", FALSE)] /\ UNCHANGED <<tact, wills>>
    BY <1>3 DEF Break, ram
  <2>3. CASE d = c
    BY <1>1, <2>1, <2>2, <2>3 DEF Cared, Promised
  <2>4. CASE d # c
    BY <1>1, <2>2, <2>4, CaredOthers DEF Queued
  <2>5. QED
    BY <2>3, <2>4
<1>4. CASE Expire(c)
  <2>1. wills' = Append(wills, c) /\ UNCHANGED tact
          /\ link' = [link EXCEPT ![c] = [l EXCEPT !.server = "none"]]
    BY <1>4 DEF Expire, ram
  <2>2. Queued(d)' <=> c = d \/ Queued(d)
    BY <1>1, <2>1, QueueAppend DEF Queued
  <2>3. CASE d = c
    BY <2>2, <2>3 DEF Cared, Promised
  <2>4. CASE d # c
    BY <1>1, <2>1, <2>2, <2>4, CaredOthers
  <2>5. QED
    BY <2>3, <2>4
<1>5. QED
  BY <1>2, <1>3, <1>4

\* Only the power of the hub can make a module uncared for.
LEMMA CaredStep ==
  ASSUME IInv, HubInv, OneHolder, ThreadsNext, ~HubStops,
         NEW d \in Modules, Cared(d)
  PROVE  Cared(d)'
<1>1. CASE UNCHANGED <<vars, missed>>
  BY <1>1, CaredApart DEF vars, ram, Queued
<1>2. CASE \/ Start \/ StartFails \/ NetChanges \/ OfflineConnect \/ OfflineDrop
           \/ Poll \/ ScanEnds \/ TellFails \/ TellEnds
  BY <1>1, <1>2 DEF Start, StartFails, NetChanges, OfflineConnect, OfflineDrop,
                    Poll, ScanEnds, TellFails, TellEnds
<1>3. DOMAIN missed = Modules /\ wills \in Seq(Modules)
  BY DEF HubInv, IInv, TypeOK
<1>4. CASE WillGone \/ TellWill
  <2> DEFINE c == Head(wills)
  <2>1. wills # <<>> /\ wills' = Tail(wills) /\ c \in Modules
    BY <1>3, <1>4 DEF WillGone, TellWill, WillLost, HubServesWill
  <2>2. \/ UNCHANGED <<link, tact>> \/ OnHub(c)
    BY <1>4 DEF WillGone, TellWill, WillLost, HubServesWill, ram
  <2>3. PICK b : missed' = [missed EXCEPT ![c] = b]
    BY <1>4 DEF WillGone, TellWill
  <2>4. CASE d = c
    <3>1. CASE missed' = [missed EXCEPT ![c] = TRUE]
      BY <2>1, <2>4, <3>1, TellCares
    <3>2. CASE TellWill /\ net = "up" /\ Reachable(c)
      <4>1. OnHub(c) /\ missed' = [missed EXCEPT ![c] = ~Hears(c)]
        BY <3>2 DEF TellWill, HubServesWill
      <4>2. QED
        BY <2>1, <2>4, <4>1, TellCares
    <3>3. QED
      BY <1>4, <3>1, <3>2 DEF WillGone, TellWill
  <2>5. CASE d # c
    <3>1. Queued(d) => Queued(d)'
      BY <1>3, <2>1, <2>5, QueueTail DEF Queued
    <3>2. \A e \in Modules \ {c} : link'[e] = link[e] /\ tact'[e] = tact[e]
                                     /\ missed'[e] = missed[e]
      BY <1>3, <2>1, <2>2, <2>3, OnHubOne
    <3>3. QED
      BY <2>1, <2>5, <3>1, <3>2, CaredOthers
  <2>6. QED
    BY <2>4, <2>5
<1>5. ASSUME NEW c \in Configured, Scan(c) PROVE Cared(d)'
  BY <1>1, <1>5 DEF Scan
<1>6. ASSUME NEW c \in Modules, wills' = wills,
             \/ OnHub(c) /\ missed' = [missed EXCEPT ![c] = ~Hears(c)]
             \/ UNCHANGED <<link, tact>> /\ missed' = [missed EXCEPT ![c] = TRUE]
      PROVE  Cared(d)'
  <2>1. CASE d = c
    BY <1>6, <2>1, TellCares
  <2>2. CASE d # c
    <3>1. \A e \in Modules \ {c} : link'[e] = link[e] /\ tact'[e] = tact[e]
                                     /\ missed'[e] = missed[e]
      BY <1>3, <1>6, OnHubOne
    <3>2. QED
      BY <1>6, <2>2, <3>1, CaredOthers DEF Queued
  <2>3. QED
    BY <2>1, <2>2
<1>7. ASSUME NEW c \in Configured, Tell(c) PROVE Cared(d)'
  BY <1>6, <1>7, ThreadsAssumption DEF Tell, HubForward, vars, ram
<1>8. ASSUME NEW c \in Modules, PhoneConfigures(c) PROVE Cared(d)'
  BY <1>6, <1>8 DEF PhoneConfigures, HubForward
<1>9. ASSUME NEW c \in Modules, AttemptFails(c) PROVE Cared(d)'
  <2>1. UNCHANGED <<tact, wills>> /\ missed' = [missed EXCEPT ![c] = TRUE]
          /\ \E k : link' = [link EXCEPT ![c] = k]
    BY <1>9 DEF AttemptFails, Refused, ram
  <2>2. CASE d = c
    BY <2>1, <2>2, TellCares
  <2>3. CASE d # c
    <3>1. \A e \in Modules \ {c} : link'[e] = link[e] /\ tact'[e] = tact[e]
                                     /\ missed'[e] = missed[e]
      BY <1>3, <2>1 DEF IInv, TypeOK
    <3>2. QED
      BY <2>1, <2>3, <3>1, CaredOthers DEF Queued
  <2>4. QED
    BY <2>2, <2>3
<1>10. ASSUME NEW c \in Modules, UNCHANGED missed, Boot(c) PROVE Cared(d)'
  <2>1. link' = link /\ wills' = wills /\ tact' = [tact EXCEPT ![c] = 1]
    BY <1>10 DEF Boot
  <2>2. Content(d) => Content(d)'
    BY <2>1 DEF Content, IInv, TypeOK
  <2>3. Promised(d) => Promised(d)'
    BY <1>10, <2>1 DEF Promised, Queued
  <2>4. QED
    BY <2>1, <2>2, <2>3 DEF Cared
<1>11. ASSUME NEW c \in Modules, UNCHANGED missed,
              StationUp(c) \/ StationDown(c) \/ Tick(c) \/ Configure(c)
       PROVE  Cared(d)'
  <2>1. UNCHANGED <<link, tact, wills>>
    BY <1>11 DEF StationUp, StationDown, Tick, Configure, ram
  <2>2. QED
    BY <1>11, <2>1, CaredApart DEF Queued
<1>12. ASSUME NEW c \in Modules, UNCHANGED missed, Restart(c) PROVE Cared(d)'
  <2>1. Queued(d) => Queued(d)'
    BY <1>12 DEF Restart, Queued
  <2>2. QED
    BY <1>12, <2>1, CaredRestart, CaredOthers
<1>13. ASSUME NEW c \in Modules, LinkStep(c) PROVE Cared(d)'
  BY <1>10, <1>11, <1>13, CaredBroker, CaredCallback DEF LinkStep
<1>14. ASSUME NEW c \in Modules, LinkFails(c) PROVE Cared(d)'
  BY <1>11, <1>12, <1>14, CaredBroker DEF LinkFails, Off
<1>15. QED
  BY <1>2, <1>4, <1>5, <1>7, <1>8, <1>9, <1>13, <1>14
     DEF ThreadsNext, Trouble, Router

LEMMA CaredInit == ThreadsInit => CaredInv
BY DEF ThreadsInit, CaredInv, Past

LEMMA CaredInvStep ==
  IInv /\ HubInv /\ OneHolder /\ CaredInv /\ [ThreadsNext]_thread_vars => CaredInv'
<1> SUFFICES ASSUME IInv, HubInv, OneHolder, CaredInv, [ThreadsNext]_thread_vars,
                    NEW d \in Configured, Past(d)'
             PROVE  Cared(d)'
  BY DEF CaredInv
<1>1. d \in Modules
  BY ThreadsAssumption
<1>2. CASE UNCHANGED thread_vars
  <2>1. Past(d)
    BY <1>2 DEF thread_vars, hub, Past
  <2>2. QED
    BY <1>1, <1>2, <2>1, CaredApart DEF thread_vars, vars, ram, Queued, CaredInv
<1>3. CASE HubStops
  BY <1>3 DEF HubStops, Past
<1>4. CASE ThreadsNext /\ ~HubStops
  <2>1. CASE Past(d)
    BY <1>1, <1>4, <2>1, CaredStep DEF CaredInv
  <2>2. CASE Tell(d)
    <3>1. \/ OnHub(d) /\ missed' = [missed EXCEPT ![d] = ~Hears(d)]
          \/ missed' = [missed EXCEPT ![d] = TRUE]
      BY <2>2 DEF Tell, HubForward
    <3>2. QED
      BY <1>1, <3>1, TellCares
  <2>3. Past(d) \/ Tell(d)
    <3>1. CASE UNCHANGED hub
      BY <3>1 DEF hub, Past
    <3>2. CASE Start \/ StartFails \/ NetChanges \/ OfflineConnect \/ OfflineDrop
      BY <3>2 DEF Start, StartFails, NetChanges, OfflineConnect, OfflineDrop, Past,
                  HubInv
    <3>3. CASE Poll \/ ScanEnds \/ TellFails \/ TellEnds
      BY <3>3 DEF Poll, ScanEnds, TellFails, TellEnds, Past, HubInv
    <3>4. ASSUME NEW c \in Configured, Scan(c) PROVE Past(d)
      BY <3>4 DEF Scan, Past
    <3>5. ASSUME NEW c \in Configured, Tell(c), c # d PROVE Past(d)
      BY <3>5 DEF Tell, Past
    <3>6. QED
      BY <1>4, <3>1, <3>2, <3>3, <3>4, <3>5
         DEF ThreadsNext, Trouble, Router, WillGone, TellWill, PhoneConfigures,
             LinkStep, LinkFails, AttemptFails
  <2>4. QED
    BY <2>1, <2>2, <2>3
<1>5. QED
  BY <1>2, <1>3, <1>4

\* A module that waits for ASDFG is owed one, unless the last that was due to
\* it came to nothing: no will is overlooked, and no pass ends without it.
THEOREM NobodyForgotten == ThreadsSpec => []Owed
<1>1. IInv /\ HubInv /\ CaredInv => Owed
  <2> SUFFICES ASSUME IInv, HubInv, CaredInv, NEW d \in Configured, Waiting(d)
               PROVE  Alive(d) \/ temp1 = 1 \/ missed[d]
    BY DEF Owed
  <2>1. temp1 = 0 => Cared(d)
    BY DEF CaredInv, Past
  <2>2. Cared(d) => Alive(d) \/ missed[d]
    BY DEF Cared, Promised, Content, Queued, Waiting, Settled, Alive
  <2>3. QED
    BY <2>1, <2>2 DEF HubInv, Bits
<1>2. ThreadsSpec => []CaredInv
  BY CaredInit, CaredInvStep, LinkInvariant, HubInvariant, HolderInvariance, PTL
     DEF ThreadsSpec
<1>3. QED
  BY <1>1, <1>2, LinkInvariant, HubInvariant, PTL

----------------------------------------------------------------------------
(* A module left out *)

\* A module left out has no part in what the others' clients and the hub do.
LEMMA LeftOutApart ==
  ASSUME NEW d \in Modules, LeftOut(d), link'[d] = link[d], on'[d] = on[d],
         station'[d] = station[d], tact'[d] = tact[d], temp1' = temp1, net' = net,
         Queued(d)' => Queued(d)
  PROVE  LeftOut(d)'
BY DEF LeftOut, Waiting, Settled, Alive, Queued

\* No step of the modules and the broker reaches it.
LEMMA LeftOutLink ==
  ASSUME IInv, OneHolder, NEW d \in Modules, LeftOut(d),
         NEW c \in Modules, LinkStep(c)
  PROVE  LeftOut(d)'
<1>1. temp1' = temp1 /\ net' = net
  BY DEF LinkStep, hub
<1>2. /\ on[d] /\ station[d] /\ link[d].server = "none" /\ link[d].late = {}
      /\ link[d].m \notin {"opening", "accepted"} /\ link[d].stray = "none"
  BY DEF LeftOut, Waiting, Settled, Alive
<1>3. DOMAIN link = Modules /\ DOMAIN on = Modules /\ DOMAIN station = Modules
        /\ DOMAIN tact = Modules /\ wills \in Seq(Modules)
  BY DEF IInv, TypeOK
<1>4. CASE Accept(c) \/ AcceptStray(c)
  <2>1. c # d
    BY <1>2, <1>4 DEF Accept, AcceptStray
  <2>2. QED
    BY <1>1, <1>2, <1>4, <2>1, AcceptOne, LeftOutApart
<1>5. CASE Boot(c)
  <2>1. c # d
    BY <1>2, <1>5 DEF Boot
  <2>2. QED
    BY <1>1, <1>3, <1>5, <2>1, LeftOutApart DEF Boot, Queued
<1>6. CASE StationUp(c)
  <2>1. c # d
    BY <1>2, <1>6 DEF StationUp
  <2>2. QED
    BY <1>1, <1>3, <1>6, <2>1, LeftOutApart DEF StationUp, ram, Queued
<1>7. CASE Tick(c)
  BY <1>1, <1>7, LeftOutApart DEF Tick, Queued
<1>8. CASE Expire(c)
  <2>1. c # d
    BY <1>2, <1>8 DEF Expire
  <2>2. Queued(d)' => Queued(d)
    BY <1>3, <1>8, <2>1, QueueAppend DEF Expire, Queued
  <2>3. QED
    BY <1>1, <1>3, <1>8, <2>1, <2>2, LeftOutApart DEF Expire, ram
<1>9. CASE \/ Connected(c) \/ ConnectedStray(c)
            \/ \E who \in {"m", "older"} : OfflineEvent(c, who)
  <2>1. c # d
    BY <1>2, <1>9 DEF Connected, ConnectedStray, OfflineEvent
  <2>2. CASE Restart(c)
    BY <1>1, <1>3, <2>1, <2>2, LeftOutApart DEF Restart, Queued
  <2>3. CASE Connected(c) /\ ~Restart(c)
    BY <1>1, <1>3, <2>1, <2>3, LeftOutApart DEF Connected, Queued
  <2>4. CASE ConnectedStray(c) /\ ~Restart(c)
    BY <1>1, <1>3, <2>1, <2>4, LeftOutApart DEF ConnectedStray, Queued
  <2>5. ASSUME NEW who \in {"m", "older"}, OfflineEvent(c, who) PROVE LeftOut(d)'
    BY <1>1, <1>3, <2>1, <2>5, LeftOutApart DEF OfflineEvent, Queued
  <2>6. QED
    BY <1>9, <2>2, <2>3, <2>4, <2>5
<1>10. QED
  BY <1>4, <1>5, <1>6, <1>7, <1>8, <1>9 DEF LinkStep

\* The hub does not send to it: no will names it, and no pass is due.
LEMMA LeftOutHub ==
  ASSUME IInv, HubInv, NEW d \in Modules, LeftOut(d),
         \/ Start \/ StartFails \/ NetChanges \/ OfflineConnect
         \/ WillGone \/ TellWill \/ Router,
         ~Trouble
  PROVE  LeftOut(d)'
<1>1. net = "up" /\ temp1 = 0 /\ ~Queued(d)
  BY DEF LeftOut, Alive, Queued
<1>2. CASE Start \/ StartFails \/ OfflineConnect
  BY <1>2, LeftOutApart DEF Start, StartFails, OfflineConnect, vars, ram, Queued
<1>3. CASE NetChanges
  BY <1>1, <1>3 DEF Trouble
<1>4. CASE Router
  BY <1>1, <1>4 DEF Router, Poll, ScanEnds, TellFails, TellEnds, Scan, Tell, HubInv
<1>5. CASE WillGone \/ TellWill
  <2> DEFINE c == Head(wills)
  <2>1. wills # <<>> /\ wills' = Tail(wills) /\ wills \in Seq(Modules)
    BY <1>5 DEF WillGone, TellWill, WillLost, HubServesWill, IInv, TypeOK
  <2>2. c \in Modules /\ c # d
    BY <1>1, <2>1 DEF Queued
  <2>3. Queued(d)' => Queued(d)
    BY <2>1, <2>2, QueueTail DEF Queued
  <2>4. temp1' = temp1 /\ net' = net
    BY <1>5 DEF WillGone, TellWill, hub
  <2>5. UNCHANGED <<link, on, station, tact>> \/ OnHub(c)
    BY <1>5 DEF WillGone, TellWill, WillLost, HubServesWill, ram
  <2>6. /\ link'[d] = link[d] /\ on'[d] = on[d] /\ station'[d] = station[d]
        /\ tact'[d] = tact[d]
    BY <2>2, <2>5, OnHubOne
  <2>7. QED
    BY <2>3, <2>4, <2>6, LeftOutApart
<1>6. QED
  BY <1>2, <1>3, <1>4, <1>5

\* A module nobody is to send to stays so while people and failures do nothing.
THEOREM LeftOutForGood == ThreadsSpec => LeftOutStays
<1>1. ASSUME IInv, HubInv, OneHolder, [ThreadsNext]_thread_vars
      PROVE  [\A d \in Modules : LeftOut(d) => LeftOut(d)' \/ Trouble]_thread_vars
  <2>1. CASE UNCHANGED thread_vars
    BY <2>1
  <2>2. ASSUME ThreadsNext, NEW d \in Modules, LeftOut(d), ~Trouble
        PROVE  LeftOut(d)'
    BY <1>1, <2>2, LeftOutLink, LeftOutHub DEF ThreadsNext
  <2>3. QED
    BY <1>1, <2>1, <2>2
<1>2. QED
  BY <1>1, LinkInvariant, HubInvariant, HolderInvariance, PTL
     DEF ThreadsSpec, LeftOutStays

=============================================================================
