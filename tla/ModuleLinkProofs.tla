-------------------------- MODULE ModuleLinkProofs --------------------------
(***************************************************************************)
(* Proofs about ModuleLink, for every set of modules. The invariant speaks *)
(* of each module alone: Sound of its clients and the session the broker   *)
(* has, Early of a module before its first session, Newest of one in       *)
(* session.                                                                *)
(***************************************************************************)
EXTENDS ModuleLink, TLAPS

\* SessionKnown of one record.
Sound(l) ==
    /\ l.server = "m" => l.m \in {"accepted", "open"}
    /\ l.m = "accepted" => l.server = "m" \/ "m" \in l.late
    /\ l.stray = "accepted" => l.server = "older" \/ "older" \in l.late
    /\ "m" \in l.late => l.m \in {"accepted", "open"} /\ l.server # "m"

\* No client has been made since power-up.
Clean(l) == l.m = "none" /\ l.stray = "none" /\ l.late = {}
              /\ l.server \in {"none", "gone"}

\* At most one client has been made since power-up, and it has not heard of a
\* session.
Unmet(l) == l.m # "open" /\ l.stray = "none" /\ l.server # "older"
              /\ "older" \notin l.late

\* What holds of a module before its first session.
Early(d) ==
    /\ ~on[d] => Clean(link[d]) /\ ~station[d] /\ timer[d] = "none"
                   /\ check1[d] = 0 /\ tact[d] = 1 /\ temp[d] = 0
    /\ check1[d] = 1 => timer[d] # "boot"
    /\ check1[d] = 1 \/ timer[d] = "boot" =>
         Clean(link[d]) /\ tact[d] = 1 /\ temp[d] = 0
    /\ temp[d] = 0 => Unmet(link[d]) /\ tact[d] = 1

\* What Prompt adds for a module in session.
Newest(d) == Prompt /\ Open(d) => tact[d] = 1 /\ "older" \notin link[d].late

\* The invariant of one module, and of all.
Mod(d) == Sound(link[d]) /\ Early(d) /\ Newest(d)
IInv == TypeOK /\ \A d \in Modules : Mod(d)

----------------------------------------------------------------------------
(* The operators on a module's clients *)

\* A new client leaves the record sound.
LEMMA FreshSound ==
  ASSUME NEW l \in Links, Sound(l)
  PROVE  Fresh(l) \in Links /\ Sound(Fresh(l)) /\ Fresh(l).m = "opening"
BY DEF Links, Sound, Fresh

\* A new client does not meet a session: the older ones had none, or had one
\* nobody was told of.
LEMMA FreshUnmet ==
  ASSUME NEW l \in Links, Sound(l), Clean(l)
  PROVE  Unmet(Fresh(l))
BY DEF Links, Sound, Fresh, Clean, Unmet

\* So do closing the client, and the new one after it.
LEMMA ClosedSound ==
  ASSUME NEW l \in Links, Sound(l), l.m = "open", NEW k \in Closed(l)
  PROVE  k \in Links /\ Sound(Fresh(k)) /\ Fresh(k) \in Links
           /\ Fresh(k).m = "opening"
<1>1. PICK late \in {l.late, l.late \cup {"m"}} :
        k = [l EXCEPT !.m = "closed", !.late = late,
                      !.server = IF @ = "m" THEN "none" ELSE @]
  BY DEF Closed
<1>2. late \in SUBSET {"m", "older"}
  BY DEF Links
<1>3. k \in Links /\ k.m = "closed" /\ k.server # "m" /\ k.stray = l.stray
        /\ (l.server = "older" => k.server = "older")
        /\ ("older" \in l.late => "older" \in k.late)
  BY <1>1, <1>2 DEF Links
<1>4. Fresh(k) = [m |-> "opening", stray |-> k.stray, server |-> k.server,
                  late |-> IF k.late = {} THEN {} ELSE {"older"}]
  BY <1>3 DEF Fresh
<1>5. QED
  BY <1>3, <1>4 DEF Links, Sound

\* The four ways a session ends: the module has none, the client has an
\* offline event to come, or its attempt, newest or older, has failed.
Ends(l, k) ==
    \/ /\ l.server \notin {"m", "older"}
       /\ k.m = l.m /\ k.stray = l.stray /\ k.late = l.late
    \/ /\ l.server \in {"m", "older"}
       /\ k.m = l.m /\ k.stray = l.stray /\ k.late = l.late \cup {l.server}
    \/ /\ l.server = "m" /\ l.m = "accepted"
       /\ k.m = "closed" /\ k.stray = l.stray /\ k.late = l.late
    \/ /\ l.server = "older" /\ l.stray = "accepted"
       /\ k.m = l.m /\ k.stray = "none" /\ k.late = l.late

LEMMA LoseCases ==
  ASSUME NEW l \in Links, NEW server \in {"none", "m", "older", "gone"},
         NEW heard \in BOOLEAN
  PROVE  /\ Lose(l, server, heard) \in Links
         /\ Lose(l, server, heard).server = server
         /\ Ends(l, Lose(l, server, heard))
<1> DEFINE ends  == l.server \in {"m", "older"} /\ (heard \/ Told(l))
           fails == l.server \in {"m", "older"} /\ ~heard /\ ~Told(l)
           m     == IF fails /\ l.server = "m" THEN "closed" ELSE l.m
           stray == IF fails /\ l.server = "older" THEN "none" ELSE l.stray
           late  == IF ends THEN l.late \cup {l.server} ELSE l.late
<1>1. PICK k : k = Lose(l, server, heard)
  OBVIOUS
<1>2. k = [m |-> m, stray |-> stray, late |-> late, server |-> server]
  BY <1>1 DEF Lose
<1>3. k.m = m /\ k.stray = stray /\ k.late = late /\ k.server = server
  BY <1>2
<1>4. /\ m \in {"none", "opening", "accepted", "open", "closed"}
      /\ stray \in {"none", "opening", "accepted"}
      /\ late \in SUBSET {"m", "older"}
  BY DEF Links
<1>5. k \in Links
  BY <1>2, <1>4 DEF Links
<1>6. Ends(l, k)
  <2>1. CASE ends
    BY <1>3, <2>1 DEF Ends
  <2>2. CASE fails
    BY <1>3, <2>2 DEF Told, Ends
  <2>3. CASE l.server \notin {"m", "older"}
    BY <1>3, <2>3 DEF Ends
  <2>4. QED
    BY <2>1, <2>2, <2>3
<1>7. QED
  BY <1>1, <1>3, <1>5, <1>6

\* A lost session: the record stays sound, with the broker's side as given.
LEMMA LoseSound ==
  ASSUME NEW l \in Links, Sound(l), NEW server \in {"none", "gone"},
         NEW heard \in BOOLEAN
  PROVE  /\ Lose(l, server, heard) \in Links
         /\ Lose(l, server, heard).server = server
         /\ Sound(Lose(l, server, heard))
         /\ Clean(l) => Clean(Lose(l, server, heard))
         /\ Unmet(l) => Unmet(Lose(l, server, heard))
<1>1. PICK k : k = Lose(l, server, heard)
  OBVIOUS
<1>2. k \in Links /\ k.server = server /\ Ends(l, k)
  <2>1. server \in {"none", "m", "older", "gone"}
    OBVIOUS
  <2>2. /\ Lose(l, server, heard) \in Links
        /\ Lose(l, server, heard).server = server
        /\ Ends(l, Lose(l, server, heard))
    BY <2>1, LoseCases
  <2>3. QED
    BY <1>1, <2>2
<1>3. Sound(k)
  BY <1>2 DEF Sound, Ends
<1>4. Clean(l) => Clean(k)
  BY <1>2 DEF Clean, Ends
<1>5. Unmet(l) => Unmet(k)
  BY <1>2 DEF Unmet, Ends
<1>6. QED
  BY <1>1, <1>2, <1>3, <1>4, <1>5

\* The broker accepts the newest client: whatever session the module had is
\* that of an older one.
LEMMA AcceptSound ==
  ASSUME NEW l \in Links, Sound(l), l.m = "opening", NEW heard \in BOOLEAN,
         NEW k, k = [Lose(l, "m", heard) EXCEPT !.m = "accepted"]
  PROVE  k \in Links /\ Sound(k) /\ k.m = "accepted"
           /\ (Unmet(l) => Unmet(k))
<1>1. PICK j : j = Lose(l, "m", heard)
  OBVIOUS
<1>2. j \in Links /\ j.server = "m" /\ Ends(l, j)
  <2>1. /\ Lose(l, "m", heard) \in Links
        /\ Lose(l, "m", heard).server = "m"
        /\ Ends(l, Lose(l, "m", heard))
    BY LoseCases
  <2>2. QED
    BY <1>1, <2>1
<1>3. k \in Links /\ k.m = "accepted" /\ k.stray = j.stray /\ k.late = j.late
        /\ k.server = "m"
  BY <1>1, <1>2 DEF Links
<1>4. l.server # "m" /\ "m" \notin l.late
  BY DEF Sound
<1>5. "m" \notin j.late
        /\ (j.stray = "accepted" => "older" \in j.late)
  BY <1>2, <1>4 DEF Sound, Ends
<1>6. Sound(k)
  BY <1>3, <1>5 DEF Sound
<1>7. Unmet(l) => Unmet(k)
  BY <1>2, <1>3, <1>4 DEF Unmet, Ends
<1>8. QED
  BY <1>3, <1>6, <1>7

\* The broker accepts an older client: the newest one loses its session.
LEMMA AcceptStraySound ==
  ASSUME NEW l \in Links, Sound(l), l.stray = "opening", NEW heard \in BOOLEAN,
         NEW k, k = [Lose(l, "older", heard) EXCEPT !.stray = "accepted"]
  PROVE  k \in Links /\ Sound(k) /\ k.server = "older" /\ ~Unmet(l)
<1>1. PICK j : j = Lose(l, "older", heard)
  OBVIOUS
<1>2. j \in Links /\ j.server = "older" /\ Ends(l, j)
  <2>1. /\ Lose(l, "older", heard) \in Links
        /\ Lose(l, "older", heard).server = "older"
        /\ Ends(l, Lose(l, "older", heard))
    BY LoseCases
  <2>2. QED
    BY <1>1, <2>1
<1>3. k \in Links /\ k.m = j.m /\ k.stray = "accepted" /\ k.late = j.late
        /\ k.server = "older"
  BY <1>1, <1>2 DEF Links
<1>4. (j.m = "accepted" => "m" \in j.late)
        /\ ("m" \in j.late => j.m \in {"accepted", "open"})
  BY <1>2 DEF Sound, Ends
<1>5. Sound(k)
  BY <1>3, <1>4 DEF Sound
<1>6. QED
  BY <1>3, <1>5 DEF Unmet

----------------------------------------------------------------------------
(* One action at a time *)

\* A module none of whose variables changes keeps its invariant.
LEMMA Elsewhere ==
  ASSUME NEW e \in Modules, Mod(e),
         on'[e] = on[e], station'[e] = station[e], timer'[e] = timer[e],
         check1'[e] = check1[e], tact'[e] = tact[e], temp'[e] = temp[e],
         link'[e] = link[e]
  PROVE  Mod(e)'
BY DEF Mod, Sound, Early, Newest, Clean, Unmet, Open

\* A restart leaves a module as before its first power-up, but for a session
\* the broker may still have.
LEMMA RestartKeepsInv ==
  ASSUME IInv, NEW d \in Modules, Restart(d)
  PROVE  IInv'
<1>1. link'[d] \in Links /\ Clean(link'[d])
  BY DEF Restart, NoLink, Links, Clean, IInv, TypeOK
<1>2. TypeOK'
  BY <1>1 DEF Restart, IInv, TypeOK, Bits
<1>3. /\ ~on'[d] /\ ~station'[d] /\ timer'[d] = "none"
      /\ check1'[d] = 0 /\ tact'[d] = 1 /\ temp'[d] = 0
  BY DEF Restart, IInv, TypeOK
<1>4. Mod(d)'
  BY <1>1, <1>3 DEF Mod, Sound, Early, Newest, Clean, Unmet, Open
<1>5. ASSUME NEW e \in Modules, e # d PROVE Mod(e)'
  BY <1>5, Elsewhere DEF Restart, IInv, TypeOK
<1>6. QED
  BY <1>2, <1>4, <1>5 DEF IInv

\* ASDFG starts at most one client, and only a module that was told of a
\* session before has one to close.
LEMMA OnHubKeepsInv ==
  ASSUME IInv, NEW d \in Modules, OnHub(d), Reachable(d),
         wills' \in Seq(Modules)
  PROVE  IInv'
<1> DEFINE l == link[d]
<1>1. l \in Links /\ Sound(l) /\ Early(d) /\ Newest(d)
  BY DEF IInv, TypeOK, Mod
<1>2. /\ check1' = [check1 EXCEPT ![d] = 0]
      /\ UNCHANGED <<on, known, station, timer, tact, temp>>
  BY DEF OnHub
<1>3. CASE check1[d] = 1
  <2>1. Clean(l) /\ tact[d] = 1 /\ temp[d] = 0 /\ timer[d] # "boot" /\ on[d]
    BY <1>1, <1>3 DEF Early, Reachable
  <2>2. link' = [link EXCEPT ![d] = Fresh(l)]
    BY <1>3, <2>1 DEF OnHub
  <2>3. Fresh(l) \in Links /\ Sound(Fresh(l)) /\ Fresh(l).m = "opening"
    BY <1>1, FreshSound
  <2>4. Unmet(Fresh(l))
    BY <1>1, <2>1, FreshUnmet
  <2>5. TypeOK'
    BY <1>2, <2>2, <2>3 DEF IInv, TypeOK, Bits
  <2>6. Mod(d)'
    BY <1>2, <2>1, <2>2, <2>3, <2>4 DEF IInv, TypeOK, Mod, Early, Newest, Open
  <2>7. ASSUME NEW e \in Modules, e # d PROVE Mod(e)'
    BY <1>2, <2>2, <2>7, Elsewhere DEF IInv, TypeOK
  <2>8. QED
    BY <2>5, <2>6, <2>7 DEF IInv
<1>4. ASSUME check1[d] # 1, NEW k, link' = [link EXCEPT ![d] = k],
             temp[d] = 1, k \in Links, Sound(k), k.m = "opening"
      PROVE  IInv'
  <2>1. check1' = check1 /\ timer[d] # "boot" /\ on[d]
    BY <1>1, <1>2, <1>4 DEF IInv, TypeOK, Bits, Early, Reachable
  <2>2. TypeOK'
    BY <1>2, <1>4, <2>1 DEF IInv, TypeOK
  <2>3. Mod(d)'
    BY <1>2, <1>4, <2>1 DEF IInv, TypeOK, Mod, Early, Newest, Open
  <2>4. ASSUME NEW e \in Modules, e # d PROVE Mod(e)'
    BY <1>2, <1>4, <2>1, <2>4, Elsewhere DEF IInv, TypeOK
  <2>5. QED
    BY <2>2, <2>3, <2>4 DEF IInv
<1>5. CASE check1[d] # 1 /\ tact[d] = 0
  <2>1. Fresh(l) \in Links /\ Sound(Fresh(l)) /\ Fresh(l).m = "opening"
    BY <1>1, FreshSound
  <2>2. link' = [link EXCEPT ![d] = Fresh(l)] /\ temp[d] = 1
    BY <1>1, <1>5, <2>1 DEF OnHub, Early, IInv, TypeOK, Bits
  <2>3. QED
    BY <1>4, <1>5, <2>1, <2>2
<1>6. CASE check1[d] # 1 /\ tact[d] # 0 /\ temp[d] = 1 /\ l.m = "open"
  <2>1. PICK k \in Closed(l) : link' = [link EXCEPT ![d] = Fresh(k)]
    BY <1>6 DEF OnHub
  <2>2. Fresh(k) \in Links /\ Sound(Fresh(k)) /\ Fresh(k).m = "opening"
    BY <1>1, <1>6, ClosedSound
  <2>3. QED
    BY <1>4, <1>6, <2>1, <2>2
<1>7. CASE check1[d] # 1 /\ tact[d] # 0 /\ ~(temp[d] = 1 /\ l.m = "open")
  <2>1. link' = link /\ check1' = check1
    BY <1>1, <1>2, <1>7 DEF OnHub, IInv, TypeOK, Bits
  <2>2. TypeOK'
    BY <1>2, <2>1 DEF IInv, TypeOK
  <2>3. ASSUME NEW e \in Modules PROVE Mod(e)'
    BY <1>2, <2>1, Elsewhere DEF IInv
  <2>4. QED
    BY <2>2, <2>3 DEF IInv
<1>8. QED
  BY <1>3, <1>5, <1>6, <1>7

\* A session for a client of d: the client's own record is the argument, and
\* every other module loses the session it may have.
LEMMA AcceptsKeepsInv ==
  ASSUME IInv, NEW d \in Modules, NEW k \in Links, Sound(k),
         NEW heard \in BOOLEAN, Accepts(d, k, heard), on[d], ~Clean(link[d]),
         Unmet(link[d]) => Unmet(k),
         k.m # "open" \/ k.server # "m"
  PROVE  IInv'
<1>1. UNCHANGED <<on, known, station, timer, check1, tact, temp>>
  BY DEF Accepts, ram
<1>2. link'[d] = k
  BY DEF Accepts
<1>3. ASSUME NEW e \in Modules, e # d
      PROVE  link'[e] \in {link[e], Lose(link[e], "none", heard)}
  BY <1>3 DEF Accepts
<1>4. ASSUME NEW e \in Modules
      PROVE  Lose(link[e], "none", heard) \in Links
  BY LoseSound DEF IInv, TypeOK, Mod
<1>5. link' \in [Modules -> Links]
  <2>1. ASSUME NEW e \in Modules PROVE link'[e] \in Links
    BY <1>2, <1>3, <1>4 DEF IInv, TypeOK
  <2>2. DOMAIN link' = Modules /\ link' = [e \in Modules |-> link'[e]]
    BY DEF Accepts
  <2>3. QED
    BY <2>1, <2>2
<1>6. wills' \in Seq(Modules)
  <2>1. TakenOver(d) # {} => (CHOOSE e \in TakenOver(d) : TRUE) \in Modules
    BY DEF TakenOver, Holders
  <2>2. QED
    BY <2>1 DEF Accepts, IInv, TypeOK
<1>7. TypeOK'
  BY <1>1, <1>5, <1>6 DEF IInv, TypeOK
<1>8. Mod(d)'
  BY <1>1, <1>2 DEF IInv, Mod, Early, Newest, Open
<1>9. ASSUME NEW e \in Modules, e # d PROVE Mod(e)'
  <2>1. CASE link'[e] = link[e]
    BY <1>1, <2>1, Elsewhere DEF IInv
  <2>2. CASE link'[e] = Lose(link[e], "none", heard)
    <3>1. /\ Sound(link[e])' /\ link'[e].server = "none"
          /\ Clean(link[e]) => Clean(link[e])'
          /\ Unmet(link[e]) => Unmet(link[e])'
      BY <2>2, LoseSound DEF IInv, TypeOK, Mod, Sound, Clean, Unmet
    <3>2. QED
      BY <1>1, <3>1 DEF IInv, Mod, Early, Newest, Open
  <2>3. QED
    BY <1>3, <1>9, <2>1, <2>2
<1>10. QED
  BY <1>7, <1>8, <1>9 DEF IInv

\* A change of one module's clients that takes no session away from the
\* newest one, and makes none.
LEMMA LinkKeepsInv ==
  ASSUME IInv, NEW d \in Modules, NEW k \in Links, Sound(k),
         link' = [link EXCEPT ![d] = k],
         UNCHANGED <<on, known, station, timer, check1, tact, temp>>,
         wills' \in Seq(Modules),
         Clean(link[d]) => Clean(k),
         Unmet(link[d]) => Unmet(k),
         k.m = "open" /\ k.server = "m" =>
            Open(d) /\ ("older" \in k.late => "older" \in link[d].late)
  PROVE  IInv'
<1>1. TypeOK'
  BY DEF IInv, TypeOK
<1>2. link'[d] = k
  BY DEF IInv, TypeOK
<1>3. Mod(d)'
  BY <1>2 DEF IInv, Mod, Early, Newest, Open
<1>4. ASSUME NEW e \in Modules, e # d PROVE Mod(e)'
  BY <1>4, Elsewhere DEF IInv, TypeOK
<1>5. QED
  BY <1>1, <1>3, <1>4 DEF IInv

\* Power, Wi-Fi and the timers leave the clients alone.
LEMMA StationKeepsInv ==
  ASSUME IInv, NEW d \in Modules,
         Boot(d) \/ StationUp(d) \/ StationDown(d) \/ Tick(d) \/ Configure(d)
  PROVE  IInv'
<1>1. UNCHANGED <<link, tact, temp, wills>> \/ Boot(d)
  BY DEF StationUp, StationDown, Tick, Configure, ram
<1>2. TypeOK'
  BY DEF IInv, TypeOK, Boot, StationUp, StationDown, Tick, Configure, ram, Bits
<1>3. Mod(d)'
  <2>1. CASE Boot(d)
    BY <2>1 DEF Boot, IInv, TypeOK, Mod, Sound, Early, Newest, Clean, Unmet, Open
  <2>2. CASE StationUp(d) \/ StationDown(d)
    BY <2>2 DEF StationUp, StationDown, ram, IInv, TypeOK, Mod, Sound, Early,
                Newest, Clean, Unmet, Open
  <2>3. CASE Tick(d)
    BY <2>3 DEF Tick, IInv, TypeOK, Bits, Mod, Sound, Early, Newest, Clean,
                Unmet, Open
  <2>4. CASE Configure(d)
    BY <2>4 DEF Configure, IInv, TypeOK, Mod, Sound, Early, Newest, Clean,
                Unmet, Open
  <2>5. QED
    BY <2>1, <2>2, <2>3, <2>4
<1>4. ASSUME NEW e \in Modules, e # d PROVE Mod(e)'
  BY <1>4, Elsewhere
     DEF IInv, TypeOK, Boot, StationUp, StationDown, Tick, Configure, ram
<1>5. QED
  BY <1>2, <1>3, <1>4 DEF IInv

\* The network, the broker's keep-alive and a refused attempt.
LEMMA NetworkKeepsInv ==
  ASSUME IInv, NEW d \in Modules, Refused(d) \/ Break(d) \/ Expire(d)
  PROVE  IInv'
<1> DEFINE l == link[d]
<1>1. l \in Links /\ Sound(l) /\ wills \in Seq(Modules)
  BY DEF IInv, TypeOK, Mod
<1>2. UNCHANGED <<on, known, station, timer, check1, tact, temp>>
  BY DEF Refused, Break, Expire, ram
<1>3. CASE Refused(d)
  <2>1. CASE l.m = "opening" /\ link' = [link EXCEPT ![d].m = "closed"]
    <3>1. [l EXCEPT !.m = "closed"] \in Links /\ Sound([l EXCEPT !.m = "closed"])
      BY <1>1, <2>1 DEF Links, Sound
    <3>2. Unmet(l) => Unmet([l EXCEPT !.m = "closed"])
      BY <1>1, <2>1 DEF Links, Unmet
    <3>3. QED
      BY <1>1, <1>2, <1>3, <2>1, <3>1, <3>2, LinkKeepsInv
         DEF Refused, Clean, Links
  <2>2. CASE l.stray = "opening" /\ link' = [link EXCEPT ![d].stray = "none"]
    <3>1. /\ [l EXCEPT !.stray = "none"] \in Links
          /\ Sound([l EXCEPT !.stray = "none"])
      BY <1>1, <2>2 DEF Links, Sound
    <3>2. Unmet(l) => Unmet([l EXCEPT !.stray = "none"])
      BY <1>1, <2>2 DEF Links, Unmet
    <3>3. QED
      BY <1>1, <1>2, <1>3, <2>2, <3>1, <3>2, LinkKeepsInv
         DEF Refused, Clean, Links, Open
  <2>3. QED
    BY <1>3, <2>1, <2>2 DEF Refused
<1>4. CASE Break(d)
  <2>1. /\ Lose(l, "gone", FALSE) \in Links /\ Sound(Lose(l, "gone", FALSE))
        /\ Lose(l, "gone", FALSE).server = "gone"
        /\ Clean(l) => Clean(Lose(l, "gone", FALSE))
        /\ Unmet(l) => Unmet(Lose(l, "gone", FALSE))
    BY <1>1, LoseSound
  <2>2. QED
    BY <1>1, <1>2, <1>4, <2>1, LinkKeepsInv DEF Break
<1>5. CASE Expire(d)
  <2>1. /\ [l EXCEPT !.server = "none"] \in Links
        /\ Sound([l EXCEPT !.server = "none"])
    BY <1>1, <1>5 DEF Expire, Links, Sound
  <2>2. /\ Clean(l) => Clean([l EXCEPT !.server = "none"])
        /\ Unmet(l) => Unmet([l EXCEPT !.server = "none"])
    BY <1>1, <1>5 DEF Expire, Links, Clean, Unmet
  <2>3. wills' \in Seq(Modules)
    BY <1>1, <1>5 DEF Expire
  <2>4. QED
    BY <1>1, <1>2, <1>5, <2>1, <2>2, <2>3, LinkKeepsInv DEF Expire, Links
<1>6. QED
  BY <1>3, <1>4, <1>5

\* The callbacks of the clients.
LEMMA CallbackKeepsInv ==
  ASSUME IInv, NEW d \in Modules,
         \/ Connected(d) \/ ConnectedStray(d)
         \/ \E who \in {"m", "older"} : OfflineEvent(d, who)
  PROVE  IInv'
<1> DEFINE l == link[d]
<1>1. l \in Links /\ Sound(l) /\ Early(d) /\ Newest(d) /\ wills \in Seq(Modules)
  BY DEF IInv, TypeOK, Mod
<1>2. ASSUME NEW k \in Links, Sound(k), link' = [link EXCEPT ![d] = k],
             UNCHANGED <<on, known, station, timer, check1, wills>>,
             tact' \in [Modules -> Bits], temp' \in [Modules -> Bits],
             \A e \in Modules \ {d} : tact'[e] = tact[e] /\ temp'[e] = temp[e],
             ~Clean(l), temp'[d] = 1,
             Prompt /\ k.m = "open" /\ k.server = "m" =>
                tact'[d] = 1 /\ "older" \notin k.late
      PROVE  IInv'
  <2>1. TypeOK'
    BY <1>2 DEF IInv, TypeOK
  <2>2. Mod(d)'
    BY <1>1, <1>2 DEF IInv, TypeOK, Mod, Early, Newest, Open
  <2>3. ASSUME NEW e \in Modules, e # d PROVE Mod(e)'
    BY <1>2, <2>3, Elsewhere DEF IInv, TypeOK
  <2>4. QED
    BY <2>1, <2>2, <2>3 DEF IInv
<1>3. CASE Restart(d)
  BY <1>3, RestartKeepsInv
<1>4. CASE Connected(d) /\ d \notin Torn
  <2>1. [l EXCEPT !.m = "open"] \in Links /\ Sound([l EXCEPT !.m = "open"])
    BY <1>1, <1>4 DEF Connected, Links, Sound
  <2>2. Prompt => "older" \notin l.late
    BY <1>4 DEF Connected, SeesEnd
  <2>3. QED
    BY <1>1, <1>2, <1>4, <2>1, <2>2
       DEF Connected, IInv, TypeOK, Bits, Clean, Links
<1>5. CASE /\ ConnectedStray(d) /\ d \notin Torn
           /\ l.m \notin {"opening", "accepted"}
  <2>1. [l EXCEPT !.stray = "none"] \in Links /\ Sound([l EXCEPT !.stray = "none"])
    BY <1>1, <1>5 DEF ConnectedStray, Links, Sound
  <2>2. Prompt => ~(l.m = "open" /\ l.server = "m")
    BY <1>1, <1>5 DEF ConnectedStray, Sound, Newest, Open
  <2>3. QED
    BY <1>1, <1>2, <1>5, <2>1, <2>2
       DEF ConnectedStray, IInv, TypeOK, Bits, Clean, Links
<1>6. ASSUME NEW who \in {"m", "older"}, OfflineEvent(d, who)
      PROVE  IInv'
  <2> DEFINE k == [l EXCEPT !.late = l.late \ {who},
                            !.m = IF who = "m" THEN "closed" ELSE l.m]
  <2>1. k \in Links /\ Sound(k) /\ k.server = l.server /\ k.late = l.late \ {who}
    BY <1>1, <1>6 DEF OfflineEvent, Links, Sound
  <2>2. link' = [link EXCEPT ![d] = k]
    BY <1>6 DEF OfflineEvent
  <2>3. l.late # {} /\ temp[d] = 1
    BY <1>1, <1>6 DEF OfflineEvent, Early, Unmet, IInv, TypeOK, Bits
  <2>4. Prompt => ~(k.m = "open" /\ k.server = "m")
    BY <1>1, <1>6, <2>1 DEF OfflineEvent, Newest, Open, Links
  <2>5. QED
    BY <1>2, <1>6, <2>1, <2>2, <2>3, <2>4
       DEF OfflineEvent, IInv, TypeOK, Bits, Clean
<1>7. QED
  BY <1>3, <1>4, <1>5, <1>6 DEF Connected, ConnectedStray

\* When the broker stops, every module loses its session, and no other
\* change is made.
LEMMA StopKeepsInv ==
  ASSUME IInv, BrokerStops
  PROVE  IInv'
<1>1. UNCHANGED <<on, known, station, timer, check1, tact, temp>>
  BY DEF BrokerStops, ram
<1>2. ASSUME NEW d \in Modules
      PROVE  link'[d] \in Links /\ Mod(d)'
  <2>1. link'[d] = Lose(link[d], "none", FALSE) /\ link[d] \in Links
          /\ Sound(link[d])
    BY DEF BrokerStops, IInv, TypeOK, Mod
  <2>2. /\ link'[d] \in Links /\ Sound(link'[d]) /\ link'[d].server = "none"
        /\ Clean(link[d]) => Clean(link'[d])
        /\ Unmet(link[d]) => Unmet(link'[d])
    <3>1. FALSE \in BOOLEAN /\ "none" \in {"none", "gone"}
      OBVIOUS
    <3>2. QED
      BY <2>1, <3>1, LoseSound
  <2>3. Mod(d)'
    BY <1>1, <1>2, <2>2 DEF IInv, Mod, Sound, Clean, Unmet, Early, Newest, Open
  <2>4. QED
    BY <2>2, <2>3
<1>3. TypeOK'
  <2>1. link' = [d \in Modules |-> link'[d]] /\ wills' = <<>>
    BY DEF BrokerStops
  <2>2. link' \in [Modules -> Links] /\ wills' \in Seq(Modules)
    <3>1. \A d \in Modules : link'[d] \in Links
      BY <1>2
    <3>2. QED
      BY <2>1, <3>1
  <2>3. QED
    BY <1>1, <2>2 DEF IInv, TypeOK
<1>4. QED
  BY <1>2, <1>3 DEF IInv

----------------------------------------------------------------------------
(* The invariant *)

\* IInv holds at first.
LEMMA InitInv == Init => IInv
BY LinkAssumption DEF Init, IInv, TypeOK, Bits, NoLink, Links, Mod, Sound,
                      Early, Newest, Clean, Unmet, Open

\* Every step keeps IInv.
LEMMA NextInv == IInv /\ [Next]_vars => IInv'
<1> SUFFICES ASSUME IInv, [Next]_vars PROVE IInv'
  OBVIOUS
<1>1. CASE UNCHANGED vars
  BY <1>1, Elsewhere DEF vars, ram, IInv, TypeOK
<1>2. wills \in Seq(Modules) /\ (wills # <<>> => Tail(wills) \in Seq(Modules))
  BY DEF IInv, TypeOK
<1>3. ASSUME wills # <<>>, wills' = Tail(wills),
             UNCHANGED <<on, known, station, ram, link>>
      PROVE  IInv'
  BY <1>2, <1>3, Elsewhere DEF ram, IInv, TypeOK
<1>4. CASE WillLost
  BY <1>3, <1>4 DEF WillLost
<1>5. CASE HubServesWill
  <2>1. Head(wills) \in Modules
    BY <1>2, <1>5 DEF HubServesWill
  <2>2. QED
    BY <1>2, <1>3, <1>5, <2>1, OnHubKeepsInv DEF HubServesWill
<1>6. ASSUME NEW d \in Modules, Off(d) PROVE IInv'
  BY <1>6, RestartKeepsInv DEF Off
<1>7. ASSUME NEW d \in Modules,
             \/ Boot(d) \/ StationUp(d) \/ StationDown(d) \/ Tick(d)
             \/ Configure(d)
      PROVE  IInv'
  BY <1>7, StationKeepsInv
<1>8. ASSUME NEW d \in Modules, HubForward(d) PROVE IInv'
  BY <1>2, <1>8, OnHubKeepsInv DEF HubForward
<1>9. ASSUME NEW d \in Modules, Refused(d) \/ Break(d) \/ Expire(d) PROVE IInv'
  BY <1>9, NetworkKeepsInv
<1>10. ASSUME NEW d \in Modules, Accept(d) PROVE IInv'
  <2> DEFINE l == link[d]
  <2>1. PICK heard \in BOOLEAN :
          Accepts(d, [Lose(l, "m", heard) EXCEPT !.m = "accepted"], heard)
    BY <1>10 DEF Accept
  <2> DEFINE k == [Lose(l, "m", heard) EXCEPT !.m = "accepted"]
  <2>2. l \in Links /\ Sound(l) /\ l.m = "opening" /\ on[d]
    BY <1>10 DEF Accept, Reachable, IInv, TypeOK, Mod
  <2>3. k \in Links /\ Sound(k) /\ k.m = "accepted" /\ (Unmet(l) => Unmet(k))
    BY <2>2, AcceptSound
  <2>4. QED
    BY <2>1, <2>2, <2>3, AcceptsKeepsInv DEF Clean
<1>11. ASSUME NEW d \in Modules, AcceptStray(d) PROVE IInv'
  <2> DEFINE l == link[d]
  <2>1. PICK heard \in BOOLEAN :
          Accepts(d, [Lose(l, "older", heard) EXCEPT !.stray = "accepted"],
                  heard)
    BY <1>11 DEF AcceptStray
  <2> DEFINE k == [Lose(l, "older", heard) EXCEPT !.stray = "accepted"]
  <2>2. l \in Links /\ Sound(l) /\ l.stray = "opening" /\ on[d]
    BY <1>11 DEF AcceptStray, Reachable, IInv, TypeOK, Mod
  <2>3. k \in Links /\ Sound(k) /\ k.server = "older" /\ ~Unmet(l)
    BY <2>2, AcceptStraySound
  <2>4. QED
    BY <2>1, <2>2, <2>3, AcceptsKeepsInv DEF Clean
<1>12. ASSUME NEW d \in Modules,
              \/ Connected(d) \/ ConnectedStray(d)
              \/ \E who \in {"m", "older"} : OfflineEvent(d, who)
       PROVE  IInv'
  BY <1>12, CallbackKeepsInv
<1>13. CASE BrokerStops
  BY <1>13, StopKeepsInv
<1>14. QED
  BY <1>1, <1>4, <1>5, <1>6, <1>7, <1>8, <1>9, <1>10, <1>11, <1>12, <1>13
     DEF Next, Disturbance

\* IInv always holds.
THEOREM LinkInvariance == Spec => []IInv
BY InitInv, NextInv, PTL DEF Spec

\* Type correctness.
THEOREM LinkTypeCorrect == Spec => []TypeOK
<1>1. IInv => TypeOK
  BY DEF IInv
<1>2. QED
  BY <1>1, LinkInvariance, PTL

\* A module that waits for its first ASDFG has no client and no past: the
\* three tests of script1.lua (127-140) never start two first clients.
THEOREM StartsOnce == Spec => []OneStart
<1>1. IInv => OneStart
  BY DEF IInv, Mod, Early, Clean, OneStart
<1>2. QED
  BY <1>1, LinkInvariance, PTL

\* The broker's session of a module is always one a client of the module
\* has, was told of, or will be told the end of.
THEOREM SessionIsKnown == Spec => []SessionKnown
<1>1. IInv => SessionKnown
  BY DEF IInv, Mod, Sound, SessionKnown
<1>2. QED
  BY <1>1, LinkInvariance, PTL

\* Under Prompt, a module in session closes its client before it starts
\* another.
THEOREM OneClientHolds == ASSUME Prompt PROVE Spec => []OneClient
<1>1. IInv => OneClient
  BY DEF IInv, Mod, Newest, OneClient
<1>2. QED
  BY <1>1, LinkInvariance, PTL

----------------------------------------------------------------------------
(* Deaf modules *)

\* The broker has no session a deaf module could lose.
LEMMA DeafHasNoSession ==
  ASSUME IInv, NEW d \in Modules, Deaf(d)
  PROVE  link[d].server \notin {"m", "older"}
BY DEF IInv, Mod, Sound, Early, Unmet, Deaf

\* ASDFG finds nothing to do in a deaf module.
LEMMA DeafToHub ==
  ASSUME IInv, NEW d \in Modules, Deaf(d), NEW c \in Modules, OnHub(c)
  PROVE  Deaf(d)'
<1>1. CASE c = d
  <2>1. link' = link /\ check1'[d] = 0
    BY <1>1 DEF OnHub, Deaf, IInv, TypeOK
  <2>2. QED
    BY <1>1, <2>1 DEF OnHub, Deaf
<1>2. CASE c # d
  <2>1. link'[d] = link[d] /\ check1'[d] = check1[d]
    BY <1>2 DEF OnHub, IInv, TypeOK, Closed
  <2>2. QED
    BY <2>1 DEF OnHub, Deaf
<1>3. QED
  BY <1>1, <1>2

\* No session begins for a deaf module, nor ends.
LEMMA DeafToBroker ==
  ASSUME IInv, NEW d \in Modules, Deaf(d),
         NEW c \in Modules, Accept(c) \/ AcceptStray(c) \/ Break(c) \/ Expire(c)
  PROVE  Deaf(d)'
<1>1. UNCHANGED <<on, station, timer, check1, tact, temp>>
  BY DEF Accept, AcceptStray, Accepts, Break, Expire, ram
<1>2. link[d].server \notin {"m", "older"}
  BY DeafHasNoSession
<1>3. link[d].m \in {"none", "closed"} /\ link[d].stray = "none"
  BY DEF Deaf
<1>4. CASE Break(c) \/ Expire(c)
  <2>1. CASE c # d
    <3>1. link'[d] = link[d]
      BY <1>4, <2>1 DEF Break, Expire, IInv, TypeOK
    <3>2. QED
      BY <1>1, <3>1 DEF Deaf
  <2>2. CASE c = d
    <3>1. link'[d] = [link[d] EXCEPT !.server = "none"] /\ link[d] \in Links
      BY <1>2, <1>4, <2>2 DEF Break, Expire, IInv, TypeOK
    <3>2. link'[d].m = link[d].m /\ link'[d].stray = link[d].stray
            /\ link'[d].late = link[d].late
      BY <3>1 DEF Links
    <3>3. QED
      BY <1>1, <3>2 DEF Deaf
  <2>3. QED
    BY <2>1, <2>2
<1>5. ASSUME NEW k, NEW heard \in BOOLEAN, Accepts(c, k, heard), c # d
      PROVE  Deaf(d)'
  <2>1. link'[d] = link[d] \/ link'[d] = Lose(link[d], "none", heard)
    BY <1>5 DEF Accepts
  <2>2. CASE link'[d] = Lose(link[d], "none", heard)
    <3>1. link'[d].m = link[d].m /\ link'[d].stray = link[d].stray
            /\ link'[d].late = link[d].late
      BY <1>2, <2>2 DEF Lose, Told
    <3>2. QED
      BY <1>1, <3>1 DEF Deaf
  <2>3. QED
    BY <1>1, <2>1, <2>2 DEF Deaf
<1>6. (Accept(c) \/ AcceptStray(c)) => c # d
  BY <1>3 DEF Accept, AcceptStray
<1>7. QED
  BY <1>4, <1>5, <1>6 DEF Accept, AcceptStray

\* Nor does it lose one when the broker stops.
LEMMA DeafToPower ==
  ASSUME IInv, NEW d \in Modules, Deaf(d), BrokerStops
  PROVE  Deaf(d)'
<1>1. link[d].server \notin {"m", "older"}
  BY DeafHasNoSession
<1>2. link'[d] = Lose(link[d], "none", FALSE)
  BY DEF BrokerStops
<1>3. link'[d].m = link[d].m /\ link'[d].stray = link[d].stray
        /\ link'[d].late = link[d].late
  BY <1>1, <1>2 DEF Lose, Told
<1>4. QED
  BY <1>3 DEF BrokerStops, ram, Deaf

\* Nothing a deaf module does itself, short of a restart, helps.
LEMMA DeafToItself ==
  ASSUME IInv, NEW d \in Modules, Deaf(d), NEW c \in Modules,
         \/ StationUp(c) \/ StationDown(c) \/ Tick(c) \/ Configure(c)
         \/ Refused(c) \/ Connected(c) \/ ConnectedStray(c)
         \/ \E who \in {"m", "older"} : OfflineEvent(c, who)
         \/ Boot(c) \/ Off(c),
         on'[d]
  PROVE  Deaf(d)'
<1>1. link[d].m \in {"none", "closed"} /\ link[d].stray = "none"
        /\ link[d].late = {} /\ on[d]
  BY DEF Deaf
<1>2. CASE StationUp(c) \/ StationDown(c) \/ Tick(c) \/ Configure(c)
  BY <1>2 DEF StationUp, StationDown, Tick, Configure, ram, Deaf, IInv, TypeOK
<1>3. CASE Boot(c)
  <2>1. c # d
    BY <1>1, <1>3 DEF Boot
  <2>2. QED
    BY <1>3, <2>1 DEF Boot, Deaf, IInv, TypeOK
<1>4. CASE Restart(c)
  <2>1. c # d
    BY <1>4 DEF Restart, IInv, TypeOK
  <2>2. QED
    BY <1>4, <2>1 DEF Restart, Deaf, IInv, TypeOK
<1>5. CASE Refused(c) \/ Connected(c) \/ ConnectedStray(c)
             \/ \E who \in {"m", "older"} : OfflineEvent(c, who)
  <2>1. c # d
    BY <1>1, <1>5 DEF Refused, Connected, ConnectedStray, OfflineEvent
  <2>2. CASE Refused(c)
    BY <2>1, <2>2 DEF Refused, ram, Deaf, IInv, TypeOK
  <2>3. CASE Connected(c) \/ ConnectedStray(c)
    BY <1>4, <2>1, <2>3 DEF Connected, ConnectedStray, Deaf, IInv, TypeOK
  <2>4. CASE \E who \in {"m", "older"} : OfflineEvent(c, who)
    BY <2>1, <2>4 DEF OfflineEvent, Deaf, IInv, TypeOK
  <2>5. QED
    BY <1>5, <2>2, <2>3, <2>4
<1>6. QED
  BY <1>2, <1>3, <1>4, <1>5 DEF Off

\* A deaf module stays so while it runs: only a restart cures it.
THEOREM DeafForGood == Spec => DeafStays
<1>1. ASSUME IInv, Next, NEW d \in Modules, Deaf(d), on'[d]
      PROVE  Deaf(d)'
  <2>1. CASE HubServesWill \/ WillLost
    <3>1. CASE UNCHANGED <<on, known, station, ram, link>>
      BY <1>1, <3>1 DEF Deaf, ram
    <3>2. CASE HubServesWill /\ OnHub(Head(wills))
      <4>1. Head(wills) \in Modules
        BY <1>1, <3>2 DEF HubServesWill, IInv, TypeOK
      <4>2. QED
        BY <1>1, <3>2, <4>1, DeafToHub
    <3>3. QED
      BY <2>1, <3>1, <3>2 DEF HubServesWill, WillLost
  <2>2. ASSUME NEW c \in Modules, HubForward(c) PROVE Deaf(d)'
    BY <1>1, <2>2, DeafToHub DEF HubForward
  <2>3. QED
    BY <1>1, <2>1, <2>2, DeafToBroker, DeafToPower, DeafToItself
       DEF Next, Disturbance
<1>2. IInv /\ [Next]_vars
        => [\A d \in Modules : Deaf(d) /\ on'[d] => Deaf(d)']_vars
  BY <1>1
<1>3. QED
  BY <1>2, LinkInvariance, PTL DEF Spec, DeafStays

============================================================================
