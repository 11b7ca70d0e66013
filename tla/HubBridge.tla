----------------------------- MODULE HubBridge -----------------------------
(***************************************************************************)
(* A switch module and the hub that bridges its broker to the Internet:    *)
(* the local broker, the offline thread of the hub (offline1 in            *)
(* Mosquitto_1.py), the remote broker, and the online thread (online1 in   *)
(* mosquitto_o.py).                                                        *)
(*                                                                         *)
(* A status the module publishes travels                                   *)
(*   module -> local broker -> offline thread -> remote broker, retained   *)
(*     -> online thread -> local broker -> module,                         *)
(* and arrives as a command for the very switch it reports. This echo is   *)
(* what brings the module's memory of the last command back in step with   *)
(* its relay after the wall button was used.                               *)
(*                                                                         *)
(* One queue per switch stands for each connection: a broker delivers in   *)
(* order, and the order between topics is left open. A publish.single is   *)
(* one step: the thread that calls it waits for it.                        *)
(***************************************************************************)
EXTENDS SmartSwitch, Sequences

CONSTANTS
    MaxQueue,    \* bound: nobody starts a message for a switch with so many
                 \* in flight, and no thread adds to a queue with so many
    Phones,      \* the brokers a phone publishes at: of {"local", "remote"}
    Outages,     \* what may fail: of {"internet", "online", "offline"}
    Prompt       \* the module's subscriptions overtake the echo of the
                 \* report it makes before them, 1.5 seconds earlier

ASSUME BridgeAssumption == /\ MaxQueue \in Nat \ {0}
                           /\ Phones \subseteq {"local", "remote"}
                           /\ Outages \subseteq {"internet", "online", "offline"}
                           /\ Prompt \in BOOLEAN

VARIABLES
    subscribed,  \* the module has subscribed the command topic of a switch
    toDevice,    \* local broker -> module: commands, "sw-on" or "sw-off"
    toOffline,   \* local broker -> offline thread: what it is subscribed to
    toOnline,    \* remote broker -> online thread: payloads of base topics
    localBase,   \* retained at the local broker on each base topic
    remoteBase,  \* retained at the remote broker on each base topic
    offlineUp,   \* the offline thread's client is connected and subscribed
    onlineUp,    \* the online thread's client is connected and subscribed
    internet,    \* the hub reaches the remote broker
    unheard      \* history: the echo of a switch's last status may come to
                 \* nothing, because it was published before the command
                 \* topic was subscribed, or the module took a command since
                 \* while its two memories of the button differed

queues   == <<toDevice, toOffline, toOnline>>
retained == <<localBase, remoteBase>>
hub      == <<offlineUp, onlineUp, internet>>
bridge_vars == <<vars, subscribed, queues, retained, hub, unheard>>

Payloads == {"sw-on", "sw-off"}
Retained == Payloads \cup {"none"}
Messages == [topic : {"status", "base"}, payload : Payloads]

BridgeTypeOK ==
    /\ TypeOK
    /\ subscribed \in [Switches -> BOOLEAN]
    /\ toDevice \in [Switches -> Seq(Payloads)]
    /\ toOffline \in [Switches -> Seq(Messages)]
    /\ toOnline \in [Switches -> Seq(Payloads)]
    /\ localBase \in [Switches -> Retained]
    /\ remoteBase \in [Switches -> Retained]
    /\ offlineUp \in BOOLEAN /\ onlineUp \in BOOLEAN /\ internet \in BOOLEAN
    /\ unheard \in [Switches -> BOOLEAN]

BridgeInit ==
    /\ Init
    /\ subscribed = [s \in Switches |-> FALSE]
    /\ toDevice = [s \in Switches |-> <<>>]
    /\ toOffline = [s \in Switches |-> <<>>]
    /\ toOnline = [s \in Switches |-> <<>>]
    /\ localBase = [s \in Switches |-> "none"]
    /\ remoteBase = [s \in Switches |-> "none"]
    /\ offlineUp = FALSE /\ onlineUp = FALSE /\ internet = TRUE
    /\ unheard = [s \in Switches |-> FALSE]

StatusMsg(payload) == [topic |-> "status", payload |-> payload]
BaseMsg(payload)   == [topic |-> "base", payload |-> payload]

\* The bit m1.lua makes of a payload.
Said(payload) == IF payload = "sw-on" THEN 1 ELSE 0

\* Mutant of Replay: a topic that retains nothing delivers that.
ReplayAlways(value) == <<value>>

\* A retained payload is delivered to a new subscription.
Replay(value) == IF value = "none" THEN <<>> ELSE <<value>>

\* The bound on what people and the module start.
Room(s) == Len(toDevice[s]) + Len(toOffline[s]) + Len(toOnline[s]) < MaxQueue

----------------------------------------------------------------------------
(* The switch module on its broker *)

\* The local broker passes the statuses of the switches in reporting, just
\* retained, to the offline thread, which subscribes every /status topic.
PassStatus(reporting) ==
    toOffline' = [s \in Switches |->
                    IF offlineUp /\ s \in reporting
                      THEN Append(toOffline[s], StatusMsg(status'[s]))
                      ELSE toOffline[s]]

DeviceStep ==
    /\ Boot \/ Armed \/ \E s \in Switches : Toggle(s)
    /\ UNCHANGED <<subscribed, queues, retained, hub, unheard>>

\* The wall button; its status, when there is one, starts the echo.
ButtonStep(s) ==
    LET sends == connected /\ button[s] # checkbut[s] /\ Publishes(s) IN
    /\ Room(s)
    /\ SwitchHandler(s)
    /\ PassStatus(IF sends THEN {s} ELSE {})
    /\ unheard' = [unheard EXCEPT ![s] = IF sends THEN ~subscribed[s]
                                               ELSE @]
    /\ UNCHANGED <<subscribed, toDevice, toOnline, retained, hub>>

CommandStep(s) ==
    /\ toDevice[s] # <<>>
    /\ OnMessage(s, Said(Head(toDevice[s])))
    /\ toDevice' = [toDevice EXCEPT ![s] = Tail(@)]
    /\ unheard' = [unheard EXCEPT ![s] = @ \/ btnNew[s] # btnOld[s]]
    /\ UNCHANGED <<subscribed, toOffline, toOnline, retained, hub>>

\* The connect callback reports, waits 1.5 seconds and starts subscribing.
ConnectStep ==
    /\ \A s \in Switches : Room(s)
    /\ Connect
    /\ PassStatus({s \in Switches : file[s] \in Levels})
    /\ unheard' = [s \in Switches |-> IF file[s] \in Levels THEN ~Prompt
                                                           ELSE unheard[s]]
    /\ UNCHANGED <<subscribed, toDevice, toOnline, retained, hub>>

\* One subscription, which gets the command retained on its topic.
SubscribeStep(s) ==
    /\ connected /\ ~subscribed[s]
    /\ subscribed' = [subscribed EXCEPT ![s] = TRUE]
    /\ toDevice' = [toDevice EXCEPT ![s] = Replay(localBase[s])]
    /\ UNCHANGED <<vars, toOffline, toOnline, retained, hub, unheard>>

ConnectFailsStep(s, sent) ==
    /\ \A t \in sent : Room(t)
    /\ ConnectFails(s, sent)
    /\ PassStatus({t \in sent : file[t] \in Levels})
    /\ UNCHANGED <<subscribed, toDevice, toOnline, retained, hub, unheard>>

\* The broker keeps nothing for a session that is gone.
SessionLost ==
    /\ Cut \/ Raise \/ Offline
    /\ toDevice' = [s \in Switches |-> <<>>]
    /\ subscribed' = [s \in Switches |-> FALSE]
    /\ UNCHANGED <<toOffline, toOnline, retained, hub, unheard>>

----------------------------------------------------------------------------
(* The local broker *)

\* Mutant of LocalPublish: the module gets commands it did not subscribe.
LocalPublishAnyway(s, payload, fromOffline) ==
    /\ toDevice' = [toDevice EXCEPT ![s] = Append(@, payload)]
    /\ toOffline' = IF offlineUp
                      THEN [toOffline EXCEPT
                             ![s] = Append(fromOffline, BaseMsg(payload))]
                      ELSE [toOffline EXCEPT ![s] = fromOffline]

\* A command published at the base topic of s goes to the module, and to the
\* offline thread, which subscribes the base topics too.
LocalPublish(s, payload, fromOffline) ==
    /\ toDevice' = IF subscribed[s]
                     THEN [toDevice EXCEPT ![s] = Append(@, payload)]
                     ELSE toDevice
    /\ toOffline' = IF offlineUp
                      THEN [toOffline EXCEPT
                             ![s] = Append(fromOffline, BaseMsg(payload))]
                      ELSE [toOffline EXCEPT ![s] = fromOffline]

\* The timing Prompt assumes: no echo comes between report and subscription.
InTime(s) == Prompt /\ connected => subscribed[s]

----------------------------------------------------------------------------
(* The hub's threads *)

\* Mutant of RemotePublish: published without retain.
RemotePublishPassing(s, payload) ==
    /\ UNCHANGED remoteBase
    /\ toOnline' = IF onlineUp THEN [toOnline EXCEPT ![s] = Append(@, payload)]
                               ELSE toOnline

\* The remote broker retains what the offline thread publishes there and
\* passes it to the online thread.
RemotePublish(s, payload) ==
    /\ remoteBase' = [remoteBase EXCEPT ![s] = payload]
    /\ toOnline' = IF onlineUp THEN [toOnline EXCEPT ![s] = Append(@, payload)]
                               ELSE toOnline

\* Mutant of Reaches: a topic without /status is forwarded as it is.
ReachesUncut(msg) == TRUE

\* on_message of offline1 publishes every message (find(..) >= -1 is always
\* true) on its topic cut at /status. A base topic has no /status: it loses
\* its last character (dex = -1), and nobody subscribes to what is left.
Reaches(msg) == msg.topic = "status"

\* It publishes at the remote broker, on the base topic.
ForwardRemote(s) ==
    /\ internet
    /\ toOffline[s] # <<>>
    /\ toOffline' = [toOffline EXCEPT ![s] = Tail(@)]
    /\ IF Reaches(Head(toOffline[s]))
         THEN RemotePublish(s, Head(toOffline[s]).payload)
         ELSE UNCHANGED <<remoteBase, toOnline>>
    /\ UNCHANGED <<vars, subscribed, toDevice, localBase, hub, unheard>>

\* Without the Internet the publish raises, and the message is published on
\* the local base topic instead, retained.
ForwardLocal(s) ==
    /\ ~internet /\ InTime(s)
    /\ toOffline[s] # <<>>
    /\ Len(toDevice[s]) < MaxQueue
    /\ LET msg == Head(toOffline[s]) IN
       IF Reaches(msg)
         THEN /\ localBase' = [localBase EXCEPT ![s] = msg.payload]
              /\ LocalPublish(s, msg.payload, Tail(toOffline[s]))
         ELSE /\ toOffline' = [toOffline EXCEPT ![s] = Tail(@)]
              /\ UNCHANGED <<localBase, toDevice>>
    /\ UNCHANGED <<vars, subscribed, toOnline, remoteBase, hub, unheard>>

\* on_message of online1.
OnlineForward(s) ==
    /\ toOnline[s] # <<>>
    /\ Len(toDevice[s]) < MaxQueue /\ Len(toOffline[s]) < MaxQueue
    /\ InTime(s)
    /\ toOnline' = [toOnline EXCEPT ![s] = Tail(@)]
    /\ LocalPublish(s, Head(toOnline[s]), toOffline[s])
    /\ UNCHANGED <<vars, subscribed, retained, hub, unheard>>

BaseReplay(s) ==
    IF localBase[s] = "none" THEN <<>> ELSE <<BaseMsg(localBase[s])>>

\* Mutant of OfflineReplay: the /status topics are not subscribed again.
OfflineReplayBase(s) == BaseReplay(s)

\* What a subscription of a base topic and its /status topic brings.
OfflineReplay(s) == IF status[s] = "none"
                      THEN BaseReplay(s)
                      ELSE Append(BaseReplay(s), StatusMsg(status[s]))

\* on_connect of offline1.
OfflineConnect ==
    /\ ~offlineUp
    /\ \A s \in Switches : Len(toOnline[s]) < MaxQueue
    /\ offlineUp' = TRUE
    /\ toOffline' = [s \in Switches |-> OfflineReplay(s)]
    /\ UNCHANGED <<vars, subscribed, toDevice, toOnline, retained, onlineUp,
                   internet, unheard>>

\* The client loses its session: a network error, or an exception in
\* on_message (the publish on the local broker may raise too).
OfflineDrop ==
    /\ "offline" \in Outages /\ offlineUp
    /\ offlineUp' = FALSE
    /\ toOffline' = [s \in Switches |-> <<>>]
    /\ UNCHANGED <<vars, subscribed, toDevice, toOnline, retained, onlineUp,
                   internet, unheard>>

\* on_connect of online1: the base topics are subscribed.
OnlineConnect ==
    /\ ~onlineUp /\ internet
    /\ onlineUp' = TRUE
    /\ toOnline' = [s \in Switches |-> Replay(remoteBase[s])]
    /\ UNCHANGED <<vars, subscribed, toDevice, toOffline, retained, offlineUp,
                   internet, unheard>>

OnlineDrop ==
    /\ "online" \in Outages /\ onlineUp
    /\ onlineUp' = FALSE
    /\ toOnline' = [s \in Switches |-> <<>>]
    /\ UNCHANGED <<vars, subscribed, toDevice, toOffline, retained, offlineUp,
                   internet, unheard>>

----------------------------------------------------------------------------
(* The world outside *)

InternetFails ==
    /\ "internet" \in Outages /\ internet
    /\ internet' = FALSE
    /\ UNCHANGED <<vars, subscribed, queues, retained, offlineUp, onlineUp,
                   unheard>>

InternetReturns ==
    /\ ~internet
    /\ internet' = TRUE
    /\ UNCHANGED <<vars, subscribed, queues, retained, offlineUp, onlineUp,
                   unheard>>

\* Somebody sends a command from a phone, at home or away; not retained.
PhoneAtHome(s, payload) ==
    /\ "local" \in Phones /\ Room(s)
    /\ LocalPublish(s, payload, toOffline[s])
    /\ UNCHANGED <<vars, subscribed, toOnline, retained, hub, unheard>>

PhoneAway(s, payload) ==
    /\ "remote" \in Phones /\ Room(s)
    /\ toOnline' = IF onlineUp THEN [toOnline EXCEPT ![s] = Append(@, payload)]
                               ELSE toOnline
    /\ UNCHANGED <<vars, subscribed, toDevice, toOffline, retained, hub, unheard>>

----------------------------------------------------------------------------
Phone ==
    \E s \in Switches, payload \in Payloads :
        PhoneAtHome(s, payload) \/ PhoneAway(s, payload)

Failing == \E s \in Switches : \E sent \in SUBSET Before(s) :
              ConnectFailsStep(s, sent)

BridgeNext ==
    \/ DeviceStep
    \/ ConnectStep
    \/ \E s \in Switches : SubscribeStep(s)
    \/ Failing
    \/ SessionLost
    \/ \E s \in Switches : \/ ButtonStep(s) \/ CommandStep(s)
                           \/ ForwardRemote(s) \/ ForwardLocal(s)
                           \/ OnlineForward(s)
    \/ OfflineConnect \/ OfflineDrop \/ OnlineConnect \/ OnlineDrop
    \/ InternetFails \/ InternetReturns
    \/ Phone

\* What starts a message, or ends a session.
Disturbance ==
    \/ \E s \in Switches : Toggle(s)
    \/ Phone
    \/ Failing
    \/ SessionLost
    \/ OfflineDrop \/ OnlineDrop
    \/ InternetFails

BridgeSpec == BridgeInit /\ [][BridgeNext]_bridge_vars

\* The module serves its interrupts, messages and subscriptions, each thread
\* of the hub the messages of its client, and a thread whose client is down
\* connects again (the loops of thread.py, loop_forever). Nothing is owed by
\* people, by failures or by the return of the Internet.
BridgeFairness ==
    /\ WF_bridge_vars(OfflineConnect)
    /\ WF_bridge_vars(OnlineConnect)
    /\ \A s \in Switches : /\ WF_bridge_vars(ButtonStep(s))
                            /\ WF_bridge_vars(SubscribeStep(s))
                            /\ WF_bridge_vars(CommandStep(s))
                            /\ WF_bridge_vars(ForwardRemote(s) \/ ForwardLocal(s))
                            /\ WF_bridge_vars(OnlineForward(s))

FairBridgeSpec == BridgeSpec /\ BridgeFairness

----------------------------------------------------------------------------
(* Properties *)

Carries(queue, msg) == \E i \in DOMAIN queue : queue[i] = msg

\* A command with this payload will reach the module: it waits for the
\* module, or at the remote broker, or as a status for the offline thread. A
\* queue that is lost with its client counts when what is retained replaces
\* it.
Coming(s, payload) ==
    \/ Carries(toDevice[s], payload)
    \/ remoteBase[s] = payload /\ (onlineUp => Carries(toOnline[s], payload))
    \/ status[s] = payload
       /\ (offlineUp => Carries(toOffline[s], StatusMsg(payload)))

\* The module's memory of the last command and its relay.
InStep(s) == Payload(espOld[s]) = Report(relay[s])

\* The module is in session, its switch was driven, and the echo of its last
\* status cannot come to nothing.
Counts(s) == connected /\ file[s] \in Levels /\ ~unheard[s]

\* While its memory is out of step with its relay, so that one of the two
\* commands would be ignored, the echo that mends it is on its way, through
\* outages of the hub's clients and of the Internet.
EchoMends ==
    \A s \in Switches :
        Counts(s) /\ ~InStep(s) => Coming(s, Report(relay[s]))

\* What EchoMends rests on. A status for the offline thread that is out of
\* date is followed by the current one; queues belong to living sessions; a
\* module that is connected can publish; and an echo that counts finds the
\* command topic subscribed.
Ordered(queue, current) ==
    \A i \in DOMAIN queue :
        queue[i].topic = "status" /\ queue[i].payload # current =>
            \E j \in DOMAIN queue : j > i /\ queue[j] = StatusMsg(current)

StatusInOrder == \A s \in Switches : Ordered(toOffline[s], status[s])

Sessions ==
    /\ connected => temp = 1 /\ phase = "running"
    /\ \A s \in Switches : /\ subscribed[s] => connected
                           /\ toDevice[s] # <<>> => subscribed[s]
                           /\ toOffline[s] # <<>> => offlineUp

EchoMeets ==
    \A s \in Switches : Counts(s) =>
        /\ Prompt \/ subscribed[s]
        /\ ~InStep(s) => status[s] = Report(relay[s])

BridgeInv == StatusInOrder /\ Sessions /\ EchoMeets

NothingInFlight ==
    \A s \in Switches :
        toDevice[s] = <<>> /\ toOnline[s] = <<>> /\ toOffline[s] = <<>>

\* Nothing is in flight and every part is up.
Quiet ==
    /\ connected /\ offlineUp /\ onlineUp
    /\ \A s \in Switches : subscribed[s] /\ ~edge[s]
    /\ NothingInFlight

\* In the quiet, with no phone in use and no outage of the Internet, what
\* the phones are told is what the lamp is.
QuietTruth ==
    Quiet => \A s \in Switches : file[s] \in Levels /\ ~unheard[s] =>
                /\ status[s] = Report(relay[s])
                /\ remoteBase[s] = status[s]

\* An echo is not echoed: when nobody touches a button or a phone and
\* nothing fails any more, the messages come to an end, although the hub
\* subscribes the very topics its own threads publish on.
EchoDies == <>[][~Disturbance]_bridge_vars => <>[]NothingInFlight

\* And the module ends up in step with its relays, where the Internet stays.
MemoryMends ==
    <>[][~Disturbance]_bridge_vars /\ <>[]internet =>
        <>[](\A s \in Switches :
                Counts(s) => InStep(s))

============================================================================
