# Verification of the Smart Home System

The repository holds two programs that work together: the Lua firmware of the
switch modules (ESP8266, NodeMCU 1.5.4.1) and the Python program of the hub (an
Odroid with the local MQTT broker). This directory models what they do in TLA+,
checks the models with TLC and proves the main results with TLAPS.

In what follows `D/` is `src/Final_ESP8266/MQTT switch - Copy (2)/` and `H/` is
`src/FinalPython/`. The firmware is `D/newinit/test/init.lua`,
`D/newinit/test/m1.lua`, `D/fun.lua`, `D/script1.lua`, `D/config1.lua`,
`D/config2.lua`, `D/mqtt-config.lua` and `D/switch{2,3,5}.lua`, the files
`Documentation.docx` names; the other Lua files are earlier versions of these.

## 1. Inventory

| Component | State | Operations | What makes it correct |
|---|---|---|---|
| Switch module (`init.lua`, `m1.lua`, `fun.lua`) | relays, the level files `switchN.lua`, memories of the last command and button levels, `newcheck`, session | power-up, three GPIO handlers, message, connect and offline callbacks | files mirror relays; edges and commands do what they say; a restart restores; reports are true |
| Module link (`script1.lua`, timer of `init.lua`, client of `m1.lua`) | Wi-Fi, `check1`, `tact`, `temp`, MQTT clients | TCP messages ABCDE, QWERT, R, ASDFG; timer 0; MQTT callbacks | one client at a time; a lost session comes back; reconnecting ends |
| Offline thread (`Mosquitto_1.py`) | client of the local broker, list of topics | forward statuses to the remote broker, serve `/lwt`, `/config/`, `/wifi/...`, `/username/password` | the phone is told the truth; no endless echo |
| Online thread (`mosquitto_o.py`) | client of the remote broker | forward commands to the local broker | commands arrive; replays do no harm |
| Registry (`new.py`) | `data1.txt`, `data2.txt`, `topics.txt` | scan, rewrite, send ASDFG | a module is listed once, is kept, and is told |
| Subscriptions (`Mosquitto_1.py`) | list of topics read at start, topics subscribed | subscribe at connection, resubscribe after `/config/` | the switches that are known are heard |
| Router check (`reconnect.py`) | whether the last poll saw the network | poll every 6 s, `Data_Forward` | modules are told after an outage |
| Thread supervision (`thread.py`) | three threads | wait for the network, restart a thread's body after an exception | every thread finds its way back |
| Day and night (`datascience.py`, `time_internet.py`) | schedule of a day | publish at sunset and sunrise | each switch is set once a day |
| Hub Wi-Fi (`scan.py`, `Wireless.py`) | pending name of a network | scan, connect | a password is used with its name |

How they interact: a module publishes its status, retained, on the local broker;
the offline thread forwards it to the remote broker as a retained message *on the
command topic*; the online thread forwards what is published there back to the
local broker, where the module takes it as a command. Phones publish commands on
either broker. When the local broker loses a module's session it publishes the
module's will on `/lwt`; the offline thread looks the module up in the network and
sends it ASDFG by TCP, on which the module runs `m1.lua` again. The router check
sends ASDFG to all modules after an outage of the hub's network. The threads share
three text files and no lock.

What is hard: Lua callbacks interleave with buttons, messages and power cuts (the
files are truncated before they are written); callbacks raise errors, which restart
the module; messages of two brokers overtake each other and are replayed; all
modules share one MQTT client id; threads read, change and rewrite the same file.
The list, with lines, is under "hazards" in `PROJECT.json`.

## 2. Modules

| Module | Models | Used by |
|---|---|---|
| `SmartSwitch` | one switch module: relays, buttons, commands, restarts | `HubBridge` |
| `MCSmartSwitch` | the comments' claim about it | |
| `SmartSwitchProofs` | proofs about `SmartSwitch` | `HubBridgeProofs` |
| `HubBridge` | the module with the hub's two threads and the two brokers | |
| `MCHubBridge` | the document's claim about it | |
| `HubBridgeProofs` | proofs; the bridge implements `SmartSwitch` | `HubQuietProofs`, `HubEchoProofs` |
| `HubQuietProofs` | proofs: what phones and module know in the quiet | |
| `HubEchoProofs` | proofs: messages die out | |
| `ModuleLink` | how modules come to a session and back to one | `HubThreads` |
| `ModuleLinkProofs` | proofs about `ModuleLink` | `HubThreadsProofs` |
| `HubThreads` | `ModuleLink` with the hub's offline thread and router check, which send ASDFG | |
| `HubThreadsProofs` | proofs; the composition implements `ModuleLink` | |
| `Registry` | `data1.txt` under the two threads | |
| `DeviceTable` | the table `data1.txt` is, seen from outside | `Registry` |
| `MCRegistry` | the instance of `Registry`, and the document's claim about it | |
| `RegistryProofs` | proofs; the file implements `DeviceTable`; passes run out | |
| `Topics` | `topics.txt` under the two threads, and what the hub subscribes | |
| `MCTopics` | the instance of `Topics` | |
| `TopicsProofs` | proofs about `Topics`: subscriptions, blocks, the listing | |

### SmartSwitch

One variable per Lua variable of `init.lua`, as functions of the switch where the
code has three copies (`espNew[2]` is `ESPStatusNew2`), plus the pins, the files,
the power state and what the broker retains. NodeMCU runs a callback to its end
before the next, so each is one action: `SwitchHandler` (with `Algorithm`, the
decision function), `OnMessage`, `Connect`, `Offline`. `Boot` and `Armed` are the two
parts of `init.lua` between which a button can move unseen. `CutInHandler` and
`CutInMessage` are callbacks a power cut ends inside `algorithm`, after the file was
truncated or before the pin is driven. `HandlerFails`, `OnEmptyMessage` and
`ConnectFails` are callbacks that raise an error, on which NodeMCU restarts the
module: a publish while a client is connecting, a message without payload, and an
empty switch file.

### HubBridge

`SmartSwitch` with a queue per switch for each connection: local broker to module,
local broker to offline thread, remote broker to online thread. Each step of the
module is a `SmartSwitch` action together with what it sends or takes
(`ButtonStep`, `CommandStep`, ...), so that the composed specification implements
`SmartSwitch!Spec` by construction of the actions, and that is proved
(`BridgeImplementsSwitch`). `ForwardRemote` and `ForwardLocal` are `on_message` of
`offline1` with the Internet up or down; `OnlineForward` is that of `online1`.
A subscription gets what is retained (`Replay`, `OfflineReplay`).
`Mosquitto_1.py:219` tests `find(...) >= -1`, which is always true: all messages are
forwarded. What saves the system from a message that goes round for ever is that
line 221 then cuts the topic at position -1, so that a base topic loses its last
character (`Reaches`).

`unheard` is a history variable: the echo of a switch's last status may come to
nothing because of the order of subscription and report, or because a command came
while the module's memories of the button differed. `Prompt` is an assumption on
timing: `m1.lua` waits 1.5 s between the report and the subscriptions, and the
command topics are subscribed before an echo of the report arrives. Where it is
FALSE, such echoes count as unheard.

### ModuleLink

Per module: power, Wi-Fi, which callback timer 0 runs, the three flags of the
firmware, and a record of its MQTT clients: the newest (`m`), an older one that
still waits for its connection (`stray`), offline events on their way (`late`), and
whose session the broker has (`server`). Of the older attempts only the last is
followed. `OnHub` is the ASDFG branch of `script1.lua`: three tests one after the
other, each of which may run `m1.lua`. `m1.lua:16` gives all clients of all modules
the same id, so a session ends whatever session the broker had for any module
(`TakenOver`), and the will of that one is published.
A client that loses its session while the broker's answer to it is on its way either
still hears the answer, and then has its connect callback before its offline event, or
does not, and its attempt has failed (`heard` in `Lose`); both are checked.

`Torn` modules have an empty switch file; their connect callback raises and they
restart. `Prompt` assumes that a module sees the end of an old connection before the
answer to a new one, and both within the 4 s that pass before the hub acts on a will
(`Mosquitto_1.py:182`, `new.py:282`). `MaxWills` stops `HubForward` when that many wills
wait; the other actions are not bounded by it and the state space is finite.

`BrokerStops` is the hub's power failing, as the modules see it: the broker forgets
every session and publishes no will.

### HubThreads

`ModuleLink` leaves open when the hub sends ASDFG; here its program decides. The
network of the hub is down, up, or has an address and no route (`net`). `thread.py`
waits for it and starts the threads (`Start`); with an address and no route
`get_ip_address` raises at `thread.py:75`, where nothing catches it, and the program
ends (`StartFails`). The offline thread has a client in session or is between two
(`OfflineConnect`, `OfflineDrop`). `on_disconnect` means to wait for the network and
to run `offline1` again from within itself, but `all_interfaces` is not defined in
`Mosquitto_1.py`: the NameError at line 83 ends `loop_forever`, and the loop of
`thread.py` makes the next client. The nested `offline1` is never reached, so no
thread is doubled. A will that is published while the thread has no client is lost
(`WillGone`): `/lwt` is subscribed by a clean session.

The router check looks at the interfaces every six seconds, but not during its pass
(`Poll`): an outage between two looks is not seen. Its pass is `Scan` of each
module, then `Tell` to each. `tcp_client` sends to the address in `data1.txt`, which
may be an old one when the scan missed the module. Without a route `my_ip_address`
raises: a will is then given up (`TellWill`), the pass starts over (`TellFails`).

`missed` is a history variable: the last ASDFG that was due to a module started no
client in it, or one whose attempt failed. `Owed` says that a module which lost its
session and waits has a will to come or a pass of the router check, unless one was
missed; `LeftOutStays` that a module which has neither stays out until something
disturbs the system again; `Rescued` that a pass in peace mends it.

### Registry and DeviceTable

`data1.txt` is a sequence of lines, the first two of them the file's header and its
dummy. Each thread is a program counter with the locals of the function it is in.
Both passes look a module up, then `Data1Writing` reads the file (`Read`), and either
opens it for writing, which empties it (`Truncate`), and writes it back (`Close`), or
appends (`AppendLine`). Then `tcp_client` walks through the file (`Tell`). `PowerCut` can
fall anywhere.

Both threads may have the file open for writing at once. Each writes its text from the
start of the file, and of a text the other has put there meanwhile an end may stick out
(`Ends`). Names and IP addresses have any length (`new.py:52`), so any end may: whole
lines, a line with less before its address (its name is "cut"), or less than an address
(`Scrap`), from which `ARPScanner` may raise. `torn` says that this has happened. Such an
end can repeat an address that is in the file, so `Distinct`, `RouterKeeps` and the table
of `DeviceTable` speak of a file that is not torn; `TypeOK`, `WholePass` and `WipedStays`
of every file. `Rests` allows a torn file too, in which an empty address may stop every
pass for ever.

One assumption on timing (`Unhurried`): a scan takes more than a second, so that it
is not completed while the other thread is between reading the file and closing it.
Both threads may be in that stretch at once all the same.

`DeviceTable` is the table seen from outside: entries at most once, added at the
end; the last may be lost to a write that did not know of it; a power cut leaves
nothing, or the one line just appended; two writes at once may tear it, after which
nothing is said of it. `TableSpec` is its specification with the file's addresses for
the table, where a file that is open for writing counts as what its thread will leave in
it (`Committed`). The table has no names: that the router check can undo a name which
`/config/` gave while it scanned is in no property, since nothing in the repository
claims otherwise (`RouterKeeps` holds for a pass that was alone).

### Topics

Six lines for each module in the code, `Outlets` here. A thread sends ASDFG to a module
(`Tell`), reads the file (`Read`), and for each line of the module puts the next number
and the name it has into its copy, opens the file, which empties it (`Rename`), and writes
all of its copy back (`Close`): six times for a module that is listed. One that is not is
appended (`AppendBlock`). The other thread's steps and a power cut may fall between any
two of these. So a thread may read the file while the other has it empty, and then looks
at no line; it may write back a copy that lacks what the other has appended since, or
that has a module half renamed; a power cut may leave a block under two names, or the
file empty. As in `Registry` a text may be written over another, of which an end then
sticks out, and an appended block may come to a file that is open: `torn` says that
one thread has written into the text of another.

What holds of such a file is less than a locked file would keep. `Blocks`: each line is
next to the one before and the one after it of its module, since no renaming changes a
line's number. `NoneLost`: the modules which the file had when last no thread was at it
(`settled`) are in every copy that a thread takes, and so in all it writes; only what was
appended during a race can be lost to it, and it can be. `AllListed` is about a thread
that had the file for itself. All three speak of a file that is not torn.

`new.py:202` closes the wrong file: the block stays in `newfo` until the next block is
opened or the function returns. If it raises instead, Python 2 keeps the frame in the
thread's traceback, and the block reaches the file at the thread's next exception
(`held`, `Raise`).

`Connect` subscribes the list that was read when the program started (`data_topic`),
`Resubscribe` is the end of the handler of `/config/`, which leaves the module's
address out of the topics. So a module that was just added or renamed is not heard
before the hub's program starts again (`HearsKnown`).

## 3. Runs

| Run | Instance | Shows |
|---|---|---|
| `smart_switch` | 2 switches, 146 k states | invariants and action properties of the module |
| `command_obeyed` | 1 switch | *violated*: a command is obeyed |
| `hub_bridge` | 1 switch, queue bound 2, both phones, all outages, 930 k states | the mending echo is never lost |
| `hub_bridge_quiet` | 1 switch, no phone, threads failing, 70 k states | in the quiet the retained messages are true |
| `hub_bridge_live` | 1 switch, queue bound 1, no timing assumption, 120 k states | echoes die; the memory mends |
| `app_up_to_date` | 1 switch, Internet failing | *violated*: the app is up to date |
| `module_link` | 2 modules, one torn and configured by phone, 148 k states | what clients and sessions can be; deaf modules stay deaf |
| `module_link_shared` | 2 modules, fair, 318 k states | one client each; neither stays in session |
| `hub_threads` | 1 module, 2 wills, fair, 155 k states | who is owed an ASDFG; a pass rescues; all comes to rest; `ModuleLink` is implemented |
| `registry` | 2 modules, 2 names, 2 messages, 4 lines, fair, 536 k states | what `data1.txt` keeps, whom a pass tells; `DeviceTable` is implemented |
| `device_told` | the same | *violated*: a located module is told |
| `topics` | 2 modules, 1 name, 2 outlets, 5 lines, 1.3 M states | blocks stay together; what is appended is lost only to a race; what is heard |

**Bounds.** Switches share only `newcheck`, `temp` and the session, so two show every
interaction in `smart_switch`; the other bridge runs use one, because no property
there relates two switches and the proofs cover any number. A queue bound of 2 lets
an old and a new status, or a status and a command, overtake each other in each
queue; the proofs hold for every bound. Two modules suffice for the takeover, since
the id is one and the newest takes all; `hub_threads` has one, because with two of
one id nothing comes to rest (`NobodyStays`), and its safety is proved for any set.
The two messages of `registry` are one module alone (the range of `tcp_client` is one
short), and three lines, where it runs past the file: a new module, the first one
renamed, and the new one again. `MaxLines` bounds a file of which an end sticks out; four
lines are the header, the dummy and both modules. In `topics` five lines hold the header
and the blocks of both modules, or one block twice; an append that would make the file
longer is not taken. There is one name in that run, which shows numbers and order but
not which name a line has; a copy under an older name is in the proofs, which are for any
names. Modules are interchangeable (`Alike`). Once the file is torn the passes of
`topics` end and none begins (`Bound`): none of its properties but the types and what is
heard speaks of such a file.

**Fairness.** `BridgeFairness` is weak fairness of the module's callbacks (NodeMCU's
event loop), of each thread's client loop (`loop_forever`), and of reconnection
(the retry loops of `thread.py`). Nothing is assumed of people, of failures,
of the return of the Internet, or of the module's connection, which the firmware
does not retry by itself. `Fairness` of `ModuleLink` is weak fairness of callbacks
and timers, of the network's answer to an attempt, of the broker's keep-alive and of
the hub's serving of wills. `ThreadsFairness` is the same for the modules, and weak
fairness of the hub's threads: each runs, connects when there is a network, and goes
on with its pass. `FairSpec` of `Registry` is weak fairness of each thread. The
liveness properties speak of executions in which disturbances cease
(`<>[][~Disturbance]`, `Peace`).

**Assumptions on timing**, by name: `Prompt` of `HubBridge` and `Prompt` of `ModuleLink`
(constants, both values are checked), and `Unhurried` of `Registry`.

**Violated claims** (details under "findings"): a command that repeats the
remembered one is ignored (in particular the first sw-on after power-up), and one
that finds the button's memories apart is taken for the button; a status forwarded
while the Internet is away never reaches the remote broker; a module configured alone
is written to `data1.txt` and not told.

Behaviour the passing runs bring out: a button that was on at power-up goes off
unnoticed (the hypothesis of `FallingEdgeTurnsOff`); a power cut after the truncation
of a switch file leaves nothing to restore (that of `RestartKeepsRelay`); with two
modules each takes the other's session over for ever (`NobodyStays`); a module
configured by phone before its boot timer ran out stays deaf until it restarts
(`DeafStays`), and one whose timer has not ticked when ASDFG comes misses it (`missed`);
a phone's command can be undone by the stale echo of an earlier status, and the
retained status at the remote broker is replayed as a command when the online thread
reconnects; an outage shorter than a poll leaves modules out (`LeftOutStays`); a name
given by `/config/` can be undone by a pass of the router check that read the line
before (`RouterKeeps` holds only for a pass that was alone); a power cut empties
`data1.txt` or `topics.txt` for good (`WipedStays`, `NoneLost`), and after one that fell
on an append the module in the header's place is never told; blocks of `topics.txt`
can be written twice when passes overlap or fail, one thread's stale copy can take out
what the other has just appended, and a thread that finds the file open lists nobody.

## 4. Proofs

All theorems hold for every value of the constants under the modules' assumptions
(any set of switches or modules, any bound). Two have a hypothesis on a constant
besides: `OneClientHolds` is proved under `Prompt`, `QuietTellsTruth` under `Undisturbed`
(below).

* `SmartSwitchProofs`. The inductive invariant `IInv` is the conjunction of the type
  invariant and the four invariants of the run. `FileMirrorsRelay`, `ButtonMemory` and
  `CommandMemory` each need no more than themselves and the types; `LitByButton` needs
  the two button facts before it (a lamp lit by the button is remembered as such only
  because an old 1 was read as new). The action properties follow from the invariant
  in the state before the step.
* `HubBridgeProofs`. `BridgeImplementsSwitch`: the initial states and every step map
  to `SmartSwitch` under the identity, so its invariants carry over. `EchoMends` is
  not inductive: a stale status in the offline thread's queue must be followed by the
  current one (`StatusInOrder`), queues must belong to living sessions (`Sessions`),
  and an echo that counts must find a subscription and a true status (`EchoMeets`).
  These are `BridgeInv`, an invariant of the run as well.
* `HubQuietProofs`. `QuietTellsTruth` assumes `Undisturbed`, the setting of its run
  (`HubBridgeQuiet.cfg`): no phone is in use and the Internet stays. Without the first a
  command changes the lamp and no status says so; without the second the hub publishes
  at home what the remote broker never learns. Buttons, restarts, power cuts and failures
  of the hub's clients are allowed. `QuietIInv` follows one switch's last status on its
  way: the module has said it (`Spoken`), the remote broker retains it or the offline
  thread still has it to forward (`Forwarded`), the last message for the online thread
  is what the broker retains (`Passed`), and when all of that is done the last message
  for the module is the status, or the relay is as it says (`Arrived`). `QuietInStep`
  needs no hypothesis: it is what `EchoMends` comes to when nothing is in flight.
* `HubEchoProofs`. `EchoWanes`: every step but a disturbance either brings a part of the
  system up, serves an edge or subscribes a topic, and takes none of that back, or it
  lowers `Weight` of one switch and leaves the others'. A message for the module weighs 1,
  one for the offline thread 1, and 3 more if it is a status, one for the online thread 3:
  a status becomes one message at the remote broker, which becomes two at home.
* `ModuleLinkProofs`. `IInv` says of each module alone that its record is `Sound` (the
  session the broker has is of a client that will hear of its end), what is true
  before its first session (`Early`), and, under `Prompt`, that a module in session has no
  offline event of an older client to come (`Newest`). `DeafStays` needs all of it:
  a deaf module must not have an older session whose end would set `tact` to 0.
* `HubThreadsProofs`. `LinkImplemented`: each step of the composition is a step of
  `ModuleLink` or leaves it alone, so its invariants carry over. `Owed` is not
  inductive. It needs that `temp1` is 1 throughout a pass (`HubInv`), that only one
  module has the broker's session (`OneHolder`), and `CaredInv`: a module which the pass
  that is due has left behind, or any when none is due, is connecting, has the promise
  of the broker or the hub (a session, a will in the queue) or was missed, or has no
  client and knows of no loss. No timing is assumed. `LeftOutStays` goes through the
  actions that are no trouble and shows that none of them brings the module back.
  `HolderInvariance` states `OneHolder` by itself: all modules share one client id.
* `RegistryProofs`. `IInv` is the types, `TableInv` (no address twice, also in what a
  thread has read and will write; what one thread would leave extends or shortens the
  other's by one line) and `SoloInv` (a pass that is alone has sent to each line it
  passed), the former until the file is torn. `ImplementsTable` maps each step to one of
  `DeviceTable` or to a stutter, for lines of any length.
  `PassesRunOut`: undisturbed, and in a file that is not torn, each step lowers three measures taken in order: how far
  the offline thread is from rest (what its pass does yet, for how many lines, and what
  for the line it is at); whether the file is shorter than the router check has counted,
  the only reason to start over (`Exposed`); how far the router check is. `InRange`, that
  a thread at a line has not come to its limit, makes the second a measure of lines.
* `TopicsProofs`. `IInv` is the types, `HearsKnown`, `Clean` until the file is torn, and
  `AloneInv`. `Clean` says that the file and what the threads hold are in blocks (`Whole`),
  that the file has all settled modules unless a thread has it open and empty (`Kept`), and
  of each thread at the file where it is (`Turn`): its copy is in blocks and has all
  settled modules, and it has met no line of its module or has just renamed the one that
  its counter gives. The lines of a module being together, the next line is then the
  next number (`NextLine`), so that a renaming changes names only and lines are appended
  with the counter at zero. `WholeBlocks` and `AllOrNothing` follow from `Clean`;
  for the latter a file that is empty for good is treated apart (`WipedStays`).
  `ToldAreListed` needs `AloneInv`: the thread's copy is the file, what it has told are
  lines it has been at, `data1.txt` has a module once, so that only lines of the module
  it is at change under it, and the other thread, which is idle, holds nothing that an
  exception could put into the file (`Solo`).

Only model-checked are the liveness properties `EchoDies`, `MemoryMends`, `NobodyStays`,
`Rests`, `Rescued` and `Settles`: liveness under fairness is out of the prover's reach. Of
three of them the part that is safety is proved: for `EchoDies` and `Rests` the measure
that goes down with every step (`EchoWanes`, `PassesRunOut`), for `MemoryMends` that
the memory is in step when nothing is in flight (`QuietInStep`). The measures were checked
by TLC on small instances before they were proved.

## 5. Not modelled

* **Vendored code.** All C of the repository (231 files, 69 k lines) is Espressif's
  ESP8266 SDK with its examples, in the directory of a flashing tool; the flashed
  firmware is the NodeMCU binary. Nothing the two programs of the system do is in it, and
  neither compiles nor calls it. The project models no part of it, and a share of C
  lines says nothing about what is modelled: the system's own code is the Lua and the
  Python named in section 1. paho and `wifi_1` are
  third-party as well; what they do appears in external actions.
* **Day and night** (`datascience.py`, `time_internet.py`): its thread is commented out in
  `thread.py` (86, 93, 98).
* **Wi-Fi of the hub** (`scan.py`, `Wireless.py`, `/wifi/...`): calls of `nmcli` and
  `iwlist`; what they change is the network, which `HubThreads` lets change at any time.
  The one state of its own is the name of the last network.
* **`/username/password`**: a shell script; that it may raise is in `OfflineDrop`.
* **Camera** (`test_refresh.py`): one topic that runs one script.
* **Contents of `config1.lua` and `config2.lua`**, and the send of the module's address
  two seconds after ABCDE (`script1.lua:20-26`), for which nothing in the hub waits.
* **Earlier versions** of the firmware and experiments (`H/X files`).

`Registry`, `Topics` and `HubThreads` look at one pass from three sides, and each keeps of
it what its properties need; they are not composed. In `Topics` a pass can raise before any
send (`Raise`). In `HubThreads` `data1.txt` does not change (`Configured`), so that its
pass ends early for want of a network only; that a pass which ran past a changed file
starts over and comes to an end is `Rests` of `Registry`.
