---------------------------- MODULE SmartSwitch ----------------------------
(***************************************************************************)
(* The switch module: an ESP8266 that drives one relay per switch and      *)
(* obeys both the wall buttons and the commands it receives over MQTT.     *)
(* The firmware is newinit/test/init.lua (power-up, the decision function  *)
(* `algorithm' and the interrupt handlers), newinit/test/m1.lua (the MQTT  *)
(* callbacks), fun.lua (the report made at each connection) and the files  *)
(* switch2.lua, switch3.lua, switch5.lua, which hold the last level driven *)
(* on each relay and are executed again at power-up.                       *)
(*                                                                         *)
(* The Lua callbacks of the module run one at a time and to completion, so *)
(* each is one action; a power cut may fall between any two of them, or    *)
(* inside `algorithm' between two of its effects (CutInside).              *)
(***************************************************************************)
EXTENDS Naturals

CONSTANT Switches    \* the numbers of the switches: 2, 3 and 5 in the code

ASSUME SwitchesAssumption == Switches \subseteq Nat

Bits   == {0, 1}
Levels == {"HIGH", "LOW"}           \* of a relay's pin; LOW lights the lamp
Files  == Levels \cup {"fresh", "empty"}
    \* the contents of switchN.lua: the line that drives a level, the line
    \* of the flashed file, which drives nothing, or no line at all

VARIABLES
    espNew, espOld,   \* ESPStatusNewN, ESPStatusOldN: the last command
    btnNew, btnOld,   \* buttonStatusNewN, buttonStatusOldN
    checkbut,         \* checkbutN: the level that counts as "no edge"
    newcheck,         \* newcheck: a change awaits its status message
    temp,             \* temp: the broker was reached since power-up
    button,           \* the level of each button's input pin
    edge,             \* an interrupt of the button waits for its callback
    relay,            \* the last level driven on each relay's pin
    file,             \* the contents of each switchN.lua
    phase,            \* "off", "reset", "booting" (in init.lua) or "running"
    connected,        \* the MQTT session is up and subscribed
    status            \* the retained message of each .../switchN/status

button_vars == <<button, edge>>
mem    == <<espNew, espOld, btnNew, btnOld, checkbut>>
memory == <<mem, newcheck, temp>>
vars == <<memory, button_vars, relay, file, phase, connected, status>>

TypeOK ==
    /\ espNew \in [Switches -> Bits] /\ espOld \in [Switches -> Bits]
    /\ btnNew \in [Switches -> Bits] /\ btnOld \in [Switches -> Bits]
    /\ checkbut \in [Switches -> Bits]
    /\ newcheck \in Bits /\ temp \in Bits
    /\ button \in [Switches -> Bits] /\ edge \in [Switches -> BOOLEAN]
    /\ relay \in [Switches -> Levels] /\ file \in [Switches -> Files]
    /\ phase \in {"off", "reset", "booting", "running"}
    /\ connected \in BOOLEAN
    /\ status \in [Switches -> {"none", "sw-off", "sw-on"}]

----------------------------------------------------------------------------
(* Power *)

\* Mutant of ResetMemory: buttonStatusOldN starts at 1, as ESPStatusOldN does.
ResetOldButton ==
    /\ espNew' = [s \in Switches |-> 0] /\ espOld' = [s \in Switches |-> 1]
    /\ btnNew' = [s \in Switches |-> 0] /\ btnOld' = [s \in Switches |-> 1]
    /\ newcheck' = 0 /\ temp' = 0

\* Mutant of ResetMemory: the initial pair of the commands is swapped.
ResetSwapped ==
    /\ espNew' = [s \in Switches |-> 1] /\ espOld' = [s \in Switches |-> 0]
    /\ btnNew' = [s \in Switches |-> 0] /\ btnOld' = [s \in Switches |-> 0]
    /\ newcheck' = 0 /\ temp' = 0

\* The assignments init.lua opens with.
ResetMemory ==
    /\ espNew' = [s \in Switches |-> 0] /\ espOld' = [s \in Switches |-> 1]
    /\ btnNew' = [s \in Switches |-> 0] /\ btnOld' = [s \in Switches |-> 0]
    /\ newcheck' = 0 /\ temp' = 0

\* The module as flashed, before its first power-up.
Init ==
    /\ espNew = [s \in Switches |-> 0] /\ espOld = [s \in Switches |-> 1]
    /\ btnNew = [s \in Switches |-> 0] /\ btnOld = [s \in Switches |-> 0]
    /\ checkbut = [s \in Switches |-> 0]
    /\ newcheck = 0 /\ temp = 0
    /\ button \in [Switches -> Bits]
    /\ edge = [s \in Switches |-> FALSE]
    /\ relay = [s \in Switches |-> "HIGH"]
    /\ file = [s \in Switches |-> "fresh"]
    /\ phase = "off" /\ connected = FALSE
    /\ status = [s \in Switches |-> "none"]

\* init.lua up to gpio.trig: the variables, the levels of the buttons, and
\* the switchN.lua files, each of which drives the level it holds. A file
\* that holds none leaves the pin at the level it has after a reset, which
\* the firmware does not determine.
Boot ==
    /\ phase \in {"off", "reset"}
    /\ ResetMemory
    /\ checkbut' = button
    /\ \E pins \in [Switches -> Levels] :
          relay' = [s \in Switches |->
                      IF file[s] \in Levels THEN file[s] ELSE pins[s]]
    /\ phase' = "booting"
    /\ UNCHANGED <<button_vars, file, connected, status>>

\* gpio.trig arms the interrupts, and the callbacks run from here on.
Armed ==
    /\ phase = "booting"
    /\ phase' = "running"
    /\ UNCHANGED <<memory, button_vars, relay, file, connected, status>>

\* What is lost with the power (or by node.restart, or by an error in a
\* callback, which restarts the module): memory and the session. relay keeps
\* the level last driven, the one a restart is to bring back; memory takes
\* the values the next Boot gives it, so that lost values count for nothing.
Down(how) ==
    /\ phase' = how
    /\ ResetMemory
    /\ checkbut' = [s \in Switches |-> 0]
    /\ edge' = [s \in Switches |-> FALSE]
    /\ connected' = FALSE

PowerCut ==
    /\ phase # "off"
    /\ Down("off")
    /\ UNCHANGED <<button, relay, file, status>>

----------------------------------------------------------------------------
(* The decision function: algorithm(enew, eold, bnew, bold, pinout) *)

\* Mutant of Changed: the button is not compared.
ChangedCommand(enew, eold, bnew, bold) == enew # eold

Changed(enew, eold, bnew, bold) == enew # eold \/ bnew # bold

\* Mutants of Out: one of the two terms of the map is missing.
OutCommand(enew, eold, bnew, bold) == IF eold = 0 /\ enew = 1 THEN 1 ELSE 0
OutButton(enew, eold, bnew, bold) == IF bold = 0 /\ bnew = 1 THEN 1 ELSE 0

\* Its Karnaugh map: on at a rising button or at a rising command.
Out(enew, eold, bnew, bold) ==
    IF (bold = 0 /\ bnew = 1) \/ (eold = 0 /\ enew = 1) THEN 1 ELSE 0

Driven(out) == IF out = 1 THEN "LOW" ELSE "HIGH"

\* Mutant of Algorithm: the branch that puts the lamp out writes no file.
AlgorithmOffUnsaved(s, enew, eold, bnew, bold) ==
    LET level == Driven(Out(enew, eold, bnew, bold)) IN
    IF Changed(enew, eold, bnew, bold)
      THEN /\ relay' = [relay EXCEPT ![s] = level]
           /\ file' = IF level = "LOW" THEN [file EXCEPT ![s] = level] ELSE file
      ELSE UNCHANGED <<relay, file>>

\* The effects on the relay of s and on its file, which follow each other
\* within the call. newcheck is set with them, by NewCheck.
Algorithm(s, enew, eold, bnew, bold) ==
    LET level == Driven(Out(enew, eold, bnew, bold)) IN
    IF Changed(enew, eold, bnew, bold)
      THEN /\ relay' = [relay EXCEPT ![s] = level]
           /\ file' = [file EXCEPT ![s] = level]
      ELSE UNCHANGED <<relay, file>>

NewCheck(enew, eold, bnew, bold) ==
    IF Changed(enew, eold, bnew, bold) THEN 1 ELSE newcheck

\* Mutant of CutInside: the file is opened without truncating it.
CutUntruncated(s, enew, eold, bnew, bold) ==
    LET level == Driven(Out(enew, eold, bnew, bold)) IN
    /\ Changed(enew, eold, bnew, bold)
    /\ relay' \in {relay, [relay EXCEPT ![s] = level]}
    /\ Down("off")
    /\ UNCHANGED <<button, file, status>>

\* A power cut inside the call: the file is already truncated and its new
\* line not written; the relay may have been driven.
CutInside(s, enew, eold, bnew, bold) ==
    LET level == Driven(Out(enew, eold, bnew, bold)) IN
    /\ Changed(enew, eold, bnew, bold)
    /\ file' = [file EXCEPT ![s] = "empty"]
    /\ relay' \in {relay, [relay EXCEPT ![s] = level]}
    /\ Down("off")
    /\ UNCHANGED <<button, status>>

----------------------------------------------------------------------------
(* The buttons *)

\* Somebody presses or releases a button; only an armed pin interrupts.
Toggle(s) ==
    /\ button' = [button EXCEPT ![s] = 1 - @]
    /\ edge' = [edge EXCEPT ![s] = @ \/ phase = "running"]
    /\ UNCHANGED <<memory, relay, file, phase, connected, status>>

\* Mutant of Payload: str keeps its first value when the lamp goes off.
PayloadBlank(bit) == IF bit = 1 THEN "sw-on" ELSE " "

Payload(bit) == IF bit = 1 THEN "sw-on" ELSE "sw-off"

\* A handler that found an edge publishes; newcheck is then spent.
Publishes(s) ==
    temp = 1 /\ NewCheck(espNew[s], espOld[s], button[s], btnOld[s]) = 1

\* switch2, switch3, switch5: the callback of the interrupt. It reads the
\* pin itself, so edges that came together are seen as one level. newcheck
\* is one variable for all the switches. A message published on a client
\* whose session is over is lost.
SwitchHandler(s) ==
    LET level == button[s] IN
    /\ phase = "running" /\ edge[s]
    /\ edge' = [edge EXCEPT ![s] = FALSE]
    /\ btnNew' = [btnNew EXCEPT ![s] = level]
    /\ IF level # checkbut[s]
         THEN /\ checkbut' = [checkbut EXCEPT ![s] = level]
              /\ Algorithm(s, espNew[s], espOld[s], level, btnOld[s])
              /\ espOld' = [espOld EXCEPT ![s] = espNew[s]]
              /\ btnOld' = [btnOld EXCEPT ![s] = level]
              /\ newcheck' = IF Publishes(s) THEN 0
                             ELSE NewCheck(espNew[s], espOld[s], level, btnOld[s])
              /\ status' = IF Publishes(s) /\ connected
                             THEN [status EXCEPT ![s] = Payload(level)]
                             ELSE status
         ELSE UNCHANGED <<checkbut, relay, file, espOld, btnOld, newcheck,
                          status>>
    /\ UNCHANGED <<espNew, temp, button, phase, connected>>

\* The power fails while that callback runs.
CutInHandler(s) ==
    /\ phase = "running" /\ edge[s] /\ button[s] # checkbut[s]
    /\ CutInside(s, espNew[s], espOld[s], button[s], btnOld[s])

\* The same callback while an attempt to connect is under way: m:publish
\* raises `not connected' once algorithm is done, and the module restarts.
HandlerFails(s) ==
    /\ phase = "running" /\ edge[s] /\ button[s] # checkbut[s]
    /\ Publishes(s) /\ ~connected
    /\ Algorithm(s, espNew[s], espOld[s], button[s], btnOld[s])
    /\ Down("reset")
    /\ UNCHANGED <<button, status>>

----------------------------------------------------------------------------
(* MQTT *)

\* The message callback of m1.lua, for the command sw-on (1) or sw-off (0)
\* on the topic of switch s. It publishes nothing and leaves newcheck set.
OnMessage(s, cmd) ==
    /\ phase = "running" /\ connected
    /\ espNew' = [espNew EXCEPT ![s] = cmd]
    /\ Algorithm(s, cmd, espOld[s], btnNew[s], btnOld[s])
    /\ newcheck' = NewCheck(cmd, espOld[s], btnNew[s], btnOld[s])
    /\ espOld' = [espOld EXCEPT ![s] = cmd]
    /\ btnOld' = [btnOld EXCEPT ![s] = btnNew[s]]
    /\ UNCHANGED <<btnNew, checkbut, temp, button_vars, phase, connected,
                   status>>

CutInMessage(s, cmd) ==
    /\ phase = "running" /\ connected
    /\ CutInside(s, cmd, espOld[s], btnNew[s], btnOld[s])

\* A message without a payload: the callback concatenates nil, and the module
\* restarts.
OnEmptyMessage ==
    /\ phase = "running" /\ connected
    /\ Down("reset")
    /\ UNCHANGED <<button, relay, file, status>>

\* What fun.lua publishes for a file that holds a level.
Report(level) == IF level = "LOW" THEN "sw-on" ELSE "sw-off"

\* Mutant of Reported: the HIGH test is missing.
ReportedOnly(reporting) ==
    [s \in Switches |-> IF s \in reporting /\ file[s] = "LOW"
                          THEN Report(file[s]) ELSE status[s]]

Reported(reporting) ==
    [s \in Switches |-> IF s \in reporting /\ file[s] \in Levels
                          THEN Report(file[s]) ELSE status[s]]

\* m1.lua opened a client. When script1.lua runs it is for ModuleLink to say;
\* here it may at any time.
Attempt == phase = "running" /\ ~connected

\* The connect callback: fun.lua reports every switch, then the command
\* topics are subscribed.
Connect ==
    /\ Attempt
    /\ \A s \in Switches : file[s] # "empty"
    /\ connected' = TRUE
    /\ temp' = 1
    /\ status' = Reported(Switches)
    /\ UNCHANGED <<mem, newcheck, button_vars, relay, file, phase>>

\* The same callback when a file is empty: readline returns nil, string.find
\* raises an error and the module restarts. Of the reports already queued,
\* those of the switches before it, any may have left (sent).
Before(s) == {t \in Switches : t < s}

ConnectFails(s, sent) ==
    /\ Attempt
    /\ file[s] = "empty"
    /\ sent \subseteq Before(s)
    /\ \A t \in Before(s) : file[t] # "empty"
    /\ status' = Reported(sent)
    /\ Down("reset")
    /\ UNCHANGED <<button, relay, file>>

\* The session is lost.
Offline ==
    /\ connected
    /\ connected' = FALSE
    /\ UNCHANGED <<memory, button_vars, relay, file, phase, status>>

----------------------------------------------------------------------------
Cut == \/ PowerCut
       \/ \E s \in Switches : CutInHandler(s)
       \/ \E s \in Switches, cmd \in Bits : CutInMessage(s, cmd)

\* An error in a callback.
Raise == OnEmptyMessage \/ \E s \in Switches : HandlerFails(s)

Next ==
    \/ Boot
    \/ Armed
    \/ Cut
    \/ Raise
    \/ Connect
    \/ Offline
    \/ \E s \in Switches : Toggle(s) \/ SwitchHandler(s)
    \/ \E s \in Switches : \E sent \in SUBSET Before(s) : ConnectFails(s, sent)
    \/ \E s \in Switches, cmd \in Bits : OnMessage(s, cmd)

Spec == Init /\ [][Next]_vars

----------------------------------------------------------------------------
(* Properties *)

\* A switchN.lua that drives a level drives the level its relay has, through
\* commands, buttons, restarts and power cuts at any point (init.lua 59-78).
FileMirrorsRelay == \A s \in Switches : file[s] \in Levels => file[s] = relay[s]

\* The three memories of a button are ordered: an old 1 was read as new, and
\* what was read last is checkbut. A command handler that finds btnNew and
\* btnOld different mistakes the command for a button; this is how far the
\* two can be apart (init.lua 89-95, m1.lua 49-51).
ButtonMemory == \A s \in Switches : btnOld[s] <= btnNew[s]
                                    /\ btnNew[s] <= checkbut[s]

\* Between callbacks the last command was served, except before the first
\* event after power-up, when the pair is (0, 1) (init.lua 2-3).
CommandMemory == \A s \in Switches : \/ espNew[s] = espOld[s]
                                     \/ espNew[s] = 0 /\ espOld[s] = 1

\* A lamp that burns although the last command was "off" was lit by its
\* button, which the handler remembers as on: the button's next falling edge
\* will not be taken for "no change" (init.lua 49-56).
LitByButton == \A s \in Switches :
                  relay[s] = "LOW" /\ espOld[s] = 0 => btnOld[s] = 1

\* A restart brings a relay back to where it was, when its file survived.
RestartKeepsRelay ==
    [][\A s \in Switches : phase # "booting" /\ phase' = "booting"
          /\ file[s] \in Levels => relay'[s] = relay[s]]_vars

\* Edges the wall button makes, as the handler sees them.
Rises(s) == checkbut[s] = 0 /\ checkbut'[s] = 1 /\ SwitchHandler(s)
Falls(s) == checkbut[s] = 1 /\ checkbut'[s] = 0 /\ SwitchHandler(s)

\* A button that goes on always lights the lamp, whatever the commands
\* before it, and a status it publishes says so.
RisingEdgeTurnsOn ==
    [][\A s \in Switches : Rises(s) =>
          /\ relay'[s] = "LOW"
          /\ status'[s] # status[s] => status'[s] = "sw-on"]_vars

\* A button that goes off puts the lamp out if the handler has seen it go on
\* since power-up; without that, only if no command came yet.
FallingEdgeTurnsOff ==
    [][\A s \in Switches : Falls(s) /\ (btnOld[s] = 1 \/ espNew[s] # espOld[s])
          => /\ relay'[s] = "HIGH"
             /\ status'[s] # status[s] => status'[s] = "sw-off"]_vars

\* A command that differs from the last one is obeyed when the button's two
\* memories agree.
FreshCommandObeyed ==
    [][\A s \in Switches, cmd \in Bits :
          OnMessage(s, cmd) /\ cmd # espOld[s] /\ btnNew[s] = btnOld[s]
             => relay'[s] = Driven(cmd)]_vars

\* After a connection every switch whose file holds a level is reported as
\* its relay is, whatever happened while the session was down (fun.lua).
ConnectionReports ==
    [][~connected /\ connected' => \A s \in Switches :
          file[s] \in Levels => status'[s] = Report(relay[s])]_vars

============================================================================
