------------------------- MODULE SmartSwitchProofs -------------------------
(***************************************************************************)
(* What holds of a switch module with any number of switches: its types,   *)
(* the agreement of its files with its relays, the order of the memories   *)
(* of its buttons, and from these what an edge, a command, a restart and a *)
(* connection do.                                                          *)
(***************************************************************************)
EXTENDS SmartSwitch, TLAPS

\* The inductive invariant: the conjunction of the five. LitByButton needs
\* the two before it, the others no more than themselves and the types.
IInv == /\ TypeOK
        /\ FileMirrorsRelay
        /\ ButtonMemory
        /\ CommandMemory
        /\ LitByButton

\* The level algorithm drives is a level, and the message a bit is a status.
LEMMA DrivenLevel == \A out : Driven(out) \in Levels
  BY DEF Driven, Levels

----------------------------------------------------------------------------
(* Type correctness *)

\* A switch module starts well typed.
LEMMA InitTypeOK == Init => TypeOK
<1> SUFFICES ASSUME Init PROVE TypeOK
  OBVIOUS
<1>1. edge \in [Switches -> BOOLEAN] /\ connected \in BOOLEAN
  BY DEF Init
<1>2. /\ relay \in [Switches -> Levels] /\ file \in [Switches -> Files]
      /\ status \in [Switches -> {"none", "sw-off", "sw-on"}]
      /\ phase \in {"off", "reset", "booting", "running"}
  BY DEF Init, Levels, Files
<1> QED
  BY <1>1, <1>2 DEF Init, TypeOK, Bits

\* Losing the power leaves memory and session well typed.
LEMMA DownTyped ==
  ASSUME NEW how \in {"off", "reset"}, Down(how)
  PROVE  /\ espNew' \in [Switches -> Bits] /\ espOld' \in [Switches -> Bits]
         /\ btnNew' \in [Switches -> Bits] /\ btnOld' \in [Switches -> Bits]
         /\ checkbut' \in [Switches -> Bits]
         /\ newcheck' \in Bits /\ temp' \in Bits
         /\ edge' \in [Switches -> BOOLEAN]
         /\ phase' \in {"off", "reset", "booting", "running"}
         /\ connected' \in BOOLEAN
  BY DEF Down, ResetMemory, Bits

\* Every step keeps the types.
LEMMA NextTypeOK == TypeOK /\ [Next]_vars => TypeOK'
<1> SUFFICES ASSUME TypeOK, [Next]_vars PROVE TypeOK'
  OBVIOUS
<1> USE DEF TypeOK
<1>1. CASE Boot
  BY <1>1 DEF Boot, ResetMemory, Bits, Levels, Files, button_vars
<1>2. CASE Armed
  BY <1>2 DEF Armed, memory, mem, button_vars
<1>3. CASE PowerCut
  BY <1>3, DownTyped DEF PowerCut
<1>4. ASSUME NEW s \in Switches, NEW en, NEW eo, NEW bn, NEW bo,
             CutInside(s, en, eo, bn, bo)
      PROVE  TypeOK'
  <2>1. file' \in [Switches -> Files] /\ relay' \in [Switches -> Levels]
    BY <1>4, DrivenLevel DEF CutInside, Files
  <2> QED
    BY <1>4, <2>1, DownTyped DEF CutInside
<1>5. CASE Connect
  <2>1. status' \in [Switches -> {"none", "sw-off", "sw-on"}]
    BY <1>5 DEF Connect, Reported, Report
  <2> QED
    BY <1>5, <2>1 DEF Connect, mem, button_vars, Bits
<1>6. CASE Offline
  BY <1>6 DEF Offline, memory, mem, button_vars
<1>7. ASSUME NEW s \in Switches, Toggle(s) PROVE TypeOK'
  BY <1>7 DEF Toggle, memory, mem, Bits
<1>8. ASSUME NEW s \in Switches, SwitchHandler(s) PROVE TypeOK'
  <2>1. /\ btnNew' \in [Switches -> Bits] /\ edge' \in [Switches -> BOOLEAN]
        /\ checkbut' \in [Switches -> Bits]
        /\ espOld' \in [Switches -> Bits] /\ btnOld' \in [Switches -> Bits]
    BY <1>8 DEF SwitchHandler
  <2>2. relay' \in [Switches -> Levels] /\ file' \in [Switches -> Files]
    BY <1>8, DrivenLevel DEF SwitchHandler, Algorithm, Files
  <2>3. newcheck' \in Bits
    BY <1>8 DEF SwitchHandler, NewCheck, Bits
  <2>4. status' \in [Switches -> {"none", "sw-off", "sw-on"}]
    BY <1>8 DEF SwitchHandler, Payload
  <2> QED
    BY <1>8, <2>1, <2>2, <2>3, <2>4 DEF SwitchHandler
<1>9. ASSUME NEW s \in Switches, NEW sent, ConnectFails(s, sent)
      PROVE  TypeOK'
  <2>1. status' \in [Switches -> {"none", "sw-off", "sw-on"}]
    BY <1>9 DEF ConnectFails, Reported, Report
  <2> QED
    BY <1>9, <2>1, DownTyped DEF ConnectFails
<1>10. ASSUME NEW s \in Switches, NEW cmd \in Bits, OnMessage(s, cmd)
       PROVE  TypeOK'
  <2>1. relay' \in [Switches -> Levels] /\ file' \in [Switches -> Files]
    BY <1>10, DrivenLevel DEF OnMessage, Algorithm, Files
  <2>2. newcheck' \in Bits
    BY <1>10 DEF OnMessage, NewCheck, Bits
  <2> QED
    BY <1>10, <2>1, <2>2 DEF OnMessage, button_vars
<1>11. CASE OnEmptyMessage
  BY <1>11, DownTyped DEF OnEmptyMessage
<1>12. ASSUME NEW s \in Switches, HandlerFails(s) PROVE TypeOK'
  <2>1. relay' \in [Switches -> Levels] /\ file' \in [Switches -> Files]
    BY <1>12, DrivenLevel DEF HandlerFails, Algorithm, Files
  <2> QED
    BY <1>12, <2>1, DownTyped DEF HandlerFails
<1>13. CASE UNCHANGED vars
  BY <1>13 DEF vars, memory, mem, button_vars
<1> QED
  BY <1>1, <1>2, <1>3, <1>4, <1>5, <1>6, <1>7, <1>8, <1>9, <1>10, <1>11, <1>12,
     <1>13
     DEF Next, Cut, CutInHandler, CutInMessage, Raise

\* Every variable keeps its type, for any set of switches.
THEOREM TypeCorrect == Spec => []TypeOK
  BY InitTypeOK, NextTypeOK, PTL DEF Spec

----------------------------------------------------------------------------
(* The files *)

\* algorithm drives a relay and writes its file alike.
LEMMA AlgorithmMirrors ==
  ASSUME TypeOK, FileMirrorsRelay, NEW s \in Switches,
         NEW en, NEW eo, NEW bn, NEW bo, Algorithm(s, en, eo, bn, bo)
  PROVE  FileMirrorsRelay'
  BY DEF TypeOK, FileMirrorsRelay, Algorithm

\* Every step keeps each file that drives a level equal to its relay.
LEMMA NextFileMirrors ==
  TypeOK /\ FileMirrorsRelay /\ [Next]_vars => FileMirrorsRelay'
<1> SUFFICES ASSUME TypeOK, FileMirrorsRelay, [Next]_vars
             PROVE  FileMirrorsRelay'
  OBVIOUS
<1>1. CASE UNCHANGED <<relay, file>>
  BY <1>1 DEF FileMirrorsRelay
<1>2. CASE Boot
  BY <1>2 DEF Boot, FileMirrorsRelay
<1>3. ASSUME NEW s \in Switches, NEW en, NEW eo, NEW bn, NEW bo,
             CutInside(s, en, eo, bn, bo)
      PROVE  FileMirrorsRelay'
  BY <1>3 DEF CutInside, TypeOK, FileMirrorsRelay, Levels
<1>4. ASSUME NEW s \in Switches, SwitchHandler(s)
      PROVE  FileMirrorsRelay'
  BY <1>1, <1>4, AlgorithmMirrors DEF SwitchHandler
<1>5. ASSUME NEW s \in Switches, NEW cmd \in Bits, OnMessage(s, cmd)
      PROVE  FileMirrorsRelay'
  BY <1>5, AlgorithmMirrors DEF OnMessage
<1>6. ASSUME NEW s \in Switches, HandlerFails(s)
      PROVE  FileMirrorsRelay'
  BY <1>6, AlgorithmMirrors DEF HandlerFails
<1> QED
  BY <1>1, <1>2, <1>3, <1>4, <1>5, <1>6
     DEF Raise, OnEmptyMessage, Next, vars, Cut, PowerCut, CutInHandler,
         CutInMessage, Armed, Connect,
         Offline, Toggle, ConnectFails

\* A file that drives a level drives the level of its relay, always.
THEOREM FilesMirrorRelays == Spec => []FileMirrorsRelay
<1>1. Init => FileMirrorsRelay
  BY DEF Init, FileMirrorsRelay, Levels
<1> QED
  BY <1>1, InitTypeOK, NextTypeOK, NextFileMirrors, PTL DEF Spec

----------------------------------------------------------------------------
(* The memories of the buttons and of the commands *)

\* Losing the power leaves both memories in order.
LEMMA DownInOrder ==
  ASSUME NEW how, Down(how)
  PROVE  ButtonMemory' /\ CommandMemory'
  BY DEF Down, ResetMemory, ButtonMemory, CommandMemory

\* Every step keeps both memories in order.
LEMMA NextMemory ==
  TypeOK /\ ButtonMemory /\ CommandMemory /\ [Next]_vars
    => ButtonMemory' /\ CommandMemory'
<1> SUFFICES ASSUME TypeOK, ButtonMemory, CommandMemory, [Next]_vars
             PROVE  ButtonMemory' /\ CommandMemory'
  OBVIOUS
<1>1. CASE UNCHANGED mem
  BY <1>1 DEF mem, ButtonMemory, CommandMemory
<1>2. CASE Boot
  BY <1>2 DEF Boot, ResetMemory, TypeOK, ButtonMemory, CommandMemory, Bits
<1>3. ASSUME NEW how, Down(how) PROVE ButtonMemory' /\ CommandMemory'
  BY <1>3, DownInOrder
<1>4. ASSUME NEW s \in Switches, SwitchHandler(s)
      PROVE  ButtonMemory' /\ CommandMemory'
  <2>1. \A t \in Switches \ {s} :
          /\ btnNew'[t] = btnNew[t] /\ btnOld'[t] = btnOld[t]
          /\ checkbut'[t] = checkbut[t]
          /\ espOld'[t] = espOld[t] /\ espNew'[t] = espNew[t]
    BY <1>4 DEF SwitchHandler, TypeOK
  <2>2. btnNew'[s] = button[s] /\ checkbut'[s] = button[s]
    BY <1>4 DEF SwitchHandler, TypeOK
  <2>3. /\ \/ btnOld'[s] = button[s]
           \/ btnOld'[s] = btnOld[s] /\ button[s] = checkbut[s]
        /\ espNew'[s] = espNew[s]
        /\ espOld'[s] = espNew[s] \/ espOld'[s] = espOld[s]
    BY <1>4 DEF SwitchHandler, TypeOK
  <2>4. /\ button[s] \in {0, 1} /\ checkbut[s] \in {0, 1}
        /\ btnOld[s] \in {0, 1} /\ btnNew[s] \in {0, 1}
    BY DEF TypeOK, Bits
  <2>5. btnOld'[s] <= btnNew'[s] /\ btnNew'[s] <= checkbut'[s]
    BY <2>2, <2>3, <2>4 DEF ButtonMemory
  <2> QED
    BY <2>1, <2>3, <2>5 DEF ButtonMemory, CommandMemory
<1>5. ASSUME NEW s \in Switches, NEW cmd \in Bits, OnMessage(s, cmd)
      PROVE  ButtonMemory' /\ CommandMemory'
  <2>1. /\ btnOld' = [btnOld EXCEPT ![s] = btnNew[s]]
        /\ btnNew' = btnNew /\ checkbut' = checkbut
    BY <1>5 DEF OnMessage
  <2>2. ButtonMemory'
    BY <2>1 DEF ButtonMemory, TypeOK, Bits
  <2>3. CommandMemory'
    BY <1>5 DEF OnMessage, CommandMemory, TypeOK
  <2> QED
    BY <2>2, <2>3
<1> QED
  BY <1>1, <1>2, <1>3, <1>4, <1>5
     DEF Next, vars, memory, Cut, PowerCut, CutInHandler, CutInMessage,
         CutInside, Raise, OnEmptyMessage, HandlerFails, Armed, Connect, Offline,
         Toggle, ConnectFails

\* Every step keeps the button of a lamp lit against the commands remembered.
LEMMA NextLit ==
  TypeOK /\ ButtonMemory /\ CommandMemory /\ LitByButton /\ [Next]_vars
    => LitByButton'
<1> SUFFICES ASSUME TypeOK, ButtonMemory, CommandMemory, LitByButton,
                    [Next]_vars
             PROVE  LitByButton'
  OBVIOUS
<1>1. CASE UNCHANGED <<relay, espOld, btnOld>>
  BY <1>1 DEF LitByButton
<1>2. CASE ResetMemory
  BY <1>2 DEF ResetMemory, LitByButton
<1>3. ASSUME NEW s \in Switches, SwitchHandler(s)
      PROVE  LitByButton'
  <2>1. \A t \in Switches \ {s} : /\ relay'[t] = relay[t]
                                  /\ espOld'[t] = espOld[t]
                                  /\ btnOld'[t] = btnOld[t]
    BY <1>3 DEF SwitchHandler, Algorithm, TypeOK
  <2>2. CASE button[s] = checkbut[s]
    BY <1>1, <1>3, <2>2 DEF SwitchHandler
  <2>3. CASE button[s] # checkbut[s]
    <3>1. /\ espOld'[s] = espNew[s] /\ btnOld'[s] = button[s]
          /\ Algorithm(s, espNew[s], espOld[s], button[s], btnOld[s])
      BY <1>3, <2>3 DEF SwitchHandler, TypeOK
    <3>2. CASE button[s] = 1
      BY <2>1, <3>1, <3>2 DEF LitByButton
    <3>3. CASE button[s] = 0
      <4>1. Out(espNew[s], espOld[s], 0, btnOld[s]) = 0
        BY DEF Out, CommandMemory
      <4>2. CASE Changed(espNew[s], espOld[s], 0, btnOld[s])
        BY <2>1, <3>1, <3>3, <4>1, <4>2
           DEF Algorithm, Driven, TypeOK, LitByButton
      <4>3. CASE ~Changed(espNew[s], espOld[s], 0, btnOld[s])
        BY <2>1, <3>1, <3>3, <4>3 DEF Algorithm, Changed, LitByButton
      <4> QED
        BY <4>2, <4>3
    <3> QED
      BY <3>2, <3>3 DEF TypeOK, Bits
  <2> QED
    BY <2>2, <2>3
<1>4. ASSUME NEW s \in Switches, NEW cmd \in Bits, OnMessage(s, cmd)
      PROVE  LitByButton'
  <2>1. \A t \in Switches \ {s} : /\ relay'[t] = relay[t]
                                  /\ espOld'[t] = espOld[t]
                                  /\ btnOld'[t] = btnOld[t]
    BY <1>4 DEF OnMessage, Algorithm, TypeOK
  <2>2. /\ espOld'[s] = cmd /\ btnOld'[s] = btnNew[s]
        /\ Algorithm(s, cmd, espOld[s], btnNew[s], btnOld[s])
    BY <1>4 DEF OnMessage, TypeOK
  <2>3. CASE cmd = 1 \/ btnNew[s] = 1
    BY <2>1, <2>2, <2>3 DEF LitByButton
  <2>4. CASE cmd = 0 /\ btnNew[s] = 0
    <3>1. Out(cmd, espOld[s], btnNew[s], btnOld[s]) = 0
      BY <2>4 DEF Out
    <3>2. CASE Changed(cmd, espOld[s], btnNew[s], btnOld[s])
      BY <2>1, <2>2, <3>1, <3>2 DEF Algorithm, Driven, TypeOK, LitByButton
    <3>3. CASE ~Changed(cmd, espOld[s], btnNew[s], btnOld[s])
      BY <2>1, <2>2, <3>3 DEF Algorithm, Changed, LitByButton
    <3> QED
      BY <3>2, <3>3
  <2> QED
    BY <2>3, <2>4 DEF TypeOK, Bits
<1> QED
  BY <1>1, <1>2, <1>3, <1>4
     DEF Next, vars, memory, mem, Boot, Cut, PowerCut, CutInHandler,
         CutInMessage, CutInside, Raise, OnEmptyMessage, HandlerFails, Down,
         Armed, Connect, Offline, Toggle, ConnectFails

\* The initial states satisfy the inductive invariant.
LEMMA InitIInv == Init => IInv
  BY InitTypeOK DEF Init, IInv, FileMirrorsRelay, ButtonMemory, CommandMemory,
     LitByButton, Levels

\* Every step keeps it.
LEMMA NextIInv == IInv /\ [Next]_vars => IInv'
  BY NextTypeOK, NextFileMirrors, NextMemory, NextLit DEF IInv

\* The inductive invariant holds of every behaviour.
THEOREM Invariance == Spec => []IInv
  BY InitIInv, NextIInv, PTL DEF Spec

\* An old 1 of a button was read as new, and what was read last is checkbut.
THEOREM ButtonMemoryHolds == Spec => []ButtonMemory
<1>1. IInv => ButtonMemory
  BY DEF IInv
<1> QED
  BY <1>1, Invariance, PTL

\* Between callbacks the last command was served or none came since power-up.
THEOREM CommandMemoryHolds == Spec => []CommandMemory
<1>1. IInv => CommandMemory
  BY DEF IInv
<1> QED
  BY <1>1, Invariance, PTL

\* A lamp that burns against the last command was lit by its button.
THEOREM LitByButtonHolds == Spec => []LitByButton
<1>1. IInv => LitByButton
  BY DEF IInv
<1> QED
  BY <1>1, Invariance, PTL

----------------------------------------------------------------------------
(* What the steps do *)

\* A restart brings back every relay whose file survived.
THEOREM RestartKeeps == Spec => RestartKeepsRelay
<1>1. IInv /\ [Next]_vars =>
        [\A s \in Switches : phase # "booting" /\ phase' = "booting"
            /\ file[s] \in Levels => relay'[s] = relay[s]]_vars
  BY DEF IInv, FileMirrorsRelay, Next, vars, Boot, Armed, Cut, PowerCut,
     CutInHandler, CutInMessage, CutInside, Raise, OnEmptyMessage, HandlerFails,
     Down, Connect, Offline, Toggle, SwitchHandler, ConnectFails, OnMessage
<1> QED
  BY <1>1, Invariance, PTL DEF Spec, RestartKeepsRelay

\* A rising edge of a button lights the lamp and is reported as such.
THEOREM RisingEdge == Spec => RisingEdgeTurnsOn
<1>1. IInv => [\A s \in Switches : Rises(s) =>
                 /\ relay'[s] = "LOW"
                 /\ status'[s] # status[s] => status'[s] = "sw-on"]_vars
  <2> SUFFICES ASSUME IInv, NEW s \in Switches, Rises(s)
               PROVE  /\ relay'[s] = "LOW"
                      /\ status'[s] # status[s] => status'[s] = "sw-on"
    OBVIOUS
  <2>1. checkbut[s] = 0 /\ button[s] = 1
    BY DEF Rises, SwitchHandler, IInv, TypeOK
  <2>2. btnOld[s] = 0
    BY <2>1 DEF IInv, TypeOK, ButtonMemory, Bits
  <2>3. /\ Changed(espNew[s], espOld[s], button[s], btnOld[s])
        /\ Out(espNew[s], espOld[s], button[s], btnOld[s]) = 1
    BY <2>1, <2>2 DEF Changed, Out
  <2>4. relay' = [relay EXCEPT ![s] = "LOW"]
    BY <2>1, <2>3 DEF Rises, SwitchHandler, Algorithm, Driven
  <2>5. status'[s] = status[s] \/ status'[s] = "sw-on"
    BY <2>1 DEF Rises, SwitchHandler, IInv, TypeOK, Payload
  <2> QED
    BY <2>4, <2>5 DEF IInv, TypeOK
<1> QED
  BY <1>1, Invariance, PTL DEF RisingEdgeTurnsOn

\* A falling edge puts the lamp out and is reported as such, when the button
\* was seen on or nothing happened since power-up.
THEOREM FallingEdge == Spec => FallingEdgeTurnsOff
<1>1. IInv => [\A s \in Switches :
                 Falls(s) /\ (btnOld[s] = 1 \/ espNew[s] # espOld[s])
                   => /\ relay'[s] = "HIGH"
                      /\ status'[s] # status[s] => status'[s] = "sw-off"]_vars
  <2> SUFFICES ASSUME IInv, NEW s \in Switches, Falls(s),
                      btnOld[s] = 1 \/ espNew[s] # espOld[s]
               PROVE  /\ relay'[s] = "HIGH"
                      /\ status'[s] # status[s] => status'[s] = "sw-off"
    OBVIOUS
  <2>1. checkbut[s] = 1 /\ button[s] = 0
    BY DEF Falls, SwitchHandler, IInv, TypeOK
  <2>2. /\ Changed(espNew[s], espOld[s], button[s], btnOld[s])
        /\ Out(espNew[s], espOld[s], button[s], btnOld[s]) = 0
    BY <2>1 DEF Changed, Out, IInv, CommandMemory
  <2>3. relay' = [relay EXCEPT ![s] = "HIGH"]
    BY <2>1, <2>2 DEF Falls, SwitchHandler, Algorithm, Driven
  <2>4. status'[s] = status[s] \/ status'[s] = "sw-off"
    BY <2>1 DEF Falls, SwitchHandler, IInv, TypeOK, Payload
  <2> QED
    BY <2>3, <2>4 DEF IInv, TypeOK
<1> QED
  BY <1>1, Invariance, PTL DEF FallingEdgeTurnsOff

\* A command that differs from the last is obeyed when the memories of the
\* button agree.
THEOREM FreshCommand == Spec => FreshCommandObeyed
<1>1. IInv => [\A s \in Switches, cmd \in Bits :
                 OnMessage(s, cmd) /\ cmd # espOld[s] /\ btnNew[s] = btnOld[s]
                    => relay'[s] = Driven(cmd)]_vars
  <2> SUFFICES ASSUME IInv, NEW s \in Switches, NEW cmd \in Bits,
                      OnMessage(s, cmd), cmd # espOld[s],
                      btnNew[s] = btnOld[s]
               PROVE  relay'[s] = Driven(cmd)
    OBVIOUS
  <2>1. espOld[s] \in Bits
    BY DEF IInv, TypeOK
  <2>2. /\ Changed(cmd, espOld[s], btnNew[s], btnOld[s])
        /\ Out(cmd, espOld[s], btnNew[s], btnOld[s]) = cmd
    BY <2>1 DEF Changed, Out, Bits
  <2>3. relay' = [relay EXCEPT ![s] = Driven(cmd)]
    BY <2>2 DEF OnMessage, Algorithm
  <2> QED
    BY <2>3 DEF IInv, TypeOK
<1> QED
  BY <1>1, Invariance, PTL DEF FreshCommandObeyed

\* A connection reports every relay whose file holds a level as it is.
THEOREM ConnectionReportsTruth == Spec => ConnectionReports
<1>1. IInv /\ [Next]_vars =>
        [~connected /\ connected' => \A s \in Switches :
            file[s] \in Levels => status'[s] = Report(relay[s])]_vars
  <2> SUFFICES ASSUME IInv, Next, ~connected, connected',
                      NEW s \in Switches, file[s] \in Levels
               PROVE  status'[s] = Report(relay[s])
    BY DEF vars
  <2>1. Connect
    BY DEF Next, Boot, Armed, Cut, PowerCut, CutInHandler, CutInMessage,
       CutInside, Raise, OnEmptyMessage, HandlerFails, Down, Offline, Toggle,
       SwitchHandler, ConnectFails, OnMessage
  <2> QED
    BY <2>1 DEF Connect, Reported, IInv, FileMirrorsRelay
<1> QED
  BY <1>1, Invariance, PTL DEF Spec, ConnectionReports

============================================================================
