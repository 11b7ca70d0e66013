CONSTANT Switches = {2, 3}
SPECIFICATION Spec
INVARIANTS TypeOK FileMirrorsRelay ButtonMemory CommandMemory LitByButton
PROPERTIES RestartKeepsRelay RisingEdgeTurnsOn FallingEdgeTurnsOff FreshCommandObeyed ConnectionReports
