CONSTANTS
    Switches = {2}
    MaxQueue = 2
    Phones = {"local", "remote"}
    Outages = {"internet", "online", "offline"}
    Prompt = TRUE
SPECIFICATION BridgeSpec
INVARIANTS BridgeTypeOK EchoMends BridgeInv
