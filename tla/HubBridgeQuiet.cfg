CONSTANTS
    Switches = {2}
    MaxQueue = 2
    Phones = {}
    Outages = {"online", "offline"}
    Prompt = TRUE
SPECIFICATION BridgeSpec
INVARIANTS QuietTruth
