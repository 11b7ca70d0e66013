CONSTANTS
    Switches = {2}
    MaxQueue = 2
    Phones = {}
    Outages = {"internet"}
    Prompt = TRUE
SPECIFICATION BridgeSpec
INVARIANT AppUpToDate
