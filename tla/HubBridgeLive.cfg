CONSTANTS
    Switches = {2}
    MaxQueue = 1
    Phones = {"local"}
    Outages = {"internet", "online"}
    Prompt = FALSE
SPECIFICATION FairBridgeSpec
PROPERTIES EchoDies MemoryMends
