CONSTANTS
    ReadLimit = 4
    Lengths = {0, 5}
    ModelName = "m"
    VoiceFiles <- MCVoiceFiles
    VoicesOf <- MCVoicesOf
    Configurations <- MCConfigurations
    Messages <- MCMessages
    JsonValues <- MCJsonValues
SPECIFICATION PathSpec
INVARIANTS RuntimeFailuresAreInternal
CHECK_DEADLOCK FALSE
