CONSTANTS
    ReadLimit = 4
    Lengths = {0, 1, 2, 5}
    ModelName = "m"
    VoiceFiles <- MCVoiceFiles
    VoicesOf <- MCVoicesOf
    Configurations <- MCConfigurations
    Messages <- MCMessages
    JsonValues <- MCJsonValues
SPECIFICATION PathSpec
INVARIANTS SettingsKeepAssumptions CompliantIsServed ModelGetsWhatWasAsked ChunksAreTheAudio
CHECK_DEADLOCK FALSE
