SPECIFICATION TripSpec
CONSTANTS
    MaxLabels = 3
    MaxNameLength = 8
    MaxPointer = 19
    MaxPacketLen = 60
    LowerRunes <- SomeLowerRunes
    Packets <- SomePackets
    Messages <- SomeMessages
INVARIANTS NeverPanics RoundTripKeeps QuestionIsEchoed
PROPERTY DecodingEnds
CHECK_DEADLOCK FALSE
