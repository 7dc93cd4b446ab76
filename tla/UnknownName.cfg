SPECIFICATION Spec
CONSTANTS
    Base = 4
    Digits = 2
    MaxDepth = 7
    EpochOffset = 200
    Dict <- MCDict
    Index <- MCIndex
    KeyRank <- MCKeyRank
    Commands <- MCCommands
    Documents <- MCDocuments
    Buffers <- MCBuffers
    AvpBuffers <- MCAvpBuffers
    Objects <- MCObjects
    FlagValues = {3}
    MaxAvps = 2
INVARIANT UnknownNamesParse
