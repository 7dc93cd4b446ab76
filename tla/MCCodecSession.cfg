SPECIFICATION SessionSpec
CONSTANTS
    Names <- MCNames
    Absent = Absent
    Docs <- MCDocs
    ApiPresences = {}
    Base = 4
    Digits = 2
    MaxDepth = 7
    EpochOffset = 200
    KeyRank <- MCKeyRank
    Bodies <- MCBodies
    Documents <- MCDocuments
    MessageIds <- MCMessageIds
INVARIANTS
    LengthAgrees
    EncodingKept
    JsonKeepsAvps
