SPECIFICATION MCSpec
CONSTANTS
    Names <- MCNames
    Absent = Absent
    Docs <- MCDocs
    ApiPresences = {"Fixed", "Mandatory"}
INVARIANTS
    TypeOK
    ReferencesResolve
    SlotsAreNamed
    VendorBitMatches
    LevelsOrdered
    UncheckedLookups
    LoadedAsDefined
PROPERTIES
    LoadAccumulates
    LoadTouchesOnlyItsAvps
    CommandsAreWhole
    NoShortLoopPasses
    ImplementsCatalogue
