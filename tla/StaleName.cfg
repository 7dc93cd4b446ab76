SPECIFICATION Spec
CONSTANTS
    Names <- MCNames
    Absent = Absent
    Docs <- NamesDocs
    ApiPresences = {}
INVARIANTS
    NamesAreCurrent
