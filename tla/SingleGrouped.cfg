SPECIFICATION Spec
CONSTANTS
    Names <- MCNames
    Absent = Absent
    Docs <- GroupingDocs
    ApiPresences = {}
INVARIANTS
    LoadIsDefined
