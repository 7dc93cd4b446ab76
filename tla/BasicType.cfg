SPECIFICATION Spec
CONSTANTS
    Names <- MCNames
    Absent = Absent
    Docs <- FormatDocs
    ApiPresences = {}
INVARIANTS
    BasicTypeDefined
