SPECIFICATION MCSpec
CONSTANTS
    Names <- MCNames
    Absent = Absent
    Docs <- MCDocs
    ApiPresences = {}
    Rank <- MCRank
INVARIANTS
    ExportRestores
    RequestsAnswered
    RulesSatisfiable
PROPERTIES
    BaseLoads
    NoLoopPasses
