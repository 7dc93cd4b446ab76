SPECIFICATION EnumSpec
CONSTANTS
    Literals <- MCLiterals
    MaxTexts = 4
    Texts <- MCTexts
    NumberIn <- MCNumberIn
    Aliases = {"one", "uno"}
    Owners <- MCOwners
INVARIANT AlignedUnlessEmpty
PROPERTIES AddingBringsItsValues SimplifiedIsShortest AliasIsOfTheNumber ExportKeepsEnums
