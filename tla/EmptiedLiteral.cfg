SPECIFICATION Spec
CONSTANTS
    Literals <- MCLiterals
    MaxTexts = 4
INVARIANT Aligned
