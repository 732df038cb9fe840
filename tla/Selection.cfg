SPECIFICATION Spec
CONSTANTS
    Lower <- MCLower
    Space = " "
    Bracket = "["
    Lines <- MCLines
    MaxRows = 3
    MaxPrefix = 3
    Ascii = {"a"}
    Lead = {"e'", "mark", "wide"}
    Continuation = "continuation"
    LeadLength <- MCLeadLength
    LeadWidth <- MCLeadWidth
    Texts <- MCTexts
    MaxColumns = 9
    MaxBuffer = 15
INVARIANTS SelectionCorrect ElidedCorrect
CHECK_DEADLOCK FALSE
