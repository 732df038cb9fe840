SPECIFICATION PromptSpec
CONSTANTS
    Ascii = {"a"}
    Lead = {"e'", "mark", "wide"}
    Continuation = "continuation"
    LeadLength <- MCLeadLength
    LeadWidth <- MCLeadWidth
    CommandLines <- MCCommandLines
    BufferSize = 8
    Widths = {1, 2, 4}
INVARIANTS TypeOK
PROPERTIES NeverWider EditsCharacters
