SPECIFICATION FairSpec
CONSTANTS
    NAttribute <- TableDef
    Messages <- MessagesDef
    MaxWord = 5
    SkipWidth = 3
    TestDown <- TestDownDef
    SetParam <- SetParamDef
    Continue <- ContinueDef
    Modify <- ModifyDef
INVARIANTS
    TypeOK
    CursorInMessage
    WordsInArray
    AttributesFilled
    AcceptsGrammar
PROPERTIES
    StepsRunOut
    Ends
CHECK_DEADLOCK FALSE
