SPECIFICATION Spec
CONSTANTS
    NAttribute <- TableDef
    Messages <- MessagesDef
    MaxWord = 5
    SkipWidth = 3
    TestDown <- TestDownDef
    SetParam <- SetParamDef
    Continue <- ContinueDef
    Modify <- ModifyDef
INVARIANT AcceptedIsSentence
CHECK_DEADLOCK FALSE
