CONSTANTS
    Node = {n1, n2}
    Window = {main, dlg}
    MainWin = main
    Call = call
    Info = info
    Data = {call, info}
    None = None
    MaxDepth = 7
    MayThrow = FALSE
    Askers = {dlg}
    Sticky = TRUE
    Spurious = FALSE
    Careful = TRUE
    UseStopFlag = FALSE
    CreateMayFail = FALSE
SPECIFICATION FairOperSpec
PROPERTIES WaitsEnd

