CONSTANTS
    Node = {n1, n2}
    Window = {main, dlg}
    MainWin = main
    Call = call
    Info = info
    Data = {call, info}
    None = None
    MaxDepth = 5
    MayThrow = FALSE
    Askers = {main, dlg}
    Sticky = FALSE
    Spurious = TRUE
    Careful = FALSE
    UseStopFlag = TRUE
    CreateMayFail = TRUE
SPECIFICATION OperSpec
INVARIANTS DataSafe ToldAfterRun
CHECK_DEADLOCK FALSE
SYMMETRY NodeSymmetry
