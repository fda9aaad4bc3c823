CONSTANTS
    Node = {n1, n2}
    Window = {main, dlg}
    MainWin = main
    Call = call
    Info = info
    Data = {call, info}
    None = None
    MaxDepth = 7
    MayThrow = FALSE
    Askers = {dlg}
    Sticky = FALSE
    Spurious = FALSE
    Careful = FALSE
    UseStopFlag = FALSE
    CreateMayFail = FALSE
SPECIFICATION OperSpec
INVARIANTS StoppedIsAnswered
CHECK_DEADLOCK FALSE
SYMMETRY NodeSymmetry
