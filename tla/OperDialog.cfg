CONSTANTS
    Node = {n1, n2, n3}
    Window = {main, dlg, msg}
    MainWin = main
    Call = call
    Info = info
    Data = {call, info}
    None = None
    MaxDepth = 6
    MayThrow = FALSE
    Askers = {dlg}
    Sticky = FALSE
    Spurious = FALSE
    Careful = FALSE
    UseStopFlag = FALSE
    CreateMayFail = FALSE
SPECIFICATION OperSpec
INVARIANTS StopListExact CallbackCurrent LoadingShown
SYMMETRY NodeSymmetry
