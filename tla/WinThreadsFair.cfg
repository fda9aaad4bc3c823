CONSTANTS
    Node = {n1, n2}
    Window = {main, dlg}
    MainWin = main
    Data = {d1, d2}
    None = None
    MaxDepth = 8
    MayThrow = FALSE
    Dialogs = {}
    Parts = {"threads"}
SPECIFICATION MCFairSpec
INVARIANTS IdleLoopDrained NodesSafe
PROPERTIES MailSpec
