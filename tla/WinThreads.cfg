CONSTANTS
    Node = {n1, n2}
    Window = {main, dlg1, dlg2}
    MainWin = main
    Data = {d1}
    None = None
    MaxDepth = 9
    MayThrow = TRUE
    Dialogs = {3, 5}
    Parts = {"threads", "tree"}
SPECIFICATION MCSpec
INVARIANTS OwnersOpen ModalExact KeyboardAlive
SYMMETRY Symmetry
