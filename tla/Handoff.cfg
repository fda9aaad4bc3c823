CONSTANTS
    Thread = {t1, t2, t3}
    Window = {dlg1, dlg2}
    None = None
SPECIFICATION FairSpec
INVARIANTS DataOwned ResultReady
PROPERTIES Freed
