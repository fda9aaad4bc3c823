CONSTANTS
    Thread = {t1, t2}
    Look = {plain}
    Place = {top}
    Begin = top
    None = None
    MaxDisk = 0
    Timer = FALSE
    MayFail = TRUE
    TwDirs <- Tree
    TwRoot = "r"
    TwSelected <- Selected
    FlBlocks = {0, 1, 2}
    TsFiles <- Texts
    TsSearchers <- Searchers
    TsBufSize = 5
SPECIFICATION MCSpec
INVARIANTS DataAlive ShownOfView PostponedIsShown ResultsListed CountsExact UsedWhileOpen WholeOrTold TextFound
SYMMETRY Symmetry
