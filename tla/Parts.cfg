CONSTANTS
    EdChar = {"x", " "}
    EdBlanks = {" "}
    EdFiles <- Files
    EdClips <- Clips
    AutoIdent = TRUE
    WordDelete = FALSE
    MaxUndo = 2
    MaxChanges = 3
    MaxRunning = 2
    PnSize <- FileSizes
    PnDirs = {1}
    PnHidden = {4}
    PnContents <- Directories
    PnPage = 2
    PnModes = {"size"}
    EmChar = {"x"}
    EmSizes <- TerminalSizes
    EmKept = 4
    EmCount = {1, 2}
    EmPref <- Prompt
    EmCmd <- Command
    EmBoot <- Boot
    EmSteps = 4
    ShCommand = {"c1", "c2"}
    OneByOne = TRUE
    MaxRuns = 3
    ToKey <- Keys
    ToSize = 2
    ToTake = 3
    ToMax = 5
    VtFiles <- Viewed
    VtSizes <- ViewSizes
    VtCols = 16
    VtTab = 4
    VtStep = 2
SPECIFICATION Spec
INVARIANTS UndoExact EditsKept PanelExact DrawnOrFlagged OwnProcess TypedInOrder BeginsWithLine
PROPERTIES CursorStays
CHECK_DEADLOCK FALSE
