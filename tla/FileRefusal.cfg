CONSTANTS
    Name = {"S", "D", "a", "b", "c"}
    Job <- Jobs
    Ops = {"move"}
    Relations = {"same"}
    FtpUser = {u1}
    FtpNodes = {1}
    FtpOps = {"list"}
SPECIFICATION MCSpec
PROPERTIES RefusalStops
