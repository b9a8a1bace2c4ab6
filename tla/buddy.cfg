CONSTANTS
    Unit = 32
    Header = 8
    Start = 64
    DynMemSize = 416
    Requests = {31, 33, 96, 129}
    Testers = {t1, t2}
    Shell = shell
    Sizes = {0, 64, 96, 640}
    testdynran_number = 2
    NoMem = NoMem
SPECIFICATION TestsSpec
INVARIANTS Partition Serves TestsPass
