SPECIFICATION MCSpec
CONSTANTS Links <- MCLinks CmdCap = 1 OutCap = 1 PtyCap = 1 MaxFaults = 1
INVARIANTS OutputIsComplete ReportIsTrue
PROPERTIES TerminalsLetGo CommandReturns
CHECK_DEADLOCK FALSE
