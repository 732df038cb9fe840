SPECIFICATION Spec
CONSTANTS
    ls = ls
    zls = zls
    make = make
    stamp = stamp
    Line = {ls, zls, make, stamp}
    Timestamp = {stamp}
    ParseHistoryLine <- MCParse
    Blacklist = {make}
    SIGINT = SIGINT
    SIGQUIT = SIGQUIT
    Signum = {SIGINT, SIGQUIT}
    AppendedLine = {ls}
    HistoryFiles <- MCHistoryFiles
    MaxAppends = 1
INVARIANTS TabLetsEdit
CHECK_DEADLOCK FALSE
