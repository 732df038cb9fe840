SPECIFICATION Spec
CONSTANTS
    PageJump = 2
    Configs <- MCConfigs
    Heights = {1, 3, 4, 5}
    Command = {ls, pwd, make}
    Matches <- MCMatches
    ls = ls
    pwd = pwd
    make = make
INVARIANTS RowsPartition ScreenAsFresh
CHECK_DEADLOCK FALSE
