SPECIFICATION Spec
CONSTANTS
    ls = ls
    make = make
    secret = secret
    Command = {ls, make, secret}
    Blacklist = {secret}
    Timestamp = Timestamp
    MaxLength = 5
    Length <- MCLength
    LogOrder <- MCLogOrder
    SlotSize = 5
    KeyLimit = 20
INVARIANTS TypeOK RankingCorrect RawIsHistoryReversed FiledUnderRank FaultOnlyAtLimit
PROPERTIES Completes
CHECK_DEADLOCK FALSE
