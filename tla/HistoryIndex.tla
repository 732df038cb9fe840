----------------------------- MODULE HistoryIndex -----------------------------
(***************************************************************************)
(* prioritized_history_create of hstr_history.c: the shell's history list  *)
(* is read once, oldest line first, and becomes the two arrays every view  *)
(* of hstr is made of: items, the distinct commands by rank, and rawItems, *)
(* all commands with the newest first.                                     *)
(*                                                                         *)
(* A command's rank grows with every occurrence, by its length and by the  *)
(* logarithm of the occurrence's position.  rankmap holds the rank, the    *)
(* radix sorter the order; a command seen again is cut from the sorter and *)
(* filed again under its new rank.                                         *)
(***************************************************************************)
EXTENDS Integers, FiniteSets, Sequences, SequencesExt, HistoryItems

CONSTANTS
    Command,     \* the commands of the history, the blacklisted ones included
    Blacklist,   \* the commands of the blacklist
    Timestamp,   \* what stands for a HISTTIMEFORMAT line "#1234567890"
    MaxLength,   \* bound: the lines of the history
    Length,      \* strlen of each command
    LogOrder,    \* log(order)*10 of the positions 1 .. MaxLength-1, cut to an integer
    SlotSize, KeyLimit   \* of the sorter

ASSUME CommandAssumption   == IsFiniteSet(Command)
ASSUME BlacklistAssumption == Blacklist \subseteq Command
ASSUME TimestampAssumption == Timestamp \notin Command
ASSUME MaxLengthAssumption == MaxLength \in Nat
ASSUME LengthAssumption    == Length \in [Command -> Nat]
ASSUME LogOrderAssumption  == LogOrder \in [1 .. MaxLength -> Nat]
\* radixMaxKeyEstimate is a multiple of 1000, which is RADIX_SLOT_SIZE.
ASSUME LimitAssumption ==
    /\ SlotSize \in Nat \ {0} /\ KeyLimit \in Nat
    /\ KeyLimit >= SlotSize /\ KeyLimit % SlotSize = 0

VARIABLES
    historyList,     \* the lines readline has loaded
    i,               \* the line the loop is at, from 0
    rankmap,         \* the rank of every command met so far
    rawHistory,      \* the commands by position, newest at 0; NULL for a timestamp
    rawTimestamps,
    phase,           \* "rank", "readd", "dump" or "done"
    \* the RadixSorter
    optionBigKeys, topDigits, slots, descriptors, key, size, maxKey, fault,
    pc, t, l, slotCount, result

sorter == <<optionBigKeys, topDigits, slots, descriptors, key, size, maxKey, fault,
            pc, t, l, slotCount, result>>
vars   == <<historyList, i, rankmap, rawHistory, rawTimestamps, phase, sorter>>

Sorter == INSTANCE RadixSort WITH Item <- Command, Keys <- Nat

NULL == "NULL"

ASSUME NullAssumption == NULL \notin Command

Length0 == Len(historyList)
Line    == historyList[i + 1]

Init ==
    /\ historyList \in BoundedSeq(Command \cup {Timestamp}, MaxLength) \ {<<>>}
    /\ i = 0
    /\ rankmap = [c \in {} |-> 0]
    /\ rawHistory = [n \in 0 .. Length0 - 1 |-> NULL]
    /\ rawTimestamps = 0
    /\ phase = "rank"
    /\ Sorter!Init

-----------------------------------------------------------------------------
\* history_ranking_function.  log(0) is minus infinity, which comes out of
\* the conversion to long and unsigned as 0, whatever it was added to.
Rank_Minus(rank, order, c) ==
    IF order = 0 THEN -1 ELSE rank + LogOrder[order] + Length[c]
Rank_ForgetsOld(rank, order, c) ==
    IF order = 0 THEN 0 ELSE LogOrder[order] + Length[c]
Rank(rank, order, c) ==
    IF order = 0 THEN 0 ELSE rank + LogOrder[order] + Length[c]

\* radixsort_add, which may also skip the item or exit.
SorterAdd(c, k) == Sorter!AddFiled(c, k) \/ Sorter!AddRefused(c, k)

Reading == phase = "rank" /\ i < Length0 /\ fault = "none"

\* The line in rawHistory, its counterpart from the end.
Recorded(line) == rawHistory' = [rawHistory EXCEPT ![Length0 - 1 - i] = line]

ReadTimestamp ==
    /\ Reading /\ Line = Timestamp
    /\ Recorded(NULL)
    /\ rawTimestamps' = rawTimestamps + 1
    /\ i' = i + 1
    /\ UNCHANGED <<historyList, rankmap, phase, sorter>>

ReadBlacklisted ==
    /\ Reading /\ Line \in Blacklist
    /\ Recorded(Line)
    /\ i' = i + 1
    /\ UNCHANGED <<historyList, rankmap, rawTimestamps, phase, sorter>>

\* The first occurrence of a command is ranked and filed.
ReadNew ==
    /\ Reading /\ Line \in Command \ Blacklist
    /\ Line \notin DOMAIN rankmap
    /\ Recorded(Line)
    /\ rankmap' = [c \in DOMAIN rankmap \cup {Line} |->
                      IF c = Line THEN Rank(0, i, Line) ELSE rankmap[c]]
    /\ SorterAdd(Line, Rank(0, i, Line))
    /\ i' = i + 1
    /\ UNCHANGED <<historyList, rawTimestamps, phase>>

\* r->rank of a command seen before.
Reranked_Stale(c, rank) == rankmap
Reranked(c, rank) == [rankmap EXCEPT ![c] = rank]

\* A command seen before is cut from the sorter by its rank ...
ReadSeen ==
    /\ Reading /\ Line \in DOMAIN rankmap
    /\ Recorded(Line)
    /\ Sorter!CutFound(Line, rankmap[Line])
    /\ phase' = "readd"
    /\ UNCHANGED <<historyList, i, rankmap, rawTimestamps>>

\* ... and filed again under the rank it has now.
ReAdd ==
    /\ phase = "readd" /\ fault = "none"
    /\ LET rank == Rank(rankmap[Line], i, Line)
       IN  /\ rankmap' = Reranked(Line, rank)
           /\ SorterAdd(Line, rank)
    /\ i' = i + 1
    /\ phase' = "rank"
    /\ UNCHANGED <<historyList, rawHistory, rawTimestamps>>

\* radix_cut returns NULL: the file defines NDEBUG, so that assert(radixItem)
\* is not compiled, and the occurrence is passed over.
ReadLost ==
    /\ Reading /\ Line \in DOMAIN rankmap
    /\ Recorded(Line)
    /\ Sorter!CutMissed(Line, rankmap[Line])
    /\ i' = i + 1
    /\ UNCHANGED <<historyList, rankmap, rawTimestamps, phase>>

\* rawHistory without its NULLs, moved down in place.
Compacted_Overlapping(raw) ==
    [n \in DOMAIN raw |->
        IF raw[n] = NULL /\ n + 1 \in DOMAIN raw THEN raw[n + 1] ELSE raw[n]]
Compacted(raw) ==
    LET Kept      == {n \in DOMAIN raw : raw[n] # NULL}
        Source(n) == CHOOSE m \in Kept : Cardinality({k \in Kept : k < m}) = n
    IN  [n \in DOMAIN raw |-> IF n < Cardinality(Kept) THEN raw[Source(n)] ELSE raw[n]]

Compact ==
    /\ phase = "rank" /\ i = Length0 /\ fault = "none"
    /\ rawHistory' = IF rawTimestamps > 0 THEN Compacted(rawHistory) ELSE rawHistory
    /\ phase' = "dump"
    /\ UNCHANGED <<historyList, i, rankmap, rawTimestamps, sorter>>

Dump ==
    /\ phase = "dump"
    /\ Sorter!Dump
    /\ phase' = IF pc' = "done" THEN "done" ELSE phase
    /\ UNCHANGED <<historyList, i, rankmap, rawHistory, rawTimestamps>>

Next ==
    \/ ReadTimestamp \/ ReadBlacklisted \/ ReadNew \/ ReadSeen \/ ReAdd \/ ReadLost
    \/ Compact \/ Dump

\* The index is made in one thread that is never made to wait.
Spec == Init /\ [][Next]_vars /\ WF_vars(Next)

-----------------------------------------------------------------------------
\* What prioritized_history_create returns.
items    == result
rawCount == Length0 - rawTimestamps

\* The types: a rank is never negative, as radixsort.c takes it for unsigned.
TypeOK ==
    /\ i \in 0 .. Length0
    /\ DOMAIN rankmap \subseteq Command \ Blacklist
    /\ \A c \in DOMAIN rankmap : rankmap[c] \in Nat
    /\ rawHistory \in [0 .. Length0 - 1 -> Command \cup {NULL}]
    /\ rawTimestamps \in 0 .. Length0
    /\ phase \in {"rank", "readd", "dump", "done"}

\* The positions a command has in the history, and the rank they add up to:
\* the definition the loop over the lines must agree with.
Occurrences(c) == {n \in 0 .. Length0 - 1 : historyList[n + 1] = c}
RankOf(c) ==
    LET Points(n) == IF n = 0 THEN 0 ELSE LogOrder[n] + Length[c]
        Add(sum, m) == IF historyList[m] = c THEN sum + Points(m - 1) ELSE sum
    IN  FoldLeftDomain(Add, 0, historyList)

Ranked == (ToSet(historyList) \cap Command) \ Blacklist

\* Every distinct command that is not blacklisted, once.  Only big keys may cost
\* the view a command, and only when they are skipped.
RankedComplete ==
    /\ IsInjective(items)
    /\ ToSet(items) = {c \in Ranked : RankOf(c) <= KeyLimit \/ optionBigKeys = "floor"}

\* The order of the ranks, and of two commands of one rank the one used last
\* comes first.
RankedOrder ==
    \A m, n \in DOMAIN items :
        (m < n /\ RankOf(items[m]) < KeyLimit /\ RankOf(items[n]) < KeyLimit) =>
            \/ RankOf(items[m]) > RankOf(items[n])
            \/ /\ RankOf(items[m]) = RankOf(items[n])
               /\ Max(Occurrences(items[m])) > Max(Occurrences(items[n]))

\* What the ranking view offers is what the metrics of hstr_history.c:42 say,
\* whatever the order in which the lines came and moved a command up.
RankingCorrect == phase = "done" => RankedComplete /\ RankedOrder

\* The raw view is the history backwards: no timestamp, every command, the
\* blacklisted too, and the moves within rawHistory overwrite none.
RawIsHistoryReversed ==
    phase = "done" =>
        [n \in 1 .. rawCount |-> rawHistory[n - 1]] =
            Reverse(Without(historyList, Timestamp))

\* rankmap and sorter agree on every command between two lines, which is why
\* radix_cut finds what rankmap says is there.  A rank over the limit breaks it.
FiledUnderRank ==
    phase = "rank" /\ fault = "none" =>
        \A c \in DOMAIN rankmap :
            rankmap[c] <= KeyLimit => c \in Sorter!Filed /\ key[c] = rankmap[c]

\* The chains are never walked through a NULL, though radix_cut tests no
\* chain, and only a rank equal to the limit takes the sorter out of topDigits.
FaultOnlyAtLimit ==
    /\ fault # "null"
    /\ fault = "overrun" => \E c \in DOMAIN rankmap : rankmap[c] = KeyLimit

\* While no rank reaches the limit, the index is always made.
Completes == (\A c \in Ranked : RankOf(c) < KeyLimit) => <>(phase = "done")
=============================================================================
