------------------------ MODULE HistoryManagementProofs ------------------------
(***************************************************************************)
(* The theorems about deletions and about what the shell is told, for      *)
(* every history file, every command and every sequence of keys, signals   *)
(* and appends. First what the loop over readline's list removes, line by  *)
(* line, then the invariant: what hstr, the file and the terminal hold     *)
(* while hstr runs, while the chosen command is handed over and while it   *)
(* ends.                                                                   *)
(***************************************************************************)
EXTENDS HistoryManagement, OperatorProofs

-----------------------------------------------------------------------------
\* CommandOf, Says, Commands and the loop of history_mgmt_remove_from_system_history
\* (Swept), with the shell, which never changes, as a parameter.
CommandIn(z, line) == ParseHistoryLine[z][line]
SaysIn(z, line, cmd) == line \notin Timestamp /\ CommandIn(z, line) = cmd
CommandsIn(z, list) ==
    LET Add(cmds, line) == IF line \in Timestamp THEN cmds ELSE Append(cmds, CommandIn(z, line))
    IN  FoldLeft(Add, <<>>, list)
TurnIn(z, cmd, s) ==
    LET n == s.offset
    IN  IF n = 0 THEN s
        ELSE IF ~SaysIn(z, s.list[n], cmd) THEN [s EXCEPT !.offset = n - 1]
        ELSE IF n > 1 /\ s.list[n - 1] \in Timestamp
             THEN [list |-> RemoveAt(RemoveAt(s.list, n), n - 1), offset |-> n - 2]
             ELSE [list |-> RemoveAt(s.list, n), offset |-> n - 1]
SweptIn(z, cmd, list) ==
    LET Turn(s, entry) == TurnIn(z, cmd, s)
    IN  FoldLeft(Turn, [list |-> list, offset |-> Len(list)], list).list

\* They are the same.
LEMMA Parameterised ==
    /\ \A list : Commands(list) = CommandsIn(isZsh, list)
    /\ \A cmd, list : Swept(cmd, list) = SweptIn(isZsh, cmd, list)
<1>1. \A list : Commands(list) = CommandsIn(isZsh, list)
  BY DEF Commands, CommandsIn, CommandOf, CommandIn, FoldLeft, MapThenFoldSet
<1>2. \A cmd, list : Swept(cmd, list) = SweptIn(isZsh, cmd, list)
  BY DEF Swept, SweptIn, SweepTurn, TurnIn, Says, SaysIn, CommandOf, CommandIn, FoldLeft, MapThenFoldSet
<1> QED BY <1>1, <1>2

\* parse_history_line of a line that is no timestamp is a command.
LEMMA CommandInType ==
    ASSUME NEW z \in BOOLEAN, NEW line \in Line, line \notin Timestamp
    PROVE  CommandIn(z, line) \in Command
<1>1. ParseHistoryLine[z] \in [Line \ Timestamp -> Command]
  BY ParseAssumption
<1> QED BY <1>1 DEF CommandIn

\* What it is for F to have the commands of the first lines of the list ...
IsCommands(F, z, list) ==
    /\ F \in [0 .. Len(list) -> Seq(Command)]
    /\ F[0] = <<>>
    /\ \A k \in 1 .. Len(list) :
          F[k] = IF list[k] \in Timestamp THEN F[k - 1] ELSE Append(F[k - 1], CommandIn(z, list[k]))
    /\ CommandsIn(z, list) = F[Len(list)]

\* ... and there is such an F.
LEMMA CommandsSteps ==
    ASSUME NEW z \in BOOLEAN, NEW list \in Seq(Line)
    PROVE  \E F : IsCommands(F, z, list)
<1> DEFINE n == Len(list)
           T == Seq(Command)
           op(s, m) == IF list[m] \in Timestamp THEN s ELSE Append(s, CommandIn(z, list[m]))
           step == [a \in T \X (1 .. n) |-> op(a[1], a[2])]
<1>1. n \in Nat /\ DOMAIN list = 1 .. n /\ \A m \in 1 .. n : list[m] \in Line
  OBVIOUS
<1>0. ASSUME NEW s \in T, NEW m \in 1 .. n PROVE op(s, m) \in T
  <2>1. list[m] \notin Timestamp => CommandIn(z, list[m]) \in Command
    BY <1>1, CommandInType
  <2> QED BY <2>1
<1>2. <<>> \in T /\ step \in Steps(n, T)
  <2>1. <<>> \in T
    OBVIOUS
  <2> HIDE DEF op, T, n
  <2> QED BY <1>0, <2>1 DEF Steps
<1>3. PICK g \in [SUBSET (1 .. n) -> T] :
          \A s \in SUBSET (1 .. n) :
             g[s] = IF s = {} THEN <<>> ELSE step[<<g[s \ {Max(s)}], Max(s)>>]
  <2>1. \E g : IsFold(g, n, T, <<>>, step)
    <3> HIDE DEF step, n, T
    <3> QED BY <1>1, <1>2, FoldExists
  <2> HIDE DEF T, step
  <2> QED BY <2>1 DEF IsFold
<1> DEFINE Is(h) == h = [s \in SUBSET (1 .. n) |-> IF s = {} THEN <<>> ELSE op(h[s \ {Max(s)}], Max(s))]
           iter == CHOOSE h : Is(h)
<1>4. Is(g)
  <2>1. ASSUME NEW s \in SUBSET (1 .. n), s # {}
        PROVE  step[<<g[s \ {Max(s)}], Max(s)>>] = op(g[s \ {Max(s)}], Max(s))
    <3>1. Max(s) \in 1 .. n /\ g[s \ {Max(s)}] \in T
      <4> HIDE DEF T
      <4> QED BY <1>1, <2>1, MaxIsInside
    <3> HIDE DEF op, T
    <3> QED BY <3>1
  <2> HIDE DEF step, op, T
  <2> QED BY <1>3, <2>1
<1>5. Is(iter)
  <2> HIDE DEF Is
  <2> QED BY <1>4
<1>6. CommandsIn(z, list) = iter[1 .. n]
  BY <1>1 DEF CommandsIn, FoldLeft, MapThenFoldSet
<1> DEFINE F == [k \in 0 .. n |-> iter[1 .. k]]
<1> HIDE DEF iter
<1>7. F[0] = <<>>
  <2> HIDE DEF op, T
  <2> QED BY <1>1, <1>5
<1>8. ASSUME NEW k \in 1 .. n PROVE F[k] = op(F[k - 1], k)
  <2>1. /\ 1 .. k \in SUBSET (1 .. n) /\ 1 .. k # {}
        /\ (1 .. k) \ {Max(1 .. k)} = 1 .. k - 1 /\ Max(1 .. k) = k
    BY <1>1, InitialSegments
  <2>2. iter[1 .. k] = op(iter[(1 .. k) \ {Max(1 .. k)}], Max(1 .. k))
    <3> HIDE DEF op
    <3> QED BY <1>5, <2>1
  <2>3. iter[1 .. k] = op(iter[1 .. k - 1], k)
    <3> HIDE DEF op
    <3> QED BY <2>1, <2>2
  <2> HIDE DEF op
  <2> QED BY <2>3
<1>9. \A k \in 0 .. n : F[k] \in T
  <2> HIDE DEF F
  <2>1. ASSUME NEW k \in 1 .. n, F[k - 1] \in T PROVE F[k] \in T
    <3> HIDE DEF op, T
    <3> QED BY <1>0, <1>8, <2>1
  <2> HIDE DEF n, T
  <2> QED BY <1>1, <1>2, <1>7, <2>1, FoldInduction
<1>10. F \in [0 .. n -> T] /\ CommandsIn(z, list) = F[n]
  <2> HIDE DEF T
  <2> QED BY <1>1, <1>6, <1>9
<1> HIDE DEF F
<1> QED BY <1>7, <1>8, <1>10 DEF IsCommands

\* What the loop has: the list as it is, and an offset within it.
SweepState == {s \in [list : Seq(Line), offset : Nat] : s.offset <= Len(s.list)}

\* A turn of the loop goes on to the front, and the list stays or is made shorter.
LEMMA TurnType ==
    ASSUME NEW z, NEW cmd, NEW s \in SweepState
    PROVE  /\ TurnIn(z, cmd, s) \in SweepState
           /\ s.offset > 0 => TurnIn(z, cmd, s).offset < s.offset
           /\ Len(TurnIn(z, cmd, s).list) <= Len(s.list)
           /\ Len(TurnIn(z, cmd, s).list) = Len(s.list) => TurnIn(z, cmd, s).list = s.list
<1> DEFINE n == s.offset
           one == RemoveAt(s.list, n)
           two == RemoveAt(one, n - 1)
<1>1. s \in [list : Seq(Line), offset : Nat] /\ n \in Nat /\ s.list \in Seq(Line) /\ n <= Len(s.list)
      /\ Len(s.list) \in Nat
  BY DEF SweepState
<1>2. CASE n = 0
  BY <1>1, <1>2 DEF TurnIn
<1>3. CASE n # 0 /\ ~SaysIn(z, s.list[n], cmd)
  <2>1. TurnIn(z, cmd, s) = [s EXCEPT !.offset = n - 1]
    BY <1>3 DEF TurnIn
  <2>2. /\ TurnIn(z, cmd, s) \in [list : Seq(Line), offset : Nat]
        /\ TurnIn(z, cmd, s).list = s.list /\ TurnIn(z, cmd, s).offset = n - 1
    BY <1>1, <1>3, <2>1
  <2> QED BY <1>1, <1>3, <2>2 DEF SweepState
<1>4. CASE n # 0 /\ SaysIn(z, s.list[n], cmd)
  <2>1. one \in Seq(Line) /\ Len(one) = Len(s.list) - 1
    <3>1. n \in 1 .. Len(s.list)
      BY <1>1, <1>4
    <3> QED BY <1>1, <3>1, RemoveAtProperties
  <2>2. n > 1 => two \in Seq(Line) /\ Len(two) = Len(s.list) - 2
    <3>1. n > 1 => n - 1 \in 1 .. Len(one)
      BY <1>1, <2>1
    <3> HIDE DEF one
    <3>2. n > 1 => two \in Seq(Line) /\ Len(two) = Len(one) - 1
      BY <2>1, <3>1, RemoveAtProperties
    <3> QED BY <1>1, <2>1, <3>2
  <2> HIDE DEF one, two
  <2>3. CASE n > 1 /\ s.list[n - 1] \in Timestamp
    <3>1. TurnIn(z, cmd, s) = [list |-> two, offset |-> n - 2]
      BY <1>4, <2>3 DEF TurnIn, one, two
    <3> QED BY <1>1, <2>2, <2>3, <3>1 DEF SweepState
  <2>4. CASE ~(n > 1 /\ s.list[n - 1] \in Timestamp)
    <3>1. TurnIn(z, cmd, s) = [list |-> one, offset |-> n - 1]
      BY <1>4, <2>4 DEF TurnIn, one
    <3> QED BY <1>1, <1>4, <2>1, <3>1 DEF SweepState
  <2> QED BY <2>3, <2>4
<1> QED BY <1>2, <1>3, <1>4

\* What it is for F to have the list and the offset after the first turns ...
IsSwept(F, z, cmd, list) ==
    /\ F \in [0 .. Len(list) -> SweepState]
    /\ F[0] = [list |-> list, offset |-> Len(list)]
    /\ \A k \in 1 .. Len(list) : F[k] = TurnIn(z, cmd, F[k - 1])
    /\ SweptIn(z, cmd, list) = F[Len(list)].list

\* ... and there is such an F.
LEMMA SweptSteps ==
    ASSUME NEW z, NEW cmd, NEW list \in Seq(Line)
    PROVE  \E F : IsSwept(F, z, cmd, list)
<1> DEFINE n == Len(list)
           T == SweepState
           op(s, m) == TurnIn(z, cmd, s)
           step == [a \in T \X (1 .. n) |-> op(a[1], a[2])]
<1>1. n \in Nat /\ DOMAIN list = 1 .. n /\ \A m \in 1 .. n : list[m] \in Line
  OBVIOUS
<1>0. ASSUME NEW s \in T, NEW m \in 1 .. n PROVE op(s, m) \in T
  BY TurnType
<1>2. [list |-> list, offset |-> Len(list)] \in T /\ step \in Steps(n, T)
  <2>1. [list |-> list, offset |-> Len(list)] \in T
    BY <1>1 DEF SweepState
  <2> HIDE DEF op, T, n
  <2> QED BY <1>0, <2>1 DEF Steps
<1>3. PICK g \in [SUBSET (1 .. n) -> T] :
          \A s \in SUBSET (1 .. n) :
             g[s] = IF s = {} THEN [list |-> list, offset |-> Len(list)] ELSE step[<<g[s \ {Max(s)}], Max(s)>>]
  <2>1. \E g : IsFold(g, n, T, [list |-> list, offset |-> Len(list)], step)
    <3> HIDE DEF step, n, T
    <3> QED BY <1>1, <1>2, FoldExists
  <2> HIDE DEF T, step
  <2> QED BY <2>1 DEF IsFold
<1> DEFINE Is(h) == h = [s \in SUBSET (1 .. n) |-> IF s = {} THEN [list |-> list, offset |-> Len(list)] ELSE op(h[s \ {Max(s)}], Max(s))]
           iter == CHOOSE h : Is(h)
<1>4. Is(g)
  <2>1. ASSUME NEW s \in SUBSET (1 .. n), s # {}
        PROVE  step[<<g[s \ {Max(s)}], Max(s)>>] = op(g[s \ {Max(s)}], Max(s))
    <3>1. Max(s) \in 1 .. n /\ g[s \ {Max(s)}] \in T
      <4> HIDE DEF T
      <4> QED BY <1>1, <2>1, MaxIsInside
    <3> HIDE DEF op, T
    <3> QED BY <3>1
  <2> HIDE DEF step, op, T
  <2> QED BY <1>3, <2>1
<1>5. Is(iter)
  <2> HIDE DEF Is
  <2> QED BY <1>4
<1>6. SweptIn(z, cmd, list) = iter[1 .. n].list
  BY <1>1 DEF SweptIn, FoldLeft, MapThenFoldSet
<1> DEFINE F == [k \in 0 .. n |-> iter[1 .. k]]
<1> HIDE DEF iter
<1>7. F[0] = [list |-> list, offset |-> Len(list)]
  <2> HIDE DEF op, T
  <2> QED BY <1>1, <1>5
<1>8. ASSUME NEW k \in 1 .. n PROVE F[k] = op(F[k - 1], k)
  <2>1. /\ 1 .. k \in SUBSET (1 .. n) /\ 1 .. k # {}
        /\ (1 .. k) \ {Max(1 .. k)} = 1 .. k - 1 /\ Max(1 .. k) = k
    BY <1>1, InitialSegments
  <2>2. iter[1 .. k] = op(iter[(1 .. k) \ {Max(1 .. k)}], Max(1 .. k))
    <3> HIDE DEF op
    <3> QED BY <1>5, <2>1
  <2>3. iter[1 .. k] = op(iter[1 .. k - 1], k)
    <3> HIDE DEF op
    <3> QED BY <2>1, <2>2
  <2> HIDE DEF op
  <2> QED BY <2>3
<1>9. \A k \in 0 .. n : F[k] \in T
  <2> HIDE DEF F
  <2>1. ASSUME NEW k \in 1 .. n, F[k - 1] \in T PROVE F[k] \in T
    <3> HIDE DEF op, T
    <3> QED BY <1>0, <1>8, <2>1
  <2> HIDE DEF n, T
  <2> QED BY <1>1, <1>2, <1>7, <2>1, FoldInduction
<1>10. F \in [0 .. n -> T] /\ SweptIn(z, cmd, list) = F[n].list
  <2> HIDE DEF T
  <2> QED BY <1>1, <1>6, <1>9
<1> HIDE DEF F
<1> QED BY <1>7, <1>8, <1>10 DEF IsSwept

\* Lines that have no command, or the one that is deleted, are nothing to the views.
Gone(z, line, cmd) == line \in Timestamp \/ CommandIn(z, line) = cmd

\* What it is for W to have the commands of the first lines, without the deleted one ...
IsPurged(W, z, cmd, list) ==
    /\ W \in [0 .. Len(list) -> Seq(Command)]
    /\ W[0] = <<>>
    /\ \A k \in 1 .. Len(list) :
          W[k] = IF Gone(z, list[k], cmd) THEN W[k - 1] ELSE Append(W[k - 1], CommandIn(z, list[k]))
    /\ Without(CommandsIn(z, list), cmd) = W[Len(list)]

\* ... and there is such a W.
LEMMA PurgedSteps ==
    ASSUME NEW z \in BOOLEAN, NEW cmd, NEW list \in Seq(Line)
    PROVE  \E W : IsPurged(W, z, cmd, list)
<1> DEFINE n == Len(list)
<1>1. n \in Nat /\ \A k \in 1 .. n : list[k] \in Line
  OBVIOUS
<1>2. PICK F : IsCommands(F, z, list)
  BY CommandsSteps
<1>3. /\ \A k \in 0 .. n : F[k] \in Seq(Command)
      /\ F[0] = <<>> /\ CommandsIn(z, list) = F[n]
  BY <1>2 DEF IsCommands
<1> DEFINE W == [k \in 0 .. n |-> Without(F[k], cmd)]
<1>4. W \in [0 .. n -> Seq(Command)]
  <2>1. \A k \in 0 .. n : Without(F[k], cmd) \in Seq(Command)
    BY <1>3, WithoutProperties
  <2> QED BY <2>1
<1>5. W[0] = <<>>
  <2>1. <<>> \in Seq(Command) /\ Len(<<>>) = 0
    OBVIOUS
  <2>2. Without(<<>>, cmd) \in Seq(Command) /\ Len(Without(<<>>, cmd)) <= Len(<<>>)
    BY <2>1, WithoutProperties
  <2>3. Without(<<>>, cmd) = <<>>
    BY <2>1, <2>2
  <2> QED BY <1>1, <1>3, <2>3
<1>6. ASSUME NEW k \in 1 .. n
      PROVE  W[k] = IF Gone(z, list[k], cmd) THEN W[k - 1] ELSE Append(W[k - 1], CommandIn(z, list[k]))
  <2>1. k - 1 \in 0 .. n /\ k \in 0 .. n /\ F[k - 1] \in Seq(Command)
    BY <1>1, <1>3
  <2>2. W[k] = Without(F[k], cmd) /\ W[k - 1] = Without(F[k - 1], cmd)
    BY <2>1
  <2>3. F[k] = IF list[k] \in Timestamp THEN F[k - 1] ELSE Append(F[k - 1], CommandIn(z, list[k]))
    BY <1>2 DEF IsCommands
  <2> HIDE DEF W
  <2>4. CASE list[k] \in Timestamp
    BY <2>2, <2>3, <2>4 DEF Gone
  <2>5. CASE list[k] \notin Timestamp
    <3> DEFINE item == CommandIn(z, list[k])
               cmds == F[k - 1]
    <3>1. item \in Command
      BY <1>1, <2>5, CommandInType
    <3>2. F[k] = Append(cmds, item) /\ cmds \in Seq(Command)
      BY <2>1, <2>3, <2>5
    <3>3. Gone(z, list[k], cmd) <=> item = cmd
      BY <2>5 DEF Gone
    <3> HIDE DEF item
    <3>4. Without(Append(cmds, item), cmd)
             = IF item # cmd THEN Append(Without(cmds, cmd), item) ELSE Without(cmds, cmd)
      <4> HIDE DEF cmds
      <4> QED BY <3>1, <3>2, WithoutAppend
    <3> QED BY <2>2, <3>2, <3>3, <3>4 DEF item
  <2> QED BY <2>4, <2>5
<1>7. n \in 0 .. n /\ Without(CommandsIn(z, list), cmd) = W[n]
  BY <1>1, <1>3
<1> HIDE DEF W
<1> QED BY <1>4, <1>5, <1>6, <1>7 DEF IsPurged

\* Taking out a line that says the command, or a timestamp, leaves the other commands.
LEMMA GoneLeavesRest ==
    ASSUME NEW z \in BOOLEAN, NEW cmd, NEW list \in Seq(Line), NEW p \in 1 .. Len(list),
           Gone(z, list[p], cmd)
    PROVE  Without(CommandsIn(z, RemoveAt(list, p)), cmd) = Without(CommandsIn(z, list), cmd)
<1> DEFINE n == Len(list) - 1
           rest == RemoveAt(list, p)
<1>1. /\ n \in Nat /\ Len(list) = n + 1 /\ p \in 1 .. n + 1
      /\ rest \in Seq(Line) /\ Len(rest) = n
      /\ \A k \in 1 .. n : rest[k] = IF k < p THEN list[k] ELSE list[k + 1]
  <2>1. Len(list) \in Nat /\ n \in Nat /\ Len(list) = n + 1
    OBVIOUS
  <2>2. /\ rest \in Seq(Line) /\ Len(rest) = Len(list) - 1
        /\ \A k \in 1 .. Len(list) - 1 : rest[k] = IF k < p THEN list[k] ELSE list[k + 1]
    <3> HIDE DEF n
    <3> QED BY RemoveAtProperties
  <2> HIDE DEF rest
  <2> QED BY <2>1, <2>2
<1> HIDE DEF n, rest
<1>2. PICK W : IsPurged(W, z, cmd, list)
  BY PurgedSteps
<1>3. PICK E : IsPurged(E, z, cmd, rest)
  BY <1>1, PurgedSteps
<1> DEFINE V == [k \in 0 .. n |-> W[IF k < p THEN k ELSE k + 1]]
<1>4. V[0] = E[0]
  BY <1>1, <1>2, <1>3 DEF IsPurged
<1>5. W[p] = W[p - 1]
  BY <1>2 DEF IsPurged
<1>6. ASSUME NEW k \in 1 .. n, V[k - 1] = E[k - 1] PROVE V[k] = E[k]
  <2>1. k \in 0 .. n /\ k - 1 \in 0 .. n
    BY <1>1
  <2>2. E[k] = IF Gone(z, rest[k], cmd) THEN E[k - 1] ELSE Append(E[k - 1], CommandIn(z, rest[k]))
    BY <1>1, <1>3 DEF IsPurged
  <2>3. CASE k < p
    <3>1. V[k] = W[k] /\ V[k - 1] = W[k - 1] /\ rest[k] = list[k] /\ k \in 1 .. Len(list)
      BY <1>1, <2>1, <2>3
    <3>2. W[k] = IF Gone(z, list[k], cmd) THEN W[k - 1] ELSE Append(W[k - 1], CommandIn(z, list[k]))
      BY <1>2, <3>1 DEF IsPurged
    <3> HIDE DEF V
    <3> QED BY <1>6, <2>2, <3>1, <3>2
  <2>4. CASE ~(k < p)
    <3>1. V[k] = W[k + 1] /\ rest[k] = list[k + 1] /\ k + 1 \in 1 .. Len(list) /\ (k + 1) - 1 = k
      BY <1>1, <2>1, <2>4
    <3>2. V[k - 1] = W[k]
      <4>1. CASE k - 1 < p
        <5>1. k = p /\ V[k - 1] = W[k - 1]
          BY <1>1, <2>1, <2>4, <4>1
        <5> HIDE DEF V
        <5> QED BY <1>5, <5>1
      <4>2. CASE ~(k - 1 < p)
        <5>1. (k - 1) + 1 = k
          OBVIOUS
        <5> QED BY <2>1, <4>2, <5>1
      <4> QED BY <4>1, <4>2
    <3>3. W[k + 1] = IF Gone(z, list[k + 1], cmd) THEN W[k] ELSE Append(W[k], CommandIn(z, list[k + 1]))
      <4>1. W[k + 1] = IF Gone(z, list[k + 1], cmd) THEN W[(k + 1) - 1]
                       ELSE Append(W[(k + 1) - 1], CommandIn(z, list[k + 1]))
        BY <1>2, <3>1 DEF IsPurged
      <4> QED BY <3>1, <4>1
    <3> HIDE DEF V
    <3> QED BY <1>6, <2>2, <3>1, <3>2, <3>3
  <2> QED BY <2>3, <2>4
<1>7. V[n] = E[n]
  <2> HIDE DEF V
  <2> QED BY <1>1, <1>4, <1>6, SameSteps
<1>8. V[n] = W[n + 1]
  <2>1. CASE n < p
    <3>1. n + 1 = p /\ p - 1 = n /\ V[n] = W[n]
      BY <1>1, <2>1
    <3> HIDE DEF V
    <3> QED BY <1>5, <3>1
  <2>2. CASE ~(n < p)
    BY <1>1, <2>2
  <2> QED BY <2>1, <2>2
<1> HIDE DEF V
<1> QED BY <1>1, <1>2, <1>3, <1>7, <1>8 DEF IsPurged, rest

\* If no line says the command, deleting it from the commands changes nothing.
LEMMA NothingToDelete ==
    ASSUME NEW z \in BOOLEAN, NEW cmd, NEW list \in Seq(Line),
           \A k \in 1 .. Len(list) : ~SaysIn(z, list[k], cmd)
    PROVE  Without(CommandsIn(z, list), cmd) = CommandsIn(z, list)
<1> DEFINE n == Len(list)
<1>1. n \in Nat
  OBVIOUS
<1>2. PICK W : IsPurged(W, z, cmd, list)
  BY PurgedSteps
<1>3. PICK F : IsCommands(F, z, list)
  BY CommandsSteps
<1>4. W[0] = F[0]
  BY <1>2, <1>3 DEF IsPurged, IsCommands
<1>5. ASSUME NEW k \in 1 .. n, W[k - 1] = F[k - 1] PROVE W[k] = F[k]
  <2>1. Gone(z, list[k], cmd) <=> list[k] \in Timestamp
    BY DEF Gone, SaysIn
  <2>2. W[k] = IF Gone(z, list[k], cmd) THEN W[k - 1] ELSE Append(W[k - 1], CommandIn(z, list[k]))
    BY <1>2 DEF IsPurged
  <2>3. F[k] = IF list[k] \in Timestamp THEN F[k - 1] ELSE Append(F[k - 1], CommandIn(z, list[k]))
    BY <1>3 DEF IsCommands
  <2> QED BY <1>5, <2>1, <2>2, <2>3
<1>6. W[n] = F[n]
  <2> HIDE DEF n
  <2> QED BY <1>1, <1>4, <1>5, SameSteps
<1> QED BY <1>2, <1>3, <1>6 DEF IsPurged, IsCommands

\* No entry behind the offset says the command.
CleanBehind(z, cmd, s) == \A k \in s.offset + 1 .. Len(s.list) : ~SaysIn(z, s.list[k], cmd)

\* A turn of the loop takes no other command, and leaves none that says the command
\* behind the offset.
LEMMA TurnDeletes ==
    ASSUME NEW z \in BOOLEAN, NEW cmd, NEW s \in SweepState, CleanBehind(z, cmd, s)
    PROVE  LET turned == TurnIn(z, cmd, s)
           IN  /\ Without(CommandsIn(z, turned.list), cmd) = Without(CommandsIn(z, s.list), cmd)
               /\ CleanBehind(z, cmd, turned)
<1> DEFINE n == s.offset
           list == s.list
           one == RemoveAt(list, n)
           two == RemoveAt(one, n - 1)
           turned == TurnIn(z, cmd, s)
<1>1. s \in [list : Seq(Line), offset : Nat] /\ n \in Nat /\ list \in Seq(Line) /\ n <= Len(list)
      /\ Len(list) \in Nat
  BY DEF SweepState
<1>2. CASE n = 0
  BY <1>1, <1>2 DEF TurnIn
<1>3. CASE n # 0 /\ ~SaysIn(z, list[n], cmd)
  <2>1. turned = [s EXCEPT !.offset = n - 1]
    BY <1>3 DEF TurnIn
  <2>2. turned.list = list /\ turned.offset = n - 1
    BY <1>1, <1>3, <2>1
  <2>3. \A k \in n .. Len(list) : ~SaysIn(z, list[k], cmd)
    <3> SUFFICES ASSUME NEW k \in n .. Len(list) PROVE ~SaysIn(z, list[k], cmd)
      OBVIOUS
    <3>1. k = n \/ k \in n + 1 .. Len(list)
      BY <1>1
    <3> QED BY <1>3, <3>1 DEF CleanBehind
  <2>4. (n - 1) + 1 = n
    BY <1>1
  <2> HIDE DEF turned, n, list
  <2> QED BY <2>2, <2>3, <2>4 DEF CleanBehind, turned, list
<1>4. CASE n # 0 /\ SaysIn(z, list[n], cmd)
  <2>1. n \in 1 .. Len(list) /\ Gone(z, list[n], cmd)
    BY <1>1, <1>4 DEF Gone, SaysIn
  <2>2. /\ one \in Seq(Line) /\ Len(one) = Len(list) - 1
        /\ \A k \in 1 .. Len(list) - 1 : one[k] = IF k < n THEN list[k] ELSE list[k + 1]
    <3> HIDE DEF n, list
    <3> QED BY <1>1, <2>1, RemoveAtProperties
  <2>3. Without(CommandsIn(z, one), cmd) = Without(CommandsIn(z, list), cmd)
    <3> HIDE DEF n, list
    <3> QED BY <1>1, <2>1, GoneLeavesRest
  <2>4. \A k \in n .. Len(one) : ~SaysIn(z, one[k], cmd)
    <3> SUFFICES ASSUME NEW k \in n .. Len(one) PROVE ~SaysIn(z, one[k], cmd)
      OBVIOUS
    <3>1. k \in 1 .. Len(list) - 1 /\ ~(k < n) /\ k + 1 \in n + 1 .. Len(list)
      <4> HIDE DEF one
      <4> QED BY <1>1, <2>1, <2>2
    <3>2. one[k] = list[k + 1]
      <4> HIDE DEF one
      <4> QED BY <2>2, <3>1
    <3>3. ~SaysIn(z, list[k + 1], cmd)
      BY <3>1 DEF CleanBehind
    <3> QED BY <3>2, <3>3
  <2>5. CASE n > 1 /\ list[n - 1] \in Timestamp
    <3>1. turned = [list |-> two, offset |-> n - 2]
      BY <1>4, <2>5 DEF TurnIn
    <3>2. n - 1 \in 1 .. Len(one) /\ Gone(z, one[n - 1], cmd)
      <4>1. n - 1 \in 1 .. Len(list) - 1 /\ n - 1 < n
        BY <1>1, <2>1, <2>5
      <4>2. one[n - 1] = list[n - 1]
        <5> HIDE DEF one
        <5> QED BY <2>2, <4>1
      <4> HIDE DEF one
      <4> QED BY <2>2, <2>5, <4>1, <4>2 DEF Gone
    <3>3. /\ two \in Seq(Line) /\ Len(two) = Len(one) - 1
          /\ \A k \in 1 .. Len(one) - 1 : two[k] = IF k < n - 1 THEN one[k] ELSE one[k + 1]
      <4> HIDE DEF one, n
      <4> QED BY <2>2, <3>2, RemoveAtProperties
    <3>4. Without(CommandsIn(z, two), cmd) = Without(CommandsIn(z, one), cmd)
      <4> HIDE DEF one, n
      <4> QED BY <2>2, <3>2, GoneLeavesRest
    <3>5. \A k \in n - 1 .. Len(two) : ~SaysIn(z, two[k], cmd)
      <4> SUFFICES ASSUME NEW k \in n - 1 .. Len(two) PROVE ~SaysIn(z, two[k], cmd)
        OBVIOUS
      <4> HIDE DEF one, two
      <4>1. k \in 1 .. Len(one) - 1 /\ ~(k < n - 1) /\ k + 1 \in n .. Len(one)
        BY <1>1, <2>2, <2>5, <3>3
      <4>2. two[k] = one[k + 1]
        BY <3>3, <4>1
      <4> QED BY <2>4, <4>1, <4>2
    <3>6. turned.list = two /\ turned.offset = n - 2 /\ (n - 2) + 1 = n - 1
      BY <1>1, <3>1
    <3> HIDE DEF one, two, turned, n, list
    <3> QED BY <2>3, <3>4, <3>5, <3>6 DEF CleanBehind, turned, list
  <2>6. CASE ~(n > 1 /\ list[n - 1] \in Timestamp)
    <3>1. turned = [list |-> one, offset |-> n - 1]
      BY <1>4, <2>6 DEF TurnIn
    <3>2. turned.list = one /\ turned.offset = n - 1 /\ (n - 1) + 1 = n
      BY <1>1, <3>1
    <3> HIDE DEF one, turned, n, list
    <3> QED BY <2>3, <2>4, <3>2 DEF CleanBehind, turned, list
  <2> QED BY <2>5, <2>6
<1> QED BY <1>2, <1>3, <1>4

\* The loop takes from the lines what Without takes from their commands: the list that
\* is written and the views agree again (history_mgmt_remove_from_system_history,
\* history_mgmt_remove_from_raw).
LEMMA SweptProperties ==
    ASSUME NEW z \in BOOLEAN, NEW cmd, NEW list \in Seq(Line)
    PROVE  /\ SweptIn(z, cmd, list) \in Seq(Line)
           /\ CommandsIn(z, SweptIn(z, cmd, list)) = Without(CommandsIn(z, list), cmd)
           /\ Len(SweptIn(z, cmd, list)) <= Len(list)
           /\ Len(SweptIn(z, cmd, list)) = Len(list) => SweptIn(z, cmd, list) = list
<1> DEFINE n == Len(list)
<1>1. n \in Nat
  OBVIOUS
<1>2. PICK F : IsSwept(F, z, cmd, list)
  BY SweptSteps
<1>3. /\ \A k \in 0 .. n : F[k] \in SweepState
      /\ F[0] = [list |-> list, offset |-> n]
      /\ \A k \in 1 .. n : F[k] = TurnIn(z, cmd, F[k - 1])
      /\ SweptIn(z, cmd, list) = F[n].list
  BY <1>2 DEF IsSwept
<1> DEFINE G == [k \in 0 .. n |-> <<k, F[k]>>]
           Good(k, s) ==
              /\ s.offset <= n - k
              /\ Len(s.list) <= n /\ (Len(s.list) = n => s.list = list)
              /\ Without(CommandsIn(z, s.list), cmd) = Without(CommandsIn(z, list), cmd)
              /\ CleanBehind(z, cmd, s)
           T == {t \in (0 .. n) \X SweepState : Good(t[1], t[2])}
<1>4. G[0] \in T
  <2>1. F[0].offset = n /\ F[0].list = list
    BY <1>3
  <2>2. CleanBehind(z, cmd, F[0])
    BY <1>1, <2>1 DEF CleanBehind
  <2>3. Good(0, F[0])
    BY <1>1, <2>1, <2>2
  <2> HIDE DEF Good
  <2> QED BY <1>1, <1>3, <2>3
<1>5. ASSUME NEW k \in 1 .. n, G[k - 1] \in T PROVE G[k] \in T
  <2> DEFINE s == F[k - 1]
             t == TurnIn(z, cmd, s)
  <2>1. k - 1 \in 0 .. n /\ k \in 0 .. n /\ F[k] = t /\ s \in SweepState
    BY <1>1, <1>3
  <2>2. Good(k - 1, s)
    <3> HIDE DEF Good
    <3> QED BY <1>5, <2>1
  <2>3. /\ t \in SweepState
        /\ s.offset > 0 => t.offset < s.offset
        /\ Len(t.list) <= Len(s.list)
        /\ Len(t.list) = Len(s.list) => t.list = s.list
    BY <2>1, TurnType
  <2>4. /\ Without(CommandsIn(z, t.list), cmd) = Without(CommandsIn(z, s.list), cmd)
        /\ CleanBehind(z, cmd, t)
    <3> HIDE DEF s
    <3> QED BY <2>1, <2>2, TurnDeletes
  <2>5. s.offset \in Nat /\ t.offset \in Nat /\ Len(s.list) \in Nat /\ Len(t.list) \in Nat
        /\ (s.offset = 0 => t.offset = 0)
    <3>1. s.offset = 0 => t = s
      BY DEF TurnIn
    <3> HIDE DEF s, t
    <3> QED BY <2>1, <2>3, <3>1 DEF SweepState
  <2> HIDE DEF s, t
  <2>6. Good(k, t)
    BY <1>1, <2>2, <2>3, <2>4, <2>5
  <2> HIDE DEF Good
  <2> QED BY <2>1, <2>3, <2>6
<1>6. G[n] \in T
  <2>1. \A k \in 0 .. n : G[k] \in T
    <3> HIDE DEF G, T, n
    <3> QED BY <1>1, <1>4, <1>5, FoldInduction
  <2> QED BY <1>1, <2>1
<1>7. Good(n, F[n]) /\ F[n] \in SweepState
  <2> HIDE DEF Good
  <2> QED BY <1>1, <1>3, <1>6
<1> DEFINE swept == F[n].list
<1>8. F[n].offset \in Nat /\ swept \in Seq(Line) /\ n - n = 0
  BY <1>1, <1>7 DEF SweepState
<1>9. \A k \in 1 .. Len(swept) : ~SaysIn(z, swept[k], cmd)
  <2>1. F[n].offset + 1 = 1
    BY <1>1, <1>7, <1>8
  <2> QED BY <1>7, <2>1 DEF CleanBehind
<1>10. Without(CommandsIn(z, swept), cmd) = CommandsIn(z, swept)
  <2> HIDE DEF swept
  <2> QED BY <1>8, <1>9, NothingToDelete
<1> QED BY <1>3, <1>7, <1>8, <1>10

-----------------------------------------------------------------------------
\* Dead and Survivors, with the shell as a parameter.
DeadIn(z, list, n, cmd) ==
    \/ SaysIn(z, list[n], cmd)
    \/ list[n] \in Timestamp /\ n < Len(list) /\ SaysIn(z, list[n + 1], cmd)
SurvivorsIn(z, list, cmd) ==
    FlattenSeq([n \in DOMAIN list |-> IF DeadIn(z, list, n, cmd) THEN <<>> ELSE <<list[n]>>])

\* The loop from the last entry to the first leaves the lines that survive.
LEMMA SweptAreSurvivors ==
    ASSUME NEW z, NEW cmd, NEW list \in Seq(Line)
    PROVE  SweptIn(z, cmd, list) = SurvivorsIn(z, list, cmd)
<1> DEFINE n == Len(list)
           parts == [k \in DOMAIN list |-> IF DeadIn(z, list, k, cmd) THEN <<>> ELSE <<list[k]>>]
           Upto(k) == SubSeq(list, 1, k)
           Escapes(o) == o \in 1 .. n - 1 => ~(list[o] \in Timestamp /\ SaysIn(z, list[o + 1], cmd))
<1>1. n \in Nat /\ DOMAIN list = 1 .. n /\ \A k \in 1 .. n : list[k] \in Line
  OBVIOUS
<1>2. /\ Upto(0) = <<>> /\ Upto(n) = list
      /\ \A k \in 0 .. n : Upto(k) \in Seq(Line) /\ Len(Upto(k)) = k
      /\ \A k \in 1 .. n : Upto(k) = Append(Upto(k - 1), list[k])
  OBVIOUS
<1>3. /\ parts \in Seq(Seq(Line)) /\ Len(parts) = n
      /\ \A k \in 1 .. n : parts[k] = IF DeadIn(z, list, k, cmd) THEN <<>> ELSE <<list[k]>>
  <2>1. \A k \in 1 .. n : (IF DeadIn(z, list, k, cmd) THEN <<>> ELSE <<list[k]>>) \in Seq(Line)
    <3> SUFFICES ASSUME NEW k \in 1 .. n PROVE <<>> \in Seq(Line) /\ <<list[k]>> \in Seq(Line)
      OBVIOUS
    <3>1. list[k] \in Line
      BY <1>1
    <3> QED BY <3>1, OneItem
  <2> DEFINE T == Seq(Line)
  <2>2. parts \in [1 .. n -> T]
    <3> HIDE DEF DeadIn
    <3> QED BY <1>1, <2>1
  <2> HIDE DEF T, n
  <2> QED BY <1>1, <2>2 DEF T
<1> HIDE DEF Upto, parts
<1>4. PICK F : IsFlatten(F, Line, parts)
  BY <1>3, FlattenSteps
<1>5. /\ F[0] = <<>> /\ FlattenSeq(parts) = F[n]
      /\ \A k \in 0 .. n : F[k] \in Seq(Line)
      /\ \A k \in 1 .. n : F[k] = F[k - 1] \o parts[k]
  BY <1>3, <1>4 DEF IsFlatten
<1>6. PICK E : IsSwept(E, z, cmd, list)
  BY SweptSteps
<1>7. /\ \A k \in 0 .. n : E[k] \in SweepState
      /\ E[0] = [list |-> list, offset |-> n]
      /\ \A k \in 1 .. n : E[k] = TurnIn(z, cmd, E[k - 1])
      /\ SweptIn(z, cmd, list) = E[n].list
  BY <1>6 DEF IsSwept
<1> DEFINE Left(s, tail) == /\ s.list = Upto(s.offset) \o tail
                            /\ F[n] = F[s.offset] \o tail
           Good(s) == /\ s.offset \in 0 .. n /\ Escapes(s.offset)
                      /\ \E tail \in Seq(Line) : Left(s, tail)
           G == [k \in 0 .. n |-> <<k, E[k]>>]
           T == {t \in (0 .. n) \X SweepState : t[2].offset <= n - t[1] /\ Good(t[2])}
<1>8. ASSUME NEW s \in SweepState, Good(s) PROVE Good(TurnIn(z, cmd, s))
  <2> DEFINE o == s.offset
             t == TurnIn(z, cmd, s)
  <2>1. s \in [list : Seq(Line), offset : Nat] /\ o \in 0 .. n /\ Escapes(o)
    BY <1>8 DEF SweepState
  <2>2. PICK tail \in Seq(Line) : Left(s, tail)
    BY <1>8
  <2>3. CASE o = 0
    <3>1. t = s
      BY <2>3 DEF TurnIn
    <3> HIDE DEF Good, t
    <3> QED BY <1>8, <3>1 DEF t
  <2>4. CASE o # 0
    <3> DEFINE last == list[o]
               head == Upto(o - 1)
    <3>1. /\ o \in 1 .. n /\ o - 1 \in 0 .. n /\ last \in Line
          /\ head \in Seq(Line) /\ Len(head) = o - 1 /\ Upto(o) = Append(head, last)
          /\ Upto(o) \in Seq(Line) /\ Len(Upto(o)) = o
          /\ F[o] = F[o - 1] \o parts[o] /\ F[o - 1] \in Seq(Line)
          /\ parts[o] = IF DeadIn(z, list, o, cmd) THEN <<>> ELSE <<last>>
      <4>1. o \in 1 .. n /\ o - 1 \in 0 .. n
        BY <1>1, <2>1, <2>4
      <4> HIDE DEF o
      <4>2. /\ head \in Seq(Line) /\ Len(head) = o - 1 /\ Upto(o) = Append(head, last)
            /\ last \in Line
        BY <1>1, <1>2, <4>1
      <4>3. Upto(o) \in Seq(Line) /\ Len(Upto(o)) = o
        <5>1. o \in 0 .. n
          BY <4>1
        <5> QED BY <1>2, <5>1
      <4>4. F[o] = F[o - 1] \o parts[o] /\ F[o - 1] \in Seq(Line)
        BY <1>5, <4>1
      <4>5. parts[o] = IF DeadIn(z, list, o, cmd) THEN <<>> ELSE <<last>>
        <5> HIDE DEF DeadIn
        <5> QED BY <1>3, <4>1
      <4> HIDE DEF head, last
      <4> QED BY <4>1, <4>2, <4>3, <4>4, <4>5
    <3> HIDE DEF head
    <3>2. /\ s.list = Append(head, last) \o tail /\ F[n] = F[o] \o tail
          /\ s.list[o] = last
          /\ o > 1 => s.list[o - 1] = list[o - 1]
      <4>1. s.list = Upto(o) \o tail /\ F[n] = F[o] \o tail
        BY <2>2
      <4>2. \A k \in 1 .. o : (Upto(o) \o tail)[k] = Upto(o)[k]
        <5> HIDE DEF o
        <5> QED BY <3>1, JoinProperties
      <4>3. \A k \in 1 .. o : Upto(o)[k] = list[k]
        BY <3>1 DEF Upto
      <4>4. o \in 1 .. o /\ (o > 1 => o - 1 \in 1 .. o)
        BY <3>1
      <4> HIDE DEF o
      <4> QED BY <3>1, <4>1, <4>2, <4>3, <4>4
    <3>3. DeadIn(z, list, o, cmd) <=> SaysIn(z, last, cmd)
      BY <2>1, <1>1, <3>1 DEF DeadIn
    <3>4. CASE ~SaysIn(z, last, cmd)
      <4>1. t = [s EXCEPT !.offset = o - 1]
        BY <2>4, <3>2, <3>4 DEF TurnIn
      <4>2. t.list = s.list /\ t.offset = o - 1
        BY <2>1, <3>1, <4>1
      <4> DEFINE kept == <<last>> \o tail
      <4>3. kept \in Seq(Line) /\ Append(head, last) \o tail = head \o kept
        <5> HIDE DEF last
        <5> QED BY <3>1
      <4>4. F[o] \o tail = F[o - 1] \o kept
        <5>1. F[o] = F[o - 1] \o <<last>>
          BY <3>1, <3>3, <3>4
        <5> DEFINE before == F[o - 1]
        <5> HIDE DEF last, before
        <5>2. (before \o <<last>>) \o tail = before \o kept
          <6>1. before \in Seq(Line) /\ last \in Line
            BY <3>1 DEF before
          <6> QED BY <6>1
        <5> QED BY <5>1, <5>2 DEF before
      <4>5. Escapes(o - 1)
        <5>1. (o - 1) + 1 = o
          BY <3>1
        <5> QED BY <3>4, <5>1
      <4>6. Left(t, kept)
        <5> HIDE DEF kept, t, o
        <5> QED BY <3>2, <4>2, <4>3, <4>4 DEF head
      <4> HIDE DEF kept, t, Left, Escapes
      <4>7. t.offset \in 0 .. n /\ Escapes(t.offset)
        <5> HIDE DEF o
        <5> QED BY <3>1, <4>2, <4>5
      <4>8. Good(t)
        BY <4>3, <4>6, <4>7
      <4> QED BY <4>8 DEF t
    <3>5. CASE SaysIn(z, last, cmd)
      <4>0. parts[o] = <<>> /\ F[o] = F[o - 1]
        <5>1. \A q \in Seq(Line) : q \o <<>> = q
          OBVIOUS
        <5> QED BY <3>1, <3>3, <3>5, <5>1
      <4> DEFINE one == RemoveAt(s.list, o)
      <4>1. one = head \o tail
        <5>1. Len(head) + 1 = o
          BY <3>1
        <5> HIDE DEF last, o
        <5>2. RemoveAt(Append(head, last) \o tail, Len(head) + 1) = head \o tail
          BY <3>1, RemoveMiddle
        <5> QED BY <3>2, <5>1, <5>2
      <4>2. CASE o > 1 /\ list[o - 1] \in Timestamp
        <5>1. t = [list |-> RemoveAt(one, o - 1), offset |-> o - 2]
          BY <2>4, <3>2, <3>5, <4>2 DEF TurnIn
        <5> DEFINE stamp == list[o - 1]
                   first == Upto(o - 2)
        <5>2. /\ o - 1 \in 1 .. n /\ o - 2 \in 0 .. n /\ stamp \in Line /\ (o - 1) - 1 = o - 2
              /\ (o - 1) + 1 = o
          BY <1>1, <3>1, <4>2
        <5>3. /\ first \in Seq(Line) /\ Len(first) = o - 2 /\ head = Append(first, stamp)
              /\ F[o - 1] = F[o - 2] \o parts[o - 1] /\ F[o - 2] \in Seq(Line)
              /\ parts[o - 1] = IF DeadIn(z, list, o - 1, cmd) THEN <<>> ELSE <<stamp>>
          <6>1. Upto(o - 1) = Append(Upto((o - 1) - 1), list[o - 1])
            BY <1>2, <5>2
          <6>2. F[o - 1] = F[(o - 1) - 1] \o parts[o - 1]
            BY <1>5, <5>2
          <6>3. parts[o - 1] = IF DeadIn(z, list, o - 1, cmd) THEN <<>> ELSE <<stamp>>
            <7> HIDE DEF DeadIn
            <7> QED BY <1>3, <5>2
          <6> HIDE DEF o
          <6> QED BY <1>2, <1>5, <5>2, <6>1, <6>2, <6>3 DEF head
        <5>4. DeadIn(z, list, o - 1, cmd) /\ F[o - 1] = F[o - 2]
          <6>1. DeadIn(z, list, o - 1, cmd)
            <7>1. o - 1 < Len(list)
              BY <1>1, <3>1
            <7> QED BY <3>5, <4>2, <5>2, <7>1 DEF DeadIn
          <6>2. \A q \in Seq(Line) : q \o <<>> = q
            OBVIOUS
          <6> QED BY <5>3, <6>1, <6>2
        <5>5. RemoveAt(one, o - 1) = first \o tail
          <6>1. Len(first) + 1 = o - 1
            BY <5>2, <5>3
          <6> HIDE DEF first, stamp, one, o
          <6>2. RemoveAt(Append(first, stamp) \o tail, Len(first) + 1) = first \o tail
            BY <5>2, <5>3, RemoveMiddle
          <6> QED BY <4>1, <5>3, <6>1, <6>2
        <5>6. t.list = first \o tail /\ t.offset = o - 2
          BY <5>1, <5>5
        <5>7. Escapes(o - 2)
          <6>1. (o - 2) + 1 = o - 1
            BY <3>1
          <6>2. ~SaysIn(z, list[o - 1], cmd)
            BY <4>2 DEF SaysIn
          <6> QED BY <6>1, <6>2
        <5>8. Left(t, tail)
          <6> HIDE DEF t, o
          <6> QED BY <3>2, <4>0, <5>4, <5>6 DEF first
        <5> HIDE DEF t, Left, Escapes
        <5>9. t.offset \in 0 .. n /\ Escapes(t.offset)
          <6> HIDE DEF o
          <6> QED BY <5>2, <5>6, <5>7
        <5>10. Good(t)
          BY <5>8, <5>9
        <5> QED BY <5>10 DEF t
      <4>3. CASE ~(o > 1 /\ list[o - 1] \in Timestamp)
        <5>1. t = [list |-> one, offset |-> o - 1]
          BY <2>4, <3>2, <3>5, <4>3 DEF TurnIn
        <5>2. t.list = head \o tail /\ t.offset = o - 1
          BY <4>1, <5>1
        <5>3. Escapes(o - 1)
          BY <1>1, <3>1, <4>3
        <5>4. Left(t, tail)
          <6> HIDE DEF t, o
          <6> QED BY <3>2, <4>0, <5>2 DEF head
        <5> HIDE DEF t, Left, Escapes
        <5>5. t.offset \in 0 .. n /\ Escapes(t.offset)
          <6> HIDE DEF o
          <6> QED BY <3>1, <5>2, <5>3
        <5>6. Good(t)
          BY <5>4, <5>5
        <5> QED BY <5>6 DEF t
      <4> QED BY <4>2, <4>3
    <3> QED BY <3>4, <3>5
  <2> QED BY <2>3, <2>4
<1>9. G[0] \in T
  <2>1. E[0].list = list /\ E[0].offset = n /\ n \in 0 .. n /\ Escapes(n)
    BY <1>1, <1>7
  <2>2. Left(E[0], <<>>)
    <3>1. \A q \in Seq(Line) : q \o <<>> = q
      OBVIOUS
    <3> QED BY <1>2, <1>5, <2>1, <3>1
  <2>3. <<>> \in Seq(Line)
    OBVIOUS
  <2>4. Good(E[0])
    <3> HIDE DEF Left, Escapes
    <3> QED BY <2>1, <2>2, <2>3
  <2> HIDE DEF Good
  <2> QED BY <1>1, <1>7, <2>1, <2>4
<1>10. ASSUME NEW k \in 1 .. n, G[k - 1] \in T PROVE G[k] \in T
  <2> DEFINE s == E[k - 1]
             t == TurnIn(z, cmd, s)
  <2>1. k - 1 \in 0 .. n /\ k \in 0 .. n /\ E[k] = t /\ s \in SweepState
    BY <1>1, <1>7
  <2>2. s.offset <= n - (k - 1) /\ Good(s)
    <3> HIDE DEF Good
    <3> QED BY <1>10, <2>1
  <2>3. t \in SweepState /\ (s.offset > 0 => t.offset < s.offset)
    BY <2>1, TurnType
  <2>4. Good(t)
    <3> HIDE DEF Good, s
    <3> QED BY <1>8, <2>1, <2>2
  <2>5. s.offset \in Nat /\ t.offset \in Nat /\ (s.offset = 0 => t.offset = 0)
    <3>1. s.offset = 0 => t = s
      BY DEF TurnIn
    <3> HIDE DEF s, t
    <3> QED BY <2>1, <2>3, <3>1 DEF SweepState
  <2> HIDE DEF s, t, Good
  <2>6. t.offset <= n - k
    BY <1>1, <2>2, <2>3, <2>5
  <2> QED BY <2>1, <2>3, <2>4, <2>6
<1>11. G[n] \in T
  <2>1. \A k \in 0 .. n : G[k] \in T
    <3> HIDE DEF G, T, n
    <3> QED BY <1>1, <1>9, <1>10, FoldInduction
  <2> HIDE DEF G, T
  <2> QED BY <1>1, <2>1
<1>12. Good(E[n]) /\ E[n].offset = 0
  <2>1. E[n].offset <= n - n /\ Good(E[n])
    <3> HIDE DEF Good
    <3> QED BY <1>1, <1>11
  <2>2. E[n].offset \in 0 .. n
    BY <2>1
  <2> HIDE DEF Good
  <2> QED BY <1>1, <2>1, <2>2
<1>13. PICK tail \in Seq(Line) : E[n].list = Upto(0) \o tail /\ F[n] = F[0] \o tail
  BY <1>12
<1>14. E[n].list = F[n]
  BY <1>2, <1>5, <1>13
<1> QED BY <1>5, <1>7, <1>14 DEF SurvivorsIn, parts

\* What survives is lines.
LEMMA SurvivorsType ==
    ASSUME NEW z \in BOOLEAN, NEW list \in Seq(Line), NEW cmd
    PROVE  SurvivorsIn(z, list, cmd) \in Seq(Line)
BY SweptAreSurvivors, SweptProperties

\* What is left when one command after the other has been deleted ...
LeftIn(z, list, cmds) ==
    LET Delete(s, cmd) == SurvivorsIn(z, s, cmd)
    IN  FoldLeft(Delete, list, cmds)

\* ... what it is for F to have what is left after the first deletions,
IsLeft(F, z, list, cmds) ==
    /\ F \in [0 .. Len(cmds) -> Seq(Line)]
    /\ F[0] = list
    /\ \A k \in 1 .. Len(cmds) : F[k] = SurvivorsIn(z, F[k - 1], cmds[k])
    /\ LeftIn(z, list, cmds) = F[Len(cmds)]

\* ... and that there is such an F.
LEMMA LeftSteps ==
    ASSUME NEW z \in BOOLEAN, NEW list \in Seq(Line), NEW cmds \in Seq(Command)
    PROVE  \E F : IsLeft(F, z, list, cmds)
<1> DEFINE n == Len(cmds)
           T == Seq(Line)
           op(s, m) == SurvivorsIn(z, s, cmds[m])
           step == [a \in T \X (1 .. n) |-> op(a[1], a[2])]
<1>1. n \in Nat /\ DOMAIN cmds = 1 .. n /\ \A m \in 1 .. n : cmds[m] \in Command
  OBVIOUS
<1>0. ASSUME NEW s \in T, NEW m \in 1 .. n PROVE op(s, m) \in T
  BY SurvivorsType
<1>2. list \in T /\ step \in Steps(n, T)
  <2>1. list \in T
    OBVIOUS
  <2> HIDE DEF op, T, n
  <2> QED BY <1>0, <2>1 DEF Steps
<1>3. PICK g \in [SUBSET (1 .. n) -> T] :
          \A s \in SUBSET (1 .. n) :
             g[s] = IF s = {} THEN list ELSE step[<<g[s \ {Max(s)}], Max(s)>>]
  <2>1. \E g : IsFold(g, n, T, list, step)
    <3> HIDE DEF step, n, T
    <3> QED BY <1>1, <1>2, FoldExists
  <2> HIDE DEF T, step
  <2> QED BY <2>1 DEF IsFold
<1> DEFINE Is(h) == h = [s \in SUBSET (1 .. n) |-> IF s = {} THEN list ELSE op(h[s \ {Max(s)}], Max(s))]
           iter == CHOOSE h : Is(h)
<1>4. Is(g)
  <2>1. ASSUME NEW s \in SUBSET (1 .. n), s # {}
        PROVE  step[<<g[s \ {Max(s)}], Max(s)>>] = op(g[s \ {Max(s)}], Max(s))
    <3>1. Max(s) \in 1 .. n /\ g[s \ {Max(s)}] \in T
      <4> HIDE DEF T
      <4> QED BY <1>1, <2>1, MaxIsInside
    <3> HIDE DEF op, T
    <3> QED BY <3>1
  <2> HIDE DEF step, op, T
  <2> QED BY <1>3, <2>1
<1>5. Is(iter)
  <2> HIDE DEF Is
  <2> QED BY <1>4
<1>6. LeftIn(z, list, cmds) = iter[1 .. n]
  BY <1>1 DEF LeftIn, FoldLeft, MapThenFoldSet
<1> DEFINE F == [k \in 0 .. n |-> iter[1 .. k]]
<1> HIDE DEF iter
<1>7. F[0] = list
  <2> HIDE DEF op, T
  <2> QED BY <1>1, <1>5
<1>8. ASSUME NEW k \in 1 .. n PROVE F[k] = op(F[k - 1], k)
  <2>1. /\ 1 .. k \in SUBSET (1 .. n) /\ 1 .. k # {}
        /\ (1 .. k) \ {Max(1 .. k)} = 1 .. k - 1 /\ Max(1 .. k) = k
    BY <1>1, InitialSegments
  <2>2. iter[1 .. k] = op(iter[(1 .. k) \ {Max(1 .. k)}], Max(1 .. k))
    <3> HIDE DEF op
    <3> QED BY <1>5, <2>1
  <2>3. iter[1 .. k] = op(iter[1 .. k - 1], k)
    <3> HIDE DEF op
    <3> QED BY <2>1, <2>2
  <2> HIDE DEF op
  <2> QED BY <2>3
<1>9. \A k \in 0 .. n : F[k] \in T
  <2> HIDE DEF F
  <2>1. ASSUME NEW k \in 1 .. n, F[k - 1] \in T PROVE F[k] \in T
    <3> HIDE DEF op, T
    <3> QED BY <1>0, <1>8, <2>1
  <2> HIDE DEF n, T
  <2> QED BY <1>1, <1>2, <1>7, <2>1, FoldInduction
<1>10. F \in [0 .. n -> T] /\ LeftIn(z, list, cmds) = F[n]
  <2> HIDE DEF T
  <2> QED BY <1>1, <1>6, <1>9
<1> HIDE DEF F
<1> QED BY <1>7, <1>8, <1>10 DEF IsLeft

\* Without a deletion everything is left,
LEMMA LeftNone ==
    ASSUME NEW z \in BOOLEAN, NEW list \in Seq(Line)
    PROVE  LeftIn(z, list, <<>>) = list
<1>1. <<>> \in Seq(Command) /\ Len(<<>>) = 0
  OBVIOUS
<1>2. PICK F : IsLeft(F, z, list, <<>>)
  BY <1>1, LeftSteps
<1> QED BY <1>1, <1>2 DEF IsLeft

\* ... and a deletion more takes its lines from what the others have left.
LEMMA LeftAppend ==
    ASSUME NEW z \in BOOLEAN, NEW list \in Seq(Line), NEW cmds \in Seq(Command), NEW cmd \in Command
    PROVE  LeftIn(z, list, Append(cmds, cmd)) = SurvivorsIn(z, LeftIn(z, list, cmds), cmd)
<1> DEFINE n == Len(cmds)
           more == Append(cmds, cmd)
<1>1. /\ n \in Nat /\ more \in Seq(Command) /\ Len(more) = n + 1 /\ more[n + 1] = cmd
      /\ \A k \in 1 .. n : more[k] = cmds[k]
  OBVIOUS
<1> HIDE DEF n, more
<1>3. PICK F : IsLeft(F, z, list, cmds)
  BY LeftSteps
<1>4. PICK E : IsLeft(E, z, list, more)
  BY <1>1, LeftSteps
<1>5. /\ F[0] = list /\ E[0] = list
      /\ \A k \in 1 .. n : F[k] = SurvivorsIn(z, F[k - 1], cmds[k])
      /\ \A k \in 1 .. n + 1 : E[k] = SurvivorsIn(z, E[k - 1], more[k])
      /\ LeftIn(z, list, cmds) = F[n] /\ LeftIn(z, list, more) = E[n + 1]
  BY <1>1, <1>3, <1>4 DEF IsLeft, n
<1>6. ASSUME NEW k \in 1 .. n, F[k - 1] = E[k - 1] PROVE F[k] = E[k]
  <2>1. k \in 1 .. n + 1
    BY <1>1
  <2> QED BY <1>1, <1>5, <1>6, <2>1
<1>7. F[n] = E[n]
  <2>1. F[0] = E[0]
    BY <1>5
  <2> QED BY <1>1, <1>6, <2>1, SameSteps
<1>8. E[n + 1] = SurvivorsIn(z, E[n], cmd)
  <2>1. n + 1 \in 1 .. n + 1 /\ (n + 1) - 1 = n
    BY <1>1
  <2> QED BY <1>1, <1>5, <2>1
<1> QED BY <1>5, <1>7, <1>8 DEF more

-----------------------------------------------------------------------------
\* What fill_terminal_input puts into the terminal, word by word.
Words == {"newline", "quote", "fc quote", "result", "history -r", "part"}
Reloads(words) == {n \in DOMAIN words : words[n] = "history -r"}

\* A new line, or nothing at all, is before what is put into the terminal next.
FreshLine(words) == words = <<>> \/ Last(words) = "newline"

EarlyPhases == {"start", "loop", "pruned", "written"}
LatePhases  == {"flush", "exit", "exited"}

\* Until a key or a signal ends loop_to_select nothing is handed to the shell.
NothingHandedOver ==
    phase \in EarlyPhases =>
        /\ ended = NULL /\ handling = {} /\ ~torn
        /\ pending = <<>> /\ terminal = <<>>
        /\ phase = "start" => deleted = <<>> /\ dirty = FALSE /\ historyList = <<>>
                              /\ rawItems = <<>> /\ items = <<>> /\ almostDead = NULL
        /\ phase = "loop" => almostDead = NULL
        /\ phase \in {"pruned", "written"} => almostDead # NULL /\ deleted # <<>>

\* While a key is being handed over no signal has come, and the shell has not been told
\* to read the file; what there is ends a line, but for TAB.
HandingOver ==
    phase = "inject" =>
        /\ handling = {} /\ ~torn
        /\ Reloads(terminal) = {}
        /\ \A k \in DOMAIN pending : Reloads(pending[k]) = {}
        /\ ended # "tab" =>
              IF pending = <<>> THEN FreshLine(terminal) ELSE Last(pending) = <<"newline">>

\* A deletion is noted: in dirty, or the user left by Ctrl-g, or a signal came
\* between DEL and MarkDirty.
DeletionNoted ==
    /\ deleted # <<>> =>
          \/ dirty
          \/ ended = "ctrl-g"
          \/ almostDead # NULL /\ (phase \in {"pruned", "written"} \/ handling # {})
    /\ dirty => deleted # <<>>

\* From the flush on, what the shell is to be told is on its way or has been told last,
\* in a line of its own, and no more often than there were signals.
HandedOver ==
    phase \in LatePhases =>
        LET told == dirty /\ ~isZsh
        IN  /\ IF pending # <<>> THEN told /\ pending = <<Reload>> /\ phase = "flush"
               ELSE told => IsSuffix(Reload, terminal)
            /\ ended # "tab" /\ ~torn => FreshLine(terminal)
            /\ Reloads(terminal) # {} => ~isZsh /\ deleted # <<>>
            /\ \A n \in Reloads(terminal) :
                  n = 1 \/ terminal[n - 1] = "newline" \/ ended = "tab" \/ torn
            /\ Cardinality(Reloads(terminal)) + Len(pending) <= 1 + Cardinality(handling)

\* FileIsList, and that between the writing and MarkDirty the file is the list, too.
FileFollows ==
    (phase \in {"loop", "written", "inject"} /\ saved) => historyFile = historyList \o appended

\* The types of the variables TypeOK leaves out, and what --kill-last-command leaves.
Types ==
    /\ isZsh \in BOOLEAN /\ isTiocsti \in BOOLEAN
    /\ appended \in Seq(Line) /\ deleted \in Seq(Command)
    /\ pending \in Seq(Seq(Words)) /\ terminal \in Seq(Words)
    /\ saved \in BOOLEAN /\ torn \in BOOLEAN
    /\ ended \in {NULL, "enter", "left", "tab", "ctrl-g", "ctrl-x", "kill"}
    /\ ended = "kill" => phase = "exited" /\ dirty = FALSE /\ deleted = <<>>
    /\ IsFiniteSet(handling)

\* readline's list is what was read without what was deleted (OnlyDeletedGone).
DeletionsApplied ==
    /\ phase = "start" => loaded = <<>>
    /\ ended # "kill" => historyList = LeftIn(isZsh, loaded, deleted)

\* The inductive invariant.
IInv ==
    /\ TypeOK /\ Types /\ ViewsAgree /\ NothingHandedOver /\ HandingOver
    /\ DeletionNoted /\ HandedOver /\ FileFollows /\ DeletionsApplied

\* Where "history -r" is in a text that is made longer.
LEMMA ReloadsConcat ==
    ASSUME NEW t \in Seq(Words), NEW s \in Seq(Words)
    PROVE  Reloads(t \o s) = Reloads(t) \cup {Len(t) + n : n \in Reloads(s)}
<1> DEFINE both == t \o s
           reload == "history -r"
<1>1. both \in Seq(Words) /\ Len(both) = Len(t) + Len(s) /\ Len(t) \in Nat /\ Len(s) \in Nat
      /\ (\A n \in 1 .. Len(t) : both[n] = t[n])
      /\ (\A n \in 1 .. Len(s) : both[Len(t) + n] = s[n])
      /\ DOMAIN both = 1 .. Len(both) /\ DOMAIN t = 1 .. Len(t) /\ DOMAIN s = 1 .. Len(s)
  <2> HIDE DEF Words
  <2>1. both \in Seq(Words) /\ Len(both) = Len(t) + Len(s)
        /\ (\A n \in 1 .. Len(t) : both[n] = t[n])
        /\ (\A n \in 1 .. Len(s) : both[Len(t) + n] = s[n])
    BY JoinProperties
  <2> HIDE DEF both
  <2> QED BY <2>1, LenProperties
<1> HIDE DEF both, Words, reload
<1>2. ASSUME NEW n \in 1 .. Len(t) + Len(s)
      PROVE  n \in 1 .. Len(t) \/ \E m \in 1 .. Len(s) : n = Len(t) + m
  <2>1. CASE n <= Len(t)
    BY <1>1, <2>1
  <2>2. CASE ~(n <= Len(t))
    <3>1. n - Len(t) \in 1 .. Len(s) /\ n = Len(t) + (n - Len(t))
      BY <1>1, <2>2
    <3> QED BY <3>1
  <2> QED BY <2>1, <2>2
<1>3. {n \in 1 .. Len(t) + Len(s) : both[n] = reload}
         = {n \in 1 .. Len(t) : t[n] = reload} \cup {Len(t) + n : n \in {m \in 1 .. Len(s) : s[m] = reload}}
  <2>1. \A n \in 1 .. Len(t) : n \in 1 .. Len(t) + Len(s)
    BY <1>1
  <2>2. \A n \in 1 .. Len(s) : Len(t) + n \in 1 .. Len(t) + Len(s)
    BY <1>1
  <2> QED BY <1>1, <1>2, <2>1, <2>2
<1> QED BY <1>1, <1>3 DEF Reloads, both, reload

\* They are some of the places in the text.
LEMMA ReloadsFinite ==
    ASSUME NEW t \in Seq(Words)
    PROVE  IsFiniteSet(Reloads(t)) /\ Cardinality(Reloads(t)) \in Nat /\ Reloads(t) \subseteq 1 .. Len(t)
<1>1. DOMAIN t = 1 .. Len(t) /\ Len(t) \in Nat
  BY LenProperties
<1>2. IsFiniteSet(1 .. Len(t)) /\ Reloads(t) \subseteq 1 .. Len(t)
  <2>1. Len(t) \in Int /\ 1 \in Int
    BY <1>1
  <2>2. IsFiniteSet(1 .. Len(t))
    BY <2>1, FS_Interval
  <2> QED BY <1>1, <2>2 DEF Reloads
<1> QED BY <1>2, FS_Subset, FS_CardinalityType

\* What a key hands over: nothing that makes the shell read the history, and, but
\* for TAB, whole lines.
PlainCalls == {<<"newline">>, <<"quote">>, <<"fc quote">>, <<"result">>}

\* These calls are words, and none is "history -r".
LEMMA PlainCallsProperties ==
    /\ PlainCalls \subseteq Seq(Words)
    /\ \A call \in PlainCalls : Reloads(call) = {}
<1>1. PlainCalls \subseteq Seq(Words)
  <2>1. {"newline", "quote", "fc quote", "result"} \subseteq Words
    BY DEF Words
  <2> HIDE DEF Words
  <2> QED BY <2>1, OneItem DEF PlainCalls
<1>2. \A word : DOMAIN <<word>> = {1} /\ <<word>>[1] = word
  OBVIOUS
<1>3. ASSUME NEW word \in {"newline", "quote", "fc quote", "result"}
      PROVE  Reloads(<<word>>) = {}
  BY <1>2 DEF Reloads
<1> QED BY <1>1, <1>3 DEF PlainCalls

\* A key hands over such calls, and all but TAB end a line (the end of loop_to_select).
LEMMA InjectedProperties ==
    ASSUME NEW keyOfExit, NEW result \in {<<>>, <<<<"result">>>>}, NEW padded \in BOOLEAN
    PROVE  /\ Injected(keyOfExit, result, padded) \in Seq(PlainCalls)
           /\ keyOfExit # "tab" => \/ Injected(keyOfExit, result, padded) = <<>>
                                   \/ Last(Injected(keyOfExit, result, padded)) = <<"newline">>
<1> DEFINE calls == Seq(PlainCalls)
           line == <<"newline">>
           newline == <<line>>
           quote == <<<<"quote">>, line>>
           fc == <<<<"fc quote">>>>
<1>1. \A a, b \in calls : a \o b \in calls /\ (b # <<>> => Last(a \o b) = Last(b))
  BY JoinProperties
<1>2. <<>> \in calls
  OBVIOUS
<1>3. result \in calls /\ newline \in calls /\ quote \in calls /\ fc \in calls
  <2>1. line \in PlainCalls /\ <<"result">> \in PlainCalls /\ <<"quote">> \in PlainCalls
        /\ <<"fc quote">> \in PlainCalls
    BY DEF PlainCalls
  <2> HIDE DEF PlainCalls
  <2>2. <<<<"result">>>> \in calls
    BY <2>1, OneItem
  <2>3. newline \in calls /\ fc \in calls
    BY <2>1, OneItem
  <2>4. quote \in calls
    <3> HIDE DEF line
    <3> QED BY <2>1, TwoItems
  <2> HIDE DEF calls, newline, quote, fc
  <2> QED BY <1>2, <2>2, <2>3, <2>4
<1>4. newline # <<>> /\ Last(newline) = line /\ quote # <<>> /\ Last(quote) = line
  <2> HIDE DEF line
  <2> QED BY DEF Last
<1>5. Injected(keyOfExit, result, padded) =
         CASE keyOfExit = "enter" -> result \o IF result = <<>> THEN <<>> ELSE newline
           [] keyOfExit = "left"  -> fc \o result \o quote
           [] keyOfExit = "tab"   -> result \o IF padded THEN newline ELSE <<>>
           [] OTHER               -> <<>>
  BY DEF Injected
<1>6. <<>> \o <<>> = <<>>
  OBVIOUS
<1>7. CASE keyOfExit = "enter"
  <2>1. Injected(keyOfExit, result, padded) = result \o IF result = <<>> THEN <<>> ELSE newline
    BY <1>5, <1>7
  <2> HIDE DEF calls, newline, line
  <2>2. CASE result = <<>>
    BY <1>2, <1>6, <2>1, <2>2 DEF calls
  <2>3. CASE result # <<>>
    BY <1>1, <1>3, <1>4, <2>1, <2>3 DEF calls, line
  <2> QED BY <2>2, <2>3
<1>8. CASE keyOfExit = "left"
  <2>1. Injected(keyOfExit, result, padded) = fc \o result \o quote
    BY <1>5, <1>8
  <2> HIDE DEF calls, fc, quote, line
  <2>2. fc \o result \in calls
    BY <1>1, <1>3
  <2>3. Injected(keyOfExit, result, padded) \in calls
        /\ Last(Injected(keyOfExit, result, padded)) = line
    BY <1>1, <1>3, <1>4, <2>1, <2>2
  <2> QED BY <2>3 DEF calls, line
<1>9. CASE keyOfExit = "tab"
  <2>1. Injected(keyOfExit, result, padded) = result \o IF padded THEN newline ELSE <<>>
    BY <1>5, <1>9
  <2> HIDE DEF calls, newline
  <2> QED BY <1>1, <1>2, <1>3, <1>9, <2>1 DEF calls
<1>10. CASE keyOfExit \notin {"enter", "left", "tab"}
  <2>1. Injected(keyOfExit, result, padded) = <<>>
    BY <1>5, <1>10
  <2> HIDE DEF calls
  <2> QED BY <1>2, <2>1 DEF calls
<1> QED BY <1>7, <1>8, <1>9, <1>10

\* What a call that is cut short has put into the terminal is a part of it.
LEMMA ArrivedProperties ==
    ASSUME NEW call \in Seq(Words), NEW bytes \in Arrived(call)
    PROVE  bytes \in Seq(Words) /\ Reloads(bytes) \subseteq Reloads(call)
<1> DEFINE part == "part"
           reload == "history -r"
<1>1. part \in Words /\ part # reload
  BY DEF Words
<1> HIDE DEF Words, part, reload
<1>2. DOMAIN call = 1 .. Len(call) /\ Len(call) \in Nat
  BY LenProperties
<1>3. ASSUME NEW n \in 0 .. Len(call) - 1
      PROVE  LET cut == SubSeq(call, 1, n)
             IN  /\ cut \in Seq(Words) /\ DOMAIN cut = 1 .. n
                 /\ \A m \in 1 .. n : cut[m] = call[m] /\ m \in DOMAIN call
                 /\ Append(cut, part) \in Seq(Words) /\ DOMAIN Append(cut, part) = 1 .. n + 1
                 /\ \A m \in 1 .. n : Append(cut, part)[m] = call[m]
                 /\ Append(cut, part)[n + 1] = part
  <2> DEFINE cut == SubSeq(call, 1, n)
  <2>1. cut \in Seq(Words) /\ Len(cut) = n /\ n \in Nat
        /\ \A m \in 1 .. n : cut[m] = call[m] /\ m \in DOMAIN call
    BY <1>2
  <2> HIDE DEF cut
  <2>2. Append(cut, part) \in Seq(Words) /\ Len(Append(cut, part)) = n + 1
        /\ (\A m \in 1 .. n : Append(cut, part)[m] = cut[m])
        /\ Append(cut, part)[n + 1] = part
    BY <1>1, <2>1
  <2>3. DOMAIN cut = 1 .. n /\ DOMAIN Append(cut, part) = 1 .. n + 1
    BY <2>1, <2>2, LenProperties
  <2> QED BY <2>1, <2>2, <2>3 DEF cut
<1>4. CASE bytes \in {SubSeq(call, 1, n) : n \in 0 .. Len(call) - 1}
  <2>1. PICK n \in 0 .. Len(call) - 1 : bytes = SubSeq(call, 1, n)
    BY <1>4
  <2> QED BY <1>3, <2>1 DEF Reloads
<1>5. CASE \E n \in 0 .. Len(call) - 1 : bytes = Append(SubSeq(call, 1, n), part)
  <2>1. PICK n \in 0 .. Len(call) - 1 : bytes = Append(SubSeq(call, 1, n), part)
    BY <1>5
  <2>2. /\ bytes \in Seq(Words) /\ DOMAIN bytes = 1 .. n + 1 /\ n \in Nat
        /\ \A m \in 1 .. n : bytes[m] = call[m] /\ m \in DOMAIN call
        /\ bytes[n + 1] = part
    BY <1>2, <1>3, <2>1
  <2>3. ASSUME NEW m \in DOMAIN bytes, bytes[m] = reload PROVE m \in DOMAIN call /\ call[m] = reload
    <3>1. m # n + 1
      BY <1>1, <2>2, <2>3
    <3>2. m \in 1 .. n
      BY <2>2, <2>3, <3>1
    <3> QED BY <2>2, <2>3, <3>2
  <2> QED BY <2>2, <2>3 DEF Reloads, reload
<1>6. \/ bytes \in {SubSeq(call, 1, n) : n \in 0 .. Len(call) - 1}
      \/ \E n \in 0 .. Len(call) - 1 : bytes = Append(SubSeq(call, 1, n), part)
  BY DEF Arrived, part
<1> QED BY <1>4, <1>5, <1>6

-----------------------------------------------------------------------------
\* DEL and the answer yes: a command that is in a view is in the list, too, so that the
\* views and the list all lose it (remove_from_history_model).
LEMMA PruneDeletes ==
    ASSUME TypeOK, Types, ViewsAgree, NothingHandedOver, Prune
    PROVE  \E cmd \in Command :
              /\ cmd \in ToSet(rawItems)
              /\ rawItems' = Without(rawItems, cmd) /\ items' = Without(items, cmd)
              /\ deleted' = Append(deleted, cmd)
              /\ historyList' = SweptIn(isZsh, cmd, historyList)
              /\ CommandsIn(isZsh, historyList') = Without(CommandsIn(isZsh, historyList), cmd)
              /\ historyList' \in Seq(Line)
              /\ almostDead' = cmd /\ phase' = "pruned"
<1>1. PICK cmd \in ToSet(rawItems) \cup ToSet(items) :
          /\ rawItems' = Without(rawItems, cmd)
          /\ items' = PrunedRanked(cmd)
          /\ deleted' = Append(deleted, cmd)
          /\ IF Len(rawItems') < Len(rawItems)
             THEN /\ historyList' = Swept(cmd, historyList)
                  /\ IF Len(historyList') < Len(historyList)
                     THEN almostDead' = cmd /\ phase' = "pruned"
                     ELSE UNCHANGED <<almostDead, phase>>
             ELSE UNCHANGED <<historyList, almostDead, phase>>
  BY DEF Prune
<1>2. ended # "kill"
  <2>1. ended = NULL
    BY DEF Prune, NothingHandedOver, EarlyPhases
  <2> QED BY <2>1 DEF NULL
<1>3. /\ rawItems = Reverse(Commands(historyList)) /\ ToSet(items) \subseteq ToSet(rawItems)
      /\ rawItems \in Seq(Command) /\ historyList \in Seq(Line) /\ isZsh \in BOOLEAN
  BY <1>2 DEF ViewsAgree, TypeOK, Types
<1>4. cmd \in ToSet(rawItems) /\ cmd \in Command
  <2>1. ToSet(rawItems) \subseteq Command
    BY <1>3 DEF ToSet
  <2> QED BY <1>1, <1>3, <2>1
<1>5. Len(Without(rawItems, cmd)) < Len(rawItems)
  BY <1>3, <1>4, WithoutShorter
<1> DEFINE cmds == CommandsIn(isZsh, historyList)
           swept == SweptIn(isZsh, cmd, historyList)
<1>6. Commands(historyList) = cmds /\ Swept(cmd, historyList) = swept
  BY Parameterised
<1>7. cmds \in Seq(Command) /\ Reverse(cmds) = rawItems
  <2>1. PICK F : IsCommands(F, isZsh, historyList)
    BY <1>3, CommandsSteps
  <2>2. cmds = F[Len(historyList)] /\ Len(historyList) \in 0 .. Len(historyList)
    BY <1>3, <2>1, LenProperties DEF IsCommands
  <2> QED BY <1>3, <1>6, <2>1, <2>2 DEF IsCommands
<1>8. /\ swept \in Seq(Line)
      /\ CommandsIn(isZsh, swept) = Without(cmds, cmd)
      /\ Len(swept) <= Len(historyList)
      /\ Len(swept) = Len(historyList) => swept = historyList
  BY <1>3, SweptProperties
<1>9. Len(swept) < Len(historyList)
  <2>1. cmd \in ToSet(cmds)
    <3> HIDE DEF cmds
    <3> QED BY <1>4, <1>7, ReverseProperties
  <2>2. Len(Without(cmds, cmd)) < Len(cmds)
    <3> HIDE DEF cmds
    <3> QED BY <1>7, <2>1, WithoutShorter
  <2>3. Len(cmds) \in Nat /\ Len(swept) \in Nat /\ Len(historyList) \in Nat
    <3> HIDE DEF cmds, swept
    <3> QED BY <1>3, <1>7, <1>8
  <2>4. swept # historyList
    <3> HIDE DEF swept
    <3> QED BY <1>8, <2>2, <2>3
  <2> HIDE DEF cmds, swept
  <2> QED BY <1>8, <2>3, <2>4
<1>10. historyList' = swept /\ almostDead' = cmd /\ phase' = "pruned"
  <2> HIDE DEF swept
  <2>1. Len(rawItems') < Len(rawItems)
    BY <1>1, <1>5
  <2>2. historyList' = swept
    BY <1>1, <1>6, <2>1
  <2> QED BY <1>1, <1>9, <2>1, <2>2
<1> QED BY <1>1, <1>4, <1>8, <1>10 DEF PrunedRanked

\* Every step keeps the types,
LEMMA TypesInductive ==
    ASSUME TypeOK, Types, ViewsAgree, NothingHandedOver, [Next]_vars
    PROVE  TypeOK' /\ Types'
<1> USE DEF TypeOK, Types
<1>1. CASE Load
  <2>1. /\ historyFile' = historyFile /\ historyList' = historyFile /\ loaded' = historyFile
        /\ rawItems' = Reverse(CommandsIn(isZsh, historyFile))
        /\ dirty' = FALSE /\ phase' = "loop" /\ appended' = <<>>
        /\ UNCHANGED <<isZsh, isTiocsti, almostDead, pending, terminal, deleted, saved,
                       handling, ended, torn>>
    BY <1>1, Parameterised DEF Load, ends
  <2>2. PICK ranked \in SUBSET (ToSet(Commands(historyFile)) \ Blacklist) : items' \in SetToSeqs(ranked)
    BY <1>1 DEF Load
  <2>3. CommandsIn(isZsh, historyFile) \in Seq(Command)
    <3>1. PICK F : IsCommands(F, isZsh, historyFile)
      BY CommandsSteps
    <3>2. Len(historyFile) \in 0 .. Len(historyFile)
      BY LenProperties
    <3> QED BY <3>1, <3>2 DEF IsCommands
  <2>4. rawItems' \in Seq(Command)
    BY <2>1, <2>3, ReverseProperties
  <2>5. items' \in Seq(Command)
    <3>1. ranked \subseteq Command
      BY <2>2, <2>3, Parameterised DEF ToSet
    <3>2. PICK m : items' \in [1 .. m -> ranked] /\ m \in Nat
      <4>1. items' \in [1 .. Cardinality(ranked) -> ranked]
        BY <2>2 DEF SetToSeqs
      <4>2. IsFiniteSet(ranked)
        <5>1. IsFiniteSet(ToSet(Commands(historyFile)))
          <6> DEFINE list == Commands(historyFile)
          <6>1. list \in Seq(Command)
            BY <2>3, Parameterised
          <6> HIDE DEF list
          <6> QED BY <6>1, RangeIsFinite DEF list
        <5> QED BY <2>2, <5>1, FS_Subset
      <4> QED BY <4>1, <4>2, FS_CardinalityType
    <3> QED BY <3>1, <3>2
  <2>6. ended # "kill"
    BY <1>1 DEF Load
  <2>7. TypeOK'
    BY <2>1, <2>4, <2>5
  <2>8. appended' \in Seq(Line)
    <3>1. <<>> \in Seq(Line)
      OBVIOUS
    <3> QED BY <2>1, <3>1
  <2> HIDE DEF Words, Command, NULL, TypeOK
  <2>9. Types'
    BY <2>1, <2>6, <2>8
  <2> QED BY <2>7, <2>9
<1>2. CASE LoadNothing
  BY <1>2 DEF LoadNothing, store, ghosts, ends, NothingHandedOver, EarlyPhases, NULL
<1>3. CASE Prune
  <2>1. PICK cmd \in Command :
              /\ rawItems' = Without(rawItems, cmd) /\ items' = Without(items, cmd)
              /\ deleted' = Append(deleted, cmd)
              /\ historyList' \in Seq(Line)
              /\ almostDead' = cmd /\ phase' = "pruned"
    BY <1>3, PruneDeletes
  <2>2. rawItems' \in Seq(Command) /\ items' \in Seq(Command) /\ deleted' \in Seq(Command)
    BY <2>1, WithoutProperties
  <2>3. ended # "kill"
    BY <1>3 DEF Prune
  <2>4. UNCHANGED <<isZsh, isTiocsti, historyFile, dirty, pending, terminal, loaded,
                   appended, saved, handling, ended, torn>>
    BY <1>3 DEF Prune, ends
  <2> QED BY <2>1, <2>2, <2>3, <2>4
<1>4. CASE WriteHistory
  <2>1. historyFile' \in Seq(Line) /\ appended' \in Seq(Line) /\ saved' \in BOOLEAN
    <3>1. <<>> \in Seq(Line)
      OBVIOUS
    <3>2. CASE historyFile' = Written /\ appended' = <<>> /\ saved' = TRUE
      BY <3>1, <3>2 DEF Written
    <3>3. CASE UNCHANGED <<historyFile, appended>> /\ saved' = FALSE
      BY <3>3
    <3> QED BY <1>4, <3>2, <3>3 DEF WriteHistory
  <2>2. /\ phase' = "written" /\ phase = "pruned"
        /\ UNCHANGED <<isZsh, isTiocsti, historyList, rawItems, items, almostDead, dirty,
                   pending, terminal, loaded, deleted, handling, ended, torn>>
    BY <1>4 DEF WriteHistory, ends
  <2> QED BY <2>1, <2>2
<1>5. CASE MarkDirty
  <2>1. /\ dirty' = TRUE /\ almostDead' = NULL /\ phase' = "loop" /\ phase = "written"
        /\ UNCHANGED <<isZsh, isTiocsti, historyFile, historyList, rawItems, items, pending,
                   terminal, loaded, deleted, appended, saved, handling, ended, torn>>
    BY <1>5 DEF MarkDirty, Dirtied, ends, ghosts
  <2> QED BY <2>1
<1>6. CASE Exit
  <2>1. PICK keyOfExit \in {"enter", "left", "tab", "ctrl-g", "ctrl-x"},
             result \in {<<>>, <<<<"result">>>>}, isSubshellHint \in BOOLEAN :
        /\ pending' = Injected(keyOfExit, result,
                               ~isTiocsti /\ ~isSubshellHint /\ result # <<>>)
        /\ ended' = keyOfExit
        /\ dirty' = IF keyOfExit = "ctrl-g" THEN FALSE ELSE dirty
    BY <1>6 DEF Exit
  <2>2. pending' \in Seq(PlainCalls)
    BY <2>1, InjectedProperties
  <2>5. pending' \in Seq(Seq(Words))
    <3> HIDE DEF Words, PlainCalls
    <3> QED BY <2>2, PlainCallsProperties
  <2>6. UNCHANGED <<isZsh, isTiocsti, historyFile, historyList, rawItems, items, almostDead,
                   terminal, loaded, deleted, appended, saved, handling, torn>> /\ phase' = "inject"
    BY <1>6 DEF Exit, ghosts
  <2> QED BY <2>1, <2>5, <2>6
<1>7. CASE Inject
  <2>1. pending # <<>> /\ terminal' = terminal \o Head(pending) /\ pending' = Tail(pending)
        /\ UNCHANGED <<store, phase, ghosts, ends>>
    BY <1>7 DEF Inject
  <2>2. Head(pending) \in Seq(Words) /\ pending' \in Seq(Seq(Words))
    BY <2>1
  <2>3. terminal' \in Seq(Words)
    BY <2>1, <2>2
  <2> QED BY <2>1, <2>2, <2>3 DEF store, ghosts, ends
<1>8. Flushed \in Seq(Seq(Words))
  <2>1. "history -r" \in Words /\ "newline" \in Words
    BY DEF Words
  <2> HIDE DEF Words
  <2>2. <<>> \in Seq(Seq(Words))
    OBVIOUS
  <2>3. Reload \in Seq(Words)
    BY <2>1, TwoItems DEF Reload
  <2> HIDE DEF Reload
  <2> QED BY <2>2, <2>3, OneItem DEF Flushed
<1>9. CASE Flush
  <2>1. pending' = Flushed /\ phase' = "flush" /\ phase = "inject" /\ UNCHANGED <<store, terminal, ghosts, ends>>
    BY <1>9 DEF Flush
  <2> HIDE DEF Flushed
  <2> QED BY <1>8, <2>1 DEF store, ghosts, ends
<1>10. CASE Leave
  BY <1>10 DEF Leave, store, ghosts, ends
<1>11. CASE Signal
  <2>1. /\ pending' = Flushed /\ phase' = "flush" /\ phase # "exited"
        /\ torn' = (torn \/ pending # <<>>)
        /\ UNCHANGED <<store, ghosts, ended>>
    BY <1>11 DEF Signal
  <2>2. PICK signum \in Signum \ handling : handling' = handling \cup {signum}
    BY <1>11 DEF Signal
  <2>3. IsFiniteSet(handling') /\ handling' \subseteq Signum
    BY <2>2, FS_AddElement
  <2>4. terminal' \in Seq(Words)
    <3>1. CASE isTiocsti /\ pending # <<>>
      <4> DEFINE call == Head(pending)
      <4>1. call \in Seq(Words)
        BY <3>1
      <4>2. PICK bytes \in Arrived(call) : terminal' = terminal \o bytes
        BY <1>11, <3>1 DEF Signal
      <4> HIDE DEF call
      <4>5. bytes \in Seq(Words)
        BY <4>1, <4>2, ArrivedProperties
      <4> QED BY <4>2, <4>5
    <3>2. CASE ~(isTiocsti /\ pending # <<>>)
      BY <1>11, <3>2 DEF Signal
    <3> QED BY <3>1, <3>2
  <2> HIDE DEF Flushed
  <2>5. torn' \in BOOLEAN
    BY <2>1
  <2> QED BY <1>8, <2>1, <2>3, <2>4, <2>5 DEF store, ghosts
<1>12. CASE KillLast
  <2>1. \A list \in Seq(Line) : Len(list) > 1 => KilledLast(list) \in Seq(Line)
    BY DEF KilledLast
  <2>2. historyFile' \in Seq(Line)
    BY <1>12, <2>1 DEF KillLast
  <2>3. dirty = FALSE /\ deleted = <<>>
    BY <1>12 DEF KillLast, NothingHandedOver, EarlyPhases
  <2>4. /\ phase' = "exited" /\ ended' = "kill" /\ historyList' = historyFile /\ loaded' = historyFile
        /\ UNCHANGED <<isZsh, isTiocsti, rawItems, items, almostDead, dirty, pending, terminal,
                   deleted, appended, saved, handling, torn>>
    BY <1>12 DEF KillLast
  <2> QED BY <2>2, <2>3, <2>4
<1>13. CASE ShellAppends
  <2>1. PICK line \in AppendedLine : historyFile' = Append(historyFile, line) /\ appended' = Append(appended, line)
    BY <1>13 DEF ShellAppends
  <2>2. historyFile' \in Seq(Line) /\ appended' \in Seq(Line)
    BY <2>1, AppendedAssumption
  <2>3. UNCHANGED <<isZsh, isTiocsti, historyList, rawItems, items, almostDead, dirty,
                   pending, terminal, phase, loaded, deleted, saved, handling, ended, torn>>
    BY <1>13 DEF ShellAppends, ends
  <2> QED BY <2>2, <2>3
<1>14. CASE UNCHANGED vars
  BY <1>14 DEF vars, store, ghosts, ends
<1> QED BY <1>1, <1>2, <1>3, <1>4, <1>5, <1>6, <1>7, <1>9, <1>10, <1>11, <1>12, <1>13, <1>14 DEF Next

\* ... the agreement of the views with the list,
LEMMA ViewsInductive ==
    ASSUME TypeOK, Types, ViewsAgree, NothingHandedOver, [Next]_vars
    PROVE  ViewsAgree'
<1> USE DEF ViewsAgree
<1>0. /\ \A list : Commands(list) = CommandsIn(isZsh, list)
      /\ \A list : Commands(list)' = CommandsIn(isZsh', list)
  <2>1. \A list : Commands(list)' = CommandsIn(isZsh', list)
    BY DEF Commands, CommandsIn, CommandOf, CommandIn, FoldLeft, MapThenFoldSet
  <2> QED BY <2>1, Parameterised
<1>a. Commands(historyList)' = CommandsIn(isZsh', historyList')
  BY DEF Commands, CommandsIn, CommandOf, CommandIn, FoldLeft, MapThenFoldSet
<1>b. CASE isZsh' = isZsh /\ historyList' = historyList /\ rawItems' = rawItems /\ items' = items
           /\ (ended' # "kill" => ended # "kill")
  BY <1>0, <1>a, <1>b
<1>1. CASE Load
  <2>1. /\ historyList' = historyFile /\ isZsh' = isZsh
        /\ rawItems' = Reverse(CommandsIn(isZsh, historyFile))
    BY <1>1, <1>0 DEF Load
  <2>2. PICK ranked \in SUBSET (ToSet(CommandsIn(isZsh, historyFile)) \ Blacklist) :
                items' \in SetToSeqs(ranked)
    BY <1>1, <1>0 DEF Load
  <2>3. CommandsIn(isZsh, historyFile) \in Seq(Command)
    <3>1. PICK F : IsCommands(F, isZsh, historyFile)
      BY CommandsSteps DEF TypeOK, Types
    <3>2. Len(historyFile) \in 0 .. Len(historyFile)
      BY LenProperties DEF TypeOK
    <3> QED BY <3>1, <3>2 DEF IsCommands
  <2>4. IsInjective(items') /\ ToSet(items') \subseteq ranked
    BY <2>2 DEF SetToSeqs, IsInjective, ToSet
  <2>5. ToSet(rawItems') = ToSet(CommandsIn(isZsh, historyFile))
    <3> DEFINE cmds == CommandsIn(isZsh, historyFile)
    <3> HIDE DEF cmds
    <3>1. cmds \in Seq(Command)
      BY <2>3 DEF cmds
    <3>2. ToSet(Reverse(cmds)) = ToSet(cmds)
      BY <3>1, ReverseProperties
    <3> QED BY <2>1, <3>2 DEF cmds
  <2> QED BY <1>a, <2>1, <2>2, <2>4, <2>5
<1>2. CASE Prune
  <2>1. PICK cmd \in Command :
              /\ cmd \in ToSet(rawItems)
              /\ rawItems' = Without(rawItems, cmd) /\ items' = Without(items, cmd)
              /\ CommandsIn(isZsh, historyList') = Without(CommandsIn(isZsh, historyList), cmd)
    BY <1>2, PruneDeletes
  <2>2. isZsh' = isZsh /\ ended # "kill"
    BY <1>2 DEF Prune, NothingHandedOver, EarlyPhases, NULL
  <2>3. /\ rawItems = Reverse(CommandsIn(isZsh, historyList)) /\ IsInjective(items)
        /\ ToSet(items) \subseteq ToSet(rawItems)
        /\ rawItems \in Seq(Command) /\ items \in Seq(Command)
    BY <1>0, <2>2 DEF TypeOK
  <2>4. IsInjective(items') /\ ToSet(items') = ToSet(items) \ {cmd}
        /\ ToSet(rawItems') = ToSet(rawItems) \ {cmd}
    <3>1. IsInjective(items')
      BY <2>1, <2>3, WithoutProperties
    <3>2. ToSet(Without(items, cmd)) = ToSet(items) \ {cmd}
      BY <2>3, WithoutProperties
    <3>3. ToSet(Without(rawItems, cmd)) = ToSet(rawItems) \ {cmd}
      BY <2>3, WithoutProperties
    <3> QED BY <2>1, <3>1, <3>2, <3>3
  <2>5. CommandsIn(isZsh, historyList) \in Seq(Command)
    <3>1. PICK F : IsCommands(F, isZsh, historyList)
      BY CommandsSteps DEF TypeOK, Types
    <3>2. Len(historyList) \in 0 .. Len(historyList)
      BY LenProperties DEF TypeOK
    <3> QED BY <3>1, <3>2 DEF IsCommands
  <2>6. Without(Reverse(CommandsIn(isZsh, historyList)), cmd)
           = Reverse(Without(CommandsIn(isZsh, historyList), cmd))
    <3> DEFINE cmds == CommandsIn(isZsh, historyList)
    <3> HIDE DEF cmds
    <3>1. cmds \in Seq(Command)
      BY <2>5 DEF cmds
    <3>2. Without(Reverse(cmds), cmd) = Reverse(Without(cmds, cmd))
      BY <3>1, WithoutReverse
    <3> QED BY <3>2 DEF cmds
  <2>7. rawItems' = Reverse(Commands(historyList)')
    BY <1>a, <2>1, <2>2, <2>3, <2>6
  <2> QED BY <2>3, <2>4, <2>7
<1>3. CASE KillLast
  BY <1>3 DEF KillLast
<1>4. CASE LoadNothing
  BY <1>b, <1>4 DEF LoadNothing, store, ends
<1>5. CASE WriteHistory
  BY <1>b, <1>5 DEF WriteHistory, ends
<1>6. CASE MarkDirty
  BY <1>b, <1>6 DEF MarkDirty, ends
<1>7. CASE Exit
  <2>1. ended # "kill"
    BY <1>7 DEF Exit, NothingHandedOver, EarlyPhases, NULL
  <2> QED BY <1>b, <1>7, <2>1 DEF Exit
<1>8. CASE Inject \/ Flush \/ Leave
  BY <1>b, <1>8 DEF Inject, Flush, Leave, store, ends
<1>9. CASE Signal
  BY <1>b, <1>9 DEF Signal, store
<1>10. CASE ShellAppends
  BY <1>b, <1>10 DEF ShellAppends, ends
<1>11. CASE UNCHANGED vars
  BY <1>b, <1>11 DEF vars, store, ends
<1> QED BY <1>1, <1>2, <1>3, <1>4, <1>5, <1>6, <1>7, <1>8, <1>9, <1>10, <1>11 DEF Next

\* ... what the file is,
LEMMA FileInductive ==
    ASSUME TypeOK, Types, ViewsAgree, NothingHandedOver, FileFollows, [Next]_vars
    PROVE  FileFollows'
<1> USE DEF FileFollows
<1>0. \A list \in Seq(Line) : list \o <<>> = list
  OBVIOUS
<1>1. CASE Load
  <2>1. historyList' = historyFile /\ historyFile' = historyFile /\ appended' = <<>>
    BY <1>1 DEF Load
  <2> QED BY <1>0, <2>1 DEF TypeOK
<1>2. CASE Prune
  <2>1. phase' = "pruned"
    BY <1>2, PruneDeletes
  <2> QED BY <2>1
<1>3. CASE WriteHistory
  <2>1. saved' => historyFile' = historyList /\ historyList' = historyList /\ appended' = <<>>
    BY <1>3 DEF WriteHistory, Written
  <2> QED BY <1>0, <2>1 DEF TypeOK
<1>4. CASE ShellAppends
  <2>1. PICK line \in AppendedLine : historyFile' = Append(historyFile, line) /\ appended' = Append(appended, line)
    BY <1>4 DEF ShellAppends
  <2>2. UNCHANGED <<historyList, phase, saved>>
    BY <1>4 DEF ShellAppends
  <2>3. Append(historyList \o appended, line) = historyList \o Append(appended, line)
    <3>1. line \in Line /\ historyList \in Seq(Line) /\ appended \in Seq(Line)
      BY <2>1, AppendedAssumption DEF TypeOK, Types
    <3> QED BY <3>1
  <2> QED BY <2>1, <2>2, <2>3
<1>5. CASE LoadNothing
  BY <1>5 DEF LoadNothing
<1>6. CASE MarkDirty
  BY <1>6 DEF MarkDirty, ghosts
<1>7. CASE Exit
  BY <1>7 DEF Exit, ghosts
<1>8. CASE Inject \/ Flush \/ Leave
  BY <1>8 DEF Inject, Flush, Leave, store, ghosts
<1>9. CASE Signal
  BY <1>9 DEF Signal
<1>10. CASE KillLast
  BY <1>10 DEF KillLast
<1>11. CASE UNCHANGED vars
  BY <1>11 DEF vars, store, ghosts
<1> QED BY <1>1, <1>2, <1>3, <1>4, <1>5, <1>6, <1>7, <1>8, <1>9, <1>10, <1>11 DEF Next

\* ... that a deletion is noted,
LEMMA NotedInductive ==
    ASSUME TypeOK, Types, ViewsAgree, NothingHandedOver, DeletionNoted, [Next]_vars
    PROVE  DeletionNoted'
<1> USE DEF DeletionNoted
<1>1. CASE Load
  BY <1>1 DEF Load, NothingHandedOver, EarlyPhases
<1>2. CASE Prune
  <2>1. /\ almostDead' \in Command /\ phase' = "pruned" /\ deleted' # <<>>
        /\ dirty' = dirty
    <3>1. PICK cmd \in Command : deleted' = Append(deleted, cmd) /\ almostDead' = cmd /\ phase' = "pruned"
      BY <1>2, PruneDeletes
    <3>2. Append(deleted, cmd) # <<>>
      <4>1. deleted \in Seq(Command)
        BY DEF Types
      <4> HIDE DEF Command
      <4> QED BY <4>1
    <3>3. dirty' = dirty
      BY <1>2 DEF Prune
    <3> QED BY <3>1, <3>2, <3>3
  <2> QED BY <2>1, NullAssumption
<1>3. CASE WriteHistory
  BY <1>3 DEF WriteHistory, ends
<1>4. CASE MarkDirty
  <2>1. deleted # <<>>
    BY <1>4 DEF MarkDirty, NothingHandedOver, EarlyPhases
  <2> QED BY <1>4, <2>1 DEF MarkDirty, Dirtied, ghosts
<1>5. CASE LoadNothing
  BY <1>5 DEF LoadNothing, store, ghosts, ends
<1>6. CASE Exit
  <2>1. phase = "loop" /\ almostDead = NULL /\ handling = {}
    BY <1>6 DEF Exit, NothingHandedOver, EarlyPhases
  <2>2. (deleted # <<>> => dirty) /\ (dirty => deleted # <<>>)
    BY <1>6, <2>1 DEF NothingHandedOver, EarlyPhases, NULL
  <2>3. deleted' = deleted /\ (ended' = "ctrl-g" \/ dirty' = dirty) /\ (dirty' => dirty)
    BY <1>6 DEF Exit, ghosts
  <2> QED BY <2>2, <2>3
<1>7. CASE Inject \/ Flush \/ Leave
  BY <1>7 DEF Inject, Flush, Leave, store, ghosts, ends
<1>8. CASE Signal
  BY <1>8 DEF Signal, store, ghosts
<1>9. CASE KillLast
  BY <1>9 DEF KillLast, NothingHandedOver, EarlyPhases
<1>10. CASE ShellAppends
  BY <1>10 DEF ShellAppends, ends
<1>11. CASE UNCHANGED vars
  BY <1>11 DEF vars, store, ghosts, ends
<1> QED BY <1>1, <1>2, <1>3, <1>4, <1>5, <1>6, <1>7, <1>8, <1>9, <1>10, <1>11 DEF Next

\* ... that nothing is handed over before the end of the loop,
LEMMA NothingInductive ==
    ASSUME TypeOK, Types, ViewsAgree, NothingHandedOver, [Next]_vars
    PROVE  NothingHandedOver'
<1> USE DEF NothingHandedOver, EarlyPhases
<1>1. CASE Load
  BY <1>1 DEF Load, ends
<1>2. CASE Prune
  <2>1. almostDead' # NULL /\ phase' = "pruned" /\ deleted' # <<>>
    <3>1. PICK cmd \in Command : deleted' = Append(deleted, cmd) /\ almostDead' = cmd /\ phase' = "pruned"
      BY <1>2, PruneDeletes
    <3>2. Append(deleted, cmd) # <<>>
      <4>1. deleted \in Seq(Command)
        BY DEF Types
      <4> HIDE DEF Command
      <4> QED BY <4>1
    <3> QED BY <3>1, <3>2, NullAssumption
  <2>2. phase = "loop" /\ UNCHANGED <<pending, terminal, ends>>
    BY <1>2 DEF Prune
  <2> QED BY <2>1, <2>2 DEF ends
<1>3. CASE WriteHistory
  BY <1>3 DEF WriteHistory, ends
<1>4. CASE MarkDirty
  BY <1>4 DEF MarkDirty, ends
<1>5. CASE LoadNothing
  BY <1>5 DEF LoadNothing
<1>6. CASE Exit
  BY <1>6 DEF Exit
<1>7. CASE Inject \/ Flush \/ Leave
  BY <1>7 DEF Inject, Flush, Leave
<1>8. CASE Signal
  BY <1>8 DEF Signal
<1>9. CASE KillLast
  BY <1>9 DEF KillLast
<1>10. CASE ShellAppends
  BY <1>10 DEF ShellAppends, ends
<1>11. CASE UNCHANGED vars
  BY <1>11 DEF vars, store, ghosts, ends
<1> QED BY <1>1, <1>2, <1>3, <1>4, <1>5, <1>6, <1>7, <1>8, <1>9, <1>10, <1>11 DEF Next

\* ... what is handed over for a key,
LEMMA HandingInductive ==
    ASSUME TypeOK, Types, ViewsAgree, NothingHandedOver, HandingOver, [Next]_vars
    PROVE  HandingOver'
<1>1. CASE phase' = "inject" /\ phase # "inject"
  <2>1. CASE Exit
    <3>1. /\ phase = "loop" /\ handling' = handling /\ torn' = torn /\ terminal' = terminal
          /\ handling = {} /\ ~torn /\ terminal = <<>>
      BY <2>1 DEF Exit, NothingHandedOver, EarlyPhases
    <3>2. PICK keyOfExit \in {"enter", "left", "tab", "ctrl-g", "ctrl-x"},
               result \in {<<>>, <<<<"result">>>>}, isSubshellHint \in BOOLEAN :
          /\ pending' = Injected(keyOfExit, result,
                                 ~isTiocsti /\ ~isSubshellHint /\ result # <<>>)
          /\ ended' = keyOfExit
      BY <2>1 DEF Exit
    <3>3. /\ pending' \in Seq(PlainCalls)
          /\ ended' # "tab" => pending' = <<>> \/ Last(pending') = <<"newline">>
      BY <3>2, InjectedProperties
    <3>4. \A k \in DOMAIN pending' : Reloads(pending'[k]) = {}
      <4> HIDE DEF PlainCalls, Reloads
      <4>1. \A k \in DOMAIN pending' : pending'[k] \in PlainCalls
        BY <3>3
      <4> QED BY <4>1, PlainCallsProperties
    <3>5. Reloads(terminal') = {}
      <4>1. DOMAIN <<>> = {}
        OBVIOUS
      <4> QED BY <3>1, <4>1 DEF Reloads
    <3>6. HandingOver' = (phase' = "inject" =>
             /\ handling' = {} /\ ~torn'
             /\ Reloads(terminal') = {}
             /\ \A k \in DOMAIN pending' : Reloads(pending'[k]) = {}
             /\ ended' # "tab" =>
                   IF pending' = <<>> THEN FreshLine(terminal') ELSE Last(pending') = <<"newline">>)
      BY DEF HandingOver, Reloads, FreshLine
    <3>7. FreshLine(terminal')
      BY <3>1 DEF FreshLine
    <3> HIDE DEF Reloads, FreshLine
    <3> QED BY <3>1, <3>3, <3>4, <3>5, <3>6, <3>7
  <2>2. CASE Load \/ LoadNothing
    BY <1>1, <2>2 DEF Load, LoadNothing
  <2>3. CASE Prune
    <3>1. phase' = "pruned"
      BY <2>3, PruneDeletes
    <3> QED BY <1>1, <3>1
  <2>4. CASE WriteHistory \/ MarkDirty
    BY <1>1, <2>4 DEF WriteHistory, MarkDirty
  <2>5. CASE Inject \/ Flush \/ Leave
    BY <1>1, <2>5 DEF Inject, Flush, Leave
  <2>6. CASE Signal \/ KillLast \/ ShellAppends
    BY <1>1, <2>6 DEF Signal, KillLast, ShellAppends
  <2>7. CASE UNCHANGED vars
    BY <1>1, <2>7 DEF vars
  <2> QED BY <2>1, <2>2, <2>3, <2>4, <2>5, <2>6, <2>7 DEF Next
<1>2. CASE phase' = "inject" /\ phase = "inject"
  <2>1. CASE Inject
    <3> DEFINE call == Head(pending)
               rest == Tail(pending)
    <3>1. /\ pending # <<>> /\ terminal' = terminal \o call /\ pending' = rest
          /\ UNCHANGED <<handling, ended, torn>>
      BY <2>1 DEF Inject, ends
    <3>2. /\ handling = {} /\ ~torn /\ Reloads(terminal) = {}
          /\ \A k \in DOMAIN pending : Reloads(pending[k]) = {}
          /\ ended # "tab" => Last(pending) = <<"newline">>
      BY <1>2, <3>1 DEF HandingOver
    <3>3. pending \in Seq(Seq(Words)) /\ terminal \in Seq(Words)
      BY DEF Types
    <3> DEFINE T == Seq(Words)
               n == Len(pending)
    <3>4. /\ call = pending[1] /\ call \in T /\ DOMAIN pending = 1 .. n /\ n \in Nat /\ n > 0
          /\ Len(rest) = n - 1 /\ DOMAIN rest = 1 .. n - 1
          /\ \A k \in 1 .. n - 1 : rest[k] = pending[k + 1]
      <4>1. pending \in Seq(T)
        BY <3>3
      <4> HIDE DEF T
      <4>2. /\ call = pending[1] /\ call \in T /\ n \in Nat /\ n > 0
            /\ rest \in Seq(T) /\ Len(rest) = n - 1
            /\ \A k \in 1 .. n - 1 : rest[k] = pending[k + 1]
        BY <3>1, <4>1
      <4> HIDE DEF rest, call
      <4> QED BY <4>1, <4>2, LenProperties
    <3> HIDE DEF n
    <3>5. Reloads(terminal') = {}
      <4>1. 1 \in 1 .. n
        BY <3>4
      <4>2. Reloads(call) = {}
        <5> HIDE DEF Reloads, call
        <5> QED BY <3>2, <3>4, <4>1
      <4>3. Reloads(terminal \o call) = Reloads(terminal) \cup {Len(terminal) + m : m \in Reloads(call)}
        <5> HIDE DEF call, Reloads
        <5> QED BY <3>3, <3>4, ReloadsConcat
      <4> HIDE DEF Reloads, call
      <4> QED BY <3>1, <3>2, <4>2, <4>3
    <3>6. \A k \in DOMAIN rest : Reloads(rest[k]) = {}
      <4> SUFFICES ASSUME NEW k \in 1 .. n - 1 PROVE Reloads(rest[k]) = {}
        BY <3>4
      <4>1. k + 1 \in 1 .. n
        BY <3>4
      <4> HIDE DEF Reloads, rest
      <4> QED BY <3>2, <3>4, <4>1
    <3>7. ended # "tab" => IF rest = <<>> THEN FreshLine(terminal \o call) ELSE Last(rest) = <<"newline">>
      <4>0. ended # "tab" => pending[n] = <<"newline">>
        BY <3>2 DEF Last, n
      <4>1. ASSUME rest = <<>>, ended # "tab" PROVE FreshLine(terminal \o call)
        <5>1. n = 1
          <6>1. Len(<<>>) = 0
            OBVIOUS
          <6> HIDE DEF rest
          <6> QED BY <3>4, <4>1, <6>1
        <5> DEFINE line == <<"newline">>
        <5>2. call = line
          <6> HIDE DEF call
          <6> QED BY <3>4, <4>0, <4>1, <5>1
        <5>3. line # <<>> /\ Last(line) = "newline"
          BY DEF Last
        <5> HIDE DEF line, call, T, Words
        <5>4. Last(terminal \o call) = Last(call)
          BY <3>3, <3>4, <5>2, <5>3, JoinProperties DEF T
        <5> QED BY <5>2, <5>3, <5>4 DEF FreshLine
      <4>2. ASSUME rest # <<>>, ended # "tab" PROVE Last(rest) = <<"newline">>
        <5>1. n - 1 \in 1 .. n - 1 /\ (n - 1) + 1 = n
          <6>1. n - 1 # 0
            <7>1. \A t \in Seq(T) : Len(t) = 0 => t = <<>>
              OBVIOUS
            <7>2. rest \in Seq(T)
              BY <3>1, <3>3
            <7> HIDE DEF rest, T
            <7> QED BY <3>4, <4>2, <7>1, <7>2
          <6> QED BY <3>4, <6>1
        <5> HIDE DEF rest
        <5> QED BY <3>4, <4>0, <4>2, <5>1 DEF Last
      <4> QED BY <4>1, <4>2
    <3>8. HandingOver' = (phase' = "inject" =>
             /\ handling' = {} /\ ~torn'
             /\ Reloads(terminal') = {}
             /\ \A k \in DOMAIN pending' : Reloads(pending'[k]) = {}
             /\ ended' # "tab" =>
                   IF pending' = <<>> THEN FreshLine(terminal') ELSE Last(pending') = <<"newline">>)
      BY DEF HandingOver, Reloads, FreshLine
    <3> HIDE DEF Reloads, FreshLine, rest, call
    <3> QED BY <3>1, <3>2, <3>5, <3>6, <3>7, <3>8
  <2>2. CASE ~Inject
    <3>1. UNCHANGED <<terminal, pending, phase, handling, ended, torn>>
      <4>1. CASE UNCHANGED vars
        BY <4>1 DEF vars, ends
      <4>2. CASE Next
        BY <1>2, <2>2, <4>2 DEF Next, Load, LoadNothing, Prune, WriteHistory, MarkDirty, Exit, Flush,
           Leave, Signal, KillLast, ShellAppends
      <4> QED BY <4>1, <4>2
    <3> QED BY <3>1 DEF HandingOver, Reloads, FreshLine
  <2> QED BY <2>1, <2>2
<1>3. CASE phase' # "inject"
  BY <1>3 DEF HandingOver
<1> QED BY <1>1, <1>2, <1>3

\* The last three conjuncts of HandedOver, of any words in the terminal.
ReloadsAlone(words, calls, signals, z, dels, key, cut) ==
    /\ Reloads(words) # {} => ~z /\ dels # <<>>
    /\ \A n \in Reloads(words) : n = 1 \/ words[n - 1] = "newline" \/ key = "tab" \/ cut
    /\ Cardinality(Reloads(words)) + Len(calls) <= 1 + Cardinality(signals)

\* It holds where "history -r" is not there yet.
LEMMA NoReloadAlone ==
    ASSUME NEW words, NEW calls, NEW signals, NEW z, NEW dels, NEW key, NEW cut,
           Reloads(words) = {}, Len(calls) \in Nat, Len(calls) <= 1, Cardinality(signals) \in Nat
    PROVE  ReloadsAlone(words, calls, signals, z, dels, key, cut)
<1>1. Cardinality({}) = 0
  BY FS_EmptySet
<1>2. Cardinality(Reloads(words)) + Len(calls) <= 1 + Cardinality(signals)
  <2>1. Cardinality(Reloads(words)) = 0
    BY <1>1
  <2> HIDE DEF Reloads
  <2> QED BY <2>1
<1>3. \A n \in Reloads(words) : FALSE
  <2> HIDE DEF Reloads
  <2> QED OBVIOUS
<1> HIDE DEF Reloads
<1> QED BY <1>2, <1>3 DEF ReloadsAlone

\* The call of history_mgmt_flush: one "history -r", in a line.
LEMMA ReloadItself ==
    /\ Reload \in Seq(Words) /\ Reload # <<>> /\ Last(Reload) = "newline"
    /\ Reloads(Reload) = {1}
<1>1. Reload \in Seq(Words)
  <2>1. "history -r" \in Words /\ "newline" \in Words
    BY DEF Words
  <2> HIDE DEF Words
  <2> QED BY <2>1, TwoItems DEF Reload
<1>2. Reload # <<>> /\ Last(Reload) = "newline"
  BY DEF Reload, Last
<1>3. DOMAIN Reload = 1 .. 2 /\ Reload[1] = "history -r" /\ Reload[2] = "newline"
  BY DEF Reload
<1>4. \A n \in 1 .. 2 : Reload[n] = "history -r" <=> n = 1
  <2>1. \A n \in 1 .. 2 : n = 1 \/ n = 2
    OBVIOUS
  <2> QED BY <1>3, <2>1
<1>5. 1 \in 1 .. 2
  OBVIOUS
<1> HIDE DEF Reload
<1>6. Reloads(Reload) = {1}
  <2>1. \A n : n \in Reloads(Reload) <=> n = 1
    BY <1>3, <1>4, <1>5 DEF Reloads
  <2> HIDE DEF Reloads
  <2> QED BY <2>1
<1> QED BY <1>1, <1>2, <1>6

\* Nothing but "history -r" at the end is added.
LEMMA ReloadAdded ==
    ASSUME NEW t \in Seq(Words)
    PROVE  LET told == t \o Reload
           IN  /\ told \in Seq(Words) /\ IsSuffix(Reload, told) /\ FreshLine(told)
               /\ Reloads(told) = Reloads(t) \cup {Len(t) + 1}
               /\ Cardinality(Reloads(told)) = Cardinality(Reloads(t)) + 1
               /\ \A n \in 1 .. Len(t) : told[n] = t[n]
<1> DEFINE told == t \o Reload
<1>1. Reload \in Seq(Words) /\ Reload # <<>> /\ Last(Reload) = "newline"
  BY ReloadItself
<1>2. Reloads(Reload) = {1}
  BY ReloadItself
<1> HIDE DEF Reload
<1>3. told \in Seq(Words) /\ FreshLine(told) /\ \A n \in 1 .. Len(t) : told[n] = t[n]
  <2> HIDE DEF Words
  <2>1. told \in Seq(Words) /\ \A n \in 1 .. Len(t) : told[n] = t[n]
    BY <1>1, JoinProperties
  <2>2. Last(told) = Last(Reload)
    BY <1>1, JoinProperties
  <2> QED BY <1>1, <2>1, <2>2 DEF FreshLine
<1>4. IsSuffix(Reload, told)
  <2> HIDE DEF Words
  <2> QED BY <1>1, SuffixOfConcat
<1>5. Reloads(told) = Reloads(t) \cup {Len(t) + 1}
  <2>1. Reloads(told) = Reloads(t) \cup {Len(t) + n : n \in Reloads(Reload)}
    BY <1>1, ReloadsConcat
  <2> QED BY <1>2, <2>1
<1>6. IsFiniteSet(Reloads(t)) /\ Len(t) + 1 \notin Reloads(t)
  <2>1. Reloads(t) \subseteq 1 .. Len(t) /\ Len(t) \in Nat
    BY ReloadsFinite, LenProperties
  <2>2. IsFiniteSet(Reloads(t))
    BY ReloadsFinite
  <2> QED BY <2>1, <2>2
<1>7. Cardinality(Reloads(t) \cup {Len(t) + 1}) = Cardinality(Reloads(t)) + 1
  <2> HIDE DEF Reloads
  <2> QED BY <1>6, FS_AddElement
<1> HIDE DEF told, Reloads
<1> QED BY <1>3, <1>4, <1>5, <1>7 DEF told

\* ... and what the shell is told in the end.
LEMMA HandedInductive ==
    ASSUME TypeOK, Types, ViewsAgree, NothingHandedOver, HandingOver, DeletionNoted, HandedOver,
           [Next]_vars
    PROVE  HandedOver'
<1>0. /\ HandedOver = (phase \in LatePhases =>
             /\ IF pending # <<>> THEN dirty /\ ~isZsh /\ pending = <<Reload>> /\ phase = "flush"
                ELSE dirty /\ ~isZsh => IsSuffix(Reload, terminal)
             /\ ended # "tab" /\ ~torn => FreshLine(terminal)
             /\ ReloadsAlone(terminal, pending, handling, isZsh, deleted, ended, torn))
      /\ HandedOver' = (phase' \in LatePhases =>
             /\ IF pending' # <<>> THEN dirty' /\ ~isZsh' /\ pending' = <<Reload>> /\ phase' = "flush"
                ELSE dirty' /\ ~isZsh' => IsSuffix(Reload, terminal')
             /\ ended' # "tab" /\ ~torn' => FreshLine(terminal')
             /\ ReloadsAlone(terminal', pending', handling', isZsh', deleted', ended', torn'))
  BY DEF HandedOver, ReloadsAlone, Reloads, FreshLine, IsSuffix, IsPrefix, Reverse, Reload, Last
<1>t. terminal \in Seq(Words) /\ IsFiniteSet(handling) /\ Cardinality(handling) \in Nat
      /\ (terminal = <<>> => Reloads(terminal) = {})
  <2>1. terminal \in Seq(Words) /\ IsFiniteSet(handling)
    BY DEF Types
  <2>2. DOMAIN <<>> = {}
    OBVIOUS
  <2> QED BY <2>1, <2>2, FS_CardinalityType DEF Reloads
<1>e. Cardinality({}) = 0 /\ Len(<<>>) = 0 /\ Len(<<Reload>>) = 1
  BY FS_EmptySet
<1>f. Flushed = IF dirty /\ ~isZsh THEN <<Reload>> ELSE <<>>
  BY DEF Flushed
<1>n. <<Reload>> # <<>>
  OBVIOUS
<1>1. CASE LoadNothing \/ KillLast
  <2>1. /\ pending' = <<>> /\ terminal' = <<>> /\ terminal = <<>> /\ dirty' = FALSE /\ handling' = {}
    BY <1>1 DEF LoadNothing, KillLast, NothingHandedOver, EarlyPhases, store, ends
  <2>2. Reloads(terminal') = {}
    BY <1>t, <2>1
  <2>3. ReloadsAlone(terminal', pending', handling', isZsh', deleted', ended', torn')
    <3>1. Cardinality(handling') \in Nat /\ Len(pending') \in Nat /\ Len(pending') <= 1
      BY <1>e, <2>1
    <3> HIDE DEF Reloads, ReloadsAlone
    <3> QED BY <2>2, <3>1, NoReloadAlone
  <2>4. FreshLine(terminal')
    BY <2>1 DEF FreshLine
  <2> HIDE DEF ReloadsAlone, FreshLine, HandedOver
  <2> QED BY <1>0, <2>1, <2>3, <2>4
<1>2. CASE Flush
  <2>1. /\ phase = "inject" /\ pending = <<>> /\ pending' = Flushed /\ phase' = "flush"
        /\ UNCHANGED <<terminal, dirty, isZsh, deleted, handling, ended, torn>>
    BY <1>2 DEF Flush, store, ghosts, ends
  <2>2. handling = {} /\ Reloads(terminal) = {} /\ (ended # "tab" => FreshLine(terminal))
    BY <2>1 DEF HandingOver
  <2>3. Len(pending') <= 1
    <3> HIDE DEF Flushed, Reload
    <3> QED BY <1>e, <1>f, <2>1
  <2>4. ReloadsAlone(terminal', pending', handling', isZsh', deleted', ended', torn')
    <3>1. Reloads(terminal') = {}
      BY <2>1, <2>2
    <3>2. Len(pending') \in Nat
      <4> HIDE DEF Flushed, Reload
      <4> QED BY <1>e, <1>f, <2>1
    <3>3. Cardinality(handling') \in Nat /\ Len(pending') \in Nat /\ Len(pending') <= 1
      <4> HIDE DEF Flushed
      <4>1. Cardinality(handling') = Cardinality(handling)
        BY <2>1
      <4>2. Len(pending') \in Nat /\ Len(pending') <= 1
        BY <2>3, <3>2
      <4> QED BY <1>t, <4>1, <4>2
    <3> HIDE DEF Reloads, ReloadsAlone
    <3> QED BY <3>1, <3>3, NoReloadAlone
  <2>5. IF pending' # <<>> THEN dirty' /\ ~isZsh' /\ pending' = <<Reload>> /\ phase' = "flush"
        ELSE dirty' /\ ~isZsh' => IsSuffix(Reload, terminal')
    <3> HIDE DEF Flushed, Reload
    <3> QED BY <1>f, <1>n, <2>1
  <2> HIDE DEF ReloadsAlone, FreshLine, HandedOver, Flushed, Reload
  <2> QED BY <1>0, <2>1, <2>2, <2>4, <2>5
<1>3. CASE Inject /\ phase = "flush"
  <2>1. /\ pending # <<>> /\ terminal' = terminal \o Head(pending) /\ pending' = Tail(pending)
        /\ UNCHANGED <<dirty, isZsh, deleted, phase, handling, ended, torn>>
    BY <1>3 DEF Inject, store, ghosts, ends
  <2>2. /\ dirty /\ ~isZsh /\ pending = <<Reload>>
        /\ (ended # "tab" /\ ~torn => FreshLine(terminal))
        /\ ReloadsAlone(terminal, pending, handling, isZsh, deleted, ended, torn)
    <3> HIDE DEF ReloadsAlone, FreshLine, HandedOver, Reload
    <3> QED BY <1>0, <1>3, <2>1 DEF LatePhases
  <2>3. pending' = <<>> /\ terminal' = terminal \o Reload
    <3> HIDE DEF Reload
    <3>1. Head(<<Reload>>) = Reload /\ Tail(<<Reload>>) = <<>>
      OBVIOUS
    <3> QED BY <2>1, <2>2, <3>1
  <2>4. deleted # <<>>
    BY <2>2 DEF DeletionNoted
  <2> DEFINE told == terminal \o Reload
  <2>5. /\ IsSuffix(Reload, told) /\ FreshLine(told)
        /\ Reloads(told) = Reloads(terminal) \cup {Len(terminal) + 1}
        /\ Cardinality(Reloads(told)) = Cardinality(Reloads(terminal)) + 1
        /\ \A n \in 1 .. Len(terminal) : told[n] = terminal[n]
    BY <1>t, ReloadAdded
  <2> HIDE DEF told
  <2>6. ASSUME NEW n \in Reloads(told)
        PROVE  n = 1 \/ told[n - 1] = "newline" \/ ended = "tab" \/ torn
    <3>1. Reloads(terminal) \subseteq 1 .. Len(terminal) /\ Len(terminal) \in Nat
      BY <1>t, ReloadsFinite, LenProperties
    <3>2. CASE n \in Reloads(terminal)
      <4>1. n = 1 \/ terminal[n - 1] = "newline" \/ ended = "tab" \/ torn
        BY <2>2, <3>2 DEF ReloadsAlone
      <4>2. n # 1 => n - 1 \in 1 .. Len(terminal)
        BY <3>1, <3>2
      <4> QED BY <2>5, <4>1, <4>2
    <3>3. CASE n = Len(terminal) + 1 /\ ended # "tab" /\ ~torn
      <4>1. FreshLine(terminal)
        BY <2>2, <3>3
      <4>2. CASE terminal = <<>>
        BY <3>3, <4>2, <1>e
      <4>3. CASE terminal # <<>>
        <5>1. Len(terminal) # 0
          <6>1. \A t \in Seq(Words) : Len(t) = 0 => t = <<>>
            <7> HIDE DEF Words
            <7> QED OBVIOUS
          <6> HIDE DEF Words
          <6> QED BY <1>t, <4>3, <6>1
        <5>2. terminal[Len(terminal)] = "newline" /\ Len(terminal) \in 1 .. Len(terminal) /\ n - 1 = Len(terminal)
          BY <3>1, <3>3, <4>1, <4>3, <5>1 DEF FreshLine, Last
        <5> QED BY <2>5, <5>2
      <4> QED BY <4>2, <4>3
    <3> QED BY <2>5, <2>6, <3>2, <3>3
  <2>7. ReloadsAlone(told, <<>>, handling, isZsh, deleted, ended, torn)
    <3>1. Cardinality(Reloads(terminal)) + 1 <= 1 + Cardinality(handling)
          /\ Cardinality(Reloads(terminal)) \in Nat
      <4> HIDE DEF Reloads, Reload
      <4> QED BY <1>e, <1>t, <2>2, ReloadsFinite DEF ReloadsAlone
    <3> HIDE DEF Reloads
    <3> QED BY <1>e, <1>t, <2>2, <2>4, <2>5, <2>6, <3>1 DEF ReloadsAlone
  <2> HIDE DEF ReloadsAlone, FreshLine, HandedOver, Reload
  <2> QED BY <1>0, <2>1, <2>3, <2>5, <2>7 DEF told
<1>4. CASE Leave
  <2>1. /\ UNCHANGED <<pending, terminal, dirty, isZsh, deleted, handling, ended, torn>>
        /\ phase \in LatePhases /\ (pending # <<>> => phase # "flush")
    BY <1>4 DEF Leave, store, ghosts, ends, LatePhases
  <2> HIDE DEF ReloadsAlone, FreshLine, HandedOver, Reload
  <2> QED BY <1>0, <2>1
<1>5. CASE Signal
  <2>1. /\ pending' = Flushed /\ phase' = "flush" /\ torn' = (torn \/ pending # <<>>)
        /\ UNCHANGED <<dirty, isZsh, deleted, ended>>
    BY <1>5 DEF Signal, store, ghosts
  <2>2. PICK signum \in Signum \ handling : handling' = handling \cup {signum}
    BY <1>5 DEF Signal
  <2>3. Cardinality(handling') = Cardinality(handling) + 1
    BY <1>t, <2>2, FS_AddElement
  <2>4. Len(Flushed) \in Nat /\ Len(Flushed) <= 1
    <3> HIDE DEF Flushed, Reload
    <3> QED BY <1>e, <1>f
  <2>5. IF pending' # <<>> THEN dirty' /\ ~isZsh' /\ pending' = <<Reload>> /\ phase' = "flush"
        ELSE dirty' /\ ~isZsh' => IsSuffix(Reload, terminal')
    <3> HIDE DEF Flushed, Reload
    <3> QED BY <1>f, <1>n, <2>1
  <2>6. CASE pending = <<>>
    <3>1. terminal' = terminal
      BY <1>5, <2>6 DEF Signal
    <3>2. /\ ended # "tab" /\ ~torn => FreshLine(terminal)
          /\ ReloadsAlone(terminal, <<>>, handling, isZsh, deleted, ended, torn)
      <4>1. CASE phase \in {"loop", "pruned", "written"}
        <5>1. terminal = <<>>
          BY <4>1 DEF NothingHandedOver, EarlyPhases
        <5>2. ReloadsAlone(terminal, <<>>, handling, isZsh, deleted, ended, torn)
          <6>1. Reloads(terminal) = {}
            BY <1>t, <5>1
          <6>2. Len(<<>>) \in Nat /\ Len(<<>>) <= 1
            BY <1>e
          <6> HIDE DEF Reloads, ReloadsAlone
          <6> QED BY <1>t, <6>1, <6>2, NoReloadAlone
        <5> QED BY <5>1, <5>2 DEF FreshLine
      <4>2. CASE phase = "inject"
        <5>1. Reloads(terminal) = {} /\ (ended # "tab" => FreshLine(terminal))
          BY <2>6, <4>2 DEF HandingOver
        <5>2. ReloadsAlone(terminal, <<>>, handling, isZsh, deleted, ended, torn)
          <6>1. Len(<<>>) \in Nat /\ Len(<<>>) <= 1
            BY <1>e
          <6> HIDE DEF Reloads, ReloadsAlone
          <6> QED BY <1>t, <5>1, <6>1, NoReloadAlone
        <5> HIDE DEF FreshLine, ReloadsAlone
        <5> QED BY <5>1, <5>2
      <4>3. CASE phase \in LatePhases
        <5> HIDE DEF ReloadsAlone, FreshLine, HandedOver, Reload
        <5> QED BY <1>0, <2>6, <4>3
      <4> QED BY <1>5, <4>1, <4>2, <4>3 DEF Signal, LatePhases
    <3>3. ReloadsAlone(terminal', pending', handling', isZsh', deleted', ended', torn')
      <4>1. Cardinality(Reloads(terminal)) \in Nat
        BY <1>t, ReloadsFinite
      <4>2. /\ Reloads(terminal) # {} => ~isZsh /\ deleted # <<>>
            /\ \A n \in Reloads(terminal) :
                  n = 1 \/ terminal[n - 1] = "newline" \/ ended = "tab" \/ torn
            /\ Cardinality(Reloads(terminal)) + 0 <= 1 + Cardinality(handling)
        <5> HIDE DEF Reloads
        <5> QED BY <1>e, <3>2 DEF ReloadsAlone
      <4>3. Cardinality(Reloads(terminal)) + Len(pending') <= 1 + Cardinality(handling')
        <5> HIDE DEF Reloads, Flushed
        <5> QED BY <1>t, <2>1, <2>3, <2>4, <4>1, <4>2
      <4>4. torn' = torn
        BY <2>1, <2>6 DEF Types
      <4>5. terminal' = terminal /\ isZsh' = isZsh /\ deleted' = deleted /\ ended' = ended
        BY <2>1, <3>1
      <4> HIDE DEF Reloads, Flushed
      <4> QED BY <4>2, <4>3, <4>4, <4>5 DEF ReloadsAlone
    <3> HIDE DEF ReloadsAlone, FreshLine, HandedOver, Reload, Flushed
    <3> QED BY <1>0, <2>1, <2>5, <2>6, <3>1, <3>2, <3>3
  <2>7. CASE pending # <<>>
    <3>1. torn'
      BY <2>1, <2>7
    <3> DEFINE call == Head(pending)
    <3>2. call \in Seq(Words)
      <4>1. pending \in Seq(Seq(Words))
        BY DEF Types
      <4> HIDE DEF Words
      <4> QED BY <2>7, <4>1
    <3>3. phase \in {"inject", "flush"}
      <4>1. phase \in {"loop", "pruned", "written"} => pending = <<>>
        BY DEF NothingHandedOver, EarlyPhases
      <4>2. phase \in LatePhases => phase = "flush"
        <5> HIDE DEF ReloadsAlone, FreshLine, HandedOver, Reload
        <5> QED BY <1>0, <2>7
      <4> QED BY <1>5, <2>7, <4>1, <4>2 DEF Signal, LatePhases
    <3>4. /\ Reloads(terminal') \subseteq
                Reloads(terminal) \cup {Len(terminal) + n : n \in Reloads(call)}
          /\ terminal' \in Seq(Words)
      <4>1. CASE isTiocsti
        <5>1. PICK bytes \in Arrived(call) : terminal' = terminal \o bytes
          BY <1>5, <2>7, <4>1 DEF Signal
        <5> HIDE DEF call
        <5>2. bytes \in Seq(Words) /\ Reloads(bytes) \subseteq Reloads(call)
          BY <3>2, <5>1, ArrivedProperties
        <5>3. Reloads(terminal \o bytes) = Reloads(terminal) \cup {Len(terminal) + n : n \in Reloads(bytes)}
          BY <1>t, <5>2, ReloadsConcat
        <5>4. terminal \o bytes \in Seq(Words)
          <6> HIDE DEF Words
          <6> QED BY <1>t, <5>2
        <5> HIDE DEF Reloads, Words
        <5> QED BY <5>1, <5>2, <5>3, <5>4
      <4>2. CASE ~isTiocsti
        <5>1. terminal' = terminal
          BY <1>5, <4>2 DEF Signal
        <5> HIDE DEF Reloads, Words
        <5> QED BY <1>t, <5>1
      <4> QED BY <4>1, <4>2
    <3> HIDE DEF call
    <3>5. /\ Reloads(terminal') # {} => ~isZsh /\ deleted # <<>>
          /\ Cardinality(Reloads(terminal')) <= 1 + Cardinality(handling)
          /\ Cardinality(Reloads(terminal')) \in Nat
      <4>1. CASE phase = "inject"
        <5>1. Reloads(terminal) = {}
          BY <4>1 DEF HandingOver
        <5>2. Reloads(call) = {}
          <6>1. \A k \in DOMAIN pending : Reloads(pending[k]) = {}
            BY <4>1 DEF HandingOver
          <6>2. 1 \in DOMAIN pending /\ call = pending[1]
            <7> DEFINE T == Seq(Words)
            <7>1. pending \in Seq(T)
              BY DEF Types
            <7> HIDE DEF T
            <7> QED BY <2>7, <7>1 DEF call
          <6> HIDE DEF Reloads
          <6> QED BY <6>1, <6>2
        <5>3. Reloads(terminal') = {}
          <6> HIDE DEF Reloads
          <6> QED BY <3>4, <5>1, <5>2
        <5> HIDE DEF Reloads
        <5> QED BY <1>e, <1>t, <5>3
      <4>2. CASE phase = "flush"
        <5>1. /\ dirty /\ ~isZsh /\ pending = <<Reload>>
              /\ ReloadsAlone(terminal, pending, handling, isZsh, deleted, ended, torn)
          <6> HIDE DEF ReloadsAlone, FreshLine, HandedOver, Reload
          <6> QED BY <1>0, <2>7, <4>2 DEF LatePhases
        <5>2. call = Reload
          <6> HIDE DEF Reload
          <6>1. Head(<<Reload>>) = Reload
            OBVIOUS
          <6> QED BY <5>1, <6>1 DEF call
        <5>3. Reloads(Reload) = {1}
          BY ReloadItself
        <5> HIDE DEF Reloads, Reload, Words
        <5>4. Reloads(terminal') \subseteq Reloads(terminal) \cup {Len(terminal) + 1}
          BY <3>4, <5>2, <5>3
        <5>5. IsFiniteSet(Reloads(terminal)) /\ Cardinality(Reloads(terminal)) \in Nat
          BY <1>t, ReloadsFinite
        <5>6. IsFiniteSet(Reloads(terminal) \cup {Len(terminal) + 1})
              /\ Cardinality(Reloads(terminal) \cup {Len(terminal) + 1})
                    <= Cardinality(Reloads(terminal)) + 1
          <6> DEFINE next == Len(terminal) + 1
                     old == Reloads(terminal)
          <6> HIDE DEF next, old
          <6>1. IsFiniteSet(old) /\ Cardinality(old) \in Nat
            BY <5>5 DEF old
          <6>2. IsFiniteSet(old \cup {next})
                /\ Cardinality(old \cup {next}) =
                      IF next \in old THEN Cardinality(old) ELSE Cardinality(old) + 1
            BY <6>1, FS_AddElement
          <6>3. Cardinality(old \cup {next}) <= Cardinality(old) + 1
            BY <6>1, <6>2
          <6> QED BY <6>2, <6>3 DEF next, old
        <5>7. Cardinality(Reloads(terminal'))
                 <= Cardinality(Reloads(terminal) \cup {Len(terminal) + 1})
          BY <5>4, <5>6, FS_Subset
        <5>8. Cardinality(Reloads(terminal)) + 1 <= 1 + Cardinality(handling)
          BY <1>e, <5>1 DEF ReloadsAlone
        <5>9. Cardinality(Reloads(terminal')) \in Nat
              /\ Cardinality(Reloads(terminal) \cup {Len(terminal) + 1}) \in Nat
          BY <3>4, <5>6, ReloadsFinite, FS_CardinalityType
        <5>10. deleted # <<>>
          BY <5>1 DEF DeletionNoted
        <5> QED BY <1>t, <5>1, <5>5, <5>6, <5>7, <5>8, <5>9, <5>10
      <4> QED BY <3>3, <4>1, <4>2
    <3>6. ReloadsAlone(terminal', pending', handling', isZsh', deleted', ended', torn')
      <4> HIDE DEF Reloads, Flushed
      <4> QED BY <1>t, <2>1, <2>3, <2>4, <3>1, <3>5 DEF ReloadsAlone
    <3> HIDE DEF ReloadsAlone, FreshLine, HandedOver, Reload, Flushed
    <3> QED BY <1>0, <2>1, <2>5, <3>1, <3>6
  <2> QED BY <2>6, <2>7
<1>6. CASE phase' \notin LatePhases
  BY <1>6 DEF HandedOver
<1>7. CASE UNCHANGED <<pending, terminal, dirty, isZsh, deleted, phase, handling, ended, torn>>
  <2> HIDE DEF ReloadsAlone, FreshLine, HandedOver, Reload
  <2> QED BY <1>0, <1>7
<1>8. phase' \notin LatePhases \/ Flush \/ (Inject /\ phase = "flush") \/ Leave \/ Signal
      \/ LoadNothing \/ KillLast
      \/ UNCHANGED <<pending, terminal, dirty, isZsh, deleted, phase, handling, ended, torn>>
  <2>1. CASE UNCHANGED vars
    BY <2>1 DEF vars, store, ghosts, ends
  <2>2. CASE Load \/ WriteHistory \/ MarkDirty \/ Exit \/ ShellAppends
    BY <2>2 DEF Load, WriteHistory, MarkDirty, Exit, ShellAppends, LatePhases
  <2>3. CASE Prune
    <3>1. phase' = "pruned"
      BY <2>3, PruneDeletes
    <3> QED BY <3>1 DEF LatePhases
  <2>4. CASE Inject
    BY <2>4 DEF Inject, LatePhases
  <2> QED BY <2>1, <2>2, <2>3, <2>4 DEF Next
<1> QED BY <1>1, <1>2, <1>3, <1>4, <1>5, <1>6, <1>7, <1>8

\* OnlyDeletedGone, with the shell as a parameter.
LEMMA LeftIsSurvivors ==
    /\ OnlyDeletedGone <=> (ended # "kill" => historyList = LeftIn(isZsh, loaded, deleted))
<1>1. FoldLeft(Survivors, loaded, deleted) = LeftIn(isZsh, loaded, deleted)
  BY DEF LeftIn, FoldLeft, MapThenFoldSet, Survivors, SurvivorsIn, Dead, DeadIn,
         Says, SaysIn, CommandOf, CommandIn
<1> QED BY <1>1 DEF OnlyDeletedGone

\* Every step keeps what is left of what was read.
LEMMA LeftInductive ==
    ASSUME IInv, DeletionsApplied, [Next]_vars
    PROVE  DeletionsApplied'
<1> USE DEF DeletionsApplied
<1>0. TypeOK /\ Types /\ ViewsAgree /\ NothingHandedOver
  BY DEF IInv
<1>1. CASE Load
  <2>1. historyList' = historyFile /\ loaded' = historyFile /\ deleted' = deleted /\ phase' = "loop"
        /\ isZsh' = isZsh
    BY <1>1 DEF Load
  <2>2. deleted = <<>>
    BY <1>0, <1>1 DEF Load, NothingHandedOver, EarlyPhases
  <2>3. LeftIn(isZsh, historyFile, <<>>) = historyFile
    BY <1>0, LeftNone DEF TypeOK, Types
  <2> QED BY <2>1, <2>2, <2>3
<1>2. CASE Prune
  <2>1. PICK cmd \in Command :
              /\ deleted' = Append(deleted, cmd)
              /\ historyList' = SweptIn(isZsh, cmd, historyList)
              /\ phase' = "pruned"
    BY <1>0, <1>2, PruneDeletes
  <2>2. loaded' = loaded /\ isZsh' = isZsh /\ ended = NULL
    BY <1>0, <1>2 DEF Prune, NothingHandedOver, EarlyPhases
  <2>3. ended # "kill"
    BY <2>2 DEF NULL
  <2>4. historyList' = SurvivorsIn(isZsh, historyList, cmd)
    BY <1>0, <2>1, SweptAreSurvivors DEF TypeOK
  <2>5. LeftIn(isZsh, loaded, Append(deleted, cmd)) = SurvivorsIn(isZsh, LeftIn(isZsh, loaded, deleted), cmd)
    BY <1>0, LeftAppend DEF TypeOK, Types
  <2> QED BY <2>1, <2>2, <2>3, <2>4, <2>5
<1>3. CASE KillLast
  BY <1>3 DEF KillLast
<1>4. CASE UNCHANGED <<isZsh, historyList, loaded, deleted>> /\ phase' # "start"
           /\ (ended' # "kill" => ended # "kill")
  BY <1>4
<1>5. CASE LoadNothing \/ MarkDirty \/ Exit \/ Inject \/ Flush \/ Leave \/ Signal \/ ShellAppends
           \/ WriteHistory
  <2>1. UNCHANGED <<isZsh, historyList, loaded, deleted>>
    BY <1>5 DEF LoadNothing, MarkDirty, Exit, Inject, Flush, Leave, Signal, ShellAppends,
               WriteHistory, store, ghosts, ends
  <2>2. ended' # "kill" => ended # "kill"
    BY <1>0, <1>5 DEF LoadNothing, MarkDirty, Exit, Inject, Flush, Leave, Signal, ShellAppends,
               WriteHistory, store, ghosts, ends, Types, NULL
  <2>3. phase' # "start"
    BY <1>5 DEF LoadNothing, MarkDirty, Exit, Inject, Flush, Leave, Signal, ShellAppends,
               WriteHistory
  <2> QED BY <1>4, <2>1, <2>2, <2>3
<1>6. CASE UNCHANGED vars
  BY <1>6 DEF vars, store, ghosts, ends
<1> QED BY <1>1, <1>2, <1>3, <1>5, <1>6 DEF Next

\* The invariant holds at the start,
LEMMA InitInvariant == Init => IInv
<1> SUFFICES ASSUME Init PROVE IInv
  OBVIOUS
<1>1. /\ historyFile \in Seq(Line)
      /\ historyList = <<>> /\ rawItems = <<>> /\ items = <<>> /\ loaded = <<>> /\ deleted = <<>>
      /\ appended = <<>> /\ pending = <<>> /\ terminal = <<>>
      /\ isZsh \in BOOLEAN /\ isTiocsti \in BOOLEAN
      /\ almostDead = NULL /\ dirty = FALSE /\ phase = "start" /\ saved = TRUE
      /\ handling = {} /\ ended = NULL /\ torn = FALSE
  BY FilesAssumption DEF Init
<1>2. \A S : <<>> \in Seq(S)
  OBVIOUS
<1>3. TypeOK
  BY <1>1, <1>2 DEF TypeOK
<1>4. Types
  <2>1. NULL # "kill" /\ IsFiniteSet(handling)
    BY <1>1, FS_EmptySet DEF NULL
  <2> HIDE DEF Words, Command, NULL
  <2> QED BY <1>1, <1>2, <2>1 DEF Types
<1>5. ViewsAgree
  <2>1. CommandsIn(isZsh, <<>>) = <<>>
    <3>1. <<>> \in Seq(Line) /\ Len(<<>>) = 0
      OBVIOUS
    <3>2. PICK F : IsCommands(F, isZsh, <<>>)
      BY <1>1, <3>1, CommandsSteps
    <3> QED BY <3>1, <3>2 DEF IsCommands
  <2>2. Commands(historyList) = <<>>
    BY <1>1, <2>1, Parameterised
  <2>3. Reverse(<<>>) = <<>> /\ DOMAIN <<>> = {}
    BY DEF Reverse
  <2> QED BY <1>1, <2>2, <2>3 DEF ViewsAgree, IsInjective, ToSet
<1>6. NothingHandedOver
  BY <1>1 DEF NothingHandedOver
<1>7. HandingOver /\ HandedOver /\ DeletionNoted /\ FileFollows
  BY <1>1 DEF HandingOver, HandedOver, DeletionNoted, FileFollows, LatePhases
<1>8. DeletionsApplied
  <2>1. LeftIn(isZsh, <<>>, <<>>) = <<>>
    BY <1>1, <1>2, LeftNone
  <2> QED BY <1>1, <2>1 DEF DeletionsApplied
<1> QED BY <1>3, <1>4, <1>5, <1>6, <1>7, <1>8 DEF IInv

\* ... and every step keeps it.
LEMMA StepInvariant == IInv /\ [Next]_vars => IInv'
<1> SUFFICES ASSUME IInv, [Next]_vars PROVE IInv'
  OBVIOUS
<1>1. TypeOK /\ Types /\ ViewsAgree /\ NothingHandedOver /\ HandingOver /\ DeletionNoted
      /\ HandedOver /\ FileFollows
  BY DEF IInv
<1>2. TypeOK' /\ Types'
  BY <1>1, TypesInductive
<1>3. ViewsAgree'
  BY <1>1, ViewsInductive
<1>4. NothingHandedOver' /\ HandingOver'
  BY <1>1, NothingInductive, HandingInductive
<1>5. DeletionNoted' /\ HandedOver'
  BY <1>1, NotedInductive, HandedInductive
<1>6. FileFollows'
  BY <1>1, FileInductive
<1>7. DeletionsApplied'
  BY <1>1, LeftInductive DEF IInv
<1> QED BY <1>2, <1>3, <1>4, <1>5, <1>6, <1>7 DEF IInv

-----------------------------------------------------------------------------
\* The invariant holds in every state, with any signals at any step
\* (remove_from_history_model, loop_to_select, history_mgmt_flush).
THEOREM Invariant == Spec => []IInv
<1>1. Init => IInv
  BY InitInvariant
<1>2. IInv /\ [Next]_vars => IInv'
  BY StepInvariant
<1> QED BY <1>1, <1>2, PTL DEF Spec

\* The types hold: the views have commands, never lines or timestamps.
THEOREM TypeCorrect == Spec => []TypeOK
<1>1. IInv => TypeOK
  BY DEF IInv
<1> QED BY <1>1, Invariant, PTL

\* The raw view is readline's list backwards and the ranking has no command twice and
\* none the list has lost, whatever is deleted (remove_from_history_model).
THEOREM ViewsStayInAgreement == Spec => []ViewsAgree
<1>1. IInv => ViewsAgree
  BY DEF IInv
<1> QED BY <1>1, Invariant, PTL

\* Deletions take the lines that say a deleted command and the timestamps before them, and
\* nothing else (history_mgmt_remove_from_system_history).
THEOREM OnlyDeletedIsGone == Spec => []OnlyDeletedGone
<1>1. IInv => OnlyDeletedGone
  BY LeftIsSurvivors DEF IInv, DeletionsApplied
<1> QED BY <1>1, Invariant, PTL

\* Between two keys the file is what hstr has in memory, with what the shells appended
\* since, if it could be written (history_mgmt_remove_from_system_history).
THEOREM FileKeepsWhatIsKept == Spec => []FileIsList
<1>1. IInv => FileIsList
  BY DEF IInv, FileFollows, FileIsList
<1> QED BY <1>1, Invariant, PTL

\* bash is told to read the file again once a deletion was noted, however many signals
\* come (history_mgmt_flush, signal_callback_handler_ctrl_c).
THEOREM ShellIsTold == Spec => []ReloadTold
<1>1. IInv => ReloadTold
  <2> SUFFICES ASSUME HandedOver, DeletionNoted, phase = "exited", ~isZsh, deleted # <<>>
               PROVE  IsSuffix(Reload, terminal) \/ ended = "ctrl-g" \/ (handling # {} /\ almostDead # NULL)
    BY DEF IInv, ReloadTold
  <2>1. CASE dirty
    BY <2>1 DEF HandedOver, LatePhases
  <2>2. CASE ~dirty
    BY <2>2 DEF DeletionNoted
  <2> QED BY <2>1, <2>2
<1> QED BY <1>1, Invariant, PTL

\* ... and only then, in a line of its own, once and once more for each signal.
THEOREM ShellIsToldAlone == Spec => []ReloadRunsAlone
<1>1. IInv => ReloadRunsAlone
  <2> SUFFICES ASSUME IInv PROVE ReloadRunsAlone
    OBVIOUS
  <2>1. ReloadRunsAlone =
           (/\ Reloads(terminal) # {} => ~isZsh /\ deleted # <<>>
            /\ \A n \in Reloads(terminal) :
                  n = 1 \/ terminal[n - 1] = "newline" \/ ended = "tab" \/ torn
            /\ Cardinality(Reloads(terminal)) <= 1 + Cardinality(handling))
    BY DEF ReloadRunsAlone, Reloads
  <2>2. terminal \in Seq(Words) /\ Cardinality(handling) \in Nat /\ Cardinality({}) = 0
    BY FS_CardinalityType, FS_EmptySet DEF IInv, Types
  <2>3. CASE phase \in EarlyPhases \cup {"inject"}
    <3>1. Reloads(terminal) = {}
      <4>1. CASE phase \in EarlyPhases
        <5>1. terminal = <<>> /\ DOMAIN <<>> = {}
          BY <4>1 DEF IInv, NothingHandedOver
        <5> QED BY <5>1 DEF Reloads
      <4>2. CASE phase = "inject"
        BY <4>2 DEF IInv, HandingOver
      <4> QED BY <2>3, <4>1, <4>2
    <3>2. \A n \in Reloads(terminal) : FALSE
      BY <3>1
    <3>3. Cardinality(Reloads(terminal)) <= 1 + Cardinality(handling)
      <4>1. Cardinality(Reloads(terminal)) = 0
        BY <2>2, <3>1
      <4> HIDE DEF Reloads
      <4> QED BY <2>2, <4>1
    <3> HIDE DEF Reloads
    <3> QED BY <2>1, <3>1, <3>2, <3>3
  <2>4. CASE phase \in LatePhases
    <3>1. /\ Reloads(terminal) # {} => ~isZsh /\ deleted # <<>>
          /\ \A n \in Reloads(terminal) :
                n = 1 \/ terminal[n - 1] = "newline" \/ ended = "tab" \/ torn
          /\ Cardinality(Reloads(terminal)) + Len(pending) <= 1 + Cardinality(handling)
      BY <2>4 DEF IInv, HandedOver
    <3>2. Len(pending) \in Nat /\ Cardinality(Reloads(terminal)) \in Nat
      <4>1. pending \in Seq(Seq(Words))
        BY DEF IInv, Types
      <4>2. Len(pending) \in Nat
        <5> HIDE DEF Words
        <5> QED BY <4>1
      <4> QED BY <2>2, <4>2, ReloadsFinite
    <3>3. Cardinality(Reloads(terminal)) <= 1 + Cardinality(handling)
      <4> HIDE DEF Reloads
      <4> QED BY <2>2, <3>1, <3>2
    <3> HIDE DEF Reloads
    <3> QED BY <2>1, <3>1, <3>3
  <2>5. phase \in EarlyPhases \cup {"inject"} \cup LatePhases
    BY DEF IInv, TypeOK, EarlyPhases, LatePhases
  <2> QED BY <2>3, <2>4, <2>5
<1> QED BY <1>1, Invariant, PTL

=============================================================================
