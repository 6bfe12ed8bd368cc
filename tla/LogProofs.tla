------------------------------ MODULE LogProofs ------------------------------
(***************************************************************************)
(* Theorems about the GUI's log queue, the types of Logging and the log    *)
(* files, with the facts about files they rest on: for any number of       *)
(* threads, any limit and any width of the counter that holds limit and    *)
(* threads together, any sizes and limits, and over all starts, ends and   *)
(* crashes of the two programs that share the files.                       *)
(***************************************************************************)
EXTENDS Logging, SubsequenceProofs

\* Lines that are sent and not subtracted.
Outstanding == Len(channel) + Taken

\* The counter is off by the lines that are not counted, and wraps below zero.
Exact ==
    counter = IF Outstanding >= uncounted THEN Outstanding - uncounted
              ELSE Outstanding - uncounted + CounterMod

\* A thread that has passed is one of the Threads, none of which passes when
\* the lines sent and counted have reached the limit.
Room == Outstanding + passed <= MaxBacklog - 1 + Threads

Backlog == QueueTypeOK /\ Exact /\ Room

-----------------------------------------------------------------------------
\* The remainder of a number that is off by less than one turn.
LEMMA Turn ==
    ASSUME NEW m \in Nat, NEW x \in Int, 0 - m <= x, x < m
    PROVE  x % m = IF x >= 0 THEN x ELSE x + m
<1>1. CASE x >= 0
    BY <1>1, SMT
<1>2. CASE x < 0
    BY <1>2, SMT
<1> QED
    BY <1>1, <1>2

LEMMA Lengths ==
    ASSUME QueueTypeOK
    PROVE  /\ Len(channel) \in Nat /\ Len(batch) \in Nat
           /\ Taken \in Nat /\ Outstanding \in Nat
    BY DEF QueueTypeOK, Taken, Outstanding

\* At the start of the program the queue is empty.
LEMMA EmptyBacklog == QueueInit => Backlog
    BY ThreadsAssumption, MaxBacklogAssumption, CounterAssumption
    DEF QueueInit, Backlog, QueueTypeOK, Exact, Room, Outstanding, Taken, PollPhases

LEMMA ResetBacklog == Backlog /\ QueueReset => Backlog'
    BY ThreadsAssumption, MaxBacklogAssumption, CounterAssumption
    DEF QueueReset, Backlog, QueueTypeOK, Exact, Room, Outstanding, Taken, PollPhases

LEMMA StutterBacklog == Backlog /\ UNCHANGED queueVars => Backlog'
    BY DEF queueVars, Backlog, QueueTypeOK, Exact, Room, Outstanding, Taken

-----------------------------------------------------------------------------
\* A thread passes: the lines that are counted are below the limit, and the
\* others belong to threads that are not idle.
LEMMA PassBacklog == Backlog /\ Pass => Backlog'
<1> SUFFICES ASSUME Backlog, Pass PROVE Backlog'
    OBVIOUS
<1>1. Len(channel) \in Nat /\ Taken \in Nat
    BY Lengths DEF Backlog
<1>2. Outstanding' = Outstanding
    BY DEF Pass, Outstanding, Taken
<1>3. QueueTypeOK'
    BY ThreadsAssumption DEF Backlog, QueueTypeOK, Pass, Idle
<1>4. Exact'
    BY <1>2 DEF Backlog, Exact, Pass
<1>5. Room'
    BY SMTT(30), <1>1, <1>2, ThreadsAssumption, MaxBacklogAssumption, CounterAssumption
    DEF Backlog, QueueTypeOK, Exact, Room, Pass, Idle, Outstanding
<1> QED
    BY <1>3, <1>4, <1>5 DEF Backlog

LEMMA DropBacklog == Backlog /\ Drop => Backlog'
    BY DEF Drop, Backlog, QueueTypeOK, Exact, Room, Outstanding, Taken

\* A line is sent: it is in the channel and not counted.
LEMMA SendBacklog == Backlog /\ Send => Backlog'
<1> SUFFICES ASSUME Backlog, Send PROVE Backlog'
    OBVIOUS
<1>1. PICK size_1 \in Sizes : channel' = Append(channel, [no |-> sent + 1, size |-> size_1])
    BY DEF Send
<1>2. [no |-> sent + 1, size |-> size_1] \in Line
    BY DEF Line, Backlog, QueueTypeOK
<1>3. channel' \in Seq(Line) /\ Len(channel') = Len(channel) + 1
    BY <1>1, <1>2 DEF Backlog, QueueTypeOK
<1>4. Len(channel) \in Nat /\ Taken \in Nat /\ Taken' = Taken
    BY Lengths DEF Backlog, Send, Taken
<1>5. Outstanding' = Outstanding + 1 /\ Outstanding \in Nat
    BY <1>3, <1>4 DEF Outstanding
<1>6. /\ passed \in Nat \ {0} /\ passed' = passed - 1
      /\ uncounted \in Nat /\ uncounted' = uncounted + 1
      /\ passed + uncounted <= Threads
    BY DEF Backlog, QueueTypeOK, Send
<1>7. QueueTypeOK'
    <2>1. {passed', uncounted'} \subseteq Nat /\ passed' + uncounted' <= Threads
        BY <1>6, ThreadsAssumption
    <2> QED
        BY <2>1, <1>3 DEF Backlog, QueueTypeOK, Send
<1>8. Exact'
    <2>1. Outstanding' >= uncounted' <=> Outstanding >= uncounted
        BY <1>5, <1>6
    <2>2. Outstanding' - uncounted' = Outstanding - uncounted
        BY <1>5, <1>6
    <2> QED
        BY <2>1, <2>2 DEF Backlog, Exact, Send
<1>9. Room'
    BY <1>5, <1>6, MaxBacklogAssumption, ThreadsAssumption DEF Backlog, Room
<1> QED
    BY <1>7, <1>8, <1>9 DEF Backlog

\* A line is counted: from below zero, the counter wraps back.
LEMMA CountBacklog == Backlog /\ Count => Backlog'
<1> SUFFICES ASSUME Backlog, Count PROVE Backlog'
    OBVIOUS
<1>1. Outstanding' = Outstanding /\ Outstanding \in Nat
    BY Lengths DEF Backlog, Count, Outstanding, Taken
<1>2. counter' = (counter + 1) % CounterMod /\ uncounted' = uncounted - 1
    BY DEF Count
<1>3. uncounted \in Nat \ {0} /\ passed \in Nat /\ passed + uncounted <= Threads
    BY DEF Backlog, QueueTypeOK, Count
<1>4. Outstanding <= MaxBacklog - 1 + Threads
    BY <1>1, <1>3, ThreadsAssumption, MaxBacklogAssumption DEF Backlog, Room
<1>5. counter \in 0 .. CounterMod - 1 /\ CounterMod \in Nat
    BY CounterAssumption DEF Backlog, QueueTypeOK
<1>6. CASE counter + 1 < CounterMod
    <2>1. counter' = counter + 1
        BY <1>2, <1>5, <1>6, Turn
    <2>2. Outstanding >= uncounted \/ Outstanding + 1 < uncounted
        BY <1>1, <1>3, <1>5, <1>6 DEF Backlog, Exact
    <2>3. Exact'
        BY <1>1, <1>2, <1>3, <1>5, <2>1, <2>2 DEF Backlog, Exact
    <2>4. counter' \in 0 .. CounterMod - 1
        BY <1>5, <1>6, <2>1
    <2> QED
        BY <2>3, <2>4, <1>1, <1>2, <1>3, ThreadsAssumption
        DEF Backlog, QueueTypeOK, Room, Count
<1>7. CASE counter + 1 = CounterMod
    <2>1. counter' = 0
        BY <1>2, <1>5, <1>7, SMT
    <2>2. Outstanding + 1 = uncounted
        BY <1>1, <1>3, <1>4, <1>5, <1>7, CounterAssumption, ThreadsAssumption,
           MaxBacklogAssumption
        DEF Backlog, Exact
    <2>3. Exact'
        BY <1>1, <1>2, <1>3, <2>1, <2>2 DEF Exact
    <2>4. counter' \in 0 .. CounterMod - 1
        BY <1>5, <2>1
    <2> QED
        BY <2>3, <2>4, <1>1, <1>2, <1>3, ThreadsAssumption
        DEF Backlog, QueueTypeOK, Room, Count
<1> QED
    BY <1>5, <1>6, <1>7

LEMMA LogStepBacklog == Backlog /\ LogStep => Backlog'
    BY PassBacklog, DropBacklog, SendBacklog, CountBacklog DEF LogStep

-----------------------------------------------------------------------------
\* The channel becomes the batch, of which nothing is subtracted yet.
LEMMA DrainBacklog == Backlog /\ Drain => Backlog'
<1> SUFFICES ASSUME Backlog, Drain PROVE Backlog'
    OBVIOUS
<1>1. Outstanding' = Outstanding
    BY DEF Backlog, QueueTypeOK, Drain, Outstanding, Taken
<1>2. QueueTypeOK'
    BY DEF Backlog, QueueTypeOK, Drain, PollPhases
<1> QED
    BY <1>1, <1>2 DEF Backlog, Exact, Room, Drain

\* The batch is subtracted.  It may hold lines that are not counted.
LEMMA SubtractBacklog == Backlog /\ Subtract => Backlog'
<1> SUFFICES ASSUME Backlog, Subtract PROVE Backlog'
    OBVIOUS
<1> DEFINE n == Len(channel)
           b == Len(batch)
<1>1. n \in Nat /\ b \in Nat /\ Outstanding = n + b /\ Outstanding' = n
    BY Lengths DEF Backlog, Subtract, Outstanding, Taken
<1>2. /\ counter \in 0 .. CounterMod - 1 /\ CounterMod \in Nat
      /\ uncounted \in Nat /\ passed \in Nat /\ passed + uncounted <= Threads
    BY CounterAssumption DEF Backlog, QueueTypeOK
<1>3. counter' = (counter - b) % CounterMod /\ uncounted' = uncounted /\ passed' = passed
    BY DEF Subtract
<1>4. n + b + passed <= MaxBacklog - 1 + Threads
    BY <1>1 DEF Backlog, Room
<1>5. 0 - CounterMod <= counter - b /\ counter - b < CounterMod
    BY <1>1, <1>2, <1>4, ThreadsAssumption, MaxBacklogAssumption, CounterAssumption
<1>6. counter' = IF counter - b >= 0 THEN counter - b ELSE counter - b + CounterMod
    BY SMTT(30), <1>1, <1>2, <1>3, <1>5, Turn
<1>7. counter = IF n + b >= uncounted THEN n + b - uncounted
                ELSE n + b - uncounted + CounterMod
    BY <1>1, <1>2 DEF Backlog, Exact
<1>8. counter' = IF n >= uncounted THEN n - uncounted ELSE n - uncounted + CounterMod
    BY <1>1, <1>2, <1>4, <1>6, <1>7, ThreadsAssumption, MaxBacklogAssumption,
       CounterAssumption
<1>9. Exact' /\ Room'
    BY <1>1, <1>2, <1>3, <1>4, <1>8, ThreadsAssumption, MaxBacklogAssumption
    DEF Exact, Room
<1>10. counter' \in 0 .. CounterMod - 1
    BY <1>1, <1>2, <1>5, <1>6
<1> QED
    BY <1>9, <1>10 DEF Backlog, QueueTypeOK, Subtract, PollPhases

\* The rest of the loop leaves channel and counter alone.
LEMMA PollBacklog ==
    ASSUME NEW from \in PollPhases \ {"drained"}, NEW to \in PollPhases \ {"drained"},
           NEW rest \in Seq(Line), Backlog, Poll(from, to, rest)
    PROVE  Backlog'
<1>1. Outstanding' = Outstanding
    BY DEF Poll, Outstanding, Taken
<1> QED
    BY <1>1 DEF Backlog, QueueTypeOK, Exact, Room, Poll

LEMMA PollStepBacklog == Backlog /\ PollStep => Backlog'
<1> SUFFICES ASSUME Backlog, PollStep PROVE Backlog'
    OBVIOUS
<1>1. CASE Drain \/ Subtract
    BY <1>1, DrainBacklog, SubtractBacklog
<1>2. CASE ReadLimits
    <2>1. PICK from \in {"counted", "only", "bytes"}, to \in {"only", "bytes", "limited"} :
            Poll(from, to, batch)
        BY <1>2 DEF ReadLimits
    <2> QED
        BY <2>1, PollBacklog DEF PollPhases, Backlog, QueueTypeOK
<1>3. CASE ReadNames
    <2>1. PICK from \in {"limited", "dir"}, to \in {"dir", "named"} : Poll(from, to, batch)
        BY <1>3 DEF ReadNames
    <2> QED
        BY <2>1, PollBacklog DEF PollPhases, Backlog, QueueTypeOK
<1>7. CASE LookForWriter
    BY <1>7, PollBacklog DEF LookForWriter, PollPhases, Backlog, QueueTypeOK
<1>4. CASE Emit
    BY <1>4, PollBacklog DEF Emit, PollPhases, Backlog, QueueTypeOK
<1>5. CASE Write \/ Rotate
    <2>1. Poll("writing", "writing", Tail(batch)) /\ batch # <<>>
        BY <1>5 DEF Write, Rotate, Remaining, LineLeft
    <2>2. Tail(batch) \in Seq(Line)
        BY <2>1 DEF Backlog, QueueTypeOK
    <2> QED
        BY <2>1, <2>2, PollBacklog DEF PollPhases
<1>6. CASE RotateFails \/ Sleep
    <2>1. Poll("writing", "asleep", <<>>) /\ <<>> \in Seq(Line)
        BY <1>6 DEF RotateFails, Sleep, Repeat
    <2> QED
        BY <2>1, PollBacklog DEF PollPhases
<1> QED
    BY <1>1, <1>2, <1>3, <1>4, <1>5, <1>6, <1>7 DEF PollStep

\* Commands and the command line do not touch the queue.
LEMMA CommandsQueue == Commands => UNCHANGED queueVars
    BY DEF Commands, Start, SetLimits, OpenLog, OpenFails, SetWriter, SetNames, Stop

LEMMA NextBacklog == Backlog /\ [Next]_vars => Backlog'
<1> SUFFICES ASSUME Backlog, [Next]_vars PROVE Backlog'
    OBVIOUS
<1>1. CASE Logs
    BY <1>1, LogStepBacklog DEF Logs
<1>2. CASE Polls
    BY <1>2, PollStepBacklog DEF Polls
<1>3. CASE End
    BY <1>3, ResetBacklog DEF End
<1>4. CASE Commands
    BY <1>4, CommandsQueue, StutterBacklog
<1>5. CASE RunGui \/ RunCli \/ Rotates
    BY <1>5, StutterBacklog DEF RunGui, RunCli, Rotates
<1>6. CASE UNCHANGED vars
    BY <1>6, StutterBacklog DEF vars
<1> QED
    BY <1>1, <1>2, <1>3, <1>4, <1>5, <1>6 DEF Next

\* The counter and the lines it counts balance in every reachable state.
THEOREM BacklogInductive == Spec => []Backlog
<1>1. Init => Backlog
    BY EmptyBacklog DEF Init
<1> QED
    BY <1>1, NextBacklog, PTL DEF Spec

-----------------------------------------------------------------------------
\* Whatever the threads and the poll task do between their steps, the counter
\* is what it should be once every line is counted: the errors of gui.rs:200
\* are transient.
THEOREM BacklogAgreement == Spec => []BacklogAgrees
<1>1. Backlog => BacklogAgrees
    <2> SUFFICES ASSUME Backlog PROVE BacklogAgrees
        OBVIOUS
    <2>1. Outstanding \in Nat /\ uncounted \in Nat /\ passed \in Nat
        BY Lengths DEF Backlog, QueueTypeOK
    <2>2. Outstanding - uncounted < CounterMod /\ 0 - CounterMod <= Outstanding - uncounted
        BY <2>1, ThreadsAssumption, MaxBacklogAssumption, CounterAssumption
        DEF Backlog, Room, QueueTypeOK
    <2> DEFINE x == Outstanding - uncounted
    <2>3. x \in Int /\ CounterMod \in Nat /\ 0 - CounterMod <= x /\ x < CounterMod
        BY <2>1, <2>2, CounterAssumption
    <2>4. counter = IF x >= 0 THEN x ELSE x + CounterMod
        BY <2>1 DEF Backlog, Exact
    <2>5. x % CounterMod = IF x >= 0 THEN x ELSE x + CounterMod
        <3> HIDE DEF x
        <3> QED
            BY <2>3, Turn
    <2>6. counter = (Outstanding - uncounted) % CounterMod
        <3>1. counter = x % CounterMod
            BY <2>4, <2>5
        <3> QED
            BY <3>1
    <2>7. Len(channel) + Taken - uncounted = Outstanding - uncounted
        BY <2>1, Lengths DEF Outstanding, Backlog
    <2> QED
        BY <2>6, <2>7, Zenon DEF BacklogAgrees
<1> QED
    BY <1>1, BacklogInductive, PTL

\* The channel, which has no bound of its own, never holds more than the limit
\* and one line for each thread but one.
THEOREM BacklogBound == Spec => []BacklogBounded
<1>1. Backlog => BacklogBounded
    BY Lengths, ThreadsAssumption, MaxBacklogAssumption
    DEF Backlog, Room, QueueTypeOK, Outstanding, BacklogBounded
<1> QED
    BY <1>1, BacklogInductive, PTL

-----------------------------------------------------------------------------
(***************************************************************************)
(* What the programs do to the files, read off the set of files there are. *)
(***************************************************************************)
File == [id : Nat \ {0}, of : {"gui", "cli"}, prefix : Prefixes \cup {None},
         place : {"current", "logs", "backup"}, second : Nat,
         opened : Nat \ {0}, bytes : Nat, lines : Seq(Nat)]

FileSet(fs) == {fs[i] : i \in DOMAIN fs}

\* No two files have the same number, and none has one that is not given yet.
Sound(fs, n) ==
    /\ fs \in Seq(File)
    /\ \A i, j \in DOMAIN fs : fs[i].id = fs[j].id => i = j
    /\ \A i \in DOMAIN fs : fs[i].id <= n

LEMMA FileSetTyped ==
    ASSUME NEW n, NEW fs, Sound(fs, n)
    PROVE  /\ Len(fs) \in Nat /\ DOMAIN fs = 1 .. Len(fs)
           /\ FileSet(fs) \subseteq File
           /\ \A f \in FileSet(fs) : f.id <= n
           /\ \A f, g \in FileSet(fs) : f.id = g.id => f = g
           /\ Ids(fs) = {f.id : f \in FileSet(fs)}
<1>1. fs \in Seq(File) /\ Len(fs) \in Nat /\ DOMAIN fs = 1 .. Len(fs)
    BY DEF Sound
<1>2. \A i \in DOMAIN fs : fs[i] \in File
    BY <1>1
<1> QED
    BY <1>1, <1>2 DEF Sound, FileSet, Ids

\* The files at some places.
LEMMA FilesAt ==
    ASSUME NEW n, NEW fs, Sound(fs, n), NEW I \in SUBSET DOMAIN fs
    PROVE  /\ Sound(Subsequence(fs, I), n)
           /\ FileSet(Subsequence(fs, I)) = {fs[i] : i \in I}
<1> DEFINE t == Subsequence(fs, I)
<1>1. fs \in Seq(File) /\ Len(fs) \in Nat /\ I \in SUBSET (1 .. Len(fs))
    BY DEF Sound
<1>2. /\ t \in Seq(File) /\ DOMAIN t = 1 .. Cardinality(I)
      /\ \A k \in 1 .. Cardinality(I) : Nth(I, k) \in I /\ t[k] = fs[Nth(I, k)]
    BY <1>1, SubsequenceElements
<1>3. /\ \A k \in 1 .. Cardinality(I) : Rank(I, Nth(I, k)) = k
      /\ \A i \in I : Rank(I, i) \in 1 .. Cardinality(I) /\ Nth(I, Rank(I, i)) = i
    BY <1>1, NthRank
<1> HIDE DEF t
<1>4. \A k, m \in DOMAIN t : t[k].id = t[m].id => k = m
    <2> SUFFICES ASSUME NEW k \in DOMAIN t, NEW m \in DOMAIN t, t[k].id = t[m].id
                 PROVE  k = m
        OBVIOUS
    <2>1. Nth(I, k) \in DOMAIN fs /\ Nth(I, m) \in DOMAIN fs
        BY <1>2
    <2>2. Nth(I, k) = Nth(I, m)
        BY <1>2, <2>1 DEF Sound
    <2> QED
        BY <1>2, <1>3, <2>2
<1>5. \A k \in DOMAIN t : t[k].id <= n
    BY <1>2 DEF Sound
<1>6. Sound(t, n)
    BY <1>2, <1>4, <1>5 DEF Sound
<1>7. FileSet(t) = {fs[i] : i \in I}
    <2>1. \A f \in FileSet(t) : f \in {fs[i] : i \in I}
        BY <1>2 DEF FileSet
    <2>2. ASSUME NEW i \in I PROVE fs[i] \in FileSet(t)
        <3>1. Rank(I, i) \in DOMAIN t /\ t[Rank(I, i)] = fs[i]
            BY <1>2, <1>3
        <3> QED
            BY <3>1 DEF FileSet
    <2> QED
        BY <2>1, <2>2
<1> QED
    BY <1>6, <1>7 DEF t

LEMMA WithoutFiles ==
    ASSUME NEW n, NEW fs, Sound(fs, n), NEW ids
    PROVE  /\ Sound(Without(fs, ids), n)
           /\ FileSet(Without(fs, ids)) = {f \in FileSet(fs) : f.id \notin ids}
<1> DEFINE I == {i \in DOMAIN fs : fs[i].id \notin ids}
<1>1. I \in SUBSET DOMAIN fs /\ Without(fs, ids) = Subsequence(fs, I)
    BY DEF Without
<1>2. {fs[i] : i \in I} = {f \in FileSet(fs) : f.id \notin ids}
    BY DEF FileSet
<1> HIDE DEF I
<1> QED
    BY <1>1, <1>2, FilesAt

\* The files but the one of a number.
Others(fs, id) == {h \in FileSet(fs) : h.id # id}

\* A file is replaced by one of the same number.
LEMMA ReplaceFile ==
    ASSUME NEW n, NEW fs, Sound(fs, n), NEW f \in FileSet(fs),
           NEW g \in File, g.id = f.id, NEW t,
           t = [i \in DOMAIN fs |-> IF fs[i].id = f.id THEN g ELSE fs[i]]
    PROVE  Sound(t, n) /\ FileSet(t) = Others(fs, f.id) \cup {g}
<1>1. /\ fs \in Seq(File) /\ Len(fs) \in Nat /\ DOMAIN fs = 1 .. Len(fs)
      /\ \A i \in DOMAIN fs : fs[i] \in File
    BY DEF Sound
<1>2. t \in [1 .. Len(fs) -> File]
    BY <1>1
<1>3. t \in Seq(File) /\ DOMAIN t = DOMAIN fs
    BY <1>1, <1>2
<1>4. \A i \in DOMAIN fs : /\ t[i].id = fs[i].id
                           /\ fs[i].id = f.id => t[i] = g
                           /\ fs[i].id # f.id => t[i] = fs[i]
    BY <1>1
<1>5. Sound(t, n)
    BY <1>3, <1>4 DEF Sound
<1>6. PICK k \in DOMAIN fs : fs[k] = f
    BY DEF FileSet
<1>7. g \in FileSet(t)
    BY <1>3, <1>4, <1>6 DEF FileSet
<1>8. \A h \in FileSet(fs) : h.id # f.id => h \in FileSet(t)
    BY <1>3, <1>4 DEF FileSet
<1>9. ASSUME NEW h \in FileSet(t)
      PROVE  h = g \/ (h \in FileSet(fs) /\ h.id # f.id)
    <2>1. PICK m \in DOMAIN fs : h = t[m]
        BY <1>3 DEF FileSet
    <2>2. fs[m] \in FileSet(fs)
        BY DEF FileSet
    <2>3. fs[m].id = f.id => t[m] = g
        BY <1>4
    <2>4. fs[m].id # f.id => t[m] = fs[m]
        BY <1>4
    <2> QED
        BY <2>1, <2>2, <2>3, <2>4, Zenon
<1> QED
    BY <1>5, <1>7, <1>8, <1>9 DEF Others

\* A file is added at the end.
LEMMA AppendFile ==
    ASSUME NEW n \in Nat, NEW m \in Nat, n <= m, NEW fs, Sound(fs, n),
           NEW g \in File, g.id <= m, \A f \in FileSet(fs) : f.id # g.id
    PROVE  /\ Sound(Append(fs, g), m)
           /\ FileSet(Append(fs, g)) = FileSet(fs) \cup {g}
<1> DEFINE t == Append(fs, g)
<1>1. /\ fs \in Seq(File) /\ Len(fs) \in Nat /\ DOMAIN fs = 1 .. Len(fs)
      /\ \A i \in DOMAIN fs : fs[i] \in File /\ fs[i].id <= n
    BY DEF Sound
<1>2. /\ t \in Seq(File) /\ DOMAIN t = 1 .. Len(fs) + 1
      /\ \A i \in DOMAIN fs : t[i] = fs[i]
      /\ t[Len(fs) + 1] = g
    BY <1>1
<1> HIDE DEF t
<1>3. \A i \in DOMAIN t : i \in DOMAIN fs \/ i = Len(fs) + 1
    BY <1>1, <1>2
<1>4. \A i \in DOMAIN fs : i \in DOMAIN t /\ t[i].id # g.id
    BY <1>1, <1>2 DEF FileSet
<1>5. \A i, j \in DOMAIN t : t[i].id = t[j].id => i = j
    BY <1>2, <1>3, <1>4 DEF Sound
<1>6. \A i \in DOMAIN t : t[i].id <= m
    <2> SUFFICES ASSUME NEW i \in DOMAIN t PROVE t[i].id <= m
        OBVIOUS
    <2>1. CASE i \in DOMAIN fs
        <3>1. t[i].id \in Nat /\ t[i].id <= n
            BY <1>1, <1>2, <2>1 DEF File
        <3> QED
            BY <3>1
    <2>2. CASE i = Len(fs) + 1
        BY <1>2, <2>2
    <2> QED
        BY <1>3, <2>1, <2>2
<1>7. Sound(t, m)
    BY <1>2, <1>5, <1>6 DEF Sound
<1>8. FileSet(t) = FileSet(fs) \cup {g}
    <2>1. Len(fs) + 1 \in DOMAIN t
        BY <1>1, <1>2
    <2>2. \A h \in FileSet(t) : h \in FileSet(fs) \cup {g}
        BY <1>2, <1>3 DEF FileSet
    <2>3. \A h \in FileSet(fs) : h \in FileSet(t)
        BY <1>2, <1>4 DEF FileSet
    <2>4. g \in FileSet(t)
        BY <1>2, <2>1 DEF FileSet
    <2> QED
        BY <2>2, <2>3, <2>4
<1> QED
    BY <1>7, <1>8 DEF t

\* The file with a number.
LEMMA TheFileIs ==
    ASSUME NEW n, NEW fs, Sound(fs, n), NEW f \in FileSet(fs)
    PROVE  TheFile(fs, f.id) = f
<1>1. PICK k \in DOMAIN fs : fs[k] = f
    BY DEF FileSet
<1>2. \A i \in DOMAIN fs : fs[i].id = f.id => i = k
    BY <1>1 DEF Sound
<1> QED
    BY <1>1, <1>2 DEF TheFile

\* What a file is after it has been opened, written or moved.
Reopened(f) == [f EXCEPT !.opened = @ + 1]
NewFile(id, of, name_, now) ==
    [id |-> id, of |-> of, prefix |-> name_.prefix, place |-> name_.dir, second |-> now,
     opened |-> 1, bytes |-> 0, lines |-> <<>>]
Written(f, line) == [f EXCEPT !.bytes = @ + line.size, !.lines = Append(@, line.no)]
Moved(f) == [f EXCEPT !.place = "backup"]

LEMMA FileFields ==
    ASSUME NEW f \in File
    PROVE  /\ Reopened(f) \in File
           /\ Reopened(f).opened = f.opened + 1
           /\ Reopened(f).id = f.id /\ Reopened(f).place = f.place
           /\ SameName(Reopened(f), f)
           /\ Reopened(f).bytes = f.bytes /\ Reopened(f).lines = f.lines
           /\ Moved(f) \in File
           /\ Moved(f).place = "backup" /\ Moved(f).id = f.id /\ SameName(Moved(f), f)
           /\ Moved(f).opened = f.opened /\ Moved(f).bytes = f.bytes
           /\ Moved(f).lines = f.lines
<1>1. f.opened \in Nat \ {0} /\ f.opened + 1 \in Nat \ {0}
    BY DEF File
<1>2. Reopened(f) \in File /\ Moved(f) \in File
    BY <1>1 DEF File, Reopened, Moved
<1> QED
    BY <1>2 DEF File, Reopened, Moved, SameName

LEMMA WrittenFields ==
    ASSUME NEW f \in File, NEW line \in Line
    PROVE  /\ Written(f, line) \in File
           /\ Written(f, line).id = f.id /\ Written(f, line).place = f.place
           /\ SameName(Written(f, line), f)
           /\ Written(f, line).opened = f.opened
           /\ Written(f, line).bytes = f.bytes + line.size
           /\ Written(f, line).lines = Append(f.lines, line.no)
<1>1. line.no \in Nat /\ line.size \in Nat
    BY SizesAssumption DEF Line
<1>2. f.bytes \in Nat /\ f.lines \in Seq(Nat)
    BY DEF File
<1>3. f.bytes + line.size \in Nat /\ Append(f.lines, line.no) \in Seq(Nat)
    BY <1>1, <1>2
<1> QED
    BY <1>3 DEF File, Written, SameName

HasName(f, of, name_, now) ==
    f.of = of /\ f.prefix = name_.prefix /\ f.place = name_.dir /\ f.second = now

\* The files t are the files fs after a name has been opened as id.
OpenedAs(fs, t, of, name_, now, id) ==
    \/ \E f \in FileSet(fs) : /\ HasName(f, of, name_, now) /\ f.id = id /\ id <= created
                            /\ FileSet(t) = Others(fs, id) \cup {Reopened(f)}
    \/ /\ id = created + 1
       /\ \A f \in FileSet(fs) : ~ HasName(f, of, name_, now)
       /\ NewFile(id, of, name_, now) \in File
       /\ FileSet(t) = FileSet(fs) \cup {NewFile(id, of, name_, now)}

After(id) == IF id > created THEN id ELSE created

\* A file is opened: it has been there, or is new.
LEMMA OpenFile ==
    ASSUME created \in Nat, NEW fs, Sound(fs, created), NEW of \in {"gui", "cli"},
           NEW name_ \in Names, NEW now \in Nat,
           NEW id, id = Opened(fs, of, name_, now),
           NEW t, t = AfterOpen(fs, of, name_, now)
    PROVE  /\ After(id) \in Nat /\ created <= After(id) /\ id \in 1 .. After(id)
           /\ Sound(t, After(id))
           /\ OpenedAs(fs, t, of, name_, now, id)
<1> DEFINE same == Named(fs, of, name_, now)
<1>1. /\ FileSet(fs) \subseteq File
      /\ \A f \in FileSet(fs) : f.id <= created
    BY FileSetTyped
<1>2. same \subseteq DOMAIN fs
      /\ \A i \in DOMAIN fs : i \in same <=> HasName(fs[i], of, name_, now)
    BY DEF Named, HasName
<1>3. id = IF same = {} THEN created + 1 ELSE fs[CHOOSE i \in same : TRUE].id
    BY DEF Opened
<1> HIDE DEF same
<1>4. CASE same = {}
    <2> DEFINE g == NewFile(id, of, name_, now)
    <2>1. id = created + 1
        BY <1>3, <1>4
    <2>2. \A f \in FileSet(fs) : ~ HasName(f, of, name_, now)
        BY <1>2, <1>4 DEF FileSet
    <2>3. g \in File /\ g.id = id
        BY <2>1 DEF NewFile, File, Names
    <2>4. t = Append(fs, g)
        BY <2>1 DEF AfterOpen, NewFile
    <2>5. After(id) = created + 1
        BY <2>1 DEF After
    <2>6. \A f \in FileSet(fs) : f.id # g.id
        BY <1>1, <2>1, <2>3 DEF File
    <2>7. created + 1 \in Nat /\ created <= created + 1 /\ g.id <= created + 1
        BY <2>1, <2>3
    <2> HIDE DEF g
    <2>8. Sound(t, created + 1) /\ FileSet(t) = FileSet(fs) \cup {g}
        BY <2>3, <2>4, <2>6, <2>7, AppendFile
    <2>9. id \in 1 .. After(id)
        BY <2>1, <2>5
    <2> QED
        BY <2>1, <2>2, <2>3, <2>5, <2>7, <2>8, <2>9 DEF g, OpenedAs
<1>5. CASE same # {}
    <2>1. PICK k \in same : k = CHOOSE i \in same : TRUE
        BY <1>5
    <2> DEFINE f == fs[k]
    <2>2. f \in FileSet(fs) /\ HasName(f, of, name_, now) /\ f.id = id
        BY <1>2, <1>3, <1>5, <2>1 DEF FileSet
    <2>3. f \in File /\ id \in Nat \ {0} /\ id <= created
        BY <1>1, <2>2 DEF File
    <2>4. Reopened(f) \in File /\ Reopened(f).id = f.id
        BY <2>3, FileFields
    <2>5. t = [i \in DOMAIN fs |-> IF fs[i].id = id
                                   THEN [fs[i] EXCEPT !.opened = @ + 1] ELSE fs[i]]
        BY <2>3 DEF AfterOpen
    <2>6. \A i \in DOMAIN fs : fs[i].id = id => fs[i] = f
        BY <1>2, <2>1, <2>2 DEF Sound
    <2>7. t = [i \in DOMAIN fs |-> IF fs[i].id = f.id THEN Reopened(f) ELSE fs[i]]
        BY <2>2, <2>5, <2>6 DEF Reopened
    <2>8. After(id) = created
        BY <2>3 DEF After
    <2> HIDE DEF f
    <2>9. Sound(t, created) /\ FileSet(t) = Others(fs, f.id) \cup {Reopened(f)}
        BY <2>2, <2>4, <2>7, ReplaceFile
    <2>10. id \in 1 .. created
        BY <2>3
    <2> QED
        BY <2>2, <2>3, <2>8, <2>9, <2>10 DEF OpenedAs
<1> QED
    BY <1>4, <1>5

\* A line is written to the file of a number, if it is still there.
LEMMA WriteFile ==
    ASSUME NEW n \in Nat, NEW fs, Sound(fs, n), NEW line \in Line, NEW id,
           NEW t, t = AfterWrite(fs, id, line)
    PROVE  /\ Sound(t, n)
           /\ Ids(t) = Ids(fs)
           /\ id \notin Ids(fs) => t = fs
           /\ \A f \in FileSet(fs) : f.id = id =>
                FileSet(t) = Others(fs, id) \cup {Written(f, line)}
<1>1. /\ FileSet(fs) \subseteq File
      /\ Ids(fs) = {f.id : f \in FileSet(fs)}
      /\ \A f \in FileSet(fs) : f.id <= n
      /\ \A f, g \in FileSet(fs) : f.id = g.id => f = g
    BY FileSetTyped
<1>2. CASE id \notin Ids(fs)
    BY <1>1, <1>2 DEF AfterWrite
<1>3. CASE id \in Ids(fs)
    <2>1. PICK f \in FileSet(fs) : f.id = id
        BY <1>1, <1>3
    <2> DEFINE rest == Without(fs, {id})
               g == Written(f, line)
    <2>2. Sound(rest, n) /\ FileSet(rest) = Others(fs, id)
        BY WithoutFiles DEF Others
    <2>3. TheFile(fs, id) = f
        BY <2>1, TheFileIs
    <2>4. t = Append(rest, g)
        BY <1>3, <2>3 DEF AfterWrite, Written
    <2>5. g \in File /\ g.id = id /\ g.id <= n
        BY <1>1, <2>1, WrittenFields
    <2> HIDE DEF rest, g
    <2>6. \A h \in FileSet(rest) : h.id # g.id
        BY <2>2, <2>5 DEF Others
    <2>7. Sound(t, n) /\ FileSet(t) = FileSet(rest) \cup {g}
        BY <2>2, <2>4, <2>5, <2>6, AppendFile
    <2>8. Ids(t) = {h.id : h \in FileSet(t)}
        BY <2>7, FileSetTyped
    <2>9. Ids(t) = Ids(fs)
        BY <1>1, <2>1, <2>2, <2>5, <2>7, <2>8 DEF Others
    <2> QED
        BY <1>1, <1>3, <2>1, <2>2, <2>7, <2>9 DEF g
<1> QED
    BY <1>2, <1>3

\* A file is moved to backup, where it replaces a file of its name.
LEMMA MoveFile ==
    ASSUME NEW n, NEW fs, Sound(fs, n), NEW f \in FileSet(fs), f.place # "backup",
           NEW t, t = AfterMove(fs, f.id)
    PROVE  /\ Sound(t, n)
           /\ FileSet(t) = {h \in FileSet(fs) :
                                h.id # f.id /\ ~ (h.place = "backup" /\ SameName(h, f))}
                           \cup {Moved(f)}
<1> DEFINE I    == {i \in DOMAIN fs : ~ (fs[i].place = "backup" /\ SameName(fs[i], f))}
           rest == Subsequence(fs, I)
<1>1. FileSet(fs) \subseteq File
    BY FileSetTyped
<1>2. TheFile(fs, f.id) = f
    BY TheFileIs
<1>3. t = [i \in DOMAIN rest |-> IF rest[i].id = f.id
                                 THEN [rest[i] EXCEPT !.place = "backup"] ELSE rest[i]]
    BY <1>2 DEF AfterMove
<1>4. I \in SUBSET DOMAIN fs
    OBVIOUS
<1>5. {fs[i] : i \in I} = {h \in FileSet(fs) : ~ (h.place = "backup" /\ SameName(h, f))}
    BY DEF FileSet
<1> HIDE DEF I
<1>6. Sound(rest, n) /\ FileSet(rest) = {fs[i] : i \in I}
    BY <1>4, FilesAt
<1> HIDE DEF rest
<1>7. f \in FileSet(rest)
    BY <1>5, <1>6
<1>8. \A i \in DOMAIN rest : rest[i].id = f.id => rest[i] = f
    BY <1>6, <1>7, FileSetTyped DEF FileSet
<1>9. t = [i \in DOMAIN rest |-> IF rest[i].id = f.id THEN Moved(f) ELSE rest[i]]
    BY <1>3, <1>8 DEF Moved
<1>10. Moved(f) \in File /\ Moved(f).id = f.id
    BY <1>1, FileFields
<1>11. Sound(t, n) /\ FileSet(t) = Others(rest, f.id) \cup {Moved(f)}
    BY <1>6, <1>7, <1>9, <1>10, ReplaceFile
<1> QED
    BY <1>5, <1>6, <1>11 DEF Others

-----------------------------------------------------------------------------
(***************************************************************************)
(* Types, with what the steps of a session and of the poll task know of    *)
(* each other's variables.                                                 *)
(***************************************************************************)
Session ==
    /\ session \in {"limits", "bytes", "num", "open", "set", "dir", "names"} =>
            config \in Configs
    /\ IF session = "set" THEN handle \in 1 .. created ELSE handle = None

Store == created \in Nat /\ clock \in Seconds \cup {0} /\ Sound(files, created)

Programs ==
    /\ program \in {"none", "gui", "cli"}
    /\ starts \in 0 .. MaxStarts
    /\ (program # "cli" => stage = "off")
    /\ (program # "gui" => session = "off" /\ channel = <<>> /\ poll = "asleep")

Typed ==
    /\ Backlog
    /\ Store
    /\ GuiTypeOK /\ Session
    /\ CliTypeOK
    /\ Programs

LEMMA TypedTypes == Typed => TypeOK
<1> SUFFICES ASSUME Typed PROVE TypeOK
    OBVIOUS
<1>1. files \in Seq(File) /\ created \in Nat /\ clock \in Seconds \cup {0}
    BY DEF Typed, Store, Sound
<1>2. ASSUME NEW i \in DOMAIN files
      PROVE  /\ files[i].place \in {"current", "logs", "backup"}
             /\ files[i].of \in {"gui", "cli"}
             /\ files[i].prefix \in Prefixes \cup {None}
             /\ files[i].id \in 1 .. created
             /\ {files[i].second, files[i].opened, files[i].bytes} \subseteq Nat
    <2>1. files[i] \in File /\ files[i].id <= created
        BY <1>1 DEF Typed, Store, Sound
    <2> QED
        BY <1>1, <2>1 DEF File
<1>3. FilesTypeOK
    BY <1>1, <1>2 DEF FilesTypeOK
<1> QED
    BY <1>3 DEF Typed, TypeOK, Backlog, Programs

LEMMA UnnamedTyped == Unnamed \in Names
    BY DEF Unnamed, Names

\* A line is at the head of a batch.
LEMMA HeadOfBatch ==
    ASSUME Typed, LineLeft
    PROVE  /\ Head(batch) \in Line
           /\ Head(batch).no \in Nat /\ Head(batch).size \in Nat
           /\ Head(batch).size \in Sizes
           /\ seen \in Limits /\ named \in Names /\ size \in Nat
<1>1. batch \in Seq(Line) /\ batch # <<>>
    BY DEF Typed, Backlog, QueueTypeOK, LineLeft
<1>2. Head(batch) \in Line
    BY <1>1
<1>3. Head(batch).no \in Nat /\ Head(batch).size \in Sizes
    BY <1>2 DEF Line
<1>4. Head(batch).size \in Nat
    BY <1>3, SizesAssumption
<1> QED
    BY <1>2, <1>3, <1>4 DEF Typed, Session, LineLeft, GuiTypeOK

LEMMA InLogsTyped == \A p \in Prefixes : InLogs(p) \in Names
    BY DEF InLogs, Names

LEMMA NowTyped == \A now \in Now : now \in Nat /\ now \in Seconds \cup {0}
    BY SecondsAssumption DEF Now

\* A cleanup removes files that are too many, or fails to.
Cleaned(fs, kept) ==
    /\ FileSet(kept) \subseteq FileSet(fs)
    /\ \A f \in FileSet(fs) : f.id \notin Excess(fs, named, seen.num) => f \in FileSet(kept)

LEMMA CleanupFiles ==
    ASSUME NEW n, NEW fs, Sound(fs, n), NEW kept \in AfterCleanup(fs, named, seen.num)
    PROVE  Sound(kept, n) /\ Cleaned(fs, kept)
<1>1. PICK gone \in SUBSET Excess(fs, named, seen.num) : kept = Without(fs, gone)
    BY DEF AfterCleanup
<1>2. Sound(kept, n) /\ FileSet(kept) = {f \in FileSet(fs) : f.id \notin gone}
    BY <1>1, WithoutFiles
<1> QED
    BY <1>2 DEF Cleaned

\* The files of a rotation: what is kept, what is opened, and what is written.
LEMMA RotateFiles ==
    ASSUME Typed, Rotate
    PROVE  \E kept, opened, new, now :
            /\ now \in Now /\ clock' = now
            /\ kept \in AfterCleanup(files, named, seen.num)
            /\ new = Opened(kept, "gui", named, now)
            /\ opened = AfterOpen(kept, "gui", named, now)
            /\ Sound(kept, created) /\ Sound(opened, created') /\ Sound(files', created')
            /\ Cleaned(files, kept)
            /\ created' = After(new) /\ created' \in Nat /\ created <= created'
            /\ new \in 1 .. created' /\ writer' = new
            /\ OpenedAs(kept, opened, "gui", named, now, new)
            /\ files' = AfterWrite(opened, new, Head(batch))
            /\ \A f \in FileSet(opened) : f.id = new =>
                FileSet(files') = Others(opened, new) \cup {Written(f, Head(batch))}
            /\ Ids(files') = Ids(opened)
<1>1. created \in Nat /\ Sound(files, created)
    BY DEF Typed, Store
<1>2. Head(batch) \in Line /\ named \in Names
    BY HeadOfBatch DEF Rotate
<1>3. PICK now \in Now, kept \in AfterCleanup(files, named, seen.num) :
        LET new == Opened(kept, "gui", named, now)
        IN  /\ clock' = now
            /\ files' = AfterWrite(AfterOpen(kept, "gui", named, now), new, Head(batch))
            /\ created' = IF new > created THEN new ELSE created
            /\ writer' = new
    BY DEF Rotate
<1> DEFINE new    == Opened(kept, "gui", named, now)
           opened == AfterOpen(kept, "gui", named, now)
<1>4. /\ kept \in AfterCleanup(files, named, seen.num) /\ now \in Nat
      /\ clock' = now /\ created' = After(new) /\ writer' = new
      /\ files' = AfterWrite(opened, new, Head(batch))
      /\ new = Opened(kept, "gui", named, now)
      /\ opened = AfterOpen(kept, "gui", named, now)
    BY <1>3, NowTyped DEF After
<1> HIDE DEF new, opened
<1>5. Sound(kept, created) /\ Cleaned(files, kept)
    BY <1>1, <1>4, CleanupFiles
<1>6. /\ After(new) \in Nat /\ created <= After(new) /\ new \in 1 .. After(new)
      /\ Sound(opened, After(new))
      /\ OpenedAs(kept, opened, "gui", named, now, new)
    BY <1>1, <1>2, <1>4, <1>5, OpenFile
<1>7. /\ Sound(files', created') /\ Ids(files') = Ids(opened)
      /\ \A f \in FileSet(opened) : f.id = new =>
            FileSet(files') = Others(opened, new) \cup {Written(f, Head(batch))}
    BY <1>2, <1>4, <1>6, WriteFile
<1> QED
    BY <1>4, <1>5, <1>6, <1>7

\* Every step keeps the files sound, and numbers them upwards.
StoreGrows == Store' /\ created <= created'

LEMMA OpenLogStore == Typed /\ OpenLog => StoreGrows /\ handle' \in 1 .. created'
<1> SUFFICES ASSUME Typed, OpenLog
             PROVE  StoreGrows /\ handle' \in 1 .. created'
    OBVIOUS
<1>1. PICK now \in Now : /\ clock' = now
                         /\ handle' = Opened(files, "gui", InLogs(config.prefix), now)
                         /\ files' = AfterOpen(files, "gui", InLogs(config.prefix), now)
    BY DEF OpenLog
<1>2. created' = After(handle')
    BY DEF OpenLog, After
<1>3. InLogs(config.prefix) \in Names
    BY ConfigsAssumption, InLogsTyped DEF OpenLog, Command, Typed, Session
<1>4. created \in Nat /\ Sound(files, created) /\ now \in Nat /\ now \in Seconds \cup {0}
    BY NowTyped DEF Typed, Store
<1>5. /\ created' \in Nat /\ created <= created' /\ handle' \in 1 .. created'
      /\ Sound(files', created')
    BY <1>1, <1>2, <1>3, <1>4, OpenFile
<1> QED
    BY <1>1, <1>4, <1>5 DEF StoreGrows, Store

LEMMA CreateStore ==
    ASSUME Typed, NEW prefix_ \in Prefixes, Create(prefix_)
    PROVE  StoreGrows
<1>1. PICK now \in Now :
        LET new == Opened(files, "cli", InLogs(prefix_), now)
        IN  /\ clock' = now
            /\ files' = AfterOpen(files, "cli", InLogs(prefix_), now)
            /\ created' = IF new > created THEN new ELSE created
    BY DEF Create
<1> DEFINE new == Opened(files, "cli", InLogs(prefix_), now)
<1>2. /\ clock' = now /\ created' = After(new)
      /\ files' = AfterOpen(files, "cli", InLogs(prefix_), now)
    BY <1>1 DEF After
<1>3. created \in Nat /\ Sound(files, created) /\ now \in Nat /\ now \in Seconds \cup {0}
    BY NowTyped DEF Typed, Store
<1>4. InLogs(prefix_) \in Names
    BY InLogsTyped
<1>5. created' \in Nat /\ created <= created' /\ Sound(files', created')
    BY <1>2, <1>3, <1>4, OpenFile
<1> QED
    BY <1>2, <1>3, <1>5 DEF StoreGrows, Store

LEMMA WriteStore == Typed /\ Write => StoreGrows
<1> SUFFICES ASSUME Typed, Write PROVE StoreGrows
    OBVIOUS
<1>1. created \in Nat /\ clock \in Seconds \cup {0} /\ Sound(files, created)
      /\ Head(batch) \in Line
    BY HeadOfBatch DEF Typed, Store, Write
<1>2. Sound(files', created)
    BY <1>1, WriteFile DEF Write
<1> QED
    BY <1>1, <1>2 DEF StoreGrows, Store, Write

LEMMA CleanupStore == Typed /\ RotateFails => StoreGrows
    BY CleanupFiles DEF Typed, Store, StoreGrows, RotateFails

LEMMA DeleteStore ==
    ASSUME Typed, NEW id \in todo, Delete(id)
    PROVE  StoreGrows
    BY WithoutFiles DEF Typed, Store, StoreGrows, Delete

LEMMA MoveStore ==
    ASSUME Typed, NEW id \in todo, Move(id)
    PROVE  StoreGrows
<1>1. created \in Nat /\ clock \in Seconds \cup {0} /\ Sound(files, created)
    BY DEF Typed, Store
<1>2. Sound(AfterMove(files, id), created)
    <2> DEFINE I    == {i \in DOMAIN files : ~ (/\ files[i].place = "backup"
                                             /\ SameName(files[i], TheFile(files, id)))}
               rest == Subsequence(files, I)
               t    == AfterMove(files, id)
    <2>1. t = [i \in DOMAIN rest |-> IF rest[i].id = id
                                     THEN [rest[i] EXCEPT !.place = "backup"] ELSE rest[i]]
        BY DEF AfterMove
    <2>2. I \in SUBSET DOMAIN files
        OBVIOUS
    <2> HIDE DEF I, t
    <2>3. Sound(rest, created)
        BY <1>1, <2>2, FilesAt
    <2> HIDE DEF rest
    <2>4. /\ rest \in Seq(File) /\ Len(rest) \in Nat /\ DOMAIN rest = 1 .. Len(rest)
          /\ \A i \in DOMAIN rest : rest[i] \in File
        BY <2>3 DEF Sound
    <2>5. \A f \in File : Moved(f) \in File /\ Moved(f).id = f.id
        BY FileFields
    <2>6. t = [i \in DOMAIN rest |-> IF rest[i].id = id THEN Moved(rest[i]) ELSE rest[i]]
        BY <2>1 DEF Moved
    <2>7. t \in [1 .. Len(rest) -> File]
        BY <2>4, <2>5, <2>6
    <2>8. \A i \in DOMAIN rest : t[i].id = rest[i].id
        BY <2>5, <2>4, <2>6
    <2>9. t \in Seq(File) /\ DOMAIN t = DOMAIN rest
        BY <2>4, <2>7
    <2>10. Sound(t, created)
        BY <2>3, <2>8, <2>9 DEF Sound
    <2> QED
        BY <2>10 DEF t
<1> QED
    BY <1>1, <1>2 DEF StoreGrows, Store, Move

LEMMA SameFilesGrow == Typed /\ UNCHANGED fileVars => StoreGrows
    BY DEF Typed, Store, StoreGrows, fileVars

LEMMA NextStore == Typed /\ [Next]_vars => StoreGrows
<1> SUFFICES ASSUME Typed, [Next]_vars PROVE StoreGrows
    OBVIOUS
<1>1. CASE RunGui \/ End \/ Logs \/ UNCHANGED vars
    BY <1>1, SameFilesGrow DEF RunGui, End, Logs, vars
<1>2. CASE RunCli
    BY <1>2, SameFilesGrow DEF RunCli, CliStart
<1>3. CASE Commands
    <2>1. CASE OpenLog
        BY <2>1, OpenLogStore
    <2>2. CASE (\E c \in Configs : Start(c)) \/ SetLimits \/ OpenFails \/ SetWriter
               \/ SetNames \/ Stop
        BY <2>2, SameFilesGrow DEF Start, SetLimits, OpenFails, SetWriter, SetNames, Stop
    <2> QED
        BY <1>3, <2>1, <2>2 DEF Commands
<1>4. CASE Polls
    <2>1. CASE Write
        BY <2>1, WriteStore
    <2>2. CASE Rotate
        <3>1. /\ \E now \in Now : clock' = now
              /\ Sound(files', created') /\ created' \in Nat /\ created <= created'
            BY <2>2, RotateFiles
        <3> QED
            BY <3>1, NowTyped DEF StoreGrows, Store
    <2>3. CASE RotateFails
        BY <2>3, CleanupStore
    <2>4. CASE ((Drain \/ Subtract) /\ UNCHANGED <<fileVars, guiVars>>)
               \/ ReadLimits \/ ReadNames \/ LookForWriter \/ Emit \/ Sleep
        BY <2>4, SameFilesGrow DEF ReadLimits, ReadNames, LookForWriter, Emit, Sleep
    <2> QED
        BY <1>4, <2>1, <2>2, <2>3, <2>4 DEF Polls, PollStep
<1>5. CASE Rotates
    <2>1. CASE NoDirectory \/ BeginDelete \/ BeginMove \/ EndMove \/ CreateFails
        BY <2>1, SameFilesGrow DEF NoDirectory, BeginDelete, BeginMove, EndMove, CreateFails
    <2>2. CASE \E id \in todo : Delete(id) \/ Move(id)
        BY <2>2, DeleteStore, MoveStore
    <2>3. CASE \E prefix_ \in Prefixes : Create(prefix_)
        BY <2>3, CreateStore
    <2> QED
        BY <1>5, <2>1, <2>2, <2>3 DEF Rotates, CliStep
<1> QED
    BY <1>1, <1>2, <1>3, <1>4, <1>5 DEF Next

-----------------------------------------------------------------------------
\* The session, and the copies of the poll task.
SessionTyped == GuiTypeOK /\ Session

LEMMA WiderSession ==
    ASSUME Typed, created' \in Nat, created <= created', UNCHANGED guiVars
    PROVE  SessionTyped'
<1>1. 1 .. created \subseteq 1 .. created'
    BY DEF Typed, Store
<1> QED
    BY <1>1 DEF Typed, SessionTyped, GuiTypeOK, Session, guiVars

LEMMA CommandsSession ==
    ASSUME Typed, Commands, StoreGrows
    PROVE  SessionTyped'
<1>1. /\ created \in Nat /\ 1 .. created \subseteq 1 .. created'
      /\ handle \in 1 .. created' \cup {None} /\ writer \in 1 .. created' \cup {None}
      /\ GuiTypeOK /\ Session
    BY DEF Typed, Store, StoreGrows, GuiTypeOK
<1>2. UNCHANGED queueVars
    BY CommandsQueue
<1>3. CASE \E c \in Configs : Start(c)
    BY <1>1, <1>2, <1>3, ConfigsAssumption
    DEF Start, Command, SessionTyped, GuiTypeOK, Session, queueVars
<1>4. CASE SetLimits
    <2>1. config \in Configs /\ config.limits \in Limits
        BY <1>1, <1>4, ConfigsAssumption DEF SetLimits, Command, Session
    <2>2. limits' \in Limits
        BY <1>1, <1>4, <2>1 DEF SetLimits, Limits, GuiTypeOK
    <2>3. session \in {"limits", "bytes", "num"} /\ session' \in {"bytes", "num", "open"}
        BY <1>4 DEF SetLimits, Command
    <2> QED
        BY <1>1, <1>2, <1>4, <2>1, <2>2, <2>3
        DEF SetLimits, SessionTyped, GuiTypeOK, Session, queueVars
<1>5. CASE OpenLog
    <2>1. handle' \in 1 .. created'
        BY <1>5, OpenLogStore
    <2> QED
        BY <1>1, <1>2, <1>5, <2>1
        DEF OpenLog, Command, SessionTyped, GuiTypeOK, Session, queueVars
<1>6. CASE OpenFails \/ Stop
    BY <1>1, <1>2, <1>6
    DEF OpenFails, Stop, Command, SessionTyped, GuiTypeOK, Session, queueVars
<1>7. CASE SetWriter
    BY <1>1, <1>2, <1>7
    DEF SetWriter, Command, SessionTyped, GuiTypeOK, Session, queueVars
<1>8. CASE SetNames
    <2>1. config \in Configs /\ config.prefix \in Prefixes
        BY <1>1, <1>8, ConfigsAssumption DEF SetNames, Command, Session
    <2>2. names' \in Names
        BY <1>1, <1>8, <2>1 DEF SetNames, Names, GuiTypeOK
    <2>3. \/ session = "dir" /\ session' = "names" /\ config' = config
          \/ session = "names" /\ session' = "on" /\ config' = None
        BY <1>8 DEF SetNames, Command
    <2>4. UNCHANGED <<created, handle, writer, limits, seen, named, size, page>>
        BY <1>8 DEF SetNames, fileVars
    <2>5. handle' = None
        BY <1>1, <2>3, <2>4 DEF Session
    <2>6. Session'
        BY <2>1, <2>3, <2>5 DEF Session
    <2> QED
        BY <1>1, <2>1, <2>2, <2>3, <2>4, <2>6 DEF SessionTyped, GuiTypeOK
<1> QED
    BY <1>3, <1>4, <1>5, <1>6, <1>7, <1>8 DEF Commands

LEMMA NumbersTyped ==
    ASSUME NEW lines \in Seq(Line)
    PROVE  /\ Numbers(lines) \in Seq(Nat) /\ Len(Numbers(lines)) = Len(lines)
           /\ DOMAIN Numbers(lines) = DOMAIN lines
           /\ \A i \in DOMAIN lines : Numbers(lines)[i] = lines[i].no
<1>1. \A i \in 1 .. Len(lines) : lines[i].no \in Nat
    <2>1. \A i \in 1 .. Len(lines) : lines[i] \in Line
        OBVIOUS
    <2> QED
        BY <2>1 DEF Line
<1>2. Numbers(lines) \in [1 .. Len(lines) -> Nat]
    BY <1>1 DEF Numbers
<1> QED
    BY <1>2 DEF Numbers

LEMMA PollsSession ==
    ASSUME Typed, PollStep, StoreGrows
    PROVE  SessionTyped'
<1>1. /\ created \in Nat /\ 1 .. created \subseteq 1 .. created'
      /\ handle \in 1 .. created' \cup {None} /\ writer \in 1 .. created' \cup {None}
      /\ handle \in 1 .. created => handle \in 1 .. created'
      /\ GuiTypeOK /\ Session
    BY DEF Typed, Store, StoreGrows, GuiTypeOK
<1>2. CASE (Drain \/ Subtract) /\ UNCHANGED <<fileVars, guiVars>>
    BY <1>1, <1>2 DEF Drain, Subtract, SessionTyped, GuiTypeOK, Session, guiVars
<1>3. CASE ReadLimits
    <2>1. seen' \in Limits
        BY <1>1, <1>3 DEF ReadLimits, Limits, GuiTypeOK
    <2> QED
        BY <1>1, <1>3, <2>1 DEF ReadLimits, SessionTyped, GuiTypeOK, Session
<1>4. CASE ReadNames
    <2>1. named' \in Names
        BY <1>1, <1>4 DEF ReadNames, Names, GuiTypeOK
    <2> QED
        BY <1>1, <1>4, <2>1 DEF ReadNames, SessionTyped, GuiTypeOK, Session
<1>9. CASE LookForWriter
    BY <1>1, <1>9 DEF LookForWriter, SessionTyped, GuiTypeOK, Session
<1>5. CASE Emit
    <2>1. page' \in Seq(Nat)
        <3>1. batch \in Seq(Line)
            BY DEF Typed, Backlog, QueueTypeOK
        <3>2. Numbers(batch) \in Seq(Nat) /\ page \in Seq(Nat)
            BY <1>1, <3>1, NumbersTyped DEF GuiTypeOK
        <3> QED
            BY <1>5, <3>2 DEF Emit
    <2> QED
        BY <1>1, <1>5, <2>1 DEF Emit, Poll, SessionTyped, GuiTypeOK, Session
<1>6. CASE Write
    <2>1. size' \in Nat
        BY <1>1, <1>6, HeadOfBatch DEF Write, GuiTypeOK
    <2> QED
        BY <1>1, <1>6, <2>1 DEF Write, Poll, SessionTyped, GuiTypeOK, Session
<1>7. CASE Rotate
    <2>1. writer' \in 1 .. created'
        BY <1>7, RotateFiles
    <2>2. size' \in Nat
        BY <1>7, HeadOfBatch DEF Rotate
    <2> QED
        BY <1>1, <1>7, <2>1, <2>2 DEF Rotate, Poll, SessionTyped, GuiTypeOK, Session
<1>8. CASE RotateFails \/ Sleep
    BY <1>1, <1>8, DefaultsAssumption, UnnamedTyped
    DEF RotateFails, Sleep, Repeat, fileVars, SessionTyped, GuiTypeOK, Session
<1> QED
    BY <1>2, <1>3, <1>4, <1>5, <1>6, <1>7, <1>8, <1>9 DEF PollStep

\* What the command line has read of the directories are numbers of files.
LEMMA IdsTyped ==
    ASSUME Typed
    PROVE  /\ Ids(files) \subseteq 1 .. created
           /\ \A place_ : IdsIn(place_) = {f.id : f \in {f \in FileSet(files) :
                                                            f.place = place_}}
<1>1. Sound(files, created) /\ created \in Nat
    BY DEF Typed, Store
<1>2. FileSet(files) \subseteq File /\ Ids(files) = {f.id : f \in FileSet(files)}
      /\ \A f \in FileSet(files) : f.id <= created
    BY <1>1, FileSetTyped
<1>3. \A f \in FileSet(files) : f.id \in 1 .. created
    BY <1>1, <1>2 DEF File
<1> QED
    BY <1>2, <1>3 DEF IdsIn, FileSet

LEMMA RotatesCli ==
    ASSUME Typed, CliStep, StoreGrows
    PROVE  CliTypeOK'
<1>1. 1 .. created \subseteq 1 .. created' /\ CliTypeOK
    BY DEF Typed, Store, StoreGrows
<1>2. \A place_ : IdsIn(place_) \subseteq 1 .. created
    BY IdsTyped DEF Typed, Store, Sound, IdsIn, Ids
<1>3. CASE NoDirectory \/ EndMove \/ CreateFails
    BY <1>1, <1>3 DEF NoDirectory, EndMove, CreateFails, CliStage, CliTypeOK, Stages
<1>4. CASE BeginDelete \/ BeginMove
    BY <1>1, <1>2, <1>4 DEF BeginDelete, BeginMove, CliStage, CliTypeOK, Stages
<1>5. CASE \E id \in todo : Delete(id) \/ Move(id)
    BY <1>1, <1>5 DEF Delete, Move, CliTypeOK
<1>6. CASE \E prefix_ \in Prefixes : Create(prefix_)
    BY <1>1, <1>6 DEF Create, CliStage, CliTypeOK, Stages
<1> QED
    BY <1>3, <1>4, <1>5, <1>6 DEF CliStep

LEMMA TypedInit == Init => Typed
<1> SUFFICES ASSUME Init PROVE Typed
    OBVIOUS
<1>1. Backlog
    BY EmptyBacklog DEF Init
<1>2. Store
    BY DEF Init, FilesInit, Store, Sound
<1>3. GuiTypeOK /\ Session
    BY DefaultsAssumption, UnnamedTyped
    DEF Init, GuiInit, QueueInit, GuiTypeOK, Session
<1>4. CliTypeOK
    BY DEF Init, CliInit, CliTypeOK, Stages
<1>5. Programs
    BY MaxStartsAssumption DEF Init, QueueInit, GuiInit, CliInit, Programs
<1> QED
    BY <1>1, <1>2, <1>3, <1>4, <1>5 DEF Typed

LEMMA ProgramsNext == Typed /\ [Next]_vars => Programs'
<1> SUFFICES ASSUME Typed, [Next]_vars PROVE Programs'
    OBVIOUS
<1>1. Programs
    BY DEF Typed
<1>2. CASE RunGui
    BY <1>1, <1>2, MaxStartsAssumption
    DEF RunGui, MayStart, Programs, queueVars, guiVars, cliVars
<1>3. CASE RunCli
    BY <1>1, <1>3, MaxStartsAssumption DEF RunCli, MayStart, Programs, queueVars, guiVars
<1>4. CASE End
    BY <1>1, <1>4 DEF End, Programs, QueueReset, GuiReset, CliReset
<1>5. CASE Commands
    <2>1. starts' \in 0 .. MaxStarts
        BY <1>1, <1>5, MaxStartsAssumption DEF Commands, MayStart, Programs
    <2> QED
        BY <1>1, <1>5, <2>1, CommandsQueue DEF Commands, Programs, queueVars, cliVars
<1>6. CASE Logs
    BY <1>1, <1>6 DEF Logs, Programs, guiVars, cliVars
<1>7. CASE Polls
    BY <1>1, <1>7 DEF Polls, Programs, cliVars
<1>8. CASE Rotates
    BY <1>1, <1>8 DEF Rotates, Programs, queueVars, guiVars
<1>9. CASE UNCHANGED vars
    BY <1>1, <1>9 DEF vars, Programs, queueVars, guiVars, cliVars
<1> QED
    BY <1>2, <1>3, <1>4, <1>5, <1>6, <1>7, <1>8, <1>9 DEF Next

LEMMA TypedNext == Typed /\ [Next]_vars => Typed'
<1> SUFFICES ASSUME Typed, [Next]_vars PROVE Typed'
    OBVIOUS
<1>1. Backlog' /\ StoreGrows /\ Programs'
    BY NextBacklog, NextStore, ProgramsNext DEF Typed
<1>2. created \in Nat /\ created' \in Nat /\ created <= created' /\ Store'
    BY <1>1 DEF Typed, Store, StoreGrows
<1>3. SessionTyped'
    <2>1. CASE Commands
        BY <1>1, <2>1, CommandsSession
    <2>2. CASE Polls
        BY <1>1, <2>2, PollsSession DEF Polls
    <2>3. CASE End
        <3>1. handle' = None /\ writer' = None
            BY <2>3 DEF End, GuiReset
        <3> QED
            BY <2>3, <3>1, DefaultsAssumption, UnnamedTyped
            DEF End, GuiReset, QueueReset, SessionTyped, GuiTypeOK, Session
    <2>4. CASE Logs
        <3>1. poll' = poll
            BY <2>4 DEF Logs, LogStep, Pass, Drop, Send, Count
        <3> QED
            BY <1>2, <2>4, <3>1, WiderSession DEF Logs
    <2>5. CASE RunGui \/ RunCli \/ Rotates \/ UNCHANGED vars
        BY <1>2, <2>5, WiderSession DEF RunGui, RunCli, Rotates, vars, queueVars
    <2> QED
        BY <2>1, <2>2, <2>3, <2>4, <2>5 DEF Next
<1>4. CliTypeOK'
    <2>1. CASE Rotates
        BY <1>1, <2>1, RotatesCli DEF Rotates
    <2>2. CASE RunGui \/ Commands \/ Logs \/ Polls \/ UNCHANGED vars
        BY <1>2, <2>2 DEF RunGui, Commands, Logs, Polls, vars, cliVars, Typed, CliTypeOK
    <2>3. CASE RunCli \/ End
        BY <1>2, <2>3 DEF RunCli, CliStart, CliStage, End, CliReset, Typed, CliTypeOK, Stages
    <2> QED
        BY <2>1, <2>2, <2>3 DEF Next
<1> QED
    BY <1>1, <1>2, <1>3, <1>4 DEF Typed, SessionTyped

\* Types, and what the phases of programs, sessions and poll task say of them.
THEOREM TypedInductive == Spec => []Typed
    BY TypedInit, TypedNext, PTL DEF Spec

\* The types of everything the logs are made of, through starts, ends and
\* crashes of both programs: what the poll task has opened is one of the files
\* that were created, and the poll task's copies are of a kind with the globals.
THEOREM TypeCorrect == Spec => []TypeOK
    BY TypedTypes, TypedInductive, PTL

-----------------------------------------------------------------------------
(***************************************************************************)
(* The rotation of the command line.  It keeps a file because it moves     *)
(* only what was in logs, whose files have different names, and deletes    *)
(* only what was not.                                                      *)
(***************************************************************************)
\* A directory has one file of a name.
Apart(fs) ==
    \A f, g \in FileSet(fs) : f.place = g.place /\ SameName(f, g) => f = g

\* The files that were in logs have names of their own wherever they are.
Unlike(fs) ==
    \A f, g \in FileSet(fs) : f.id \in before /\ g.id \in before /\ SameName(f, g) => f = g

Deleting ==
    stage = "delete" =>
        \A f \in FileSet(files) : /\ f.place = "logs" <=> f.id \in before
                                  /\ f.id \in todo => f.place = "backup"

Moving ==
    stage = "move" =>
        /\ todo \subseteq before
        /\ \A f \in FileSet(files) : f.id \in todo => f.place = "logs"

Saved ==
    /\ Apart(files)
    /\ before \subseteq Ids(files)
    /\ Unlike(files)
    /\ Deleting /\ Moving
    /\ stage \in {"off", "begin"} => before = {}

LEMMA ApartFewer ==
    ASSUME NEW fs, NEW t, Apart(fs), FileSet(t) \subseteq FileSet(fs)
    PROVE  Apart(t)
    BY DEF Apart

LEMMA ApartReplaced ==
    ASSUME NEW n, NEW fs, Sound(fs, n), Apart(fs), NEW f \in FileSet(fs),
           NEW g, SameName(g, f), g.place = f.place, NEW t,
           FileSet(t) = Others(fs, f.id) \cup {g}
    PROVE  Apart(t)
<1>1. \A h \in Others(fs, f.id) : /\ h \in FileSet(fs) /\ h # f
    BY DEF Others
<1>2. \A h \in Others(fs, f.id) : ~ (h.place = g.place /\ (SameName(h, g) \/ SameName(g, h)))
    BY <1>1 DEF Apart, SameName
<1>3. \A h, k \in Others(fs, f.id) : h.place = k.place /\ SameName(h, k) => h = k
    BY <1>1 DEF Apart
<1> QED
    BY <1>2, <1>3 DEF Apart

LEMMA ApartOpened ==
    ASSUME NEW fs, Sound(fs, created), Apart(fs), NEW t, NEW of, NEW name_, NEW now,
           NEW id, OpenedAs(fs, t, of, name_, now, id)
    PROVE  Apart(t)
<1>1. FileSet(fs) \subseteq File
    BY FileSetTyped
<1>2. CASE \E f \in FileSet(fs) : /\ HasName(f, of, name_, now) /\ f.id = id /\ id <= created
                                  /\ FileSet(t) = Others(fs, id) \cup {Reopened(f)}
    <2>1. PICK f \in FileSet(fs) : f.id = id /\ FileSet(t) = Others(fs, id) \cup {Reopened(f)}
        BY <1>2
    <2>2. SameName(Reopened(f), f) /\ Reopened(f).place = f.place
        BY <1>1, <2>1, FileFields
    <2> QED
        BY <2>1, <2>2, ApartReplaced
<1>3. CASE /\ id = created + 1
           /\ \A f \in FileSet(fs) : ~ HasName(f, of, name_, now)
           /\ NewFile(id, of, name_, now) \in File
           /\ FileSet(t) = FileSet(fs) \cup {NewFile(id, of, name_, now)}
    <2> DEFINE g == NewFile(id, of, name_, now)
    <2>1. /\ g.of = of /\ g.prefix = name_.prefix /\ g.place = name_.dir
          /\ g.second = now
        BY DEF NewFile
    <2> HIDE DEF g
    <2>2. \A f \in FileSet(fs) : ~ (f.place = g.place /\ (SameName(f, g) \/ SameName(g, f)))
        BY <1>3, <2>1 DEF HasName, SameName
    <2>3. FileSet(t) = FileSet(fs) \cup {g}
        BY <1>3 DEF g
    <2> QED
        BY <2>2, <2>3 DEF Apart
<1> QED
    BY <1>2, <1>3 DEF OpenedAs

LEMMA ApartWritten ==
    ASSUME NEW n \in Nat, NEW fs, Sound(fs, n), Apart(fs), NEW line \in Line, NEW id,
           NEW t, t = AfterWrite(fs, id, line)
    PROVE  Apart(t)
<1>1. FileSet(fs) \subseteq File /\ Ids(fs) = {f.id : f \in FileSet(fs)}
    BY FileSetTyped
<1>2. CASE id \notin Ids(fs)
    BY <1>2, WriteFile
<1>3. CASE id \in Ids(fs)
    <2>1. PICK f \in FileSet(fs) : f.id = id
        BY <1>1, <1>3
    <2>2. FileSet(t) = Others(fs, f.id) \cup {Written(f, line)}
        BY <2>1, WriteFile
    <2>3. SameName(Written(f, line), f) /\ Written(f, line).place = f.place
        BY <1>1, <2>1, WrittenFields
    <2> QED
        BY <2>2, <2>3, ApartReplaced
<1> QED
    BY <1>2, <1>3

LEMMA ApartRotated ==
    ASSUME Typed, Rotate, Apart(files)
    PROVE  Apart(files')
<1>1. PICK kept, opened, new, now :
        /\ Sound(kept, created) /\ Sound(opened, created') /\ created' \in Nat
        /\ Cleaned(files, kept)
        /\ OpenedAs(kept, opened, "gui", named, now, new)
        /\ files' = AfterWrite(opened, new, Head(batch))
    BY RotateFiles
<1>2. Apart(kept)
    BY <1>1, ApartFewer DEF Cleaned
<1>3. Apart(opened)
    BY <1>1, <1>2, ApartOpened
<1>4. Head(batch) \in Line
    BY HeadOfBatch DEF Rotate
<1> QED
    BY <1>1, <1>3, <1>4, ApartWritten

\* One lemma per step of the command line that touches the files or its notes.
LEMMA BeginDeleteSaved == Typed /\ Saved /\ BeginDelete => Saved'
<1> SUFFICES ASSUME Typed, Saved, BeginDelete PROVE Saved'
    OBVIOUS
<1>1. /\ files' = files /\ stage' = "delete"
      /\ before' = IdsIn("logs") /\ todo' = IdsIn("backup")
    BY DEF BeginDelete, CliStage, fileVars
<1>2. /\ \A f, g \in FileSet(files) : f.id = g.id => f = g
      /\ Ids(files) = {f.id : f \in FileSet(files)}
    BY FileSetTyped DEF Typed, Store
<1>3. \A f \in FileSet(files) : /\ f.id \in before' <=> f.place = "logs"
                                /\ f.id \in todo' => f.place = "backup"
    BY <1>1, <1>2, IdsTyped
<1>4. before' \subseteq Ids(files)
    BY <1>1, <1>2, IdsTyped
<1>5. Apart(files')
    BY <1>1 DEF Saved
<1>6. Unlike(files)'
    BY <1>1, <1>3 DEF Saved, Apart, Unlike, FileSet
<1>7. Deleting'
    BY <1>1, <1>3 DEF Deleting, FileSet
<1>8. before' \subseteq Ids(files')
    BY <1>1, <1>4
<1> QED
    BY <1>1, <1>5, <1>6, <1>7, <1>8 DEF Saved, Moving

LEMMA BeginMoveSaved == Typed /\ Saved /\ BeginMove => Saved'
<1> SUFFICES ASSUME Typed, Saved, BeginMove PROVE Saved'
    OBVIOUS
<1>1. /\ files' = files /\ stage = "delete" /\ stage' = "move"
      /\ before' = before /\ todo' = IdsIn("logs")
    BY DEF BeginMove, CliStage, fileVars
<1>2. \A f, g \in FileSet(files) : f.id = g.id => f = g
    BY FileSetTyped DEF Typed, Store
<1>3. /\ todo' \subseteq before'
      /\ \A f \in FileSet(files) : f.id \in todo' => f.place = "logs"
    BY <1>1, <1>2, IdsTyped DEF Saved, Deleting
<1>4. Unlike(files)'
    BY <1>1 DEF Saved, Unlike, FileSet
<1>5. Moving'
    BY <1>1, <1>3 DEF Moving, FileSet
<1> QED
    BY <1>1, <1>4, <1>5 DEF Saved, Deleting

LEMMA DeleteSaved ==
    ASSUME Typed, Saved, NEW id \in todo, Delete(id)
    PROVE  Saved'
<1>1. /\ stage = "delete" /\ stage' = "delete" /\ todo' = todo \ {id} /\ before' = before
      /\ files' = files \/ files' = Without(files, {id})
    BY DEF Delete
<1>2. Sound(files, created) /\ Ids(files) = {f.id : f \in FileSet(files)}
    BY FileSetTyped DEF Typed, Store
<1>3. Sound(files', created)
    BY <1>1, <1>2, WithoutFiles
<1>4. /\ FileSet(files') \subseteq FileSet(files)
      /\ \A f \in FileSet(files) : f.id # id => f \in FileSet(files')
    BY <1>1, <1>2, WithoutFiles
<1>5. Ids(files') = {f.id : f \in FileSet(files')}
    BY <1>3, FileSetTyped
<1>6. \A f \in FileSet(files) : f.id \in before => f.id # id
    BY <1>1 DEF Saved, Deleting
<1>7. before' \subseteq Ids(files')
    BY <1>1, <1>2, <1>4, <1>5, <1>6 DEF Saved
<1>8. Apart(files')
    BY <1>4, ApartFewer DEF Saved
<1>9. Unlike(files)'
    BY <1>1, <1>4 DEF Saved, Unlike, FileSet
<1>10. Deleting'
    BY <1>1, <1>4 DEF Saved, Deleting, FileSet
<1> QED
    BY <1>1, <1>7, <1>8, <1>9, <1>10 DEF Saved, Moving

LEMMA MoveSaved ==
    ASSUME Typed, Saved, NEW id \in todo, Move(id)
    PROVE  Saved'
<1>1. /\ stage = "move" /\ stage' = "move" /\ todo' = todo \ {id} /\ before' = before
      /\ files' = files \/ files' = AfterMove(files, id)
    BY DEF Move
<1>2. /\ Sound(files, created) /\ Ids(files) = {f.id : f \in FileSet(files)}
      /\ FileSet(files) \subseteq File
      /\ \A f, g \in FileSet(files) : f.id = g.id => f = g
    BY FileSetTyped DEF Typed, Store
<1>3. CASE files' = files
    <2>1. Unlike(files)' /\ Moving'
        BY <1>1, <1>3 DEF Saved, Unlike, Moving, FileSet
    <2> QED
        BY <1>1, <1>3, <2>1 DEF Saved, Deleting
<1>4. CASE files' = AfterMove(files, id)
    <2>1. PICK f \in FileSet(files) : f.id = id
        BY <1>1, <1>2 DEF Saved, Moving
    <2>2. f.place = "logs" /\ f.place # "backup" /\ f.id \in before
        BY <1>1, <2>1 DEF Saved, Moving
    <2> DEFINE kept == {h \in FileSet(files) :
                            h.id # f.id /\ ~ (h.place = "backup" /\ SameName(h, f))}
    <2>3. Sound(files', created) /\ FileSet(files') = kept \cup {Moved(f)}
        BY <1>2, <1>4, <2>1, <2>2, MoveFile
    <2>4. Moved(f).place = "backup" /\ Moved(f).id = f.id /\ SameName(Moved(f), f)
        BY <1>2, FileFields
    <2>5. Ids(files') = {h.id : h \in FileSet(files')}
        BY <2>3, FileSetTyped
    <2>6. \A h \in FileSet(files) : h.id \in before /\ h.id # f.id => h \in kept
        BY <2>2 DEF Saved, Unlike
    <2>7. kept \subseteq FileSet(files) /\ \A h \in kept : h.id # f.id
        OBVIOUS
    <2>8. \A h \in kept : h.place = "backup" => ~ SameName(h, f) /\ ~ SameName(f, h)
        BY DEF SameName
    <2> HIDE DEF kept
    <2>9. before' \subseteq Ids(files')
        BY <1>1, <1>2, <2>3, <2>4, <2>5, <2>6 DEF Saved
    <2>10. Apart(files')
        <3>1. \A h, k \in kept : h.place = k.place /\ SameName(h, k) => h = k
            BY <2>7 DEF Saved, Apart
        <3>2. \A h \in kept : ~ (/\ h.place = "backup"
                                 /\ SameName(h, Moved(f)) \/ SameName(Moved(f), h))
            BY <2>4, <2>8 DEF SameName
        <3> QED
            BY <2>3, <2>4, <3>1, <3>2 DEF Apart
    <2>11. Unlike(files)'
        <3>1. \A h, k \in kept : h.id \in before /\ k.id \in before /\ SameName(h, k) => h = k
            BY <2>7 DEF Saved, Unlike
        <3>2. \A h \in kept : h.id \in before =>
                    ~ SameName(h, Moved(f)) /\ ~ SameName(Moved(f), h)
            <4>1. \A h \in kept : h.id \in before => ~ SameName(h, f)
                BY <2>1, <2>2, <2>7 DEF Saved, Unlike
            <4> QED
                BY <2>4, <4>1 DEF SameName
        <3> QED
            BY <1>1, <2>3, <3>1, <3>2 DEF Unlike, FileSet
    <2>12. Moving'
        <3>1. todo' \subseteq before'
            BY <1>1 DEF Saved, Moving
        <3>2. \A h \in FileSet(files') : h.id \in todo' => h.place = "logs"
            BY <1>1, <2>1, <2>3, <2>4, <2>7 DEF Saved, Moving
        <3> QED
            BY <3>1, <3>2 DEF Moving, FileSet
    <2> QED
        BY <1>1, <2>9, <2>10, <2>11, <2>12 DEF Saved, Deleting
<1> QED
    BY <1>1, <1>3, <1>4

LEMMA CreateSaved ==
    ASSUME Typed, Saved, NEW prefix_ \in Prefixes, Create(prefix_)
    PROVE  Saved'
<1>1. PICK now \in Now :
        LET new == Opened(files, "cli", InLogs(prefix_), now)
        IN  /\ clock' = now
            /\ files' = AfterOpen(files, "cli", InLogs(prefix_), now)
            /\ created' = IF new > created THEN new ELSE created
    BY DEF Create
<1> DEFINE new == Opened(files, "cli", InLogs(prefix_), now)
<1>2. /\ files' = AfterOpen(files, "cli", InLogs(prefix_), now) /\ created' = After(new)
      /\ new = Opened(files, "cli", InLogs(prefix_), now)
    BY <1>1 DEF After
<1>3. stage' = "running" /\ todo' = todo /\ before' = before
    BY DEF Create, CliStage
<1>4. /\ created \in Nat /\ Sound(files, created) /\ now \in Nat
      /\ FileSet(files) \subseteq File /\ Ids(files) = {f.id : f \in FileSet(files)}
      /\ before \subseteq 1 .. created
    BY NowTyped, FileSetTyped DEF Typed, Store, CliTypeOK
<1> HIDE DEF new
<1>5. Sound(files', created') /\ OpenedAs(files, files', "cli", InLogs(prefix_), now, new)
    BY <1>2, <1>4, InLogsTyped, OpenFile
<1>6. Ids(files') = {f.id : f \in FileSet(files')}
    BY <1>5, FileSetTyped
<1>7. Apart(files')
    BY <1>4, <1>5, ApartOpened DEF Saved
<1>8. before \subseteq Ids(files')
      /\ \A f \in FileSet(files') : f.id \in before =>
            \E g \in FileSet(files) : g.id = f.id /\ SameName(f, g) /\ (g.id # new => f = g)
    <2>1. CASE \E f \in FileSet(files) :
                    /\ HasName(f, "cli", InLogs(prefix_), now) /\ f.id = new /\ new <= created
                    /\ FileSet(files') = Others(files, new) \cup {Reopened(f)}
        <3>1. PICK f \in FileSet(files) :
                    f.id = new /\ FileSet(files') = Others(files, new) \cup {Reopened(f)}
            BY <2>1
        <3>2. SameName(Reopened(f), f) /\ Reopened(f).id = f.id
            BY <1>4, FileFields
        <3>3. \A h : SameName(h, h)
            BY DEF SameName
        <3> QED
            BY <1>4, <1>6, <3>1, <3>2, <3>3 DEF Others, Saved
    <2>2. CASE /\ new = created + 1
               /\ NewFile(new, "cli", InLogs(prefix_), now) \in File
               /\ FileSet(files') = FileSet(files) \cup {NewFile(new, "cli", InLogs(prefix_), now)}
        <3>1. NewFile(new, "cli", InLogs(prefix_), now).id \notin before
            BY <1>4, <2>2 DEF NewFile
        <3>2. \A h : SameName(h, h)
            BY DEF SameName
        <3> QED
            BY <1>4, <1>6, <2>2, <3>1, <3>2 DEF Saved
    <2> QED
        BY <1>5, <2>1, <2>2 DEF OpenedAs
<1>9. Unlike(files)'
    <2> SUFFICES ASSUME NEW f \in FileSet(files'), NEW g \in FileSet(files'),
                        f.id \in before, g.id \in before, SameName(f, g)
                 PROVE  f = g
        BY <1>3 DEF Unlike, FileSet
    <2>1. PICK h \in FileSet(files) : h.id = f.id /\ SameName(f, h)
        BY <1>8
    <2>2. PICK k \in FileSet(files) : k.id = g.id /\ SameName(g, k)
        BY <1>8
    <2>3. h = k
        BY <2>1, <2>2 DEF Saved, Unlike, SameName
    <2> QED
        BY <1>5, <2>1, <2>2, <2>3, FileSetTyped
<1> QED
    BY <1>3, <1>7, <1>8, <1>9 DEF Saved, Deleting, Moving

\* The GUI does not care for the notes of the command line, which are empty.
LEMMA GuiSaved ==
    ASSUME Typed, Saved, stage = "off", stage' = "off", before' = before, Apart(files')
    PROVE  Saved'
    BY DEF Saved, Unlike, Deleting, Moving

LEMMA SameSaved == Saved /\ UNCHANGED <<fileVars, cliVars>> => Saved'
    BY DEF Saved, Unlike, Deleting, Moving, FileSet, Ids, Apart, fileVars, cliVars

LEMMA SavedNext == Typed /\ Saved /\ [Next]_vars => Saved'
<1> SUFFICES ASSUME Typed, Saved, [Next]_vars PROVE Saved'
    OBVIOUS
<1>1. created \in Nat /\ Sound(files, created) /\ Apart(files)
    BY DEF Typed, Store, Saved
<1>2. CASE RunGui \/ Logs \/ UNCHANGED vars
    BY <1>2, SameSaved DEF RunGui, Logs, vars
<1>3. CASE RunCli
    BY <1>3 DEF RunCli, CliStart, CliStage, fileVars, Saved, Unlike, Deleting, Moving,
                FileSet, Ids, Apart
<1>4. CASE End
    BY <1>4 DEF End, CliReset, fileVars, Saved, Unlike, Deleting, Moving,
                FileSet, Ids, Apart
<1>5. CASE Commands
    <2>1. stage = "off" /\ stage' = "off" /\ before' = before
        BY <1>5 DEF Commands, Typed, Programs, cliVars
    <2>2. Apart(files')
        <3>1. CASE OpenLog
            <4>1. PICK now \in Now : /\ handle' = Opened(files, "gui", InLogs(config.prefix), now)
                                     /\ files' = AfterOpen(files, "gui", InLogs(config.prefix), now)
                BY <3>1 DEF OpenLog
            <4>2. InLogs(config.prefix) \in Names
                BY <3>1, ConfigsAssumption, InLogsTyped DEF OpenLog, Command, Typed, Session
            <4>3. OpenedAs(files, files', "gui", InLogs(config.prefix), now, handle')
                BY <1>1, <4>1, <4>2, NowTyped, OpenFile
            <4> QED
                BY <1>1, <4>3, ApartOpened
        <3>2. CASE (\E c \in Configs : Start(c)) \/ SetLimits \/ OpenFails \/ SetWriter
                   \/ SetNames \/ Stop
            BY <1>1, <3>2
            DEF Start, SetLimits, OpenFails, SetWriter, SetNames, Stop, fileVars
        <3> QED
            BY <1>5, <3>1, <3>2 DEF Commands
    <2> QED
        BY <2>1, <2>2, GuiSaved
<1>6. CASE Polls
    <2>1. stage = "off" /\ stage' = "off" /\ before' = before
        BY <1>6 DEF Polls, Typed, Programs, cliVars
    <2>2. Apart(files')
        <3>1. CASE Write
            <4>1. Head(batch) \in Line /\ (files' = files
                    \/ files' = AfterWrite(files, writer, Head(batch)))
                BY <3>1, HeadOfBatch DEF Write
            <4> QED
                BY <1>1, <4>1, ApartWritten
        <3>2. CASE Rotate
            BY <1>1, <3>2, ApartRotated
        <3>3. CASE RotateFails
            <4>1. FileSet(files') \subseteq FileSet(files)
                BY <1>1, <3>3, CleanupFiles DEF RotateFails, Cleaned
            <4> QED
                BY <1>1, <4>1, ApartFewer
        <3>4. CASE ((Drain \/ Subtract) /\ UNCHANGED <<fileVars, guiVars>>)
                   \/ ReadLimits \/ ReadNames \/ LookForWriter \/ Emit \/ Sleep
            BY <1>1, <3>4 DEF ReadLimits, ReadNames, LookForWriter, Emit, Sleep, fileVars
        <3> QED
            BY <1>6, <3>1, <3>2, <3>3, <3>4 DEF Polls, PollStep
    <2> QED
        BY <2>1, <2>2, GuiSaved
<1>7. CASE Rotates
    <2>1. CASE NoDirectory \/ EndMove \/ CreateFails
        BY <2>1 DEF NoDirectory, EndMove, CreateFails, CliStage, fileVars, Saved, Unlike,
                    Deleting, Moving, FileSet, Ids, Apart
    <2>2. CASE \E id \in todo : Delete(id) \/ Move(id)
        BY <2>2, DeleteSaved, MoveSaved
    <2>3. CASE \E prefix_ \in Prefixes : Create(prefix_)
        BY <2>3, CreateSaved
    <2> QED
        BY <1>7, <2>1, <2>2, <2>3, BeginDeleteSaved, BeginMoveSaved DEF Rotates, CliStep
<1> QED
    BY <1>2, <1>3, <1>4, <1>5, <1>6, <1>7 DEF Next

\* No two files are one, and a rotation that is under way has kept what was there.
THEOREM SavedInductive == Spec => []Saved
<1>1. Init => Saved
    BY DEF Init, FilesInit, CliInit, Saved, Apart, Unlike, Deleting, Moving, FileSet, Ids
<1> QED
    BY <1>1, SavedNext, TypedInductive, PTL DEF Spec

\* The rotation of the command line loses no file that was in logs, whichever
\* of its removals and moves fail, and wherever the program is killed.
THEOREM RotationKeeps == Spec => []RotationKeepsLogs
<1>1. Saved => RotationKeepsLogs
    BY DEF Saved, RotationKeepsLogs
<1> QED
    BY <1>1, SavedInductive, PTL

-----------------------------------------------------------------------------
(***************************************************************************)
(* The order of the lines: what is in the files is older than what is in   *)
(* the batch, which is older than what is in the channel.                  *)
(***************************************************************************)
Rising(lines) == \A i, j \in DOMAIN lines : i < j => lines[i].no < lines[j].no

Below(numbers, lines) ==
    \A i \in DOMAIN numbers, j \in DOMAIN lines : numbers[i] < lines[j].no

\* The lines b come before the lines c, and there are n lines so far.
Waiting(b, c, n) ==
    /\ Rising(b) /\ Rising(c)
    /\ \A i \in DOMAIN b, j \in DOMAIN c : b[i].no < c[j].no
    /\ \A i \in DOMAIN b : b[i].no <= n
    /\ \A i \in DOMAIN c : c[i].no <= n

Past(numbers, b, c, n) ==
    /\ Increasing(numbers)
    /\ Below(numbers, b) /\ Below(numbers, c)
    /\ \A i \in DOMAIN numbers : numbers[i] <= n

Disjoint(fs) ==
    \A f, g \in FileSet(fs) : f.id # g.id =>
        \A k \in DOMAIN f.lines, m \in DOMAIN g.lines : f.lines[k] # g.lines[m]

Filed(fs, b, c, n) ==
    /\ \A f \in FileSet(fs) : Past(f.lines, b, c, n)
    /\ Disjoint(fs)

\* The page is ahead of the files: it shows a batch before it is written.
Shown(b, c, n) == Past(page, IF poll = "writing" THEN <<>> ELSE b, c, n)

Ordered ==
    /\ Waiting(batch, channel, sent)
    /\ Filed(files, batch, channel, sent)
    /\ Shown(batch, channel, sent)

LEMMA OrderedInOrder == Typed /\ Ordered => InOrder
<1> SUFFICES ASSUME Typed, Ordered PROVE InOrder
    OBVIOUS
<1>1. Increasing(page)
    BY DEF Ordered, Shown, Past
<1>2. \A i \in DOMAIN files : files[i] \in FileSet(files)
    BY DEF FileSet
<1>3. \A i \in DOMAIN files : Increasing(files[i].lines)
    BY <1>2 DEF Ordered, Filed, Past
<1>4. \A i, j \in DOMAIN files : i # j => files[i].id # files[j].id
    BY DEF Typed, Store, Sound
<1>5. ASSUME NEW i \in DOMAIN files, NEW j \in DOMAIN files, i # j
      PROVE  \A k \in DOMAIN files[i].lines, m \in DOMAIN files[j].lines :
                files[i].lines[k] # files[j].lines[m]
    BY <1>2, <1>4, <1>5 DEF Ordered, Filed, Disjoint
<1> QED
    BY <1>1, <1>3, <1>5 DEF InOrder

\* Nothing is before or after no lines.
LEMMA NoLines ==
    /\ \A numbers : Below(numbers, <<>>)
    /\ \A b, c, n : Past(<<>>, b, c, n)
<1>1. DOMAIN <<>> = {}
    OBVIOUS
<1> QED
    BY <1>1 DEF Below, Past, Increasing

\* The files t hold what the files fs hold, or nothing.
SameLines(fs, t) ==
    \A f \in FileSet(t) :
        f.lines = <<>> \/ \E g \in FileSet(fs) : g.id = f.id /\ g.lines = f.lines

LEMMA FiledSame ==
    ASSUME NEW fs, NEW t, SameLines(fs, t), NEW b, NEW c, NEW n, Filed(fs, b, c, n)
    PROVE  Filed(t, b, c, n)
<1>1. \A f \in FileSet(t) : Past(f.lines, b, c, n)
    BY NoLines DEF Filed, SameLines
<1>2. ASSUME NEW f \in FileSet(t), NEW g \in FileSet(t), f.id # g.id,
             NEW k \in DOMAIN f.lines, NEW m \in DOMAIN g.lines
      PROVE  f.lines[k] # g.lines[m]
    <2>1. f.lines # <<>> /\ g.lines # <<>>
        OBVIOUS
    <2>2. PICK h \in FileSet(fs) : h.id = f.id /\ h.lines = f.lines
        BY <2>1 DEF SameLines
    <2>3. PICK j \in FileSet(fs) : j.id = g.id /\ j.lines = g.lines
        BY <2>1 DEF SameLines
    <2> QED
        BY <1>2, <2>2, <2>3 DEF Filed, Disjoint
<1> QED
    BY <1>1, <1>2 DEF Filed, Disjoint

LEMMA SameFewer ==
    ASSUME NEW fs, NEW t, FileSet(t) \subseteq FileSet(fs)
    PROVE  SameLines(fs, t)
    BY DEF SameLines

LEMMA SameOpened ==
    ASSUME NEW fs, Sound(fs, created), NEW t, NEW of, NEW name_, NEW now, NEW id,
           OpenedAs(fs, t, of, name_, now, id)
    PROVE  SameLines(fs, t)
<1>1. FileSet(fs) \subseteq File
    BY FileSetTyped
<1>2. \A f \in FileSet(fs) : Reopened(f).id = f.id /\ Reopened(f).lines = f.lines
    BY <1>1, FileFields
<1>3. NewFile(id, of, name_, now).lines = <<>>
    BY DEF NewFile
<1> QED
    BY <1>2, <1>3 DEF OpenedAs, SameLines, Others

LEMMA SameMoved ==
    ASSUME Typed, Saved, NEW id \in todo, Move(id)
    PROVE  SameLines(files, files')
<1>1. /\ stage = "move" /\ (files' = files \/ files' = AfterMove(files, id))
    BY DEF Move
<1>2. /\ Sound(files, created) /\ Ids(files) = {f.id : f \in FileSet(files)}
      /\ FileSet(files) \subseteq File
    BY FileSetTyped DEF Typed, Store
<1>3. CASE files' = files
    BY <1>3, SameFewer
<1>4. CASE files' = AfterMove(files, id)
    <2>1. PICK f \in FileSet(files) : f.id = id
        BY <1>1, <1>2 DEF Saved, Moving
    <2>2. f.place # "backup"
        BY <1>1, <2>1 DEF Saved, Moving
    <2>3. FileSet(files') \subseteq FileSet(files) \cup {Moved(f)}
        BY <1>2, <1>4, <2>1, <2>2, MoveFile
    <2>4. Moved(f).id = f.id /\ Moved(f).lines = f.lines
        BY <1>2, FileFields
    <2> QED
        BY <2>3, <2>4 DEF SameLines
<1> QED
    BY <1>1, <1>3, <1>4

\* The first line of a batch goes to the end of a file.
LEMMA HeadAndTail ==
    ASSUME NEW b \in Seq(Line), b # <<>>, NEW c, NEW n, Waiting(b, c, n)
    PROVE  /\ Head(b).no \in Nat /\ Head(b).no <= n
           /\ Waiting(Tail(b), c, n)
           /\ \A j \in DOMAIN Tail(b) : Head(b).no < Tail(b)[j].no
           /\ \A j \in DOMAIN c : Head(b).no < c[j].no
           /\ \A numbers : Below(numbers, b) =>
                /\ Below(numbers, Tail(b))
                /\ \A i \in DOMAIN numbers : numbers[i] < Head(b).no
<1>1. /\ Len(b) \in Nat \ {0} /\ DOMAIN b = 1 .. Len(b) /\ 1 \in DOMAIN b
      /\ Head(b) = b[1] /\ b[1] \in Line
    OBVIOUS
<1>2. /\ Tail(b) \in Seq(Line) /\ DOMAIN Tail(b) = 1 .. Len(b) - 1
      /\ \A j \in DOMAIN Tail(b) : /\ j + 1 \in DOMAIN b /\ Tail(b)[j] = b[j + 1]
                                   /\ 1 < j + 1 /\ j \in Nat
    BY <1>1
<1> DEFINE rest == Tail(b)
<1> HIDE DEF rest
<1>3. Head(b).no \in Nat
    BY <1>1 DEF Line
<1>4. \A i, j \in DOMAIN rest : i < j => i + 1 < j + 1
    BY <1>2 DEF rest
<1>5. Rising(rest)
    BY <1>2, <1>4 DEF rest, Waiting, Rising
<1>6. Waiting(rest, c, n)
    BY <1>2, <1>5 DEF rest, Waiting
<1>7. \A j \in DOMAIN rest : Head(b).no < rest[j].no
    BY <1>1, <1>2 DEF rest, Waiting, Rising
<1>8. Head(b).no <= n /\ \A j \in DOMAIN c : Head(b).no < c[j].no
    BY <1>1 DEF Waiting
<1>9. ASSUME NEW numbers, Below(numbers, b)
      PROVE  Below(numbers, rest) /\ \A i \in DOMAIN numbers : numbers[i] < Head(b).no
    BY <1>1, <1>2, <1>9 DEF rest, Below
<1> QED
    BY <1>3, <1>6, <1>7, <1>8, <1>9 DEF rest

LEMMA PastTail ==
    ASSUME NEW b \in Seq(Line), b # <<>>, NEW c, NEW n, Waiting(b, c, n),
           NEW numbers \in Seq(Nat), Past(numbers, b, c, n)
    PROVE  /\ Past(numbers, Tail(b), c, n)
           /\ Past(Append(numbers, Head(b).no), Tail(b), c, n)
           /\ \A i \in DOMAIN numbers : numbers[i] # Head(b).no
<1> DEFINE all == Append(numbers, Head(b).no)
<1>1. /\ Head(b).no \in Nat /\ Head(b).no <= n
      /\ \A j \in DOMAIN Tail(b) : Head(b).no < Tail(b)[j].no
      /\ \A j \in DOMAIN c : Head(b).no < c[j].no
      /\ Below(numbers, Tail(b))
      /\ \A i \in DOMAIN numbers : numbers[i] < Head(b).no
    BY HeadAndTail DEF Past
<1>2. Past(numbers, Tail(b), c, n)
    BY <1>1 DEF Past
<1>3. /\ DOMAIN all = 1 .. Len(numbers) + 1 /\ DOMAIN numbers = 1 .. Len(numbers)
      /\ \A i \in DOMAIN numbers : i < Len(numbers) + 1 /\ all[i] = numbers[i]
      /\ all[Len(numbers) + 1] = Head(b).no /\ Len(numbers) \in Nat
    OBVIOUS
<1> HIDE DEF all
<1>4. \A i \in DOMAIN all : i \in DOMAIN numbers \/ i = Len(numbers) + 1
    BY <1>3
<1>5. Increasing(all)
    BY <1>1, <1>3, <1>4 DEF Past, Increasing
<1>6. Below(all, Tail(b)) /\ Below(all, c)
    BY <1>1, <1>3, <1>4 DEF Past, Below
<1>7. \A i \in DOMAIN all : all[i] <= n
    BY <1>1, <1>3, <1>4 DEF Past
<1>8. \A i \in DOMAIN numbers : numbers[i] # Head(b).no
    BY <1>1
<1> QED
    BY <1>2, <1>5, <1>6, <1>7, <1>8 DEF Past, all

LEMMA FiledWritten ==
    ASSUME NEW k \in Nat, NEW fs, Sound(fs, k), NEW b \in Seq(Line), b # <<>>,
           NEW c, NEW n, Waiting(b, c, n), Filed(fs, b, c, n), NEW id,
           NEW t, t = AfterWrite(fs, id, Head(b)) \/ t = fs
    PROVE  Filed(t, Tail(b), c, n)
<1>1. /\ FileSet(fs) \subseteq File /\ Ids(fs) = {f.id : f \in FileSet(fs)}
      /\ Head(b) \in Line
    BY FileSetTyped
<1>2. \A f \in FileSet(fs) : f.lines \in Seq(Nat) /\ Past(f.lines, b, c, n)
    BY <1>1 DEF File, Filed
<1>3. \A f \in FileSet(fs) : /\ Past(f.lines, Tail(b), c, n)
                             /\ Past(Append(f.lines, Head(b).no), Tail(b), c, n)
                             /\ \A i \in DOMAIN f.lines : f.lines[i] # Head(b).no
    BY <1>2, PastTail
<1>4. CASE t = fs \/ id \notin Ids(fs)
    <2>1. t = fs
        BY <1>1, <1>4, WriteFile
    <2> QED
        BY <1>3, <2>1 DEF Filed
<1>5. CASE t = AfterWrite(fs, id, Head(b)) /\ id \in Ids(fs)
    <2>1. PICK f \in FileSet(fs) : f.id = id
        BY <1>1, <1>5
    <2> DEFINE g == Written(f, Head(b))
    <2>2. FileSet(t) = Others(fs, id) \cup {g}
        BY <1>1, <1>5, <2>1, WriteFile
    <2>3. g.id = id /\ g.lines = Append(f.lines, Head(b).no)
        BY <1>1, <2>1, WrittenFields
    <2>4. f.lines \in Seq(Nat) /\ Head(b).no \in Nat
        BY <1>1, <1>2, SizesAssumption DEF Line
    <2> HIDE DEF g
    <2>5. \A i \in DOMAIN g.lines : \/ i \in DOMAIN f.lines /\ g.lines[i] = f.lines[i]
                                    \/ g.lines[i] = Head(b).no
        <3> DEFINE s == f.lines
                   x == Head(b).no
        <3> HIDE DEF s, x
        <3>1. s \in Seq(Nat) /\ x \in Nat /\ g.lines = Append(s, x)
            BY <2>3, <2>4 DEF s, x
        <3>2. \A i \in DOMAIN g.lines : (i \in DOMAIN s /\ g.lines[i] = s[i]) \/ g.lines[i] = x
            BY <3>1
        <3> QED
            BY <3>2 DEF s, x
    <2>6. \A h \in FileSet(t) : Past(h.lines, Tail(b), c, n)
        BY <1>3, <2>1, <2>2, <2>3 DEF Others
    <2>7. \A h \in Others(fs, id) :
            \A i \in DOMAIN h.lines, j \in DOMAIN g.lines : h.lines[i] # g.lines[j]
        BY <1>3, <2>1, <2>5 DEF Others, Filed, Disjoint
    <2>8. \A h, j \in Others(fs, id) : h.id # j.id =>
            \A i \in DOMAIN h.lines, m \in DOMAIN j.lines : h.lines[i] # j.lines[m]
        BY DEF Others, Filed, Disjoint
    <2>9. Disjoint(t)
        BY <2>2, <2>3, <2>7, <2>8 DEF Disjoint
    <2> QED
        BY <2>6, <2>9 DEF Filed
<1> QED
    BY <1>4, <1>5

\* Steps that move no line.
LEMMA StillOrdered ==
    ASSUME Ordered, SameLines(files, files'), UNCHANGED <<batch, channel, sent, page>>,
           poll' = poll \/ poll' = "writing" \/ poll # "writing"
    PROVE  Ordered'
<1>1. Filed(files', batch', channel', sent')
    BY FiledSame DEF Ordered
<1>2. Shown(batch, channel, sent)'
    BY NoLines DEF Ordered, Shown, Past
<1> QED
    BY <1>1, <1>2 DEF Ordered

LEMMA LogsOrdered == Typed /\ Ordered /\ Logs => Ordered'
<1> SUFFICES ASSUME Typed, Ordered, Logs PROVE Ordered'
    OBVIOUS
<1>1. files' = files /\ page' = page /\ batch' = batch /\ poll' = poll
    BY DEF Logs, LogStep, Pass, Drop, Send, Count, fileVars, guiVars
<1>2. CASE Pass \/ Drop \/ Count
    <2>1. channel' = channel /\ sent' = sent
        BY <1>2 DEF Pass, Drop, Count
    <2> QED
        BY <1>1, <2>1, SameFewer, StillOrdered
<1>3. CASE Send
    <2>1. PICK size_1 \in Sizes : channel' = Append(channel, [no |-> sent + 1, size |-> size_1])
        BY <1>3 DEF Send
    <2> DEFINE line == [no |-> sent + 1, size |-> size_1]
               c    == channel
    <2>2. /\ sent \in Nat /\ sent' = sent + 1 /\ c \in Seq(Line) /\ batch \in Seq(Line)
          /\ page \in Seq(Nat) /\ line.no = sent + 1
        BY <1>3 DEF Send, Typed, Backlog, QueueTypeOK, GuiTypeOK
    <2>3. channel' = Append(c, line)
        BY <2>1
    <2> HIDE DEF line
    <2>4. /\ DOMAIN channel' = 1 .. Len(c) + 1 /\ DOMAIN c = 1 .. Len(c) /\ Len(c) \in Nat
          /\ \A i \in DOMAIN c : i < Len(c) + 1 /\ channel'[i] = c[i] /\ c[i] \in Line
          /\ channel'[Len(c) + 1] = line
        BY <2>2, <2>3
    <2>5. \A i \in DOMAIN channel' : i \in DOMAIN c \/ i = Len(c) + 1
        BY <2>4
    <2>0. c = channel
        OBVIOUS
    <2>6. \A i \in DOMAIN c : c[i].no \in Nat /\ c[i].no <= sent
        BY <2>4 DEF Line, Ordered, Waiting
    <2> HIDE DEF c
    <2>7. \A i \in DOMAIN batch : batch[i].no \in Nat /\ batch[i].no <= sent
        <3>1. \A i \in DOMAIN batch : batch[i] \in Line
            BY <2>2
        <3> QED
            BY <3>1 DEF Line, Ordered, Waiting
    <2>8. Waiting(batch, channel', sent')
        <3>1. Rising(channel')
            <4> SUFFICES ASSUME NEW i \in DOMAIN channel', NEW j \in DOMAIN channel', i < j
                         PROVE  channel'[i].no < channel'[j].no
                BY DEF Rising
            <4>1. i \in DOMAIN c
                BY <2>4, <2>5
            <4>2. CASE j \in DOMAIN c
                BY <2>4, <2>0, <4>1, <4>2 DEF Ordered, Waiting, Rising
            <4>3. CASE j = Len(c) + 1
                BY <2>2, <2>4, <2>6, <4>1, <4>3
            <4> QED
                BY <2>5, <4>2, <4>3
        <3>2. \A i \in DOMAIN batch, j \in DOMAIN channel' : batch[i].no < channel'[j].no
            <4> SUFFICES ASSUME NEW i \in DOMAIN batch, NEW j \in DOMAIN channel'
                         PROVE  batch[i].no < channel'[j].no
                OBVIOUS
            <4>1. CASE j \in DOMAIN c
                BY <2>4, <2>0, <4>1 DEF Ordered, Waiting
            <4>2. CASE j = Len(c) + 1
                BY <2>2, <2>4, <2>7, <4>2
            <4> QED
                BY <2>5, <4>1, <4>2
        <3>3. /\ \A i \in DOMAIN batch : batch[i].no <= sent'
              /\ \A i \in DOMAIN channel' : channel'[i].no <= sent'
            <4>1. \A i \in DOMAIN batch : batch[i].no <= sent'
                BY <2>2, <2>7
            <4>2. \A i \in DOMAIN channel' : channel'[i].no <= sent'
                BY SMTT(30), <2>2, <2>4, <2>5, <2>6
            <4> QED
                BY <4>1, <4>2
        <3> QED
            BY <3>1, <3>2, <3>3 DEF Ordered, Waiting
    <2>9. ASSUME NEW numbers \in Seq(Nat), NEW b, Past(numbers, b, channel, sent)
          PROVE  Past(numbers, b, channel', sent')
        <3>1. \A i \in DOMAIN numbers : numbers[i] \in Nat /\ numbers[i] <= sent
            BY <2>9 DEF Past
        <3>2. Below(numbers, channel')
            <4> SUFFICES ASSUME NEW i \in DOMAIN numbers, NEW j \in DOMAIN channel'
                         PROVE  numbers[i] < channel'[j].no
                BY DEF Below
            <4>1. CASE j \in DOMAIN c
                BY <2>4, <2>0, <2>9, <4>1 DEF Past, Below
            <4>2. CASE j = Len(c) + 1
                BY <2>2, <2>4, <3>1, <4>2
            <4> QED
                BY <2>5, <4>1, <4>2
        <3>3. \A i \in DOMAIN numbers : numbers[i] <= sent'
            BY <2>2, <3>1
        <3> QED
            BY <2>9, <3>2, <3>3 DEF Past
    <2>10. \A f \in FileSet(files) : f.lines \in Seq(Nat)
        BY FileSetTyped DEF Typed, Store, File
    <2>11. Filed(files, batch, channel', sent')
        BY <2>9, <2>10 DEF Ordered, Filed
    <2>12. Shown(batch, channel, sent)'
        BY <1>1, <2>2, <2>9 DEF Ordered, Shown
    <2> QED
        BY <1>1, <2>8, <2>11, <2>12 DEF Ordered
<1> QED
    BY <1>2, <1>3 DEF Logs, LogStep

LEMMA DrainOrdered ==
    ASSUME Typed, Ordered, Drain, UNCHANGED <<fileVars, guiVars>>
    PROVE  Ordered'
<1>1. /\ files' = files /\ page' = page /\ sent' = sent /\ batch' = channel
      /\ channel' = <<>> /\ poll # "writing" /\ poll' # "writing"
    BY DEF Drain, fileVars, guiVars
<1>2. Waiting(batch', channel', sent')
    <2>1. DOMAIN channel' = {}
        BY <1>1
    <2> QED
        BY <1>1, <2>1 DEF Ordered, Waiting, Rising
<1>3. \A numbers, b : Past(numbers, b, channel, sent) => Past(numbers, batch', channel', sent')
    BY <1>1, NoLines DEF Past
<1>4. Filed(files', batch', channel', sent')
    BY <1>1, <1>3 DEF Ordered, Filed
<1>5. Shown(batch, channel, sent)'
    BY <1>1, <1>3 DEF Ordered, Shown
<1> QED
    BY <1>2, <1>4, <1>5 DEF Ordered

LEMMA EmitOrdered == Typed /\ Ordered /\ Emit => Ordered'
<1> SUFFICES ASSUME Typed, Ordered, Emit PROVE Ordered'
    OBVIOUS
<1>1. /\ files' = files /\ batch' = batch /\ channel' = channel /\ sent' = sent
      /\ poll = "looked" /\ poll' = "writing"
      /\ page' = page \/ page' = page \o Numbers(batch)
    BY DEF Emit, Poll, fileVars
<1>2. CASE page' = page
    BY <1>1, <1>2, SameFewer, StillOrdered
<1>3. CASE page' = page \o Numbers(batch)
    <2> DEFINE p == page
               q == Numbers(batch)
               all == p \o q
    <2>1. batch \in Seq(Line) /\ p \in Seq(Nat)
        BY DEF Typed, Backlog, QueueTypeOK, GuiTypeOK
    <2>2. /\ q \in Seq(Nat) /\ DOMAIN q = DOMAIN batch
          /\ \A i \in DOMAIN batch : q[i] = batch[i].no
        BY <2>1, NumbersTyped
    <2>3. Past(p, batch, channel, sent)
        BY <1>1 DEF Ordered, Shown
    <2>4. Increasing(q)
        BY <2>2 DEF Ordered, Waiting, Rising, Increasing
    <2>5. \A i \in DOMAIN p, j \in DOMAIN q : p[i] < q[j]
        BY <2>2, <2>3 DEF Past, Below
    <2>6. /\ \A j \in DOMAIN q : q[j] <= sent
          /\ Below(q, channel)
        BY <2>2 DEF Ordered, Waiting, Below
    <2> HIDE DEF q, p
    <2>7. /\ DOMAIN all = 1 .. Len(p) + Len(q) /\ DOMAIN p = 1 .. Len(p)
          /\ DOMAIN q = 1 .. Len(q) /\ Len(p) \in Nat /\ Len(q) \in Nat
          /\ \A i \in DOMAIN p : all[i] = p[i]
          /\ \A i \in DOMAIN all \ DOMAIN p : i - Len(p) \in DOMAIN q
                                              /\ all[i] = q[i - Len(p)]
        BY <2>1, <2>2
    <2> HIDE DEF all
    <2>8. Increasing(all)
        <3> SUFFICES ASSUME NEW i \in DOMAIN all, NEW j \in DOMAIN all, i < j
                     PROVE  all[i] < all[j]
            BY DEF Increasing
        <3>1. CASE j \in DOMAIN p
            <4>1. i \in DOMAIN p
                BY <2>7, <3>1
            <4> QED
                BY <2>3, <2>7, <3>1, <4>1 DEF Past, Increasing
        <3>2. CASE i \in DOMAIN p /\ j \notin DOMAIN p
            BY <2>5, <2>7, <3>2
        <3>3. CASE i \notin DOMAIN p
            <4>1. j \notin DOMAIN p /\ i - Len(p) < j - Len(p)
                BY <2>7, <3>3
            <4> QED
                BY <2>4, <2>7, <3>3, <4>1 DEF Increasing
        <3> QED
            BY <3>1, <3>2, <3>3
    <2>9. \A i \in DOMAIN all : all[i] <= sent
        BY <2>3, <2>6, <2>7 DEF Past
    <2>10. Below(all, channel)
        BY <2>3, <2>6, <2>7 DEF Past, Below
    <2>11. page' = all
        BY <1>3 DEF all, p, q
    <2>12. Past(page', <<>>, channel, sent)
        BY <2>8, <2>9, <2>10, <2>11, NoLines DEF Past
    <2> QED
        BY <1>1, <2>12 DEF Ordered, Shown
<1> QED
    BY <1>1, <1>2, <1>3

LEMMA WriteOrdered ==
    ASSUME Typed, Ordered, LineLeft, poll' = "writing", batch' = Tail(batch),
           UNCHANGED <<channel, sent, page>>,
           Filed(files', Tail(batch), channel, sent)
    PROVE  Ordered'
<1>1. batch \in Seq(Line) /\ batch # <<>> /\ poll = "writing"
    BY DEF Typed, Backlog, QueueTypeOK, LineLeft
<1>2. Waiting(Tail(batch), channel, sent)
    BY <1>1, HeadAndTail DEF Ordered
<1>3. Shown(batch, channel, sent)'
    BY <1>1 DEF Ordered, Shown
<1> QED
    BY <1>2, <1>3 DEF Ordered

LEMMA PollsOrdered == Typed /\ Saved /\ Ordered /\ Polls => Ordered'
<1> SUFFICES ASSUME Typed, Ordered, PollStep PROVE Ordered'
    BY DEF Polls
<1>1. /\ created \in Nat /\ Sound(files, created) /\ batch \in Seq(Line)
      /\ Waiting(batch, channel, sent) /\ Filed(files, batch, channel, sent)
    BY DEF Typed, Store, Backlog, QueueTypeOK, Ordered
<1>2. CASE Subtract /\ UNCHANGED <<fileVars, guiVars>>
    <2>1. /\ files' = files /\ UNCHANGED <<batch, channel, sent, page>>
          /\ poll # "writing"
        BY <1>2 DEF Subtract, fileVars, guiVars
    <2> QED
        BY <2>1, SameFewer, StillOrdered
<1>3. CASE ReadLimits \/ ReadNames \/ LookForWriter
    <2>1. /\ files' = files /\ UNCHANGED <<batch, channel, sent, page>>
          /\ poll # "writing"
        BY <1>3 DEF ReadLimits, ReadNames, LookForWriter, Poll, fileVars
    <2> QED
        BY <2>1, SameFewer, StillOrdered
<1>4. CASE Write
    <2>1. /\ LineLeft /\ poll' = "writing" /\ batch' = Tail(batch) /\ batch # <<>>
          /\ UNCHANGED <<channel, sent, page>>
          /\ files' = AfterWrite(files, writer, Head(batch)) \/ files' = files
        BY <1>4 DEF Write, Poll, Remaining, LineLeft
    <2>2. Filed(files', Tail(batch), channel, sent)
        BY <1>1, <2>1, FiledWritten
    <2> QED
        BY <2>1, <2>2, WriteOrdered
<1>5. CASE Rotate
    <2>1. /\ LineLeft /\ poll' = "writing" /\ batch' = Tail(batch) /\ batch # <<>>
          /\ UNCHANGED <<channel, sent, page>>
        BY <1>5 DEF Rotate, Poll, Remaining, LineLeft
    <2>2. PICK kept, opened, new, now :
            /\ Sound(kept, created) /\ Sound(opened, created') /\ created' \in Nat
            /\ Cleaned(files, kept)
            /\ OpenedAs(kept, opened, "gui", named, now, new)
            /\ files' = AfterWrite(opened, new, Head(batch))
        BY <1>5, RotateFiles
    <2>3. SameLines(files, kept) /\ SameLines(kept, opened)
        BY <2>2, SameFewer, SameOpened DEF Cleaned
    <2>4. Filed(kept, batch, channel, sent)
        BY <1>1, <2>3, FiledSame
    <2>5. Filed(opened, batch, channel, sent)
        BY <2>3, <2>4, FiledSame
    <2>6. Filed(files', Tail(batch), channel, sent)
        BY <1>1, <2>1, <2>2, <2>5, FiledWritten
    <2> QED
        BY <2>1, <2>6, WriteOrdered
<1>6. CASE RotateFails \/ Sleep
    <2>1. /\ batch' = <<>> /\ poll = "writing" /\ UNCHANGED <<channel, sent, page>>
          /\ files' = files \/ files' \in AfterCleanup(files, named, seen.num)
        BY <1>6 DEF RotateFails, Sleep, Repeat, Poll, fileVars
    <2>2. SameLines(files, files')
        BY <1>1, <2>1, CleanupFiles, SameFewer DEF Cleaned
    <2>3. Filed(files', batch, channel, sent)
        BY <1>1, <2>2, FiledSame
    <2>4. Filed(files', <<>>, channel, sent)
        BY <2>3, NoLines DEF Filed, Past
    <2>5. Waiting(<<>>, channel, sent)
        <3>1. DOMAIN <<>> = {}
            OBVIOUS
        <3> QED
            BY <1>1, <3>1 DEF Waiting, Rising
    <2>6. Shown(batch, channel, sent)'
        BY <2>1 DEF Ordered, Shown
    <2> QED
        BY <2>1, <2>4, <2>5, <2>6 DEF Ordered
<1> QED
    BY <1>2, <1>3, <1>4, <1>5, <1>6, DrainOrdered, EmitOrdered DEF PollStep

LEMMA RotatesOrdered == Typed /\ Saved /\ Ordered /\ Rotates => Ordered'
<1> SUFFICES ASSUME Typed, Saved, Ordered, CliStep, UNCHANGED <<queueVars, guiVars>>
             PROVE  Ordered'
    BY DEF Rotates
<1>1. UNCHANGED <<batch, channel, sent, page, poll>>
    BY DEF queueVars, guiVars
<1>2. Sound(files, created) /\ created \in Nat
    BY DEF Typed, Store
<1>3. SameLines(files, files')
    <2>1. CASE NoDirectory \/ BeginDelete \/ BeginMove \/ EndMove \/ CreateFails
        BY <2>1, SameFewer
        DEF NoDirectory, BeginDelete, BeginMove, EndMove, CreateFails, fileVars
    <2>2. ASSUME NEW id \in todo, Delete(id)
          PROVE  SameLines(files, files')
        BY <1>2, <2>2, WithoutFiles, SameFewer DEF Delete
    <2>3. ASSUME NEW id \in todo, Move(id)
          PROVE  SameLines(files, files')
        BY <2>3, SameMoved
    <2>4. ASSUME NEW prefix_ \in Prefixes, Create(prefix_)
          PROVE  SameLines(files, files')
        <3>1. PICK now \in Now : files' = AfterOpen(files, "cli", InLogs(prefix_), now)
            BY <2>4 DEF Create
        <3>2. OpenedAs(files, files', "cli", InLogs(prefix_), now,
                       Opened(files, "cli", InLogs(prefix_), now))
            BY <1>2, <3>1, NowTyped, InLogsTyped, OpenFile
        <3> QED
            BY <1>2, <3>2, SameOpened
    <2> QED
        BY <2>1, <2>2, <2>3, <2>4 DEF CliStep
<1> QED
    BY <1>1, <1>3, StillOrdered

LEMMA OrderedNext == Typed /\ Saved /\ Ordered /\ [Next]_vars => Ordered'
<1> SUFFICES ASSUME Typed, Saved, Ordered, [Next]_vars PROVE Ordered'
    OBVIOUS
<1>1. CASE RunGui \/ RunCli \/ UNCHANGED vars
    <2>1. UNCHANGED <<batch, channel, sent, page, poll, files>>
        BY <1>1 DEF RunGui, RunCli, CliStart, vars, queueVars, guiVars, fileVars
    <2> QED
        BY <2>1, SameFewer, StillOrdered
<1>2. CASE End
    <2>1. /\ batch' = <<>> /\ channel' = <<>> /\ page' = <<>> /\ sent' = sent
          /\ files' = files /\ DOMAIN <<>> = {}
        BY <1>2 DEF End, QueueReset, GuiReset, fileVars
    <2>2. Waiting(<<>>, <<>>, sent)
        BY <2>1 DEF Waiting, Rising
    <2>3. Filed(files, <<>>, <<>>, sent)
        BY NoLines DEF Ordered, Filed, Past
    <2> QED
        BY <2>1, <2>2, <2>3, NoLines DEF Ordered, Shown
<1>3. CASE Commands
    <2>1. UNCHANGED <<batch, channel, sent, page, poll>>
        BY <1>3, CommandsQueue
        DEF queueVars, Commands, Start, SetLimits, OpenLog, OpenFails, SetWriter,
            SetNames, Stop
    <2>2. SameLines(files, files')
        <3>1. CASE OpenLog
            <4>1. PICK now \in Now : /\ handle' = Opened(files, "gui", InLogs(config.prefix), now)
                                     /\ files' = AfterOpen(files, "gui", InLogs(config.prefix), now)
                BY <3>1 DEF OpenLog
            <4>2. InLogs(config.prefix) \in Names
                BY <3>1, ConfigsAssumption, InLogsTyped DEF OpenLog, Command, Typed, Session
            <4>3. Sound(files, created) /\ created \in Nat
                BY DEF Typed, Store
            <4>4. OpenedAs(files, files', "gui", InLogs(config.prefix), now, handle')
                BY <4>1, <4>2, <4>3, NowTyped, OpenFile
            <4> QED
                BY <4>3, <4>4, SameOpened
        <3>2. CASE (\E c \in Configs : Start(c)) \/ SetLimits \/ OpenFails \/ SetWriter
                   \/ SetNames \/ Stop
            BY <3>2, SameFewer
            DEF Start, SetLimits, OpenFails, SetWriter, SetNames, Stop, fileVars
        <3> QED
            BY <1>3, <3>1, <3>2 DEF Commands
    <2> QED
        BY <2>1, <2>2, StillOrdered
<1> QED
    BY <1>1, <1>2, <1>3, LogsOrdered, PollsOrdered, RotatesOrdered DEF Next

\* No line is shown or written twice or out of order, whatever happens to the
\* files between two lines, and none is written to two files.
THEOREM LinesInOrder == Spec => []InOrder
<1>1. Init => Ordered
    <2>1. DOMAIN <<>> = {}
        OBVIOUS
    <2> QED
        BY <2>1, NoLines DEF Init, QueueInit, FilesInit, GuiInit, Ordered, Waiting, Rising,
            Filed, FileSet, Disjoint, Shown
<1>2. Spec => []Ordered
    BY <1>1, OrderedNext, TypedInductive, SavedInductive, PTL DEF Spec
<1> QED
    BY <1>2, OrderedInOrder, TypedInductive, PTL

-----------------------------------------------------------------------------
(***************************************************************************)
(* The sizes of the files.  The poll task counts what it has written since *)
(* the file was opened, as far as it knows: a file that was opened n times *)
(* holds at most n - 1 times the largest limit, or line, and what is       *)
(* counted now.                                                            *)
(***************************************************************************)
IsCap(cap) ==
    /\ cap \in ByteLimits \cup Sizes
    /\ \A other \in ByteLimits \cup Sizes : other <= cap

\* A file when w is the writer, h is opened to be the next writer, and the poll
\* task counts s bytes.
Full(f, w, h, s, cap) ==
    /\ f.bytes <= f.opened * cap
    /\ f.id = w => f.bytes <= (f.opened - 1) * cap + s
    /\ f.id = h => f.bytes <= (f.opened - 1) * cap
    /\ f.id = w /\ f.id = h => f.opened >= 2 /\ f.bytes <= (f.opened - 2) * cap + s

\* A file that was opened once.
Once(f, w, h, s) ==
    f.opened = 1 =>
        /\ Len(f.lines) <= 1 \/ \E limit \in ByteLimits : f.bytes <= limit
        /\ f.id = w => f.bytes <= s /\ f.id # h
        /\ f.id = h => f.bytes = 0

Within(f, w, h, s) == Once(f, w, h, s) /\ \A cap : IsCap(cap) => Full(f, w, h, s, cap)

AllWithin(fs, w, h, s) == \A f \in FileSet(fs) : Within(f, w, h, s)

Limited ==
    /\ limits.bytes \in ByteLimits
    /\ seen.bytes \in ByteLimits
    /\ \A cap : IsCap(cap) => size <= cap

Bytes == Limited /\ AllWithin(files, writer, handle, size)

LEMMA CapTyped ==
    /\ ByteLimits \subseteq Nat
    /\ \A cap : IsCap(cap) => cap \in Nat
<1>1. Defaults.bytes \in Nat /\ \A c \in Configs : c.limits.bytes \in Nat
    BY DefaultsAssumption, ConfigsAssumption DEF Limits
<1>2. ByteLimits \subseteq Nat
    BY <1>1 DEF ByteLimits
<1> QED
    BY <1>2, SizesAssumption DEF IsCap

\* The multiples that the bounds are made of.
LEMMA Multiples ==
    ASSUME NEW o \in Nat \ {0}, NEW cap \in Nat
    PROVE  /\ o * cap \in Nat /\ (o - 1) * cap \in Nat
           /\ o * cap = (o - 1) * cap + cap
           /\ (o + 1) * cap = o * cap + cap
           /\ o + 1 - 1 = o /\ (o + 1) - 2 = o - 1
           /\ o >= 2 => (o - 2) * cap \in Nat /\ (o - 1) * cap = (o - 2) * cap + cap
<1>1. o * cap \in Nat /\ (o - 1) * cap \in Nat
    OBVIOUS
<1>2. o * cap = (o - 1) * cap + cap /\ (o + 1) * cap = o * cap + cap
    OBVIOUS
<1>3. o >= 2 => (o - 2) * cap \in Nat /\ (o - 1) * cap = (o - 2) * cap + cap
    OBVIOUS
<1> QED
    BY <1>1, <1>2, <1>3

LEMMA BytesBounded == Typed /\ Bytes => FilesBounded
<1> SUFFICES ASSUME Typed, Bytes PROVE FilesBounded
    OBVIOUS
<1> SUFFICES ASSUME NEW i \in DOMAIN files
             PROVE  LET f == files[i]
                    IN  /\ f.opened = 1 =>
                            Len(f.lines) <= 1 \/ \E limit \in ByteLimits : f.bytes <= limit
                        /\ \A cap \in ByteLimits \cup Sizes :
                            (\A other \in ByteLimits \cup Sizes : other <= cap) =>
                                f.bytes <= f.opened * cap
    BY DEF FilesBounded
<1> DEFINE f == files[i]
<1>1. Within(f, writer, handle, size)
    BY DEF Bytes, AllWithin, FileSet
<1> HIDE DEF f
<1>2. f.opened = 1 => Len(f.lines) <= 1 \/ \E limit \in ByteLimits : f.bytes <= limit
    BY <1>1 DEF Within, Once
<1>3. \A cap : IsCap(cap) => f.bytes <= f.opened * cap
    BY <1>1 DEF Within, Full
<1> QED
    BY <1>2, <1>3 DEF f, IsCap

\* What is true of a file that is neither written nor opened now.
LEMMA WithinOther ==
    ASSUME NEW f, NEW w, NEW h, NEW s, Within(f, w, h, s), NEW v, NEW g, NEW r,
           f.id = v => v = w /\ r = s, f.id = g => g = h
    PROVE  Within(f, v, g, r)
    BY DEF Within, Once, Full

LEMMA WithinReopened ==
    ASSUME NEW f \in File, NEW w, NEW h, NEW s \in Nat, Within(f, w, h, s)
    PROVE  /\ Within(Reopened(f), w, h, s)
           /\ h # f.id => Within(Reopened(f), w, f.id, s)
<1> DEFINE g == Reopened(f)
           o == f.opened
<1>1. /\ g.id = f.id /\ g.bytes = f.bytes /\ g.opened = o + 1
      /\ o \in Nat \ {0} /\ f.bytes \in Nat
    BY FileFields DEF File
<1> HIDE DEF g, o
<1>2. g.opened # 1
    BY <1>1
<1>3. ASSUME NEW cap, IsCap(cap)
      PROVE  Full(g, w, h, s, cap) /\ (h # f.id => Full(g, w, f.id, s, cap))
    <2>1. cap \in Nat
        BY <1>3, CapTyped
    <2>2. Full(f, w, h, s, cap)
        BY <1>3 DEF Within
    <2> DEFINE p == o * cap
               q == (o - 1) * cap
    <2>3. /\ p \in Nat /\ q \in Nat /\ p = q + cap /\ (o + 1) * cap = p + cap
          /\ o + 1 - 1 = o /\ (o + 1) - 2 = o - 1
          /\ o >= 2 => (o - 2) * cap \in Nat /\ q = (o - 2) * cap + cap
        BY <1>1, <2>1, Multiples
    <2>4. /\ f.bytes <= p
          /\ f.id = w => f.bytes <= q + s
          /\ f.id = h => f.bytes <= q
        BY <2>2 DEF Full, o
    <2> HIDE DEF p, q
    <2>5. g.bytes <= p + cap /\ (g.id = w => g.bytes <= p + s) /\ g.bytes <= p
        BY <1>1, <2>1, <2>3, <2>4
    <2>6. g.opened * cap = p + cap /\ (g.opened - 1) * cap = p /\ (g.opened - 2) * cap = q
          /\ g.opened >= 2
        BY <1>1, <2>3 DEF p, q
    <2>7. g.id = w /\ g.id = h => g.bytes <= q + s
        BY <1>1, <2>4
    <2>8. g.id = w => g.bytes <= q + s
        BY <1>1, <2>4
    <2> QED
        BY <1>1, <2>5, <2>6, <2>7, <2>8 DEF Full
<1> QED
    BY <1>2, <1>3 DEF Within, Once, g

\* A file that was opened just now.
Fresh(f, h) ==
    /\ f.opened = 1 => f.lines = <<>> /\ f.bytes = 0 /\ f.id # h
    /\ \A cap : IsCap(cap) =>
        /\ f.bytes <= (f.opened - 1) * cap
        /\ f.id = h => f.opened >= 2 /\ f.bytes <= (f.opened - 2) * cap

LEMMA ReopenedFresh ==
    ASSUME NEW f \in File, NEW w, NEW h, NEW s, Within(f, w, h, s)
    PROVE  Fresh(Reopened(f), h)
<1>1. /\ Reopened(f).id = f.id /\ Reopened(f).bytes = f.bytes
      /\ Reopened(f).opened = f.opened + 1
      /\ f.opened \in Nat \ {0}
    BY FileFields DEF File
<1>2. Reopened(f).opened - 1 = f.opened /\ Reopened(f).opened - 2 = f.opened - 1
      /\ Reopened(f).opened # 1 /\ Reopened(f).opened >= 2
    BY <1>1
<1> QED
    BY <1>1, <1>2 DEF Fresh, Within, Full

LEMMA NewWithin ==
    ASSUME NEW id, NEW of, NEW name_, NEW now, NEW w, w # id, NEW h, NEW s
    PROVE  /\ Within(NewFile(id, of, name_, now), w, h, s)
           /\ h # id => Fresh(NewFile(id, of, name_, now), h)
<1> DEFINE g == NewFile(id, of, name_, now)
<1>1. g.id = id /\ g.opened = 1 /\ g.bytes = 0 /\ g.lines = <<>>
    BY DEF NewFile
<1> HIDE DEF g
<1>2. Len(g.lines) <= 1
    BY <1>1
<1>3. Once(g, w, h, s)
    BY <1>1, <1>2 DEF Once
<1>4. ASSUME NEW cap, IsCap(cap)
      PROVE  Full(g, w, h, s, cap) /\ g.bytes <= (g.opened - 1) * cap
    <2>1. cap \in Nat
        BY <1>4, CapTyped
    <2>2. g.opened * cap = cap /\ (g.opened - 1) * cap = 0
        BY <1>1, <2>1
    <2> QED
        BY <1>1, <2>1, <2>2 DEF Full
<1> QED
    BY <1>1, <1>3, <1>4 DEF Within, Fresh, g

\* A rotation writes the line that has caused it to a file it has opened.
LEMMA FreshWritten ==
    ASSUME NEW f \in File, NEW h, Fresh(f, h), NEW line \in Line
    PROVE  Within(Written(f, line), f.id, h, line.size)
<1> DEFINE g == Written(f, line)
           o == f.opened
<1>1. /\ g.id = f.id /\ g.opened = o /\ g.bytes = f.bytes + line.size
      /\ g.lines = Append(f.lines, line.no)
      /\ o \in Nat \ {0} /\ f.bytes \in Nat /\ line.size \in Sizes /\ line.size \in Nat
    BY WrittenFields, SizesAssumption DEF File, Line
<1> HIDE DEF g, o
<1>2. f.lines = <<>> => Len(g.lines) <= 1
    BY <1>1
<1>3. Once(g, f.id, h, line.size)
    BY <1>1, <1>2 DEF Fresh, Once, o
<1>4. ASSUME NEW cap, IsCap(cap)
      PROVE  Full(g, f.id, h, line.size, cap)
    <2>1. cap \in Nat /\ line.size <= cap
        BY <1>1, <1>4, CapTyped DEF IsCap
    <2> DEFINE q == (o - 1) * cap
    <2>2. /\ q \in Nat /\ o * cap = q + cap
          /\ o >= 2 => (o - 2) * cap \in Nat /\ q = (o - 2) * cap + cap
        BY <1>1, <2>1, Multiples
    <2>3. /\ f.bytes <= q
          /\ f.id = h => o >= 2 /\ f.bytes <= (o - 2) * cap
        BY <1>4 DEF Fresh, o
    <2> HIDE DEF q
    <2>4. g.bytes <= q + line.size /\ g.bytes <= o * cap
        BY <1>1, <2>1, <2>2, <2>3
    <2>5. f.id = h => g.bytes <= (o - 2) * cap + line.size /\ g.bytes <= q
        BY <1>1, <2>1, <2>2, <2>3
    <2> QED
        BY <1>1, <2>3, <2>4, <2>5 DEF Full, q
<1> QED
    BY <1>3, <1>4 DEF Within, g

\* A line is written within the limit that the poll task has read.
LEMMA WriterWritten ==
    ASSUME NEW f \in File, NEW h, NEW s \in Nat, NEW line \in Line,
           Within(f, f.id, h, s), NEW limit \in ByteLimits, s + line.size <= limit
    PROVE  Within(Written(f, line), f.id, h, s + line.size)
<1> DEFINE g == Written(f, line)
           o == f.opened
           r == s + line.size
<1>1. /\ g.id = f.id /\ g.opened = o /\ g.bytes = f.bytes + line.size
      /\ o \in Nat \ {0} /\ f.bytes \in Nat /\ line.size \in Nat
      /\ limit \in Nat /\ r \in Nat
    <2>1. line.size \in Nat /\ limit \in Nat
        BY SizesAssumption, CapTyped DEF Line
    <2>2. o \in Nat \ {0} /\ f.bytes \in Nat
        BY DEF File
    <2>3. g.id = f.id /\ g.opened = o /\ g.bytes = f.bytes + line.size
        BY WrittenFields
    <2> QED
        BY <2>1, <2>2, <2>3
<1> HIDE DEF g, o
<1>2. Once(g, f.id, h, r)
    <2>1. o = 1 => f.bytes <= s /\ f.id # h
        BY DEF Within, Once, o
    <2>2. o = 1 => g.bytes <= r /\ g.bytes <= limit
        BY <1>1, <2>1
    <2> QED
        BY <1>1, <2>1, <2>2 DEF Once
<1>3. ASSUME NEW cap, IsCap(cap)
      PROVE  Full(g, f.id, h, r, cap)
    <2>1. cap \in Nat /\ limit <= cap /\ r <= cap
        BY <1>1, <1>3, CapTyped DEF IsCap
    <2> DEFINE q == (o - 1) * cap
    <2>2. /\ q \in Nat /\ o * cap = q + cap
          /\ o >= 2 => (o - 2) * cap \in Nat /\ q = (o - 2) * cap + cap
        BY <1>1, <2>1, Multiples
    <2>3. /\ f.bytes <= q + s
          /\ f.id = h => o >= 2 /\ f.bytes <= (o - 2) * cap + s
        BY <1>3 DEF Within, Full, o
    <2> HIDE DEF q
    <2>4. g.bytes <= q + r /\ g.bytes <= o * cap
        BY <1>1, <2>1, <2>2, <2>3
    <2>5. f.id = h => g.bytes <= (o - 2) * cap + r /\ g.bytes <= q
        BY <1>1, <2>1, <2>2, <2>3
    <2> QED
        BY <1>1, <2>3, <2>4, <2>5 DEF Full, q
<1> QED
    BY <1>2, <1>3 DEF Within, g

LEMMA FewerWithin ==
    ASSUME NEW fs, NEW t, FileSet(t) \subseteq FileSet(fs), NEW w, NEW h, NEW s,
           AllWithin(fs, w, h, s)
    PROVE  AllWithin(t, w, h, s)
    BY DEF AllWithin

LEMMA OpenedWithin ==
    ASSUME created \in Nat, NEW fs, Sound(fs, created), NEW w \in 1 .. created \cup {None},
           NEW h \in 1 .. created \cup {None}, NEW s \in Nat, AllWithin(fs, w, h, s),
           NEW t, NEW of, NEW name_, NEW now, NEW id, OpenedAs(fs, t, of, name_, now, id)
    PROVE  /\ AllWithin(t, w, h, s)
           /\ h = None => AllWithin(t, w, id, s)
           /\ \E f \in FileSet(t) : f.id = id /\ Fresh(f, h)
<1>1. FileSet(fs) \subseteq File /\ \A f \in FileSet(fs) : f.id # None
    <2>1. FileSet(fs) \subseteq File
        BY FileSetTyped
    <2> QED
        BY <2>1, NoneAssumption DEF File
<1>2. \A f \in FileSet(fs) : /\ Within(f, w, h, s)
                             /\ f.id # id /\ h = None => Within(f, w, id, s)
    <2> SUFFICES ASSUME NEW f \in FileSet(fs)
                 PROVE  /\ Within(f, w, h, s)
                        /\ f.id # id /\ h = None => Within(f, w, id, s)
        OBVIOUS
    <2>1. Within(f, w, h, s)
        BY DEF AllWithin
    <2> QED
        BY <2>1, WithinOther
<1>3. CASE \E f \in FileSet(fs) : /\ HasName(f, of, name_, now) /\ f.id = id /\ id <= created
                                  /\ FileSet(t) = Others(fs, id) \cup {Reopened(f)}
    <2>1. PICK f \in FileSet(fs) : f.id = id /\ FileSet(t) = Others(fs, id) \cup {Reopened(f)}
        BY <1>3
    <2>2. Within(Reopened(f), w, h, s) /\ (h # f.id => Within(Reopened(f), w, f.id, s))
        BY <1>1, <1>2, WithinReopened
    <2>3. Reopened(f).id = f.id /\ Fresh(Reopened(f), h)
        BY <1>1, <1>2, ReopenedFresh, FileFields
    <2> QED
        BY <1>1, <1>2, <2>1, <2>2, <2>3 DEF AllWithin, Others
<1>4. CASE /\ id = created + 1
           /\ FileSet(t) = FileSet(fs) \cup {NewFile(id, of, name_, now)}
    <2>1. w # id /\ h # id
        BY <1>4, NoneAssumption
    <2>2. \A g : Within(NewFile(id, of, name_, now), w, g, s)
        BY <2>1, NewWithin
    <2>3. Fresh(NewFile(id, of, name_, now), h)
        BY <2>1, NewWithin
    <2>4. NewFile(id, of, name_, now).id = id
        BY DEF NewFile
    <2>5. \A f \in FileSet(fs) : f.id # id
        <3>1. \A f \in FileSet(fs) : f.id <= created /\ f.id \in Nat
            BY <1>1, FileSetTyped DEF File
        <3> QED
            BY <1>4, <3>1
    <2> QED
        BY <1>2, <1>4, <2>2, <2>3, <2>4, <2>5 DEF AllWithin
<1> QED
    BY <1>3, <1>4 DEF OpenedAs

\* The variables of the session, of the types that the lemmas ask for.
LEMMA BytesTyped ==
    ASSUME Typed
    PROVE  /\ created \in Nat /\ Sound(files, created) /\ size \in Nat
           /\ writer \in 1 .. created \cup {None} /\ handle \in 1 .. created \cup {None}
           /\ FileSet(files) \subseteq File
           /\ \A f \in FileSet(files) : f.id # None
<1>1. FileSet(files) \subseteq File
    BY FileSetTyped DEF Typed, Store
<1> QED
    BY <1>1, NoneAssumption DEF Typed, Store, GuiTypeOK, File

LEMMA OpenLogBytes == Typed /\ Bytes /\ OpenLog => Bytes'
<1> SUFFICES ASSUME Typed, Bytes, OpenLog PROVE Bytes'
    OBVIOUS
<1>1. PICK now \in Now : /\ handle' = Opened(files, "gui", InLogs(config.prefix), now)
                         /\ files' = AfterOpen(files, "gui", InLogs(config.prefix), now)
    BY DEF OpenLog
<1>2. InLogs(config.prefix) \in Names /\ handle = None
    BY ConfigsAssumption, InLogsTyped DEF OpenLog, Command, Typed, Session
<1>3. OpenedAs(files, files', "gui", InLogs(config.prefix), now, handle')
    BY <1>1, <1>2, BytesTyped, NowTyped, OpenFile
<1>4. AllWithin(files', writer, handle', size)
    BY <1>2, <1>3, BytesTyped, OpenedWithin DEF Bytes
<1> QED
    BY <1>4 DEF OpenLog, queueVars, Bytes, Limited

LEMMA CommandsBytes == Typed /\ Bytes /\ Commands => Bytes'
<1> SUFFICES ASSUME Typed, Bytes, Commands PROVE Bytes'
    OBVIOUS
<1>1. poll' = poll
    BY CommandsQueue DEF queueVars
<1>2. CASE (\E c \in Configs : Start(c)) \/ Stop
    <2>1. /\ files' = files /\ writer' = None /\ UNCHANGED <<handle, size, limits, seen>>
        BY <1>2 DEF Start, Stop, fileVars
    <2>2. AllWithin(files', writer', handle', size')
        BY <2>1, BytesTyped, WithinOther DEF Bytes, AllWithin
    <2> QED
        BY <1>1, <2>1, <2>2 DEF Bytes, Limited
<1>3. CASE SetLimits
    <2>1. limits'.bytes \in {limits.bytes, config.limits.bytes} /\ config \in Configs
        BY <1>3 DEF SetLimits, Command, Typed, Session, GuiTypeOK, Limits
    <2>2. limits'.bytes \in ByteLimits
        BY <2>1 DEF Bytes, Limited, ByteLimits
    <2> QED
        BY <1>1, <1>3, <2>2 DEF SetLimits, fileVars, Bytes, Limited
<1>4. CASE OpenFails \/ SetNames
    BY <1>1, <1>4 DEF OpenFails, SetNames, fileVars, Bytes, Limited
<1>5. CASE SetWriter
    <2>1. /\ files' = files /\ writer' = handle /\ handle' = None
          /\ UNCHANGED <<size, limits, seen>>
        BY <1>5 DEF SetWriter, fileVars
    <2>2. ASSUME NEW f \in FileSet(files)
          PROVE  Within(f, handle, None, size)
        <3>1. Within(f, writer, handle, size) /\ f.id # None /\ f \in File /\ size \in Nat
            BY BytesTyped DEF Bytes, AllWithin
        <3>2. Once(f, handle, None, size)
            <4>1. f.bytes = 0 => f.bytes <= size
                BY <3>1
            <4> QED
                BY <3>1, <4>1 DEF Within, Once
        <3>3. ASSUME NEW cap, IsCap(cap)
              PROVE  Full(f, handle, None, size, cap)
            <4>1. cap \in Nat /\ Full(f, writer, handle, size, cap)
                BY <3>1, <3>3, CapTyped DEF Within
            <4> DEFINE q == (f.opened - 1) * cap
            <4>2. q \in Nat /\ f.bytes \in Nat
                BY <3>1, <4>1, Multiples DEF File
            <4>3. f.id = handle => f.bytes <= q
                BY <4>1 DEF Full
            <4> HIDE DEF q
            <4>4. f.id = handle => f.bytes <= q + size
                BY <3>1, <4>2, <4>3
            <4> QED
                BY <3>1, <4>1, <4>4 DEF Full, q
        <3> QED
            BY <3>2, <3>3 DEF Within
    <2>3. AllWithin(files', writer', handle', size')
        BY <2>1, <2>2 DEF AllWithin
    <2> QED
        BY <1>1, <2>1, <2>3 DEF Bytes, Limited
<1> QED
    BY <1>2, <1>3, <1>4, <1>5, OpenLogBytes DEF Commands

LEMMA WriteBytes == Typed /\ Bytes /\ Write => Bytes'
<1> SUFFICES ASSUME Typed, Bytes, Write PROVE Bytes'
    OBVIOUS
<1> DEFINE line == Head(batch)
<1>1. line \in Line /\ line.size \in Nat /\ seen.bytes \in ByteLimits
      /\ size + line.size <= seen.bytes
    <2>1. LineLeft /\ ~ (size + line.size > seen.bytes)
        BY DEF Write, NeedRotate
    <2>2. line \in Line /\ line.size \in Nat /\ size \in Nat
        BY <2>1, HeadOfBatch
    <2>3. seen.bytes \in ByteLimits /\ seen.bytes \in Nat
        BY <2>1, CapTyped DEF LineLeft, Bytes, Limited
    <2> QED
        BY <2>1, <2>2, <2>3
<1>2. poll = "writing" /\ poll' = "writing" /\ UNCHANGED <<writer, handle, limits, seen>>
    BY DEF Write, Poll
<1> HIDE DEF line
<1>3. CASE writer = None
    <2>1. files' = files /\ size' = size
        BY <1>3 DEF Write
    <2> QED
        BY <1>2, <2>1 DEF Bytes, Limited
<1>4. CASE writer # None
    <2>1. files' = AfterWrite(files, writer, line) /\ size' = size + line.size
        BY <1>4 DEF Write, line
    <2>2. \A f \in FileSet(files) : f.id # writer => Within(f, writer, handle, size')
        BY WithinOther DEF Bytes, AllWithin
    <2>3. AllWithin(files', writer, handle, size')
        <3>1. CASE writer \notin Ids(files)
            <4>1. files' = files /\ \A f \in FileSet(files) : f.id # writer
                BY <1>1, <2>1, <3>1, BytesTyped, WriteFile, FileSetTyped
            <4> QED
                BY <2>2, <4>1 DEF AllWithin
        <3>2. CASE writer \in Ids(files)
            <4>1. PICK f \in FileSet(files) : f.id = writer
                BY <3>2, BytesTyped, FileSetTyped
            <4>2. FileSet(files') = Others(files, writer) \cup {Written(f, line)}
                BY <1>1, <2>1, <4>1, BytesTyped, WriteFile
            <4>3. Within(Written(f, line), writer, handle, size + line.size)
                <5>1. Within(f, f.id, handle, size) /\ f \in File /\ size \in Nat
                    BY <4>1, BytesTyped DEF Bytes, AllWithin
                <5> QED
                    BY <1>1, <4>1, <5>1, WriterWritten
            <4> QED
                BY <2>1, <2>2, <4>2, <4>3 DEF AllWithin, Others
        <3> QED
            BY <3>1, <3>2
    <2>4. \A cap : IsCap(cap) => size' <= cap
        <3> SUFFICES ASSUME NEW cap, IsCap(cap) PROVE size' <= cap
            OBVIOUS
        <3>1. seen.bytes <= cap /\ cap \in Nat /\ seen.bytes \in Nat /\ size \in Nat
            BY <1>1, CapTyped, BytesTyped DEF IsCap
        <3> QED
            BY <1>1, <2>1, <3>1
    <2> QED
        BY <1>2, <2>3, <2>4 DEF Bytes, Limited
<1> QED
    BY <1>3, <1>4

LEMMA RotateBytes == Typed /\ Bytes /\ Rotate => Bytes'
<1> SUFFICES ASSUME Typed, Bytes, Rotate PROVE Bytes'
    OBVIOUS
<1>1. PICK kept, opened, new, now :
        /\ Sound(kept, created) /\ Sound(opened, created')
        /\ Cleaned(files, kept)
        /\ writer' = new
        /\ OpenedAs(kept, opened, "gui", named, now, new)
        /\ \A f \in FileSet(opened) : f.id = new =>
            FileSet(files') = Others(opened, new) \cup {Written(f, Head(batch))}
    BY RotateFiles
<1> DEFINE line == Head(batch)
<1>2. line \in Line /\ line.size \in Sizes /\ size' = line.size /\ poll = "writing"
      /\ UNCHANGED <<handle, limits, seen>>
    BY HeadOfBatch DEF Rotate, LineLeft
<1> HIDE DEF line
<1>3. AllWithin(kept, writer, handle, size)
    BY <1>1, FewerWithin DEF Bytes, Cleaned
<1>4. /\ AllWithin(opened, writer, handle, size)
      /\ \E f \in FileSet(opened) : f.id = new /\ Fresh(f, handle)
    <2>1. /\ created \in Nat /\ Sound(kept, created) /\ size \in Nat
          /\ writer \in 1 .. created \cup {None} /\ handle \in 1 .. created \cup {None}
        BY <1>1, BytesTyped
    <2>2. OpenedAs(kept, opened, "gui", named, now, new)
        BY <1>1
    <2> QED
        BY <1>3, <2>1, <2>2, OpenedWithin
<1>5. PICK f \in FileSet(opened) : f.id = new /\ Fresh(f, handle)
    BY <1>4
<1>6. f \in File
    BY <1>1, FileSetTyped
<1>7. Within(Written(f, line), new, handle, line.size)
    BY <1>2, <1>5, <1>6, FreshWritten
<1>8. \A g \in Others(opened, new) : Within(g, new, handle, line.size)
    BY <1>4, WithinOther DEF AllWithin, Others
<1>9. AllWithin(files', writer', handle', size')
    BY <1>1, <1>2, <1>5, <1>7, <1>8 DEF AllWithin, line
<1>10. \A cap : IsCap(cap) => size' <= cap
    BY <1>2 DEF IsCap
<1> QED
    BY <1>2, <1>9, <1>10 DEF Bytes, Limited

LEMMA PollsBytes == Typed /\ Bytes /\ Polls => Bytes'
<1> SUFFICES ASSUME Typed, Bytes, PollStep PROVE Bytes'
    BY DEF Polls
<1>1. CASE (Drain \/ Subtract) /\ UNCHANGED <<fileVars, guiVars>>
    BY <1>1 DEF fileVars, guiVars, Bytes, Limited
<1>2. CASE ReadNames \/ Emit \/ Sleep
    <2>1. /\ UNCHANGED <<files, writer, handle, size, limits>>
          /\ seen' = seen \/ seen' = Defaults
        BY <1>2 DEF ReadNames, Emit, Sleep, Repeat, fileVars
    <2>2. seen'.bytes \in ByteLimits
        BY <2>1 DEF Bytes, Limited, ByteLimits
    <2> QED
        BY <2>1, <2>2 DEF Bytes, Limited
<1>3. CASE ReadLimits
    <2>1. /\ UNCHANGED <<files, writer, handle, size, limits>>
          /\ seen'.bytes \in {seen.bytes, limits.bytes}
        BY <1>3 DEF ReadLimits, fileVars, Typed, GuiTypeOK, Limits
    <2> QED
        BY <2>1 DEF Bytes, Limited
<1>5. CASE LookForWriter
    <2>1. /\ files' = files /\ size' = (IF writer = None THEN 0 ELSE size)
          /\ UNCHANGED <<writer, handle, limits, seen>>
        BY <1>5 DEF LookForWriter, fileVars
    <2>2. AllWithin(files', writer', handle', size')
        BY <2>1, BytesTyped, WithinOther DEF Bytes, AllWithin
    <2>3. \A cap : IsCap(cap) => size' <= cap
        BY <2>1, CapTyped DEF Bytes, Limited
    <2> QED
        BY <2>1, <2>2, <2>3 DEF Bytes, Limited
<1>4. CASE RotateFails
    <2>1. /\ FileSet(files') \subseteq FileSet(files) /\ seen' = Defaults
          /\ UNCHANGED <<writer, handle, limits, size>>
        BY <1>4, BytesTyped, CleanupFiles DEF RotateFails, Repeat, Cleaned
    <2>2. AllWithin(files', writer', handle', size')
        BY <2>1, FewerWithin DEF Bytes
    <2> QED
        BY <2>1, <2>2 DEF Bytes, Limited, ByteLimits
<1> QED
    BY <1>1, <1>2, <1>3, <1>4, <1>5, WriteBytes, RotateBytes DEF PollStep

LEMMA RotatesBytes == Typed /\ Saved /\ Bytes /\ Rotates => Bytes'
<1> SUFFICES ASSUME Typed, Saved, Bytes, CliStep, UNCHANGED <<queueVars, guiVars>>
             PROVE  Bytes'
    BY DEF Rotates
<1>1. UNCHANGED <<poll, writer, handle, size, limits, seen>>
    BY DEF queueVars, guiVars
<1>2. AllWithin(files', writer, handle, size)
    <2>1. CASE NoDirectory \/ BeginDelete \/ BeginMove \/ EndMove \/ CreateFails
        BY <2>1 DEF NoDirectory, BeginDelete, BeginMove, EndMove, CreateFails, fileVars, Bytes
    <2>2. ASSUME NEW id \in todo, Delete(id)
          PROVE  AllWithin(files', writer, handle, size)
        BY <2>2, BytesTyped, WithoutFiles, FewerWithin DEF Delete, Bytes
    <2>3. ASSUME NEW id \in todo, Move(id), files' # files
          PROVE  AllWithin(files', writer, handle, size)
        <3>1. stage = "move" /\ files' = AfterMove(files, id)
            BY <2>3 DEF Move
        <3>2. PICK f \in FileSet(files) : f.id = id
            BY <2>3, <3>1, BytesTyped, FileSetTyped DEF Saved, Moving
        <3>3. f.place # "backup"
            BY <3>1, <3>2 DEF Saved, Moving
        <3>4. FileSet(files') \subseteq FileSet(files) \cup {Moved(f)}
            BY <3>1, <3>2, <3>3, BytesTyped, MoveFile
        <3>5. /\ Moved(f).id = f.id /\ Moved(f).bytes = f.bytes /\ Moved(f).lines = f.lines
              /\ Moved(f).opened = f.opened
            BY BytesTyped, FileFields
        <3>6. Within(Moved(f), writer, handle, size)
            BY <3>5 DEF Bytes, AllWithin, Within, Once, Full
        <3> QED
            BY <3>4, <3>6 DEF Bytes, AllWithin
    <2>4. ASSUME NEW prefix_ \in Prefixes, Create(prefix_)
          PROVE  AllWithin(files', writer, handle, size)
        <3>1. PICK now \in Now : files' = AfterOpen(files, "cli", InLogs(prefix_), now)
            BY <2>4 DEF Create
        <3>2. OpenedAs(files, files', "cli", InLogs(prefix_), now,
                       Opened(files, "cli", InLogs(prefix_), now))
            BY <3>1, BytesTyped, NowTyped, InLogsTyped, OpenFile
        <3> QED
            BY <3>2, BytesTyped, OpenedWithin DEF Bytes
    <2>5. files' = files => AllWithin(files', writer, handle, size)
        BY DEF Bytes
    <2> QED
        BY <2>1, <2>2, <2>3, <2>4, <2>5 DEF CliStep
<1> QED
    BY <1>1, <1>2 DEF Bytes, Limited

LEMMA BytesNext == Typed /\ Saved /\ Bytes /\ [Next]_vars => Bytes'
<1> SUFFICES ASSUME Typed, Saved, Bytes, [Next]_vars PROVE Bytes'
    OBVIOUS
<1>1. CASE RunGui \/ RunCli \/ UNCHANGED vars
    BY <1>1 DEF RunGui, RunCli, CliStart, vars, queueVars, guiVars, fileVars, Bytes, Limited
<1>2. CASE Logs
    BY <1>2 DEF Logs, LogStep, Pass, Drop, Send, Count, guiVars, fileVars, Bytes, Limited
<1>3. CASE End
    <2>1. /\ files' = files /\ poll' = "asleep" /\ writer' = None /\ handle' = None
          /\ size' = 0 /\ limits' = Defaults /\ seen' = Defaults
        BY <1>3 DEF End, QueueReset, GuiReset, fileVars
    <2>2. AllWithin(files', writer', handle', size')
        BY <2>1, BytesTyped, WithinOther DEF Bytes, AllWithin
    <2> QED
        BY <2>1, <2>2, CapTyped DEF Bytes, Limited, ByteLimits
<1> QED
    BY <1>1, <1>2, <1>3, CommandsBytes, PollsBytes, RotatesBytes DEF Next

\* How long a file can get, for all sizes and limits: commands that are in the
\* middle of changing limit, writer and names do not add to it.
THEOREM SizesBounded == Spec => []FilesBounded
<1>1. Init => Bytes
    BY CapTyped DEF Init, QueueInit, FilesInit, GuiInit, Bytes, Limited, ByteLimits,
                    AllWithin, FileSet
<1>2. Spec => []Bytes
    BY <1>1, BytesNext, TypedInductive, SavedInductive, PTL DEF Spec
<1> QED
    BY <1>2, BytesBounded, TypedInductive, PTL

-----------------------------------------------------------------------------
(***************************************************************************)
(* What a rotation removes.                                                *)
(***************************************************************************)
\* The files that are too many are matching files that are followed by num - 1
\* matching files which are not too many.
LEMMA ExcessOldest ==
    ASSUME NEW n, Sound(files, n), NEW name_, NEW num \in Nat \ {0},
           NEW i \in DOMAIN files, files[i].id \in Excess(files, name_, num)
    PROVE  /\ StartsWith(files[i].prefix, name_.prefix)
           /\ \E later \in SUBSET {j \in DOMAIN files : j > i} :
                /\ Cardinality(later) = num - 1
                /\ \A j \in later : /\ StartsWith(files[j].prefix, name_.prefix)
                                    /\ files[j].id \notin Excess(files, name_, num)
<1> DEFINE all == Matching(files, name_)
           c   == Cardinality(all)
           m   == c + 1 - num
           len == Len(files)
<1>1. /\ len \in Nat /\ DOMAIN files = 1 .. len
      /\ \A j, k \in DOMAIN files : files[j].id = files[k].id => j = k
    BY DEF Sound
<1>2. /\ all \in SUBSET (1 .. len)
      /\ \A j \in all : j \in DOMAIN files /\ StartsWith(files[j].prefix, name_.prefix)
    BY <1>1 DEF Matching
<1>3. Excess(files, name_, num) = {files[Nth(all, k)].id : k \in 1 .. m}
    BY DEF Excess
<1> HIDE DEF all, len
<1>4. IsFiniteSet(all) /\ c \in Nat
    BY <1>1, <1>2, PlacesFinite
<1>5. /\ \A k \in 1 .. c : Nth(all, k) \in all /\ Rank(all, Nth(all, k)) = k
      /\ \A j, k \in 1 .. c : j < k <=> Nth(all, j) < Nth(all, k)
    BY <1>1, <1>2, NthRank
<1> HIDE DEF c
<1>6. PICK k \in 1 .. m : files[i].id = files[Nth(all, k)].id
    BY <1>3
<1>7. m \in 1 .. c /\ 1 .. m \subseteq 1 .. c /\ c - m = num - 1
    BY <1>4, <1>6
<1> HIDE DEF m
<1>8. /\ \A k_1 \in 1 .. m : /\ Nth(all, k_1) \in all /\ Nth(all, k_1) \in DOMAIN files
                               /\ Nth(all, k_1) \in Nat
      /\ i = Nth(all, k) /\ i \in all
    <2>1. \A k_1 \in 1 .. m : Nth(all, k_1) \in all
        BY <1>5, <1>7
    <2>2. \A j \in all : j \in DOMAIN files /\ j \in Nat
        BY <1>1, <1>2
    <2>3. i = Nth(all, k)
        BY <1>1, <1>6, <2>1, <2>2
    <2> QED
        BY <2>1, <2>2, <2>3
<1> DEFINE last  == Nth(all, m)
           first == Upto(all, last)
           later == all \ first
<1>9. /\ last \in all /\ first \in SUBSET all
      /\ IsFiniteSet(first) /\ Cardinality(first) = m
    BY <1>1, <1>2, <1>5, <1>7, UptoFinite DEF Rank
<1>10. Cardinality(later) = num - 1
    <2>1. first = all \cap first
        BY <1>9
    <2>2. Cardinality(later) = Cardinality(all) - Cardinality(all \cap first)
        BY <1>4, <1>9, FS_Difference
    <2> QED
        BY <1>7, <1>9, <2>1, <2>2 DEF c
<1>11. \A k_1 \in 1 .. m : Nth(all, k_1) <= last
    <2> SUFFICES ASSUME NEW k_1 \in 1 .. m PROVE Nth(all, k_1) <= last
        OBVIOUS
    <2>1. k_1 \in 1 .. c /\ k_1 \in Nat /\ m \in Nat /\ (k_1 < m \/ k_1 = m)
        BY <1>7
    <2>2. Nth(all, k_1) \in Nat /\ last \in Nat
        BY <1>7, <1>8
    <2> QED
        BY <1>5, <1>7, <2>1, <2>2
<1>12. \A j \in later : j \in DOMAIN files /\ j \in Nat /\ j > last
    <2>1. \A j \in all : j \in Nat /\ j \in DOMAIN files
        BY <1>1, <1>2
    <2> QED
        BY <1>9, <2>1 DEF Upto
<1> HIDE DEF last, later
<1>13. \A j \in later : j > i
    <2>1. i <= last /\ i \in Nat /\ last \in Nat
        BY <1>1, <1>2, <1>6, <1>8, <1>9, <1>11
    <2> QED
        BY <1>12, <2>1
<1>14. ASSUME NEW j \in later
       PROVE  /\ StartsWith(files[j].prefix, name_.prefix)
              /\ files[j].id \notin Excess(files, name_, num)
    <2>1. j \in all
        BY DEF later
    <2>2. ASSUME NEW k_1 \in 1 .. m PROVE files[j].id # files[Nth(all, k_1)].id
        <3>1. Nth(all, k_1) \in all /\ Nth(all, k_1) \in Nat /\ last \in Nat
            BY <1>8, <1>9, <1>1, <1>2
        <3>2. j # Nth(all, k_1)
            BY <1>11, <1>12, <3>1
        <3> QED
            BY <1>1, <1>2, <1>12, <3>1, <3>2
    <2> QED
        BY <1>2, <1>3, <2>1, <2>2
<1>15. later \in SUBSET {j \in DOMAIN files : j > i}
    BY <1>12, <1>13
<1>16. StartsWith(files[i].prefix, name_.prefix)
    BY <1>2, <1>8
<1> QED
    BY <1>10, <1>14, <1>15, <1>16

\* A cleanup is the only step of the GUI that removes files.
LEMMA CleanupKeeps ==
    ASSUME Typed, LineLeft,
           \A id \in Ids(files) : id \notin Excess(files, named, seen.num) => id \in Ids(files'),
           NEW i \in DOMAIN files, files[i].id \notin Ids(files')
    PROVE  /\ StartsWith(files[i].prefix, named.prefix)
           /\ \E later \in SUBSET {j \in DOMAIN files : j > i} :
                /\ Cardinality(later) = seen.num - 1
                /\ \A j \in later : /\ StartsWith(files[j].prefix, named.prefix)
                                    /\ files[j].id \in Ids(files')
<1>1. \A j \in DOMAIN files : files[j].id \in Ids(files)
    BY DEF Ids
<1>2. Sound(files, created) /\ seen.num \in Nat \ {0}
    BY HeadOfBatch DEF Typed, Store, Limits
<1>3. files[i].id \in Excess(files, named, seen.num)
    BY <1>1
<1>4. PICK later \in SUBSET {j \in DOMAIN files : j > i} :
        /\ Cardinality(later) = seen.num - 1
        /\ \A j \in later : /\ StartsWith(files[j].prefix, named.prefix)
                            /\ files[j].id \notin Excess(files, named, seen.num)
    BY <1>2, <1>3, ExcessOldest
<1>5. \A j \in later : files[j].id \in Ids(files')
    BY <1>1, <1>4
<1> QED
    BY <1>2, <1>3, <1>4, <1>5, ExcessOldest

LEMMA OpenKeepsIds ==
    ASSUME NEW fs, Sound(fs, created), NEW t, NEW n, Sound(t, n), NEW of, NEW name_,
           NEW now, NEW id, OpenedAs(fs, t, of, name_, now, id)
    PROVE  Ids(fs) \subseteq Ids(t)
<1>1. /\ FileSet(fs) \subseteq File /\ Ids(fs) = {f.id : f \in FileSet(fs)}
      /\ Ids(t) = {f.id : f \in FileSet(t)}
    BY FileSetTyped
<1>2. \A f \in FileSet(fs) : Reopened(f).id = f.id
    BY <1>1, FileFields
<1> QED
    BY <1>1, <1>2 DEF OpenedAs, Others

LEMMA GuiKeepsIds ==
    ASSUME Typed, Commands \/ (Polls /\ ~ Rotate /\ ~ RotateFails)
    PROVE  Ids(files) \subseteq Ids(files')
<1>1. Sound(files, created) /\ created \in Nat
    BY DEF Typed, Store
<1>2. CASE Commands
    <2>1. CASE OpenLog
        <3>1. PICK now \in Now : /\ handle' = Opened(files, "gui", InLogs(config.prefix), now)
                                 /\ files' = AfterOpen(files, "gui", InLogs(config.prefix), now)
            BY <2>1 DEF OpenLog
        <3>2. InLogs(config.prefix) \in Names
            BY <2>1, ConfigsAssumption, InLogsTyped DEF OpenLog, Command, Typed, Session
        <3>3. Sound(files', After(handle'))
              /\ OpenedAs(files, files', "gui", InLogs(config.prefix), now, handle')
            BY <1>1, <3>1, <3>2, NowTyped, OpenFile
        <3> QED
            BY <1>1, <3>3, OpenKeepsIds
    <2>2. CASE (\E c \in Configs : Start(c)) \/ SetLimits \/ OpenFails \/ SetWriter
               \/ SetNames \/ Stop
        BY <2>2 DEF Start, SetLimits, OpenFails, SetWriter, SetNames, Stop, fileVars
    <2> QED
        BY <1>2, <2>1, <2>2 DEF Commands
<1>3. CASE Polls /\ ~ Rotate /\ ~ RotateFails
    <2>1. CASE Write
        <3>1. Head(batch) \in Line /\ (files' = files
                    \/ files' = AfterWrite(files, writer, Head(batch)))
            BY <2>1, HeadOfBatch DEF Write
        <3> QED
            BY <1>1, <3>1, WriteFile
    <2>2. CASE ((Drain \/ Subtract) /\ UNCHANGED <<fileVars, guiVars>>)
               \/ ReadLimits \/ ReadNames \/ LookForWriter \/ Emit \/ Sleep
        BY <2>2 DEF ReadLimits, ReadNames, LookForWriter, Emit, Sleep, fileVars
    <2> QED
        BY <1>3, <2>1, <2>2 DEF Polls, PollStep
<1> QED
    BY <1>2, <1>3

\* A rotation never removes a file that is among the num - 1 newest of its
\* prefix, and no other step of the GUI removes any.
THEOREM CleanupSpares == Spec => CleanupKeepsNewest
<1> DEFINE Spares ==
        \A i \in DOMAIN files :
            program = "gui" /\ files[i].id \notin Ids(files') =>
                /\ StartsWith(files[i].prefix, named.prefix)
                /\ \E later \in SUBSET {j \in DOMAIN files : j > i} :
                    /\ Cardinality(later) = seen.num - 1
                    /\ \A j \in later : /\ StartsWith(files[j].prefix, named.prefix)
                                        /\ files[j].id \in Ids(files')
<1>1. Typed /\ [Next]_vars => Spares
    <2> SUFFICES ASSUME Typed, [Next]_vars PROVE Spares
        OBVIOUS
    <2>1. Ids(files) \subseteq Ids(files') => Spares
        BY DEF Ids
    <2>2. Sound(files, created) /\ Ids(files) = {f.id : f \in FileSet(files)}
        BY FileSetTyped DEF Typed, Store
    <2>3. CASE Polls /\ Rotate
        <3>1. PICK kept, opened, new, now :
                /\ Sound(kept, created) /\ Sound(opened, created')
                /\ Cleaned(files, kept)
                /\ OpenedAs(kept, opened, "gui", named, now, new)
                /\ Ids(files') = Ids(opened)
            BY <2>3, RotateFiles
        <3>2. Ids(kept) \subseteq Ids(files')
            BY <3>1, OpenKeepsIds
        <3>3. \A id \in Ids(files) : id \notin Excess(files, named, seen.num) => id \in Ids(kept)
            BY <2>2, <3>1, FileSetTyped DEF Cleaned
        <3>4. LineLeft
            BY <2>3 DEF Rotate
        <3> QED
            BY <3>2, <3>3, <3>4, CleanupKeeps
    <2>4. CASE Polls /\ RotateFails
        <3>1. files' \in AfterCleanup(files, named, seen.num) /\ LineLeft
            BY <2>4 DEF RotateFails
        <3>2. Sound(files', created) /\ Cleaned(files, files')
            BY <2>2, <3>1, CleanupFiles
        <3>3. \A id \in Ids(files) :
                    id \notin Excess(files, named, seen.num) => id \in Ids(files')
            BY <2>2, <3>2, FileSetTyped DEF Cleaned
        <3> QED
            BY <3>1, <3>3, CleanupKeeps
    <2>5. CASE Commands \/ (Polls /\ ~ Rotate /\ ~ RotateFails)
        BY <2>1, <2>5, GuiKeepsIds
    <2>6. CASE RunGui \/ RunCli \/ End \/ Logs \/ UNCHANGED vars
        <3>1. files' = files
            BY <2>6 DEF RunGui, RunCli, CliStart, End, Logs, vars, fileVars
        <3> QED
            BY <2>1, <3>1
    <2>7. CASE Rotates
        BY <2>7 DEF Rotates
    <2> QED
        BY <2>3, <2>4, <2>5, <2>6, <2>7 DEF Next
<1>2. Typed /\ [Next]_vars => [Spares]_vars
    BY <1>1
<1> QED
    BY <1>2, TypedInductive, PTL DEF Spec, CleanupKeepsNewest

=============================================================================
