------------------------------ MODULE LogQueue ------------------------------
(***************************************************************************)
(* The queue of log lines of the GUI (src/src-tauri/src/gui.rs): on_event  *)
(* of TauriLogLayer, run by every thread that logs, and the first steps of *)
(* the poll task, which empties the queue every 100 ms.                    *)
(*                                                                         *)
(* The queue is a channel without a bound.  A counter beside it holds its  *)
(* backlog; on_event reads the counter, sends and counts in three steps,   *)
(* and the poll task receives and subtracts in two.                        *)
(***************************************************************************)
EXTENDS Integers, Sequences

CONSTANTS
    Threads,     \* number of threads that log
    Sizes,       \* sizes of formatted lines
    MaxBacklog,  \* MAX_CHANNEL_BACKLOG
    CounterMod,  \* the counter is a usize: 2^64
    MaxLines     \* bound: events of all threads together

ASSUME ThreadsAssumption == Threads \in Nat
ASSUME SizesAssumption == Sizes \subseteq Nat \ {0}
ASSUME MaxBacklogAssumption == MaxBacklog \in Nat \ {0}
ASSUME MaxLinesAssumption == MaxLines \in Nat
ASSUME CounterAssumption == CounterMod \in Nat /\ MaxBacklog + Threads <= CounterMod

\* A thread is known only by where it is in on_event: the model counts them.
VARIABLES
    passed,      \* threads that have read the counter and may send
    uncounted,   \* threads that have sent a line and not counted it
    channel,     \* lines sent and not received
    counter,     \* LOG_BACKLOG_COUNTER
    poll,        \* where the poll task is
    batch,       \* its messages that are not dealt with yet
    sent,        \* history: lines sent so far, which numbers them
    dropped      \* history: events dropped so far

queueVars == <<passed, uncounted, channel, counter, poll, batch, sent, dropped>>

Line == [no : Nat, size : Sizes]

PollPhases == {"asleep", "drained", "counted", "only", "bytes", "limited", "dir",
               "named", "looked", "writing"}

QueueTypeOK ==
    /\ {passed, uncounted} \subseteq Nat
    /\ passed + uncounted <= Threads
    /\ channel \in Seq(Line)
    /\ counter \in 0 .. CounterMod - 1
    /\ poll \in PollPhases
    /\ batch \in Seq(Line)
    /\ sent \in Nat
    /\ dropped \in Nat

\* Lines the poll task has received and not subtracted.
Taken == IF poll = "drained" THEN Len(batch) ELSE 0

QueueInit ==
    /\ passed = 0 /\ uncounted = 0
    /\ channel = <<>>
    /\ counter = 0
    /\ poll = "asleep"
    /\ batch = <<>>
    /\ sent = 0
    /\ dropped = 0

\* The end of the program: its lines and its threads are gone.
QueueReset ==
    /\ passed' = 0 /\ uncounted' = 0
    /\ channel' = <<>>
    /\ counter' = 0
    /\ poll' = "asleep"
    /\ batch' = <<>>
    /\ UNCHANGED <<sent, dropped>>

-----------------------------------------------------------------------------
\* on_event.
MayLog == sent + dropped + passed < MaxLines

Idle == passed + uncounted < Threads

\* The counter is read: the line passes, or is dropped.  The layer would write
\* it to a file of its own, which is never there.
Pass ==
    /\ MayLog /\ Idle
    /\ counter < MaxBacklog
    /\ passed' = passed + 1
    /\ UNCHANGED <<uncounted, channel, counter, poll, batch, sent, dropped>>

Drop ==
    /\ MayLog /\ Idle
    /\ counter >= MaxBacklog
    /\ dropped' = dropped + 1
    /\ UNCHANGED <<passed, uncounted, channel, counter, poll, batch, sent>>

Send ==
    /\ passed > 0
    /\ passed' = passed - 1
    /\ uncounted' = uncounted + 1
    /\ \E size \in Sizes :
        channel' = Append(channel, [no |-> sent + 1, size |-> size])
    /\ sent' = sent + 1
    /\ UNCHANGED <<counter, poll, batch, dropped>>

\* Mutant of Count: the line is not counted.
CountNot ==
    /\ uncounted > 0
    /\ uncounted' = uncounted - 1
    /\ UNCHANGED <<passed, channel, counter, poll, batch, sent, dropped>>

Count ==
    /\ uncounted > 0
    /\ uncounted' = uncounted - 1
    /\ counter' = (counter + 1) % CounterMod
    /\ UNCHANGED <<passed, channel, poll, batch, sent, dropped>>

LogStep == Pass \/ Drop \/ Send \/ Count

-----------------------------------------------------------------------------
\* The poll task wakes up, receives what there is, and goes back to sleep when
\* there is nothing.
Drain ==
    /\ poll = "asleep"
    /\ channel # <<>>
    /\ poll' = "drained"
    /\ batch' = channel
    /\ channel' = <<>>
    /\ UNCHANGED <<passed, uncounted, counter, sent, dropped>>

\* Mutant of Subtract: one line is taken for the batch.
SubtractOne ==
    /\ poll = "drained"
    /\ poll' = "counted"
    /\ counter' = (counter - 1) % CounterMod
    /\ UNCHANGED <<passed, uncounted, channel, batch, sent, dropped>>

\* Mutant of Subtract: the counter does not wrap.
SubtractSigned ==
    /\ poll = "drained"
    /\ poll' = "counted"
    /\ counter' = counter - Len(batch)
    /\ UNCHANGED <<passed, uncounted, channel, batch, sent, dropped>>

Subtract ==
    /\ poll = "drained"
    /\ poll' = "counted"
    /\ counter' = (counter - Len(batch)) % CounterMod
    /\ UNCHANGED <<passed, uncounted, channel, batch, sent, dropped>>

\* The rest of the poll task's loop: it deals with its batch, line by line.
Poll(from, to, rest) ==
    /\ poll = from
    /\ poll' = to
    /\ batch' = rest
    /\ UNCHANGED <<passed, uncounted, channel, counter, sent, dropped>>

-----------------------------------------------------------------------------
\* The counter is the backlog but for lines that are sent and not counted, and
\* for a batch that is received and not subtracted: below zero, it wraps.
BacklogAgrees ==
    counter = (Len(channel) + Taken - uncounted) % CounterMod

\* The channel itself has no bound.  Every thread may send one more line after
\* the counter has reached the limit for the last time it looked.
BacklogBounded == Len(channel) < MaxBacklog + Threads

\* The comment at the check, "Drop this log if channel backlog exceeds
\* threshold": when a line is dropped, that many lines wait.
DropsOnlyWhenFull ==
    [][dropped' # dropped => Len(channel) + Taken >= MaxBacklog]_queueVars

=============================================================================
