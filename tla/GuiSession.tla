----------------------------- MODULE GuiSession -----------------------------
(***************************************************************************)
(* The session of the GUI: the commands start_server and stop_server of    *)
(* src/src-tauri/src/gui.rs, the servers they start and stop, the buttons  *)
(* of the page (src/src/index.html), and of the poll task the one step     *)
(* that changes the state of the session: a rotation of the log file.      *)
(*                                                                         *)
(* Commands run on a pool of threads, several at a time; each step is one  *)
(* section under a lock, or what a command does between two of them.       *)
(* Answers of commands and events reach the page in any order.             *)
(***************************************************************************)
EXTENDS Server, FiniteSets

CONSTANTS
    Commands,    \* numbers of commands; those of start_server are in Servers
    MaxPending,  \* bound: commands at work or answered at one time
    None,        \* Option::None
    RotatedFile  \* a file that a rotation has opened

ASSUME CommandsAssumption == Commands \subseteq Nat
ASSUME ServersAssumption == Servers \subseteq Commands
ASSUME MaxPendingAssumption == MaxPending \in Nat
ASSUME NoneAssumption == None \notin Commands
ASSUME RotatedFileAssumption == RotatedFile \notin Commands \cup {None}

VARIABLES
    pc,          \* per command: the step it takes next
    joined,      \* per stop command: the server whose thread it joins
    server_thread, \* AppState.server_thread, as the server it belongs to
    stop_tx,     \* AppState.stop_tx, likewise
    start_time,  \* AppState.start_time: is it set?
    file_writer, \* AppState.file_writer: the start command that opened it, or
                 \* the file that a rotation has put in its place
    stopped,     \* events server-stopped on their way to the page
    running,     \* the page shows a running server: Start is disabled, Stop not
    patient      \* does the user wait for an answer before the next click?

sessionVars == <<pc, joined, server_thread, stop_tx, start_time, file_writer,
                 stopped, running, patient>>
vars == <<phase, modes, task, signal, pc, joined, server_thread, stop_tx,
          start_time, file_writer, stopped, running, patient>>

StartSteps == {"check", "reset", "clear", "open", "spawn", "store_thread",
               "store_sender", "started", "refused"}
StopSteps  == {"send", "take", "join", "untime", "close", "stopped"}
Pending == StartSteps \cup StopSteps

TypeOK ==
    /\ ServerTypeOK
    /\ pc \in [Commands -> Pending \cup {"none", "done"}]
    /\ joined \in [Commands -> Servers \cup {None}]
    /\ server_thread \in Servers \cup {None}
    /\ stop_tx \in Servers \cup {None}
    /\ start_time \in BOOLEAN
    /\ file_writer \in Servers \cup {None, RotatedFile}
    /\ stopped \in Nat
    /\ running \in BOOLEAN
    /\ patient \in BOOLEAN

Init ==
    /\ ServerInit
    /\ pc = [k \in Commands |-> "none"]
    /\ joined = [k \in Commands |-> None]
    /\ server_thread = None
    /\ stop_tx = None
    /\ start_time = FALSE
    /\ file_writer = None
    /\ stopped = 0
    /\ running = FALSE
    /\ patient \in BOOLEAN

Step(k, from, to) == pc[k] = from /\ pc' = [pc EXCEPT ![k] = to]

-----------------------------------------------------------------------------
\* The page.  Start can be clicked again until the first answer is there, and
\* so can Stop.  Starts and stops are each numbered as they are issued.
Earlier(k) == {o \in Commands : o < k /\ (o \in Servers <=> k \in Servers)}

Issue(k, first) ==
    /\ \A o \in Earlier(k) : pc[o] # "none"
    /\ Step(k, "none", first)
    /\ LET pending == {o \in Commands : pc[o] \in Pending}
       IN  IF patient THEN pending = {} ELSE Cardinality(pending) < MaxPending
    /\ UNCHANGED <<serverVars, joined, server_thread, stop_tx, start_time,
                   file_writer, stopped, running, patient>>

ClickStart(k) == ~ running /\ k \in Servers /\ Issue(k, "check")

ClickStop(k) == running /\ k \notin Servers /\ Issue(k, "send")

Show(value) ==
    /\ running' = value
    /\ UNCHANGED <<serverVars, joined, server_thread, stop_tx, start_time,
                   file_writer, patient>>

\* The promise of start_server is resolved, or rejected with "already running".
StartResolved(k) == Step(k, "started", "done") /\ Show(TRUE) /\ UNCHANGED stopped

StartRejected(k) ==
    Step(k, "refused", "done") /\ Show(running) /\ UNCHANGED stopped

\* Mutant of StopResolved: the buttons are left as they are.
StopResolvedSilent(k) ==
    Step(k, "stopped", "done") /\ Show(running) /\ UNCHANGED stopped

StopResolved(k) == Step(k, "stopped", "done") /\ Show(FALSE) /\ UNCHANGED stopped

\* The event server-stopped.
ServerStopped ==
    /\ stopped > 0
    /\ stopped' = stopped - 1
    /\ Show(FALSE)
    /\ UNCHANGED pc

-----------------------------------------------------------------------------
\* The sender in stop_tx is replaced; a sender that was there is dropped.
ReplaceSender(new) ==
    /\ stop_tx' = new
    /\ signal' = IF stop_tx = None THEN signal
                 ELSE [signal EXCEPT ![stop_tx] =
                        IF @ = "none" THEN "dropped" ELSE @]

\* The first section of start_server.  A thread that has finished is taken.
Check(k) ==
    /\ Step(k, "check", "reset")
    /\ server_thread # None => ~ Unfinished(server_thread)
    /\ server_thread' = None
    /\ ReplaceSender(None)
    /\ UNCHANGED <<phase, modes, task, joined, start_time, file_writer,
                   stopped, running, patient>>

AlreadyRunning(k) ==
    /\ Step(k, "check", "refused")
    /\ server_thread # None /\ Unfinished(server_thread)
    /\ UNCHANGED <<serverVars, joined, server_thread, stop_tx, start_time,
                   file_writer, stopped, running, patient>>

Reset(k) ==
    /\ Step(k, "reset", "clear")
    /\ start_time' = TRUE
    /\ UNCHANGED <<serverVars, joined, server_thread, stop_tx, file_writer,
                   stopped, running, patient>>

SetWriter(value) ==
    /\ file_writer' = value
    /\ UNCHANGED <<serverVars, joined, server_thread, stop_tx, start_time,
                   stopped, running, patient>>

ClearWriter(k) == Step(k, "clear", "open") /\ SetWriter(None)

\* open_log_file succeeds; or no file is asked for, or cannot be opened.
OpenLog(k) == Step(k, "open", "spawn") /\ SetWriter(k)
NoLog(k) == Step(k, "open", "spawn") /\ SetWriter(file_writer)

SpawnThread(k) ==
    /\ Step(k, "spawn", "store_thread")
    /\ Spawn(k)
    /\ UNCHANGED <<joined, server_thread, stop_tx, start_time, file_writer,
                   stopped, running, patient>>

\* The handle is stored; one that was there is dropped, its thread goes on.
StoreThread(k) ==
    /\ Step(k, "store_thread", "store_sender")
    /\ server_thread' = k
    /\ UNCHANGED <<serverVars, joined, stop_tx, start_time, file_writer,
                   stopped, running, patient>>

\* ... and the sender.
StoreSender(k) ==
    /\ Step(k, "store_sender", "started")
    /\ ReplaceSender(k)
    /\ UNCHANGED <<phase, modes, task, joined, server_thread, start_time,
                   file_writer, stopped, running, patient>>

-----------------------------------------------------------------------------
\* stop_server sends to the sender it finds and drops it,
SendStop(k) ==
    /\ Step(k, "send", "take")
    /\ stop_tx' = None
    /\ signal' = IF stop_tx = None THEN signal
                 ELSE [signal EXCEPT ![stop_tx] = "sent"]
    /\ UNCHANGED <<phase, modes, task, joined, server_thread, start_time,
                   file_writer, stopped, running, patient>>

\* ... takes the handle,
TakeThread(k) ==
    /\ Step(k, "take", "join")
    /\ joined' = [joined EXCEPT ![k] = server_thread]
    /\ server_thread' = None
    /\ UNCHANGED <<serverVars, stop_tx, start_time, file_writer, stopped,
                   running, patient>>

\* Mutant of Joinable: the thread is not waited for.
JoinableAtOnce(k) == TRUE

Joinable(k) == joined[k] # None => ~ Unfinished(joined[k])

\* ... joins the thread, under no lock,
Join(k) ==
    /\ Step(k, "join", "untime")
    /\ Joinable(k)
    /\ joined' = [joined EXCEPT ![k] = None]
    /\ UNCHANGED <<serverVars, server_thread, stop_tx, start_time, file_writer,
                   stopped, running, patient>>

\* ... and clears the start time and the file, whosever they are.
ClearTime(k) ==
    /\ Step(k, "untime", "close")
    /\ start_time' = FALSE
    /\ UNCHANGED <<serverVars, joined, server_thread, stop_tx, file_writer,
                   stopped, running, patient>>

CloseLog(k) == Step(k, "close", "stopped") /\ SetWriter(None)

\* The poll task rotates the file before it writes a line, whether there is a
\* file or not: lines may be queued at any time, and so may a batch wait for the
\* writer's lock while the file is closed.
Rotate == SetWriter(RotatedFile) /\ UNCHANGED pc

-----------------------------------------------------------------------------
\* The server's thread emits its error and server-stopped.
Report(s) ==
    /\ Go(s, "reporting", "leaving")
    /\ stopped' = stopped + 1
    /\ UNCHANGED <<modes, task, signal, pc, joined, server_thread, stop_tx,
                   start_time, file_writer, running, patient>>

ServerStep(s) == ThreadStep(s) /\ UNCHANGED sessionVars

StartStep(k) ==
    /\ pc[k] \in StartSteps
    /\ \/ Check(k) \/ AlreadyRunning(k) \/ Reset(k) \/ ClearWriter(k) \/ OpenLog(k)
       \/ NoLog(k) \/ SpawnThread(k) \/ StoreThread(k) \/ StoreSender(k)

StopStep(k) ==
    /\ pc[k] \in StopSteps
    /\ SendStop(k) \/ TakeThread(k) \/ Join(k) \/ ClearTime(k) \/ CloseLog(k)

PageStep ==
    \/ ServerStopped
    \/ \E k \in Commands :
        \/ ClickStart(k) \/ ClickStop(k)
        \/ StartResolved(k) \/ StartRejected(k) \/ StopResolved(k)

Next ==
    \/ PageStep
    \/ Rotate
    \/ \E k \in Servers : StartStep(k) \/ ServerStep(k) \/ Report(k)
    \/ \E s \in Servers : TaskStep(s) /\ UNCHANGED sessionVars
    \/ \E k \in Commands \ Servers : StopStep(k)

\* A thread on its way out.
Exit(s) ==
    ((Notice(s) \/ Halt(s) \/ Leave(s)) /\ UNCHANGED sessionVars) \/ Report(s)

\* Threads that can go on are scheduled: the end of the task that is awaited
\* wakes a server's thread, and so does the stop signal.  The user owes
\* nothing, and nothing is assumed of sockets.
Spec ==
    /\ Init
    /\ [][Next]_vars
    /\ \A s \in Servers : WF_phase(Exit(s)) /\ WF_pc(StartStep(s))
    /\ \A k \in Commands \ Servers : WF_pc(StopStep(k))

-----------------------------------------------------------------------------
\* No command is at work and nothing is on its way to the page.
Idle == stopped = 0 /\ \A k \in Commands : pc[k] \notin Pending

\* The command that starts s holds its sender.
Starting(s) == pc[s] \in {"store_thread", "store_sender"}

\* A server that has not been told to stop can be told to: its sender is in
\* the state or with the command that is about to put it there.  Overlapping
\* starts replace each other's handles and senders, each at its own time.
Stoppable ==
    \A s \in Servers :
        Unfinished(s) /\ ~ Heard(s) => stop_tx = s \/ Starting(s)

\* When the user waits for answers, the state is about the server that
\* runs: thread, sender and start time are its own, and so is the file if a
\* start command has opened it.  The file of a rotation may be there at any time,
\* also after the server's end.
SessionAgrees ==
    Idle /\ patient =>
        /\ \A s \in Servers : Unfinished(s) =>
            server_thread = s /\ stop_tx = s /\ start_time
        /\ file_writer \in Servers => file_writer = server_thread

\* ... and when no server has failed, the page shows what is the case.
PageAgrees ==
    Idle /\ patient /\ (\A s \in Servers : phase[s] \in {"none", "new",
                                    "waiting", "ended"}) =>
        (running <=> \E s \in Servers : Unfinished(s))

\* A stop command returns, or waits for a server that the next stop command
\* would reach: it has taken the handle of one whose sender came later.
StopsReturn ==
    \A k \in Commands \ Servers :
        pc[k] = "join" ~> (pc[k] # "join" \/ (joined[k] # None /\ joined[k] = stop_tx))

\* A server that no later stop command would reach ends, so that overlapping
\* starts leave one server in the end: none stays that way.
Stray(s) == Unfinished(s) /\ stop_tx # s /\ ~ Starting(s)

StraysEnd == []<>(\A s \in Servers : ~ Stray(s))

\* A server of which nothing listens any more ends, though its thread awaits one
\* task after the other and no task tells the next: none stays that way.
Deaf(s) ==
    phase[s] = "waiting" /\ \A t \in SpawnedTasks(s) : task[s][t] = "down"

DeafServersEnd == []<>(\A s \in Servers : ~ Deaf(s))

\* The comment at the event's emission: the page is reset when a server
\* stops by itself.
AutoStopResets ==
    Idle /\ (\A s \in Servers : ~ Unfinished(s)) => ~ running

=============================================================================
