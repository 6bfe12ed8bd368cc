----------------------------- MODULE GuiProofs ------------------------------
(***************************************************************************)
(* Theorems about GuiSession, for any number of commands and servers, with *)
(* their proofs.                                                           *)
(***************************************************************************)
EXTENDS GuiSession, TLAPS

SessionInv == TypeOK /\ Stoppable

LEMMA SessionInit == Init => SessionInv
<1> SUFFICES ASSUME Init PROVE SessionInv
  OBVIOUS
<1>1. TypeOK
  BY DEF Init, ServerInit, TypeOK, ServerTypeOK, Phases, NoTasks
<1>2. Stoppable
  BY DEF Init, ServerInit, Stoppable, Unfinished
<1> QED BY <1>1, <1>2 DEF SessionInv

\* A step that goes on with a command and does not touch the servers.
LEMMA StepTyped ==
    ASSUME TypeOK, NEW k \in Commands, NEW from,
           NEW to \in Pending \cup {"none", "done"}, Step(k, from, to)
    PROVE  /\ pc' \in [Commands -> Pending \cup {"none", "done"}]
           /\ pc'[k] = to /\ pc[k] = from
           /\ \A o \in Commands \ {k} : pc'[o] = pc[o]
BY DEF TypeOK, Step

LEMMA GoTyped ==
    ASSUME TypeOK, NEW s \in Servers, NEW from, NEW to \in Phases, Go(s, from, to)
    PROVE  /\ phase' \in [Servers -> Phases]
           /\ phase'[s] = to /\ phase[s] = from
           /\ \A o \in Servers \ {s} : phase'[o] = phase[o]
BY DEF TypeOK, ServerTypeOK, Go

\* Whoever loses its place in stop_tx hears of it.
LEMMA ReplaceTyped ==
    ASSUME TypeOK, NEW new \in Servers \cup {None}, ReplaceSender(new)
    PROVE  /\ signal' \in [Servers -> {"none", "sent", "dropped"}]
           /\ stop_tx' = new
           /\ \A s \in Servers : signal[s] # "none" => signal'[s] # "none"
           /\ \A s \in Servers : stop_tx = s => signal'[s] # "none"
<1>1. CASE stop_tx = None
  BY <1>1, NoneAssumption, ServersAssumption DEF ReplaceSender, TypeOK, ServerTypeOK
<1>2. CASE stop_tx # None
  <2>1. stop_tx \in Servers
    BY <1>2 DEF TypeOK
  <2> QED BY <1>2, <2>1 DEF ReplaceSender, TypeOK, ServerTypeOK
<1> QED BY <1>1, <1>2

-----------------------------------------------------------------------------
\* Servers and senders are left alone, and no command lets go of a sender.
LEMMA SameServers ==
    ASSUME Stoppable, UNCHANGED <<phase, signal, stop_tx>>,
           \A s \in Servers : Starting(s) => Starting(s)'
    PROVE  Stoppable'
BY DEF Stoppable, Unfinished, Heard

\* A command goes from one step to another, neither of them with a sender.
LEMMA StartingKept ==
    ASSUME TypeOK, NEW k \in Commands, NEW from, NEW to, Step(k, from, to),
           from \in {"store_thread", "store_sender"} => to = "store_sender"
    PROVE  \A s \in Servers : Starting(s) => Starting(s)'
BY ServersAssumption DEF TypeOK, Step, Starting

LEMMA PageStepKeeps ==
    ASSUME SessionInv, PageStep
    PROVE  SessionInv'
<1>1. TypeOK /\ Stoppable
  BY DEF SessionInv
<1>2. CASE ServerStopped
  <2>1. TypeOK'
    <3>1. stopped' \in Nat
      BY <1>1, <1>2 DEF ServerStopped, TypeOK
    <3>2. running' \in BOOLEAN
      BY <1>2 DEF ServerStopped, Show
    <3>3. UNCHANGED <<serverVars, pc, joined, server_thread, stop_tx,
                      start_time, file_writer, patient>>
      BY <1>2 DEF ServerStopped, Show
    <3> QED BY <1>1, <3>1, <3>2, <3>3 DEF TypeOK, ServerTypeOK, serverVars
  <2>2. UNCHANGED <<phase, signal, stop_tx, pc>>
    BY <1>2 DEF ServerStopped, Show, serverVars
  <2>3. \A s \in Servers : Starting(s) => Starting(s)'
    BY <2>2 DEF Starting
  <2>4. Stoppable'
    BY <1>1, <2>2, <2>3, SameServers
  <2> QED BY <2>1, <2>4 DEF SessionInv
<1>3. ASSUME NEW k \in Commands,
             NEW first \in {"check", "send"}, Issue(k, first)
      PROVE  SessionInv'
  <2>1. first \in Pending \cup {"none", "done"}
    BY <1>3 DEF Pending, StartSteps, StopSteps
  <2>2. Step(k, "none", first) /\ UNCHANGED <<serverVars, joined, server_thread,
            stop_tx, start_time, file_writer, stopped, running, patient>>
    BY <1>3 DEF Issue
  <2>3. pc' \in [Commands -> Pending \cup {"none", "done"}]
    BY <1>1, <2>1, <2>2, StepTyped
  <2>4. TypeOK'
    BY <1>1, <2>2, <2>3 DEF TypeOK, ServerTypeOK, serverVars
  <2>5. \A s \in Servers : Starting(s) => Starting(s)'
    BY <1>1, <2>2, StartingKept
  <2>6. Stoppable'
    BY <1>1, <2>2, <2>5, SameServers DEF serverVars
  <2> QED BY <2>4, <2>6 DEF SessionInv
<1>4. ASSUME NEW k \in Commands, NEW from \in {"started", "refused", "stopped"},
             NEW value \in BOOLEAN, Step(k, from, "done"), Show(value),
             UNCHANGED stopped
      PROVE  SessionInv'
  <2>1. pc' \in [Commands -> Pending \cup {"none", "done"}]
    BY <1>1, <1>4, StepTyped
  <2>2. TypeOK'
    BY <1>1, <1>4, <2>1 DEF TypeOK, ServerTypeOK, serverVars, Show
  <2>3. \A s \in Servers : Starting(s) => Starting(s)'
    BY <1>1, <1>4, StartingKept
  <2>4. Stoppable'
    BY <1>1, <1>4, <2>3, SameServers DEF serverVars, Show
  <2> QED BY <2>2, <2>4 DEF SessionInv
<1>5. ASSUME NEW k \in Commands, ClickStart(k) \/ ClickStop(k)
      PROVE  SessionInv'
  BY <1>3, <1>5 DEF ClickStart, ClickStop
<1>6. ASSUME NEW k \in Commands,
             StartResolved(k) \/ StartRejected(k) \/ StopResolved(k)
      PROVE  SessionInv'
  <2>1. running \in BOOLEAN
    BY <1>1 DEF TypeOK
  <2>2. CASE StartResolved(k)
    BY <1>4, <2>2 DEF StartResolved
  <2>3. CASE StartRejected(k)
    BY <1>4, <2>1, <2>3 DEF StartRejected
  <2>4. CASE StopResolved(k)
    BY <1>4, <2>4 DEF StopResolved
  <2> QED BY <1>6, <2>2, <2>3, <2>4
<1> QED BY <1>2, <1>5, <1>6 DEF PageStep

-----------------------------------------------------------------------------
\* One lemma per step of start_server that touches servers or senders.
LEMMA CheckKeeps ==
    ASSUME SessionInv, NEW k \in Servers, Check(k)
    PROVE  SessionInv'
<1>1. TypeOK /\ Stoppable /\ k \in Commands /\ ReplaceSender(None)
      /\ Step(k, "check", "reset") /\ server_thread' = None
      /\ UNCHANGED <<phase, modes, task, joined, start_time, file_writer,
                     stopped, running, patient>>
  BY ServersAssumption DEF SessionInv, Check
<1>2. pc' \in [Commands -> Pending \cup {"none", "done"}]
  BY <1>1, StepTyped DEF Pending, StartSteps
<1>3. /\ signal' \in [Servers -> {"none", "sent", "dropped"}]
      /\ stop_tx' = None
      /\ \A s \in Servers : signal[s] # "none" => signal'[s] # "none"
      /\ \A s \in Servers : stop_tx = s => signal'[s] # "none"
  BY <1>1, ReplaceTyped
<1>4. TypeOK'
  BY <1>1, <1>2, <1>3 DEF TypeOK, ServerTypeOK
<1>5. \A s \in Servers : Starting(s) => Starting(s)'
  BY <1>1, StartingKept
<1>6. Stoppable'
  BY <1>1, <1>3, <1>5 DEF Stoppable, Unfinished, Heard
<1> QED BY <1>4, <1>6 DEF SessionInv

LEMMA SpawnKeeps ==
    ASSUME SessionInv, NEW k \in Servers, SpawnThread(k)
    PROVE  SessionInv'
<1>1. TypeOK /\ Stoppable /\ k \in Commands
      /\ Step(k, "spawn", "store_thread") /\ Go(k, "none", "new")
      /\ UNCHANGED <<modes, task, signal, joined, server_thread, stop_tx,
                     start_time, file_writer, stopped, running, patient>>
  BY ServersAssumption DEF SessionInv, SpawnThread, Spawn
<1>2. /\ pc' \in [Commands -> Pending \cup {"none", "done"}]
      /\ pc'[k] = "store_thread"
      /\ \A o \in Commands \ {k} : pc'[o] = pc[o]
  BY <1>1, StepTyped DEF Pending, StartSteps
<1>3. /\ phase' \in [Servers -> Phases]
      /\ \A o \in Servers \ {k} : phase'[o] = phase[o]
  BY <1>1, GoTyped DEF Phases
<1>4. TypeOK'
  BY <1>1, <1>2, <1>3 DEF TypeOK, ServerTypeOK
<1>5. Stoppable'
  BY <1>1, <1>2, <1>3, ServersAssumption
     DEF Stoppable, Unfinished, Heard, Starting
<1> QED BY <1>4, <1>5 DEF SessionInv

LEMMA StoreSenderKeeps ==
    ASSUME SessionInv, NEW k \in Servers, StoreSender(k)
    PROVE  SessionInv'
<1>1. TypeOK /\ Stoppable /\ k \in Commands /\ ReplaceSender(k)
      /\ Step(k, "store_sender", "started")
      /\ UNCHANGED <<phase, modes, task, joined, server_thread, start_time,
                     file_writer, stopped, running, patient>>
  BY ServersAssumption DEF SessionInv, StoreSender
<1>2. /\ pc' \in [Commands -> Pending \cup {"none", "done"}]
      /\ \A o \in Commands \ {k} : pc'[o] = pc[o]
  BY <1>1, StepTyped DEF Pending, StartSteps
<1>3. /\ signal' \in [Servers -> {"none", "sent", "dropped"}]
      /\ stop_tx' = k
      /\ \A s \in Servers : signal[s] # "none" => signal'[s] # "none"
      /\ \A s \in Servers : stop_tx = s => signal'[s] # "none"
  BY <1>1, ReplaceTyped
<1>4. TypeOK'
  BY <1>1, <1>2, <1>3 DEF TypeOK, ServerTypeOK
<1>5. Stoppable'
  BY <1>1, <1>2, <1>3, ServersAssumption
     DEF Stoppable, Unfinished, Heard, Starting
<1> QED BY <1>4, <1>5 DEF SessionInv

\* The other steps of start_server.
LEMMA StartStepKeeps ==
    ASSUME SessionInv, NEW k \in Servers, StartStep(k)
    PROVE  SessionInv'
<1>1. TypeOK /\ Stoppable /\ k \in Commands
  BY ServersAssumption DEF SessionInv
<1>2. ASSUME NEW from, NEW to \in StartSteps, Step(k, from, to),
             from \in {"store_thread", "store_sender"} => to = "store_sender",
             UNCHANGED <<serverVars, joined, stop_tx, stopped, running, patient>>,
             server_thread' \in Servers \cup {None}, start_time' \in BOOLEAN,
             file_writer' \in Servers \cup {None, RotatedFile}
      PROVE  SessionInv'
  <2>1. pc' \in [Commands -> Pending \cup {"none", "done"}]
    BY <1>1, <1>2, StepTyped DEF Pending
  <2>2. TypeOK'
    BY <1>1, <1>2, <2>1 DEF TypeOK, ServerTypeOK, serverVars
  <2>3. \A s \in Servers : Starting(s) => Starting(s)'
    BY <1>1, <1>2, StartingKept
  <2>4. Stoppable'
    BY <1>1, <1>2, <2>3, SameServers DEF serverVars
  <2> QED BY <2>2, <2>4 DEF SessionInv
<1>3. /\ server_thread \in Servers \cup {None}
      /\ start_time \in BOOLEAN
      /\ file_writer \in Servers \cup {None, RotatedFile}
  BY <1>1 DEF TypeOK
<1>4. CASE Check(k)
  BY <1>4, CheckKeeps
<1>5. CASE AlreadyRunning(k)
  BY <1>2, <1>3, <1>5 DEF AlreadyRunning, StartSteps
<1>6. CASE Reset(k)
  BY <1>2, <1>3, <1>6 DEF Reset, StartSteps
<1>7. CASE ClearWriter(k)
  BY <1>2, <1>3, <1>7 DEF ClearWriter, SetWriter, StartSteps
<1>8. CASE OpenLog(k)
  BY <1>2, <1>3, <1>8 DEF OpenLog, SetWriter, StartSteps
<1>9. CASE NoLog(k)
  BY <1>2, <1>3, <1>9 DEF NoLog, SetWriter, StartSteps
<1>10. CASE SpawnThread(k)
  BY <1>10, SpawnKeeps
<1>11. CASE StoreThread(k)
  BY <1>2, <1>3, <1>11 DEF StoreThread, StartSteps
<1>12. CASE StoreSender(k)
  BY <1>12, StoreSenderKeeps
<1> QED BY <1>4, <1>5, <1>6, <1>7, <1>8, <1>9, <1>10, <1>11, <1>12 DEF StartStep

-----------------------------------------------------------------------------
\* stop_server
LEMMA SendStopKeeps ==
    ASSUME SessionInv, NEW k \in Commands \ Servers, SendStop(k)
    PROVE  SessionInv'
<1>1. TypeOK /\ Stoppable
      /\ Step(k, "send", "take") /\ stop_tx' = None
      /\ UNCHANGED <<phase, modes, task, joined, server_thread, start_time,
                     file_writer, stopped, running, patient>>
  BY DEF SessionInv, SendStop
<1>2. pc' \in [Commands -> Pending \cup {"none", "done"}]
  BY <1>1, StepTyped DEF Pending, StopSteps
<1>3. /\ signal' \in [Servers -> {"none", "sent", "dropped"}]
      /\ \A s \in Servers : signal[s] # "none" => signal'[s] # "none"
      /\ \A s \in Servers : stop_tx = s => signal'[s] # "none"
  <2>1. CASE stop_tx = None
    BY <1>1, <2>1, NoneAssumption, ServersAssumption
       DEF SendStop, TypeOK, ServerTypeOK
  <2>2. CASE stop_tx # None
    <3>1. stop_tx \in Servers
      BY <1>1, <2>2 DEF TypeOK
    <3> QED BY <1>1, <2>2, <3>1 DEF SendStop, TypeOK, ServerTypeOK
  <2> QED BY <2>1, <2>2
<1>4. TypeOK'
  BY <1>1, <1>2, <1>3 DEF TypeOK, ServerTypeOK
<1>5. \A s \in Servers : Starting(s) => Starting(s)'
  BY <1>1, StartingKept
<1>6. Stoppable'
  BY <1>1, <1>3, <1>5 DEF Stoppable, Unfinished, Heard
<1> QED BY <1>4, <1>6 DEF SessionInv

LEMMA StopStepKeeps ==
    ASSUME SessionInv, NEW k \in Commands \ Servers, StopStep(k)
    PROVE  SessionInv'
<1>1. TypeOK /\ Stoppable
  BY DEF SessionInv
<1>2. ASSUME NEW from, NEW to \in StopSteps, Step(k, from, to),
             from \notin {"store_thread", "store_sender"},
             UNCHANGED <<serverVars, stop_tx, stopped, running, patient>>,
             joined' \in [Commands -> Servers \cup {None}],
             server_thread' \in Servers \cup {None}, start_time' \in BOOLEAN,
             file_writer' \in Servers \cup {None, RotatedFile}
      PROVE  SessionInv'
  <2>1. pc' \in [Commands -> Pending \cup {"none", "done"}]
    BY <1>1, <1>2, StepTyped DEF Pending
  <2>2. TypeOK'
    BY <1>1, <1>2, <2>1 DEF TypeOK, ServerTypeOK, serverVars
  <2>3. \A s \in Servers : Starting(s) => Starting(s)'
    BY <1>1, <1>2, StartingKept
  <2>4. Stoppable'
    BY <1>1, <1>2, <2>3, SameServers DEF serverVars
  <2> QED BY <2>2, <2>4 DEF SessionInv
<1>3. /\ joined \in [Commands -> Servers \cup {None}]
      /\ server_thread \in Servers \cup {None}
      /\ start_time \in BOOLEAN
      /\ file_writer \in Servers \cup {None, RotatedFile}
  BY <1>1 DEF TypeOK
<1>4. CASE SendStop(k)
  BY <1>4, SendStopKeeps
<1>5. CASE TakeThread(k)
  <2>1. joined' \in [Commands -> Servers \cup {None}]
    BY <1>3, <1>5 DEF TakeThread
  <2> QED BY <1>2, <1>3, <1>5, <2>1 DEF TakeThread, StopSteps
<1>6. CASE Join(k)
  <2>1. joined' \in [Commands -> Servers \cup {None}]
    BY <1>3, <1>6 DEF Join
  <2> QED BY <1>2, <1>3, <1>6, <2>1 DEF Join, StopSteps
<1>7. CASE ClearTime(k)
  BY <1>2, <1>3, <1>7 DEF ClearTime, StopSteps
<1>8. CASE CloseLog(k)
  BY <1>2, <1>3, <1>8 DEF CloseLog, SetWriter, StopSteps
<1> QED BY <1>4, <1>5, <1>6, <1>7, <1>8 DEF StopStep

-----------------------------------------------------------------------------
\* The threads of the servers, which never take a signal back.
LEMMA ThreadKeeps ==
    ASSUME SessionInv, NEW s \in Servers,
           NEW from \in Phases \ {"none", "ended", "failed"}, NEW to \in Phases,
           Go(s, from, to),
           task' \in [Servers -> [Tasks -> {"none", "spawned", "serving", "down"}]],
           stopped' \in Nat,
           UNCHANGED <<modes, signal, pc, joined, server_thread, stop_tx,
                       start_time, file_writer, running, patient>>
    PROVE  SessionInv'
<1>1. TypeOK /\ Stoppable
  BY DEF SessionInv
<1>2. /\ phase' \in [Servers -> Phases] /\ phase[s] = from
      /\ \A o \in Servers \ {s} : phase'[o] = phase[o]
  BY <1>1, GoTyped
<1>3. TypeOK'
  BY <1>1, <1>2 DEF TypeOK, ServerTypeOK
<1>4. \A o \in Servers : Unfinished(o)' => Unfinished(o)
  BY <1>2 DEF Unfinished
<1>5. \A o \in Servers : Starting(o) => Starting(o)'
  BY DEF Starting
<1>6. Stoppable'
  BY <1>1, <1>4, <1>5 DEF Stoppable, Heard
<1> QED BY <1>3, <1>6 DEF SessionInv

LEMMA TaskTyped ==
    ASSUME TypeOK, NEW s \in Servers, DropTasks(s) \/ Begin(s) \/ TaskStep(s)
    PROVE  task' \in [Servers -> [Tasks -> {"none", "spawned", "serving", "down"}]]
<1>1. task \in [Servers -> [Tasks -> {"none", "spawned", "serving", "down"}]]
  BY DEF TypeOK, ServerTypeOK
<1>2. CASE DropTasks(s)
  BY <1>1, <1>2 DEF DropTasks, NoTasks
<1>3. CASE Begin(s)
  BY <1>1, <1>3 DEF Begin
<1>4. CASE TaskStep(s)
  <2>1. PICK t \in Tasks : Bind(s, t) \/ Break(s, t)
    BY <1>4 DEF TaskStep
  <2>2. PICK v \in {"serving", "down"} : task' = [task EXCEPT ![s][t] = v]
    BY <2>1 DEF Bind, Break
  <2> QED BY <1>1, <2>2
<1> QED BY <1>2, <1>3, <1>4

LEMMA ServerStepKeeps ==
    ASSUME SessionInv, NEW s \in Servers, ServerStep(s) \/ Report(s)
    PROVE  SessionInv'
<1>1. TypeOK /\ stopped \in Nat
      /\ task \in [Servers -> [Tasks -> {"none", "spawned", "serving", "down"}]]
  BY DEF SessionInv, TypeOK, ServerTypeOK
<1>2. CASE Report(s)
  BY <1>1, <1>2, ThreadKeeps DEF Report, Phases
<1>3. CASE ServerStep(s)
  <2>1. ThreadStep(s) /\ UNCHANGED sessionVars
    BY <1>3 DEF ServerStep
  <2>2. CASE Begin(s)
    BY <1>1, <2>1, <2>2, TaskTyped, ThreadKeeps DEF Begin, Phases, sessionVars
  <2>3. CASE Refuse(s)
    BY <1>1, <2>1, <2>3, TaskTyped, ThreadKeeps
       DEF Refuse, DropTasks, Phases, sessionVars
  <2>4. CASE Notice(s)
    BY <1>1, <2>1, <2>4, TaskTyped, ThreadKeeps
       DEF Notice, DropTasks, Phases, sessionVars
  <2>5. CASE Halt(s)
    BY <1>1, <2>1, <2>5, TaskTyped, ThreadKeeps
       DEF Halt, DropTasks, Phases, sessionVars
  <2>6. CASE Leave(s)
    BY <1>1, <2>1, <2>6, ThreadKeeps DEF Leave, Phases, sessionVars
  <2> QED BY <2>1, <2>2, <2>3, <2>4, <2>5, <2>6 DEF ThreadStep
<1> QED BY <1>2, <1>3

LEMMA TaskStepKeeps ==
    ASSUME SessionInv, NEW s \in Servers, TaskStep(s), UNCHANGED sessionVars
    PROVE  SessionInv'
<1>1. TypeOK /\ Stoppable
  BY DEF SessionInv
<1>2. UNCHANGED <<phase, modes, signal>>
  BY DEF TaskStep, Bind, Break
<1>3. task' \in [Servers -> [Tasks -> {"none", "spawned", "serving", "down"}]]
  BY <1>1, TaskTyped
<1>4. TypeOK'
  BY <1>1, <1>2, <1>3 DEF TypeOK, ServerTypeOK, sessionVars
<1>5. Stoppable'
  BY <1>1, <1>2 DEF Stoppable, Unfinished, Heard, Starting, sessionVars
<1> QED BY <1>4, <1>5 DEF SessionInv

\* A rotation changes the file and nothing else.
LEMMA RotateKeeps == SessionInv /\ Rotate => SessionInv'
<1> SUFFICES ASSUME SessionInv, Rotate PROVE SessionInv'
  OBVIOUS
<1>1. /\ file_writer' = RotatedFile
      /\ UNCHANGED <<serverVars, pc, joined, server_thread, stop_tx, start_time,
                     stopped, running, patient>>
  BY DEF Rotate, SetWriter
<1>2. TypeOK'
  BY <1>1 DEF SessionInv, TypeOK, ServerTypeOK, serverVars
<1>3. Stoppable'
  BY <1>1 DEF SessionInv, Stoppable, Unfinished, Heard, Starting, serverVars
<1> QED BY <1>2, <1>3 DEF SessionInv

-----------------------------------------------------------------------------
\* The steps of Next together.
LEMMA SessionStep == SessionInv /\ [Next]_vars => SessionInv'
<1> SUFFICES ASSUME SessionInv, [Next]_vars PROVE SessionInv'
  OBVIOUS
<1>1. CASE PageStep
  BY <1>1, PageStepKeeps
<1>2. CASE \E k \in Servers : StartStep(k) \/ ServerStep(k) \/ Report(k)
  BY <1>2, StartStepKeeps, ServerStepKeeps
<1>3. CASE \E s \in Servers : TaskStep(s) /\ UNCHANGED sessionVars
  BY <1>3, TaskStepKeeps
<1>4. CASE \E k \in Commands \ Servers : StopStep(k)
  BY <1>4, StopStepKeeps
<1>5. CASE UNCHANGED vars
  BY <1>5 DEF vars, SessionInv, TypeOK, ServerTypeOK, Stoppable, Unfinished,
              Heard, Starting
<1>6. CASE Rotate
  BY <1>6, RotateKeeps
<1> QED BY <1>1, <1>2, <1>3, <1>4, <1>5, <1>6 DEF Next

\* The state of the session keeps its types, however commands overlap.
THEOREM TypeCorrect == Spec => []TypeOK
<1>1. SessionInv => TypeOK
  BY DEF SessionInv
<1> QED BY <1>1, SessionInit, SessionStep, PTL DEF Spec

\* However starts and stops overlap, no server is left running with a sender
\* that nobody has: a stop command can always reach it.
THEOREM AlwaysStoppable == Spec => []Stoppable
<1>1. SessionInv => Stoppable
  BY DEF SessionInv
<1> QED BY <1>1, SessionInit, SessionStep, PTL DEF Spec

-----------------------------------------------------------------------------
\* The user who waits: one command at a time.  What is true of the session
\* while command k is at step at.
Quiet == \A k \in Commands : pc[k] \notin Pending
Ended == \A s \in Servers : ~ Unfinished(s)

Settled ==
    /\ \A s \in Servers : Unfinished(s) =>
        server_thread = s /\ stop_tx = s /\ start_time /\ ~ Heard(s)
    /\ file_writer \in Servers => file_writer = server_thread

Course(k, at) ==
    /\ at \in {"check", "refused", "started", "send", "stopped"} => Settled
    /\ at \in {"reset", "clear", "open", "spawn", "untime", "close", "stopped"} =>
        server_thread = None /\ Ended
    /\ at \in {"reset", "clear", "open", "spawn", "store_thread", "store_sender"} =>
        stop_tx = None
    /\ at \in {"clear", "open", "spawn", "store_thread", "store_sender"} => start_time
    /\ at = "open" => file_writer \notin Servers
    /\ at \in {"spawn", "store_thread", "store_sender"} =>
        (file_writer \in Servers => file_writer = k)
    /\ at \in {"store_thread", "store_sender"} =>
        /\ k \in Servers /\ phase[k] # "none"
        /\ \A s \in Servers : Unfinished(s) => s = k /\ ~ Heard(s)
    /\ at = "store_sender" => server_thread = k
    /\ at = "take" => \A s \in Servers : Unfinished(s) => server_thread = s
    /\ at = "join" =>
        server_thread = None /\ \A s \in Servers : Unfinished(s) => joined[k] = s

\* Nobody has a sender of a server that does not exist yet.
Unborn == \A s \in Servers : phase[s] = "none" => ~ Heard(s) /\ stop_tx # s

Alone ==
    patient =>
        /\ \A k, o \in Commands : pc[k] \in Pending /\ pc[o] \in Pending => k = o
        /\ Unborn
        /\ Quiet => Settled
        /\ \A k \in Commands : Course(k, pc[k])

LEMMA AloneInit == Init => Alone
<1> SUFFICES ASSUME Init PROVE Alone
  OBVIOUS
<1>1. \A s \in Servers : phase[s] = "none" /\ signal[s] = "none"
  BY DEF Init, ServerInit
<1>2. \A k \in Commands : pc[k] = "none"
  BY DEF Init
<1>3. server_thread = None /\ stop_tx = None /\ file_writer = None
  BY DEF Init
<1>4. Unborn
  BY <1>1, <1>3, NoneAssumption, ServersAssumption DEF Unborn, Heard
<1>5. Settled
  BY <1>1, <1>3 DEF Settled, Unfinished
<1>6. \A k \in Commands : Course(k, pc[k])
  BY <1>2 DEF Course
<1> QED BY <1>2, <1>4, <1>5, <1>6 DEF Alone, Pending, StartSteps, StopSteps

\* A command goes on: nothing need be said of the others, which are not at work.
LEMMA AloneGoesOn ==
    ASSUME TypeOK, Alone, patient, NEW k \in Commands, NEW from \in Pending,
           NEW to \in Pending \cup {"done"}, Step(k, from, to), Unborn',
           Course(k, to)', to = "done" => Settled'
    PROVE  Alone'
<1>1. /\ pc' \in [Commands -> Pending \cup {"none", "done"}]
      /\ pc'[k] = to /\ pc[k] = from
      /\ \A o \in Commands \ {k} : pc'[o] = pc[o]
  BY StepTyped
<1>2. \A o \in Commands \ {k} : pc[o] \notin Pending
  BY <1>1 DEF Alone
<1>3. \A o \in Commands \ {k} : pc'[o] \in {"none", "done"}
  BY <1>1, <1>2 DEF TypeOK
<1>4. \A o \in Commands : pc'[o] \in Pending => o = k
  BY <1>1, <1>2
<1>5. Quiet' => Settled'
  <2> SUFFICES ASSUME Quiet' PROVE Settled'
    OBVIOUS
  <2>1. pc'[k] \notin Pending
    BY DEF Quiet
  <2>2. to \notin Pending
    BY <1>1, <2>1
  <2>3. to = "done"
    BY <2>2
  <2> QED BY <2>3
<1>6. \A o \in Commands : Course(o, pc[o])'
  <2>1. TAKE o \in Commands
  <2>2. CASE o = k
    BY <1>1, <2>2 DEF Course
  <2>3. CASE o # k
    BY <1>3, <2>1, <2>3 DEF Course
  <2> QED BY <2>2, <2>3
<1> QED BY <1>4, <1>5, <1>6 DEF Alone

\* What the proofs about a step take from the invariants.
LEMMA AloneAt ==
    ASSUME TypeOK, Alone, patient, NEW k \in Commands, NEW from \in Pending,
           NEW to, Step(k, from, to)
    PROVE  Unborn /\ Course(k, from)
BY DEF Alone, Step

LEMMA AlonePage ==
    ASSUME TypeOK, Alone, PageStep, patient
    PROVE  Alone'
<1>1. CASE ServerStopped
  <2>1. UNCHANGED <<phase, signal, pc, joined, server_thread, stop_tx,
                    start_time, file_writer, patient>>
    BY <1>1 DEF ServerStopped, Show, serverVars
  <2> QED BY <2>1 DEF Alone, Unborn, Quiet, Settled, Course, Unfinished, Heard,
                      Ended
<1>2. ASSUME NEW k \in Commands, NEW first \in {"check", "send"}, Issue(k, first)
      PROVE  Alone'
  <2>1. Step(k, "none", first) /\ (\A o \in Commands : pc[o] \notin Pending)
        /\ UNCHANGED <<phase, signal, joined, server_thread, stop_tx,
                       start_time, file_writer, patient>>
    BY <1>2 DEF Issue, serverVars
  <2>2. first \in Pending
    BY DEF Pending, StartSteps, StopSteps
  <2>3. /\ pc'[k] = first
        /\ \A o \in Commands \ {k} : pc'[o] = pc[o]
    BY <2>1, <2>2, StepTyped
  <2>4. Settled /\ Unborn
    BY <2>1 DEF Alone, Quiet
  <2>5. Settled' /\ Unborn'
    BY <2>1, <2>4 DEF Settled, Unborn, Unfinished, Heard
  <2>6. \A o \in Commands \ {k} : pc'[o] \in {"none", "done"}
    BY <2>1, <2>3 DEF TypeOK
  <2>7. \A o \in Commands : Course(o, pc[o])'
    BY <2>3, <2>5, <2>6 DEF Course
  <2>8. \A o \in Commands : pc'[o] \in Pending => o = k
    BY <2>1, <2>3
  <2> QED BY <2>5, <2>7, <2>8 DEF Alone
<1>3. ASSUME NEW k \in Commands, NEW from \in {"started", "refused", "stopped"},
             NEW value, Step(k, from, "done"), Show(value)
      PROVE  Alone'
  <2>1. from \in Pending
    BY DEF Pending, StartSteps, StopSteps
  <2>2. Unborn /\ Course(k, from)
    BY <1>3, <2>1, AloneAt
  <2>3. UNCHANGED <<phase, signal, joined, server_thread, stop_tx, start_time,
                    file_writer, patient>>
    BY <1>3 DEF Show, serverVars
  <2>4. Unborn' /\ Settled'
    BY <2>2, <2>3 DEF Course, Settled, Unborn, Unfinished, Heard
  <2>5. Course(k, "done")'
    BY DEF Course
  <2> QED BY <1>3, <2>1, <2>4, <2>5, AloneGoesOn
<1>4. ASSUME NEW k \in Commands, ClickStart(k) \/ ClickStop(k)
      PROVE  Alone'
  BY <1>2, <1>4 DEF ClickStart, ClickStop
<1>5. ASSUME NEW k \in Commands,
             StartResolved(k) \/ StartRejected(k) \/ StopResolved(k)
      PROVE  Alone'
  BY <1>3, <1>5 DEF StartResolved, StartRejected, StopResolved
<1> QED BY <1>1, <1>4, <1>5 DEF PageStep

LEMMA AloneCheck ==
    ASSUME TypeOK, Alone, patient, NEW k \in Servers, Check(k)
    PROVE  Alone'
<1>1. k \in Commands /\ ReplaceSender(None) /\ Step(k, "check", "reset")
      /\ server_thread' = None
      /\ UNCHANGED <<phase, joined, start_time, file_writer, patient>>
  BY ServersAssumption DEF Check
<1>2. "check" \in Pending /\ "reset" \in Pending
  BY DEF Pending, StartSteps
<1>3. Unborn /\ Course(k, "check")
  BY <1>1, <1>2, AloneAt
<1>4. Ended
  <2>1. \A s \in Servers : Unfinished(s) => server_thread = s
    BY <1>3 DEF Course, Settled
  <2>2. server_thread # None => ~ Unfinished(server_thread)
    BY DEF Check
  <2>3. None \notin Servers
    BY NoneAssumption, ServersAssumption
  <2> QED BY <2>1, <2>2, <2>3 DEF Ended
<1>5. stop_tx' = None
  BY <1>1 DEF ReplaceSender
<1>6. \A s \in Servers : phase[s] = "none" => signal'[s] = signal[s]
  <2>1. CASE stop_tx = None
    BY <1>1, <2>1 DEF ReplaceSender
  <2>2. CASE stop_tx # None
    BY <1>1, <1>3, <2>2 DEF ReplaceSender, Unborn, TypeOK, ServerTypeOK
  <2> QED BY <2>1, <2>2
<1>7. Unborn'
  BY <1>1, <1>3, <1>5, <1>6, NoneAssumption, ServersAssumption DEF Unborn, Heard
<1>8. Ended'
  BY <1>1, <1>4 DEF Ended, Unfinished
<1>9. Course(k, "reset")'
  BY <1>1, <1>5, <1>8 DEF Course
<1> QED BY <1>1, <1>2, <1>7, <1>9, AloneGoesOn

LEMMA AloneSpawn ==
    ASSUME TypeOK, Alone, patient, NEW k \in Servers, SpawnThread(k)
    PROVE  Alone'
<1>1. k \in Commands /\ Step(k, "spawn", "store_thread") /\ Go(k, "none", "new")
      /\ UNCHANGED <<signal, joined, server_thread, stop_tx, start_time,
                     file_writer, patient>>
  BY ServersAssumption DEF SpawnThread, Spawn
<1>2. "spawn" \in Pending /\ "store_thread" \in Pending
  BY DEF Pending, StartSteps
<1>3. Unborn /\ Course(k, "spawn")
  BY <1>1, <1>2, AloneAt
<1>4. /\ phase'[k] = "new" /\ phase[k] = "none"
      /\ \A o \in Servers \ {k} : phase'[o] = phase[o]
  BY <1>1, GoTyped DEF Phases
<1>5. Unborn'
  BY <1>1, <1>3, <1>4 DEF Unborn, Heard
<1>6. \A s \in Servers : Unfinished(s)' => s = k /\ ~ Heard(s)'
  BY <1>1, <1>3, <1>4 DEF Unborn, Course, Ended, Unfinished, Heard
<1>7. Course(k, "store_thread")'
  BY <1>1, <1>3, <1>4, <1>6 DEF Course
<1> QED BY <1>1, <1>2, <1>5, <1>7, AloneGoesOn

LEMMA AloneStoreSender ==
    ASSUME TypeOK, Alone, patient, NEW k \in Servers, StoreSender(k)
    PROVE  Alone'
<1>1. k \in Commands /\ ReplaceSender(k) /\ Step(k, "store_sender", "started")
      /\ UNCHANGED <<phase, joined, server_thread, start_time, file_writer, patient>>
  BY ServersAssumption DEF StoreSender
<1>2. "store_sender" \in Pending /\ "started" \in Pending
  BY DEF Pending, StartSteps
<1>3. Unborn /\ Course(k, "store_sender")
  BY <1>1, <1>2, AloneAt
<1>4. signal' = signal /\ stop_tx' = k
  BY <1>1, <1>3 DEF Course, ReplaceSender
<1>5. Unborn'
  BY <1>1, <1>3, <1>4 DEF Unborn, Course, Heard
<1>6. Settled'
  BY <1>1, <1>3, <1>4 DEF Settled, Course, Unfinished, Heard
<1>7. Course(k, "started")'
  BY <1>6 DEF Course
<1> QED BY <1>1, <1>2, <1>5, <1>7, AloneGoesOn

LEMMA AloneStart ==
    ASSUME TypeOK, Alone, patient, NEW k \in Servers, StartStep(k)
    PROVE  Alone'
<1>1. k \in Commands
  BY ServersAssumption
<1>2. ASSUME NEW from \in StartSteps, NEW to \in StartSteps, Step(k, from, to),
             UNCHANGED <<phase, signal, stop_tx, patient>>,
             Course(k, from) => Course(k, to)'
      PROVE  Alone'
  <2>1. from \in Pending /\ to \in Pending /\ to # "done"
    BY DEF Pending, StartSteps
  <2>2. Unborn /\ Course(k, from)
    BY <1>1, <1>2, <2>1, AloneAt
  <2>3. Unborn'
    BY <1>2, <2>2 DEF Unborn, Heard
  <2> QED BY <1>1, <1>2, <2>1, <2>2, <2>3, AloneGoesOn
<1>3. CASE Check(k)
  BY <1>3, AloneCheck
<1>4. CASE AlreadyRunning(k)
  <2>1. Course(k, "check") => Course(k, "refused")'
    BY <1>4 DEF AlreadyRunning, Course, Settled, Unfinished, Heard, serverVars
  <2> QED BY <1>2, <1>4, <2>1 DEF AlreadyRunning, StartSteps, serverVars
<1>5. CASE Reset(k)
  <2>1. Course(k, "reset") => Course(k, "clear")'
    BY <1>5 DEF Reset, Course, Ended, Unfinished, serverVars
  <2> QED BY <1>2, <1>5, <2>1 DEF Reset, StartSteps, serverVars
<1>6. CASE ClearWriter(k)
  <2>1. Course(k, "clear") => Course(k, "open")'
    BY <1>6, NoneAssumption, ServersAssumption
       DEF ClearWriter, SetWriter, Course, Ended, Unfinished, serverVars
  <2> QED BY <1>2, <1>6, <2>1 DEF ClearWriter, SetWriter, StartSteps, serverVars
<1>7. CASE OpenLog(k)
  <2>1. Course(k, "open") => Course(k, "spawn")'
    BY <1>7 DEF OpenLog, SetWriter, Course, Ended, Unfinished, serverVars
  <2> QED BY <1>2, <1>7, <2>1 DEF OpenLog, SetWriter, StartSteps, serverVars
<1>8. CASE NoLog(k)
  <2>1. Course(k, "open") => Course(k, "spawn")'
    BY <1>8 DEF NoLog, SetWriter, Course, Ended, Unfinished, serverVars
  <2> QED BY <1>2, <1>8, <2>1 DEF NoLog, SetWriter, StartSteps, serverVars
<1>9. CASE SpawnThread(k)
  BY <1>9, AloneSpawn
<1>10. CASE StoreThread(k)
  <2>1. Course(k, "store_thread") => Course(k, "store_sender")'
    BY <1>10 DEF StoreThread, Course, Unfinished, Heard, serverVars
  <2> QED BY <1>2, <1>10, <2>1 DEF StoreThread, StartSteps, serverVars
<1>11. CASE StoreSender(k)
  BY <1>11, AloneStoreSender
<1> QED BY <1>3, <1>4, <1>5, <1>6, <1>7, <1>8, <1>9, <1>10, <1>11 DEF StartStep

LEMMA AloneStop ==
    ASSUME TypeOK, Alone, patient, NEW k \in Commands \ Servers, StopStep(k)
    PROVE  Alone'
<1>1. None \notin Servers
  BY NoneAssumption, ServersAssumption
<1>2. ASSUME NEW from \in StopSteps, NEW to \in StopSteps, Step(k, from, to),
             UNCHANGED <<phase, patient>>, Unborn => Unborn',
             Course(k, from) => Course(k, to)'
      PROVE  Alone'
  <2>1. from \in Pending /\ to \in Pending /\ to # "done"
    BY DEF Pending, StopSteps
  <2>2. Unborn /\ Course(k, from)
    BY <1>2, <2>1, AloneAt
  <2> QED BY <1>2, <2>1, <2>2, AloneGoesOn
<1>3. CASE SendStop(k)
  <2>1. Course(k, "send") => Course(k, "take")'
    BY <1>3 DEF SendStop, Course, Settled, Unfinished
  <2>2. Unborn => Unborn'
    <3> SUFFICES ASSUME Unborn PROVE Unborn'
      OBVIOUS
    <3>1. \A s \in Servers : phase[s] = "none" => signal'[s] = signal[s]
      <4>1. CASE stop_tx = None
        BY <1>3, <4>1 DEF SendStop
      <4>2. CASE stop_tx # None
        BY <1>3, <4>2 DEF SendStop, Unborn, TypeOK, ServerTypeOK
      <4> QED BY <4>1, <4>2
    <3> QED BY <1>1, <1>3, <3>1 DEF SendStop, Unborn, Heard
  <2> QED BY <1>2, <1>3, <2>1, <2>2 DEF SendStop, StopSteps
<1>4. CASE TakeThread(k)
  <2>1. joined'[k] = server_thread
    BY <1>4 DEF TakeThread, TypeOK
  <2>2. Course(k, "take") => Course(k, "join")'
    BY <1>4, <2>1 DEF TakeThread, Course, Unfinished, serverVars
  <2>3. Unborn => Unborn'
    BY <1>4 DEF TakeThread, Unborn, Heard, serverVars
  <2> QED BY <1>2, <1>4, <2>2, <2>3 DEF TakeThread, StopSteps, serverVars
<1>5. CASE Join(k)
  <2>1. Course(k, "join") => Ended
    BY <1>1, <1>5 DEF Join, Joinable, Course, Ended
  <2>2. Course(k, "join") => Course(k, "untime")'
    BY <1>5, <2>1 DEF Join, Course, Ended, Unfinished, serverVars
  <2>3. Unborn => Unborn'
    BY <1>5 DEF Join, Unborn, Heard, serverVars
  <2> QED BY <1>2, <1>5, <2>2, <2>3 DEF Join, StopSteps, serverVars
<1>6. CASE ClearTime(k)
  <2>1. Course(k, "untime") => Course(k, "close")'
    BY <1>6 DEF ClearTime, Course, Ended, Unfinished, serverVars
  <2>2. Unborn => Unborn'
    BY <1>6 DEF ClearTime, Unborn, Heard, serverVars
  <2> QED BY <1>2, <1>6, <2>1, <2>2 DEF ClearTime, StopSteps, serverVars
<1>7. CASE CloseLog(k)
  <2>1. Course(k, "close") => Course(k, "stopped")'
    BY <1>1, <1>7
       DEF CloseLog, SetWriter, Course, Settled, Ended, Unfinished, serverVars
  <2>2. Unborn => Unborn'
    BY <1>7 DEF CloseLog, SetWriter, Unborn, Heard, serverVars
  <2> QED BY <1>2, <1>7, <2>1, <2>2 DEF CloseLog, SetWriter, StopSteps, serverVars
<1> QED BY <1>3, <1>4, <1>5, <1>6, <1>7 DEF StopStep

\* The threads and tasks of the servers: one that exists goes on.
Onward ==
    /\ UNCHANGED <<signal, pc, joined, server_thread, stop_tx, start_time,
                   file_writer, patient>>
    /\ \A s \in Servers : /\ Unfinished(s)' => Unfinished(s)
                          /\ phase'[s] = "none" <=> phase[s] = "none"

LEMMA ServersOnward ==
    ASSUME TypeOK, NEW s \in Servers,
           ServerStep(s) \/ Report(s) \/ (TaskStep(s) /\ UNCHANGED sessionVars)
    PROVE  Onward
<1>1. ASSUME NEW from \in Phases \ {"none", "ended", "failed"},
             NEW to \in Phases \ {"none"}, Go(s, from, to),
             UNCHANGED <<signal, pc, joined, server_thread, stop_tx, start_time,
                         file_writer, patient>>
      PROVE  Onward
  <2>1. /\ phase'[s] = to /\ phase[s] = from
        /\ \A o \in Servers \ {s} : phase'[o] = phase[o]
    BY <1>1, GoTyped
  <2> QED BY <1>1, <2>1 DEF Onward, Unfinished
<1>2. CASE Report(s)
  BY <1>1, <1>2 DEF Report, Phases
<1>3. CASE ServerStep(s)
  <2>1. ThreadStep(s) /\ UNCHANGED sessionVars
    BY <1>3 DEF ServerStep
  <2>2. CASE Begin(s)
    BY <1>1, <2>1, <2>2 DEF Begin, Phases, sessionVars
  <2>3. CASE Refuse(s)
    BY <1>1, <2>1, <2>3 DEF Refuse, DropTasks, Phases, sessionVars
  <2>4. CASE Notice(s)
    BY <1>1, <2>1, <2>4 DEF Notice, DropTasks, Phases, sessionVars
  <2>5. CASE Halt(s)
    BY <1>1, <2>1, <2>5 DEF Halt, DropTasks, Phases, sessionVars
  <2>6. CASE Leave(s)
    BY <1>1, <2>1, <2>6 DEF Leave, Phases, sessionVars
  <2> QED BY <2>1, <2>2, <2>3, <2>4, <2>5, <2>6 DEF ThreadStep
<1>4. CASE TaskStep(s) /\ UNCHANGED sessionVars
  BY <1>4 DEF Onward, TaskStep, Bind, Break, sessionVars, Unfinished
<1> QED BY <1>2, <1>3, <1>4

LEMMA AloneOnward ==
    ASSUME Alone, patient, Onward
    PROVE  Alone'
<1>1. Unborn'
  BY DEF Alone, Onward, Unborn, Heard
<1>2. Settled => Settled'
  BY DEF Onward, Settled, Heard
<1>3. Ended => Ended'
  BY DEF Onward, Ended
<1>4. ASSUME NEW k \in Commands
      PROVE  Course(k, pc[k])'
  <2>1. Course(k, pc[k]) /\ pc'[k] = pc[k] /\ joined'[k] = joined[k]
    BY DEF Alone, Onward
  <2>2. k \in Servers => (phase'[k] = "none" <=> phase[k] = "none")
    BY DEF Onward
  <2> QED BY <1>2, <1>3, <2>1, <2>2 DEF Course, Onward, Heard
<1> QED BY <1>1, <1>2, <1>4 DEF Alone, Onward, Quiet

\* A rotation: what it opens was opened by no start command.
LEMMA AloneRotate ==
    ASSUME Alone, patient, Rotate
    PROVE  Alone'
<1>1. /\ UNCHANGED <<phase, signal, pc, joined, server_thread, stop_tx,
                     start_time, patient>>
      /\ file_writer' \notin Servers
  BY RotatedFileAssumption, ServersAssumption DEF Rotate, SetWriter, serverVars
<1>2. Unborn'
  BY <1>1 DEF Alone, Unborn, Heard
<1>3. Settled => Settled'
  BY <1>1 DEF Settled, Unfinished, Heard
<1>4. Ended => Ended'
  BY <1>1 DEF Ended, Unfinished
<1>5. ASSUME NEW k \in Commands
      PROVE  Course(k, pc[k])'
  <2>1. Course(k, pc[k]) /\ pc'[k] = pc[k]
    BY <1>1 DEF Alone
  <2> QED BY <1>1, <1>3, <1>4, <2>1 DEF Course, Unfinished, Heard
<1> QED BY <1>1, <1>2, <1>3, <1>5 DEF Alone, Quiet

\* How the user behaves is settled at the start.
LEMMA PatientKept == Next => patient' = patient
<1>1. PageStep => patient' = patient
  BY DEF PageStep, ServerStopped, ClickStart, ClickStop, Issue, StartResolved,
         StartRejected, StopResolved, Show
<1>2. \A k \in Servers : StartStep(k) => patient' = patient
  BY DEF StartStep, Check, AlreadyRunning, Reset, ClearWriter, OpenLog, NoLog,
         SetWriter, SpawnThread, StoreThread, StoreSender
<1>3. \A k \in Commands : StopStep(k) => patient' = patient
  BY DEF StopStep, SendStop, TakeThread, Join, ClearTime, CloseLog, SetWriter
<1>4. \A s \in Servers : ServerStep(s) \/ Report(s) => patient' = patient
  BY DEF ServerStep, Report, sessionVars
<1>5. Rotate => patient' = patient
  BY DEF Rotate, SetWriter
<1> QED BY <1>1, <1>2, <1>3, <1>4, <1>5 DEF Next, sessionVars

LEMMA AloneStep == TypeOK /\ Alone /\ [Next]_vars => Alone'
<1> SUFFICES ASSUME TypeOK, Alone, [Next]_vars, patient' PROVE Alone'
  BY DEF Alone
<1>1. CASE UNCHANGED vars
  BY <1>1 DEF vars, Alone, Unborn, Quiet, Settled, Course, Unfinished, Heard, Ended
<1>2. CASE Next
  <2>1. patient
    BY <1>2, PatientKept
  <2>2. CASE PageStep
    BY <2>1, <2>2, AlonePage
  <2>3. CASE \E k \in Servers : StartStep(k) \/ ServerStep(k) \/ Report(k)
    BY <2>1, <2>3, AloneStart, ServersOnward, AloneOnward
  <2>4. CASE \E s \in Servers : TaskStep(s) /\ UNCHANGED sessionVars
    BY <2>1, <2>4, ServersOnward, AloneOnward
  <2>5. CASE \E k \in Commands \ Servers : StopStep(k)
    BY <2>1, <2>5, AloneStop
  <2>6. CASE Rotate
    BY <2>1, <2>6, AloneRotate
  <2> QED BY <1>2, <2>2, <2>3, <2>4, <2>5, <2>6 DEF Next
<1> QED BY <1>1, <1>2

\* When the user waits for answers and no command is at work, thread, sender and
\* start time are those of the server that runs, and so is the log file unless
\* a rotation of the poll task has opened it.
THEOREM SessionAgreement == Spec => []SessionAgrees
<1>1. TypeOK /\ Alone => SessionAgrees
  BY DEF SessionAgrees, Alone, Idle, Quiet, Settled
<1>2. Init => Alone
  BY AloneInit
<1>3. TypeOK /\ Alone /\ [Next]_vars => Alone'
  BY AloneStep
<1> QED BY <1>1, <1>2, <1>3, TypeCorrect, PTL DEF Spec

-----------------------------------------------------------------------------
\* What the page shows, as long as no server has failed by itself.
Clean == \A s \in Servers : phase[s] \in {"none", "new", "waiting", "ended"}

Seen(k, at) ==
    /\ at = "check" => Ended
    /\ at # "refused"
    /\ at \in {"store_thread", "store_sender", "started"} =>
        k \in Servers /\ Unfinished(k)

Honest ==
    patient /\ Clean =>
        /\ stopped = 0
        /\ Quiet => (running <=> ~ Ended)
        /\ \A k \in Commands : Seen(k, pc[k])

LEMMA HonestInit == Init => Honest
<1> SUFFICES ASSUME Init PROVE Honest
  OBVIOUS
<1>1. Ended
  BY DEF Init, ServerInit, Ended, Unfinished
<1>2. \A k \in Commands : pc[k] = "none"
  BY DEF Init
<1>3. stopped = 0 /\ running = FALSE
  BY DEF Init
<1>4. \A k \in Commands : Seen(k, pc[k])
  BY <1>2 DEF Seen
<1> QED BY <1>1, <1>3, <1>4 DEF Honest

LEMMA HonestGoesOn ==
    ASSUME TypeOK, Alone, patient, Honest,
           NEW k \in Commands, NEW from \in Pending,
           NEW to \in Pending \cup {"done"}, Step(k, from, to), stopped' = stopped,
           Clean' => Clean, Seen(k, from) /\ Clean => Seen(k, to)',
           Seen(k, from) /\ to = "done" => (running' <=> ~ Ended')
    PROVE  Honest'
<1> SUFFICES ASSUME Clean' PROVE Honest'
  BY DEF Honest
<1>1. /\ pc' \in [Commands -> Pending \cup {"none", "done"}]
      /\ pc'[k] = to /\ pc[k] = from
      /\ \A o \in Commands \ {k} : pc'[o] = pc[o]
  BY StepTyped
<1>2. Clean /\ Seen(k, from) /\ stopped' = 0
  BY <1>1 DEF Honest
<1>3. \A o \in Commands \ {k} : pc[o] \notin Pending
  BY <1>1 DEF Alone
<1>4. \A o \in Commands \ {k} : pc'[o] \in {"none", "done"}
  BY <1>1, <1>3 DEF TypeOK
<1>5. \A o \in Commands : Seen(o, pc[o])'
  <2>1. TAKE o \in Commands
  <2>2. CASE o = k
    BY <1>1, <1>2, <2>2 DEF Seen
  <2>3. CASE o # k
    BY <1>4, <2>1, <2>3 DEF Seen
  <2> QED BY <2>2, <2>3
<1>6. Quiet' => (running' <=> ~ Ended')
  <2> SUFFICES ASSUME Quiet' PROVE running' <=> ~ Ended'
    OBVIOUS
  <2>1. pc'[k] \notin Pending
    BY DEF Quiet
  <2>2. to = "done"
    BY <1>1, <2>1
  <2> QED BY <1>2, <2>2
<1> QED BY <1>2, <1>5, <1>6 DEF Honest

LEMMA HonestPage ==
    ASSUME TypeOK, Alone, Honest, PageStep, patient
    PROVE  Honest'
<1>1. CASE ServerStopped
  <2>1. stopped # 0 /\ phase' = phase
    BY <1>1 DEF ServerStopped, Show, serverVars, TypeOK
  <2> QED BY <2>1 DEF Honest, Clean
<1>2. ASSUME NEW k \in Commands, NEW first \in {"check", "send"}, Issue(k, first),
             first = "check" => ~ running
      PROVE  Honest'
  <2> SUFFICES ASSUME Clean' PROVE Honest'
    BY DEF Honest
  <2>1. Step(k, "none", first) /\ (\A o \in Commands : pc[o] \notin Pending)
        /\ UNCHANGED <<phase, stopped>>
    BY <1>2 DEF Issue, serverVars
  <2>2. first \in Pending
    BY DEF Pending, StartSteps, StopSteps
  <2>3. /\ pc'[k] = first
        /\ \A o \in Commands \ {k} : pc'[o] = pc[o]
    BY <2>1, <2>2, StepTyped
  <2>4. Clean /\ stopped' = 0
    BY <2>1 DEF Clean, Honest
  <2>5. first = "check" => Ended'
    BY <1>2, <2>1, <2>4 DEF Honest, Quiet, Ended, Unfinished
  <2>6. \A o \in Commands \ {k} : pc'[o] \in {"none", "done"}
    BY <2>1, <2>3 DEF TypeOK
  <2>7. \A o \in Commands : Seen(o, pc[o])'
    BY <2>3, <2>5, <2>6 DEF Seen
  <2>8. ~ Quiet'
    BY <2>2, <2>3 DEF Quiet
  <2> QED BY <2>4, <2>7, <2>8 DEF Honest
<1>3. ASSUME NEW k \in Commands, NEW from \in {"started", "refused", "stopped"},
             NEW value, Step(k, from, "done"), Show(value), UNCHANGED stopped,
             Seen(k, from) => (running' <=> ~ Ended')
      PROVE  Honest'
  <2>1. from \in Pending
    BY DEF Pending, StartSteps, StopSteps
  <2>2. Clean' => Clean
    BY <1>3 DEF Show, serverVars, Clean
  <2>3. Seen(k, "done")'
    BY DEF Seen
  <2> QED BY <1>3, <2>1, <2>2, <2>3, HonestGoesOn
<1>4. ASSUME NEW k \in Commands, ClickStart(k) \/ ClickStop(k)
      PROVE  Honest'
  BY <1>2, <1>4 DEF ClickStart, ClickStop
<1>5. ASSUME NEW k \in Commands, StartResolved(k)
      PROVE  Honest'
  <2>1. running' = TRUE /\ phase' = phase
    BY <1>5 DEF StartResolved, Show, serverVars
  <2>2. Seen(k, "started") => (running' <=> ~ Ended')
    BY <2>1 DEF Seen, Ended, Unfinished
  <2> QED BY <1>3, <1>5, <2>2 DEF StartResolved
<1>6. ASSUME NEW k \in Commands, StartRejected(k)
      PROVE  Honest'
  BY <1>3, <1>6 DEF StartRejected, Seen
<1>7. ASSUME NEW k \in Commands, StopResolved(k)
      PROVE  Honest'
  <2>1. Step(k, "stopped", "done") /\ running' = FALSE /\ phase' = phase
    BY <1>7 DEF StopResolved, Show, serverVars
  <2>2. Course(k, "stopped")
    BY <2>1, AloneAt DEF Pending, StopSteps
  <2>3. Ended'
    BY <2>1, <2>2 DEF Course, Ended, Unfinished
  <2>4. running' <=> ~ Ended'
    BY <2>1, <2>3
  <2> QED BY <1>3, <1>7, <2>4 DEF StopResolved
<1> QED BY <1>1, <1>4, <1>5, <1>6, <1>7 DEF PageStep

LEMMA HonestStart ==
    ASSUME TypeOK, Alone, Honest, patient, NEW k \in Servers, StartStep(k)
    PROVE  Honest'
<1>1. k \in Commands
  BY ServersAssumption
<1>2. ASSUME NEW from \in StartSteps, NEW to \in StartSteps, Step(k, from, to),
             UNCHANGED <<phase, stopped>>,
             Clean => (Seen(k, from) => Seen(k, to)')
      PROVE  Honest'
  <2>1. from \in Pending /\ to \in Pending /\ to # "done"
    BY DEF Pending, StartSteps
  <2>2. Clean' => Clean
    BY <1>2 DEF Clean
  <2> QED BY <1>1, <1>2, <2>1, <2>2, HonestGoesOn
<1>3. CASE Check(k)
  <2>1. Seen(k, "reset")'
    BY DEF Seen
  <2> QED BY <1>2, <1>3, <2>1 DEF Check, StartSteps
<1>4. CASE AlreadyRunning(k)
  <2>1. ~ Seen(k, "check")
    <3>1. server_thread \in Servers
      BY <1>4 DEF AlreadyRunning, TypeOK
    <3> QED BY <1>4, <3>1 DEF AlreadyRunning, Seen, Ended
  <2> QED BY <1>2, <1>4, <2>1 DEF AlreadyRunning, StartSteps, serverVars
<1>5. CASE Reset(k)
  <2>1. Seen(k, "clear")'
    BY DEF Seen
  <2> QED BY <1>2, <1>5, <2>1 DEF Reset, StartSteps, serverVars
<1>6. CASE ClearWriter(k)
  <2>1. Seen(k, "open")'
    BY DEF Seen
  <2> QED BY <1>2, <1>6, <2>1 DEF ClearWriter, SetWriter, StartSteps, serverVars
<1>7. CASE OpenLog(k) \/ NoLog(k)
  <2>1. Seen(k, "spawn")'
    BY DEF Seen
  <2> QED BY <1>2, <1>7, <2>1 DEF OpenLog, NoLog, SetWriter, StartSteps, serverVars
<1>8. CASE SpawnThread(k)
  <2>1. Go(k, "none", "new") /\ Step(k, "spawn", "store_thread")
        /\ UNCHANGED <<stopped, running>>
    BY <1>8 DEF SpawnThread, Spawn
  <2>2. /\ phase'[k] = "new" /\ phase[k] = "none"
        /\ \A o \in Servers \ {k} : phase'[o] = phase[o]
    BY <2>1, GoTyped DEF Phases
  <2>3. Clean' => Clean
    BY <2>2 DEF Clean
  <2>4. Seen(k, "store_thread")'
    BY <2>2 DEF Seen, Unfinished
  <2>5. "spawn" \in Pending /\ "store_thread" \in Pending /\ "store_thread" # "done"
    BY DEF Pending, StartSteps
  <2> QED BY <1>1, <2>1, <2>3, <2>4, <2>5, HonestGoesOn
<1>9. CASE StoreThread(k)
  <2>1. Seen(k, "store_thread") => Seen(k, "store_sender")'
    BY <1>9 DEF StoreThread, Seen, Unfinished, serverVars
  <2> QED BY <1>2, <1>9, <2>1 DEF StoreThread, StartSteps, serverVars
<1>10. CASE StoreSender(k)
  <2>1. Seen(k, "store_sender") => Seen(k, "started")'
    BY <1>10 DEF StoreSender, Seen, Unfinished
  <2> QED BY <1>2, <1>10, <2>1 DEF StoreSender, StartSteps
<1> QED BY <1>3, <1>4, <1>5, <1>6, <1>7, <1>8, <1>9, <1>10 DEF StartStep

LEMMA HonestStop ==
    ASSUME TypeOK, Alone, Honest, patient, NEW k \in Commands \ Servers, StopStep(k)
    PROVE  Honest'
<1>1. PICK from \in StopSteps, to \in StopSteps :
        Step(k, from, to) /\ UNCHANGED <<phase, stopped>>
  BY DEF StopStep, SendStop, TakeThread, Join, ClearTime, CloseLog, SetWriter,
         serverVars, StopSteps
<1>2. from \in Pending /\ to \in Pending /\ to # "done"
  BY DEF Pending, StopSteps
<1>3. Clean' => Clean
  BY <1>1 DEF Clean
<1>4. Seen(k, to)'
  BY DEF Seen, StopSteps
<1> QED BY <1>1, <1>2, <1>3, <1>4, HonestGoesOn

\* A server that has not failed has begun, or was told to stop by a command that
\* is still at work.
LEMMA HonestServer ==
    ASSUME TypeOK, Alone, Honest, patient, NEW s \in Servers,
           ServerStep(s) \/ Report(s) \/ (TaskStep(s) /\ UNCHANGED sessionVars)
    PROVE  Honest'
<1> SUFFICES ASSUME Clean' PROVE Honest'
  BY DEF Honest
<1>1. Onward
  BY ServersOnward
<1>2. phase' \in [Servers -> Phases]
  BY GoTyped DEF Phases, ServerStep, ThreadStep, Begin, Refuse, Notice, Halt, Leave,
     Report, TaskStep, Bind, Break, TypeOK, ServerTypeOK
<1>3. ~ Refuse(s) /\ ~ Notice(s) /\ ~ Report(s) /\ ~ Leave(s)
  BY GoTyped DEF Clean, Refuse, Notice, Report, Leave, Phases
<1>4. UNCHANGED <<stopped, running, pc>>
  BY <1>1, <1>3 DEF ServerStep, sessionVars
<1>5. ASSUME UNCHANGED phase \/ Go(s, "new", "waiting")
      PROVE  Honest'
  <2>1. Clean /\ \A o \in Servers : Unfinished(o)' <=> Unfinished(o)
    BY <1>5, GoTyped DEF Clean, Unfinished, Phases
  <2>2. Ended' <=> Ended
    BY <2>1 DEF Ended
  <2>3. \A k \in Commands : Seen(k, pc[k]) => Seen(k, pc[k])'
    BY <1>4, <2>1, <2>2 DEF Seen
  <2> QED BY <1>4, <2>1, <2>2, <2>3 DEF Honest, Quiet
<1>6. CASE TaskStep(s) /\ UNCHANGED sessionVars
  BY <1>5, <1>6 DEF TaskStep, Bind, Break
<1>7. CASE Begin(s)
  BY <1>5, <1>7 DEF Begin
<1>8. CASE Halt(s)
  <2>1. PICK from \in {"new", "waiting"} : Go(s, from, "ended")
    BY <1>8 DEF Halt
  <2>2. /\ phase[s] = from
        /\ \A o \in Servers \ {s} : phase'[o] = phase[o]
    BY <2>1, GoTyped DEF Phases
  <2>3. Clean /\ Unfinished(s) /\ Heard(s)
    BY <1>8, <2>2 DEF Clean, Unfinished, Halt
  <2>4. ~ Settled
    BY <2>3 DEF Settled
  <2>5. ~ Quiet'
    BY <1>4, <2>4 DEF Alone, Quiet
  <2>6. ASSUME NEW k \in Commands
        PROVE  Seen(k, pc[k])'
    <3>1. Course(k, pc[k]) /\ Seen(k, pc[k])
      BY <2>3 DEF Alone, Honest
    <3>2. pc[k] \notin {"check", "refused", "store_thread", "store_sender",
                        "started"}
      BY <2>3, <2>4, <3>1 DEF Course
    <3> QED BY <1>4, <3>2 DEF Seen
  <2>7. stopped' = 0
    BY <1>4, <2>3 DEF Honest
  <2> QED BY <2>5, <2>6, <2>7 DEF Honest
<1> QED BY <1>3, <1>6, <1>7, <1>8 DEF ServerStep, ThreadStep

LEMMA HonestStep == TypeOK /\ Alone /\ Honest /\ [Next]_vars => Honest'
<1> SUFFICES ASSUME TypeOK, Alone, Honest, [Next]_vars, patient' PROVE Honest'
  BY DEF Honest
<1>1. CASE UNCHANGED vars
  BY <1>1 DEF vars, Honest, Clean, Quiet, Ended, Seen, Unfinished
<1>2. CASE Next
  <2>1. patient
    BY <1>2, PatientKept
  <2>2. CASE PageStep
    BY <2>1, <2>2, HonestPage
  <2>3. CASE \E k \in Servers : StartStep(k) \/ ServerStep(k) \/ Report(k)
    BY <2>1, <2>3, HonestStart, HonestServer
  <2>4. CASE \E s \in Servers : TaskStep(s) /\ UNCHANGED sessionVars
    BY <2>1, <2>4, HonestServer
  <2>5. CASE \E k \in Commands \ Servers : StopStep(k)
    BY <2>1, <2>5, HonestStop
  <2>6. CASE Rotate
    BY <2>6 DEF Rotate, SetWriter, serverVars, Honest, Clean, Quiet, Ended, Seen,
                Unfinished
  <2> QED BY <1>2, <2>2, <2>3, <2>4, <2>5, <2>6 DEF Next
<1> QED BY <1>1, <1>2

\* ... and as long as no server has failed by itself, the page shows a running
\* server exactly when one runs.
THEOREM PageAgreement == Spec => []PageAgrees
<1>1. TypeOK /\ Alone /\ Honest => PageAgrees
  BY DEF PageAgrees, Honest, Idle, Quiet, Ended, Clean
<1>2. Init => Alone /\ Honest
  BY AloneInit, HonestInit
<1>3. TypeOK /\ (Alone /\ Honest) /\ [Next]_vars => (Alone /\ Honest)'
  BY AloneStep, HonestStep
<1> QED BY <1>1, <1>2, <1>3, TypeCorrect, PTL DEF Spec

=============================================================================
