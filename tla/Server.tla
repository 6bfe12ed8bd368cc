------------------------------- MODULE Server -------------------------------
(***************************************************************************)
(* The supervisor (src/src-tauri/src/server.rs): start_with_stop and       *)
(* start_multi.  A server has a thread with a runtime of its own, on which *)
(* up to three tasks listen: gRPC over IPv4 and over IPv6, and UDP.  The   *)
(* thread waits for the tasks, one after the other, and for a stop signal. *)
(*                                                                         *)
(* Several servers, all for the same port, may exist at one time.  The     *)
(* sockets are the operating system's: a socket is held by one server, and *)
(* other programs, or a system without IPv6, make an attempt fail.         *)
(***************************************************************************)
EXTENDS Naturals

CONSTANTS
    Servers,     \* one for each call of start_with_stop
    ModeSets     \* the values of ServerConfig.modes, as sets

Services == {"normal", "gpb", "gnmi", "udp"}
ASSUME ModeSetsAssumption == ModeSets \subseteq SUBSET Services

VARIABLES
    phase,       \* per server: where its thread is
    modes,       \* per server: config.modes
    task,        \* per server: the state of each of its tasks
    signal       \* per server: what happened to the sender of stop_rx

serverVars == <<phase, modes, task, signal>>

\* start_multi spawns those for gRPC together, and awaits the tasks in this order.
Tasks == {"IPv4", "IPv6", "UDP"}

Phases == {"none",       \* there is no such server yet
           "new",        \* start_multi has not been polled
           "waiting",    \* ... awaits its tasks
           "reporting",  \* it returned an error, which is to be emitted
           "leaving",    \* it has been; the thread is about to finish
           "ended",      \* the thread has finished after the stop signal
           "failed"}     \* ... after an error

ServerTypeOK ==
    /\ phase \in [Servers -> Phases]
    /\ modes \in [Servers -> ModeSets]
    /\ task \in [Servers -> [Tasks -> {"none", "spawned", "serving", "down"}]]
    /\ signal \in [Servers -> {"none", "sent", "dropped"}]

NoTasks == [t \in Tasks |-> "none"]

ServerInit ==
    /\ phase = [s \in Servers |-> "none"]
    /\ modes \in [Servers -> ModeSets]
    /\ task = [s \in Servers |-> NoTasks]
    /\ signal = [s \in Servers |-> "none"]

\* The thread goes from one phase to another.
Go(s, from, to) == phase[s] = from /\ phase' = [phase EXCEPT ![s] = to]

Unfinished(s) == phase[s] \notin {"none", "ended", "failed"}

\* No modes are no services: start_multi puts the 2-layer service in for an
\* empty list in what it logs, and nowhere else.
GrpcModes(s) == modes[s] \ {"udp"}
HasUdp(s) == "udp" \in modes[s]

SpawnedTasks(s) ==
    {t \in Tasks : IF t = "UDP" THEN HasUdp(s) ELSE GrpcModes(s) # {}}

HeldByOther(s, t) == \E o \in Servers \ {s} : task[o][t] = "serving"

-----------------------------------------------------------------------------
\* std::thread::spawn, with the receiver of a new channel.
Spawn(s) ==
    /\ Go(s, "none", "new")
    /\ UNCHANGED <<modes, task, signal>>

\* start_multi up to its first await.  check_port_available asks for the TCP
\* sockets only, also when nothing but UDP is to be served, and gives them
\* back: the tasks bind them later.
Begin(s) ==
    /\ Go(s, "new", "waiting")
    /\ ~ HeldByOther(s, "IPv4")
    /\ ~ HeldByOther(s, "IPv6")
    /\ SpawnedTasks(s) # {}
    /\ task' = [task EXCEPT ![s] =
                    [t \in Tasks |-> IF t \in SpawnedTasks(s)
                                     THEN "spawned" ELSE "none"]]
    /\ UNCHANGED <<modes, signal>>

\* block_on returns and the runtime is dropped, and its tasks with it.
DropTasks(s) == task' = [task EXCEPT ![s] = NoTasks] /\ UNCHANGED <<modes, signal>>

\* The port is taken, no mode is given, or the registry or the TLS files cannot
\* be loaded.
Refuse(s) == Go(s, "new", "reporting") /\ DropTasks(s)

Bind(s, t) ==
    /\ task[s][t] = "spawned"
    /\ ~ HeldByOther(s, t)
    /\ task' = [task EXCEPT ![s][t] = "serving"]
    /\ UNCHANGED <<phase, modes, signal>>

\* The socket cannot be bound, or fails later.
Break(s, t) ==
    /\ task[s][t] \in {"spawned", "serving"}
    /\ task' = [task EXCEPT ![s][t] = "down"]
    /\ UNCHANGED <<phase, modes, signal>>

\* Mutant of Awaited: the IPv4 task, also when there is none.
AwaitedIPv4(s) == "IPv4"

\* The task whose handle is awaited: the first that was spawned, since no task
\* ever ends without an error.
Awaited(s) == IF "IPv4" \in SpawnedTasks(s) THEN "IPv4" ELSE "UDP"

Notice(s) ==
    /\ Go(s, "waiting", "reporting")
    /\ task[s][Awaited(s)] = "down"
    /\ DropTasks(s)

\* Mutant of Heard: a dropped sender is not noticed, as with a pattern for
\* the result of changed().
HeardSent(s) == signal[s] = "sent"

\* stop_rx.changed() returns: for a value that was sent, or because the
\* sender is gone.
Heard(s) == signal[s] # "none"

\* The other branch of select!, which may be polled first.
Halt(s) ==
    /\ Heard(s)
    /\ Go(s, "new", "ended") \/ Go(s, "waiting", "ended")
    /\ DropTasks(s)

\* The thread returns.
Leave(s) == Go(s, "leaving", "failed") /\ UNCHANGED <<modes, task, signal>>

\* What a server's thread does by itself, but for the report of an error.
ThreadStep(s) ==
    Begin(s) \/ Refuse(s) \/ Notice(s) \/ Halt(s) \/ Leave(s)

TaskStep(s) == \E t \in Tasks : Bind(s, t) \/ Break(s, t)

=============================================================================
