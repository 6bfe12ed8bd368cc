# A verification development of grpc_server_rust

The program under `src/` collects telemetry that network devices push
("dial-out"): over gRPC in three message formats, and over UDP.  It has a
command line and a Tauri GUI, and its output is a log.  This directory holds
TLA+ models of it, the TLC runs that check them and proofs about them.  Source
files without a directory below are in `src/src-tauri/src/`.

## 1. The system: an inventory

| Part | State | Operations | Right when |
|---|---|---|---|
| Fragment assembler, `chunk.rs` | per stream: for each sensor path a list of records (total, last node id, texts) | `ChunkRecords::add` | a merged text is one whole message; no message is lost, used twice or left behind |
| 2-layer service, `dialout/normal.rs` | per stream: assembler, count; shared: `count`, the two counters of `models.rs` | `dialout`, one task per stream | what a device finished is shown once, in order, while the stream lasts; counters agree |
| gNMI service, `dialout/gnmi.rs` | per stream: count, a response channel with room for 64 | `publish` | every message read is answered; the handler can always go on |
| 3-layer (GPB) service, `dialout/gpb_v3.rs` | per stream: one buffer `chunk_data`, count, an unused channel | `dialout_v3`, `assemble_chunk` | chunks of one message end up in one telemetry object, however whole messages come between |
| UDP server, `dialout/udp.rs`, `udp_header.rs` | per socket: one buffer for segments, count | `run_udp_listener`, `process_udp_packet`, header parser | headers read as laid out, segments used once and in order, nothing read past a datagram |
| Supervisor, `server.rs` | tasks for IPv4, IPv6, UDP; a stop signal | `start`, `start_with_stop`, `start_multi` | a stop or a failure of one task ends the others; no task stays behind |
| GUI session, `gui.rs`, `src/index.html` | thread handle, stop sender, start time, counters, buttons | `start_server`, `stop_server`, `get_stats`, event `server-stopped` | at most one server runs, what the page shows is what runs |
| GUI log pipeline, `gui.rs` | a channel, the size of its backlog, the file being written | `on_event`, poll task, `open_log_file`, `cleanup_old_logs` | lines are written once and in order; the backlog is bounded; the newest files are kept; a failed rotation does not end the task |
| Command line, `main.rs`, `logging_setup.rs` | log files and their backups | `run_cli`, `init_file_logging`, `rotate_old_logs` | a rotation never loses the logs of the run before |
| Configuration, `config.rs`, `models.rs` | none after start | choice of services | the modes asked for are served |
| Protobuf registry, `proto_dynamic.rs` | a table filled at start | `load_all_v3`, `find_module` | a path finds its own module |

How they interact.  The supervisor builds the services, binds the sockets and
spawns a task for each listener; tonic spawns one task per stream, which runs a
handler of one of the three gRPC services.  Handlers of a service share its
counters and nothing else; all services share the two counters in `models.rs`
and the log.  A gRPC stream keeps order and may break at any time; UDP keeps
nothing.  The GUI starts the supervisor on a thread of its own, stops it
through a watch channel, and receives the log through a queue that a poll task
reads; the page learns of the end of a server by an event that may race with
the answer to its command.

What is hard.

* *Interleaving and order.*  Fragments of several messages of one path arrive
  mixed; which record gets one depends on node ids and on the order of the list.
  UDP segments of several devices share one buffer.
* *Deadlock.*  The gNMI handler fills a channel that nobody reads before the
  handler returns.
* *Failure.*  A stream breaks with messages in flight; a listener fails while the
  others run; a crash between two renames of a log rotation.
* *Boundaries.*  Node ids wrap at 2^64; sizes are compared as `i32`; header
  lengths from the network index a datagram.
* *Sequences of commands.*  Start and stop commands of the page overlap.

`PROJECT.json` lists the hazards one by one, each at its line.

## 2. Plan

The order is that of importance: first what the program is for (messages in,
whole messages out), then how its parts are started, stopped and logged.

| Step | Module | Content | State |
|---|---|---|---|
| 1 | `ChunkRecords`, `Dialout` | the assembler, the 2-layer handler, many connections, arbitrary messages | done |
| 2 | `DialoutProofs` | type correctness, `FragmentRuns`, `ArrivalsAccounted`, `CountsAgree`, `OldestFirst` by induction | done |
| 3 | `MessageFeed`, `DialoutFeed`, `DialoutFeedProofs` | the abstract service; devices composed with `Dialout`; refinement, liveness; the refinement, `NoResidue` and `NoCompleteHeld` by induction | done |
| 4 | `GnmiPublish`, `GnmiProofs` | the publish handler with its channel | done |
| 5 | `UdpHeader`, `UdpListener` | header parsing, the segment buffer | done |
| 6 | `GpbV3`, `GpbFeed`, `GpbProofs` | `assemble_chunk` with its 32-bit comparison, the buffer of a stream; devices that cut messages into chunks; abstract specification: `MessageFeed` again; `NothingCompleteKept` and the refinement by induction | done |
| 7 | `Server` | listeners, the order in which they are awaited, the stop signal, the choice of services | done |
| 8 | `GuiSession`, `GuiProofs` | start and stop commands with their lock sections, the server thread, the page, composed with `Server`; types, `Stoppable`, `SessionAgrees` and `PageAgrees` by induction | done |
| 9 | `LogQueue`, `LogFiles`, `GuiLog`, `CliLog`, `Logging`, `LogProofs` | queue and backlog counter, poll task with its rotation, the files of sessions, the rotation of the command line, runs of both programs in one directory with crashes; the backlog, the order of lines, the sizes of files and what rotations keep by induction | done |
| 10 | `GnmiNotify`, `Subsequences`, `SubsequenceProofs` | which rows of a notification are logged; the elements of a sequence at some of its places, and facts about them | done |
| 11 | `Registry`, `GpbService`, `GpbProofs` | the registry behind the 3-layer service, decoding of rows with the type they name | done |
| 12 | `UdpProofs` | types, `EndsAtLast`, `SlicesInBounds`, `SegmentsInOrder` by induction | done |

Candidates beyond it: theorems about `GuiSession` for users who do not wait (what
a second stop can still reach), and `DecodedAsSent` for directories that several
devices share.  What is left of the runs' properties is liveness.

## 3. Modules and code

**`ChunkRecords`** has the operators of `chunk.rs`: `Matches`, `Extend`,
`IsComplete`, `NewRecord` are the methods of `ChunkRecord`; `FirstMatch` is
`iter().position`, `RemoveRecord` is `Vec::remove`.  A record has the three
fields the code reads again; texts are kept with the message they came in and its
ordinal number on the stream, so that properties can tell equal texts apart.  Node
ids are integers modulo `NodeMod` (2^64 in the release build, where addition
wraps; a debug build would panic at that addition).

**`Dialout`** is the handler of `dialout/normal.rs`, for any number of clients.
One action is one turn of its loop: between two awaits a handler touches only
its own locals and counters that commute.  `CountOnly` is performance mode,
`ShowOriginal` the mode that prints messages as they come, and `PassThrough`,
`StartRecord`, `JoinRecord` are the outcomes of `ChunkRecords::add`.  A client may
connect, be disconnected at any time (end of stream and error leave the same
state) and come back.  `shown` is what the handler logged; whether a text parses
as JSON is the parameter `ValidJson`, and both outcomes are modelled.

**`DialoutFeed`** adds devices and streams, which are not in the repository:
a device follows a plan of messages per path, each in one piece or in numbered
fragments, several of them at a time; its stream is a queue.  **`MessageFeed`** is
the abstract service: messages finished by a device are delivered in that order.
`Feed` is the refinement mapping: an entry of the log stands for a message when
it is made of exactly that message's fragments, in order, and for no message
otherwise.  `MessageFeed` has two parts: `Steps`, what may be shown
(`ImplementsMessageFeed`), and `Progress`, that it is (`NoneStaysUnshown`).
`PlanAssumption` says what a plan is.  `Distinguishable` and `Parsing` are no
assumptions of the module but hypotheses of some of its theorems (section 5): a
device that breaks them exists (run `dialout_single`), and then the code does
something else.

**`GpbV3`** is the handler of `dialout/gpb_v3.rs`, built like `Dialout`.  Its
buffer is the sequence of arrivals whose data it holds.  `TooShort` is the
comparison of `assemble_chunk`, with `as i32` as arithmetic on an i32 of any
width; `Total` is the length of the buffer, a recursive function.  A message
with `total_size` 0 is a whole: it is shown by itself (`ShowWhole`),
and the handler clears the buffer for it as for any data that `assemble_chunk`
returns.  **`GpbFeed`** adds devices that cut the messages of
a plan into chunks, announce their sum and send them one after the other, and
clients that send any sizes and totals; it implements the same `MessageFeed`.

**`Registry`** is the table of message types of `proto_dynamic.rs`.  `Load` is
`load_all_v3` for a directory whose files come in any order: the compiler, which
is a library, returns the files and what they import in an order that respects
imports, and the index keeps the last type of a name.  `Find` is `find_module`
with its special case.  **`GpbService`** puts it in front of `GpbFeed`, as
`start_multi` does: nothing is served before the registry is there.  `Trans` is
what `trans_gpb_response` makes of an entry: bytes that are no telemetry, JSON or not,
no module, or rows, each decoded with the type that the sensor path names, or empty.

**`GnmiPublish`** is `publish` of `dialout/gnmi.rs`.  Its two awaits,
`stream.message()` and `tx.send()`, are the phases "reading" and "sending"; after
its return the transport drains the channel ("answering").  The three branches of
the loop differ in what they log and end in the same send, so they are one action.
**`GnmiNotify`** adds what is read and logged: `EntryOf` is `print_gnmi_response`, with
its two early returns, the numbering of rows before those without a value are
left out, and the path of the first update above all rows.  `Rows` is `enumerate`
followed by `filter_map`; **`Subsequences`** defines, without recursion, the elements
of a sequence at some of its places, which this module and `cleanup_old_logs` of
`LogFiles` select by.

**`UdpHeader`** has the parser as arithmetic on the header's first word: the mask
and shift of the code, and the layout its documentation gives.  **`UdpListener`** is
the loop of `run_udp_listener` with `process_udp_packet`; one action per outcome
(performance mode, segment kept, last segment, whole message, header that does
not parse, too short).  The buffer is a sequence of pieces (datagram, offset,
size).  The two sockets run as two tasks of the same code.

**`Server`** is the supervisor, `start_with_stop` and `start_multi` of
`server.rs`, with several servers at a time.  A server has a thread (`phase`), up
to three tasks that listen, and the end of a watch channel (`signal`: nothing,
a value was sent, or the sender is gone).  `Begin` is the code up to the first
await with its port check, `Refuse` its early returns, `Bind` and `Break` what
happens to a listener, `Notice` the end of the one task whose handle is awaited
(the first, since no listener ends without an error), `Halt` the other branch of
`select!`.  Sockets are exclusive among the servers; that other programs take
them, or that a system has no IPv6, is covered by `Break`.

**`GuiSession`** extends it with the commands and the page.  Every step of
`start_server` and `stop_server` is one section under a lock, or what lies
between two; `pc` says where a command is, "started", "refused" and "stopped"
being answers on their way to the page.  The shared state are the fields of
`AppState`; a handle or a sender stands for the server it belongs to.
`Report` is the thread's event after a failure.  `Rotate` is the one step of the poll task
that the session sees: a rotation puts a file of its own (`RotatedFile`) in the place of
the session's, at any time, also when `stop_server` has closed that one.  The page enables a button when it
handles an answer or the event, not when it sends a command, so that starts and
stops overlap; `patient` is a user who waits for each answer, and some
properties speak of that user only.  `SessionAgrees` says of the file that one which
a start command opened is the running server's; of a file that a rotation opened
nothing can be said.

**`LogQueue`** is the queue of log lines in `gui.rs`: `Pass`, `Drop`, `Send` and
`Count` are the steps of `on_event`, which threads run at the same time (a thread is
known by where it is, so the model counts them), `Drain` and `Subtract` the first
steps of the poll task.  The counter wraps like a `usize`.  **`LogFiles`** has the
files in order of modification, and what opening, writing and `cleanup_old_logs`
do to them; a name is prefix and second, so two files asked for in one second
are one.  A prefix may start with another (ports 5700 and 57000).  `AfterCleanup` is the
set of outcomes of a clean-up: a file that cannot be removed stays.
**`GuiLog`** is the rest of the poll task, from the copies it takes of the globals
to the rotation by size, and the parts of `start_server` and `stop_server` that
open and close the file; `GuiSession` has their overlaps.  Every lock, and the atomic
flag, is a step: three for the limits, two for directory and prefix, on either side, and
one for the look at the writer, so that a batch may see the limits of two sessions mixed.
`num`, the number of files kept, is positive in every configuration: the page's
select offers 10, 50, 100 and 200.  The field takes any number (`gui.rs:70`), and with 0
`cleanup_old_logs` would remove from an empty vector and end the poll task.
**`CliLog`** is `init_file_logging` with `rotate_old_logs`, one call of the file system
per step, each of which may fail.  **`Logging`** runs GUI and command line one after
the other in the same directory; either may end or be killed at any step, and
what remains are the files.  `before` is what the rotation that runs has found in
`logs`, and `End` forgets it: `RotationKeepsLogs` speaks of each rotation by itself.  A
start after a crash in the middle of the moves empties `backup`, where a part of the
younger logs is by then, and that part is lost.

`MC*.tla` give constants their values for TLC and define nothing else;
`MCDialoutFeed` also checks that its plan fulfils the hypotheses of the theorems.

## 4. Runs

| Run | Asks | Bounds |
|---|---|---|
| `dialout` | `FragmentRuns`, `ArrivalsAccounted`, `CountsAgree`, `OldestFirst`: are records runs of one path, is every arrival in exactly one place, do counters agree, does the oldest waiting record win | 2 connections, 2 paths, node ids modulo 2, totals 1 and 2, 5 messages, 2 connects, three modes |
| `dialout_feed` | `ImplementsMessageFeed`, `NoneStaysUnshown` (liveness), `NoCompleteHeld`, `NoResidue` for devices whose fragments can be told apart | 1 connection, used twice; 5 messages on 2 paths in 10 pieces, up to two in flight, node ids that wrap |
| `dialout_single` | is a complete record ever kept? Yes: when it is complete from the start. | 2 messages on 1 path |
| `gpb` | `ConsecutiveRuns`, `DroppedByWholesOnly`, `NothingCompleteKept`: what is merged, lost and kept, whatever a client sends; `ImplementsMessageFeed` and `NoneStaysUnshown` (liveness) for a device; `DecodedAsSent`: are its rows decoded with the type it used | 2 directories of 3 files, one an import; 1 device with 5 messages in 7 pieces, one of them with bytes that are no telemetry; 1 client with 4 messages of any kind; 2 connects; an i32 of 3 bits, sums that leave it |
| `gnmi` | `AnswersAccounted`, `AnsweredAfterEnd`, `StuckUntilLost`, `AnsweredWithinCap`; `RowsOfUpdates`: is every update with a value shown once, under its number and path | 2 connections, channel of 2, streams of up to 3; 5 responses with updates of every kind |
| `gnmi_acknowledged` | is every message read acknowledged after the stream's end? No. | as `gnmi` |
| `udp` | `SegmentsInOrder`, `EndsAtLast`, `SlicesInBounds` | 2 sockets, 4 datagrams, every class of header |
| `gui` | `Stoppable`, `SessionAgrees`, `PageAgrees`: can every server still be told to stop, is the state about the server that runs, does the page show it; `StopsReturn`, `StraysEnd`, `DeafServersEnd`: does a stop come back, does a server end that nobody can reach, or of which nothing listens | 2 starts and 1 stop, two of them pending at a time; servers of one gRPC mode or of UDP; rotations at any time |
| `gui_page` | is the page reset when a server stops by itself? Not always. | as `gui` |
| `udp_layout` | is a header read as documented? No. | as `udp` |
| `logs` | `BacklogAgrees`, `BacklogBounded`: does the counter tell the backlog, does the limit hold; `InOrder`, `FilesBounded`, `CleanupKeepsNewest`: where do lines end up, how large do files get, which are removed; `RotationKeepsLogs`: does a crash lose the logs of the run before; `LinesLeave` (liveness): is every line dealt with, whatever fails | 2 threads, 3 lines of 2 bytes, a backlog of 1, a counter of 5 values; 3 starts of programs and sessions, 2 configurations, 2 prefixes of which one starts with the other, 2 seconds |
| `logs_dropped` | are lines dropped only when that many wait? No. | as `logs`, 1 start |

Why the bounds are enough.  Two connections show everything one handler can do to
another, since they share counters only.  Five messages on two node ids make
three records that wait for the same node, records removed from the front while
others wait behind, and a record that is overdue; two totals give records that
complete and records that never do.  In the feed run a break of the stream
followed by a new connection can happen at every point.  A channel of 2 and
streams of 3 show a stream below, at and above the capacity; the capacity itself
is a parameter of the theorems.  The header words are one of each class the
parser tells apart (length below 12, 12, above), the lengths lie on both sides of
the option's end.  An i32 of 3 bits lets the sum of two pieces turn negative,
which 2^31 bytes would be needed for.  Two starts and a stop, two of which may be
pending, give every race of two commands (start with start, stop with start)
and a start after a server has ended; a third command pending at one time would
only repeat one of these pairs.  A server of one gRPC mode has two listeners, of which
the thread awaits the first; one of UDP has a single listener, whose port is not
checked.  All modes, which the page can pass too, are a third listener that no
thread awaits while the first runs, as the second is in the run.  With all modes in the
place of the one gRPC mode, `MCModeSets` gives more than twice the states (1.1 million)
and takes TLC nearly five minutes, with the same results: the run keeps to the smaller
sets.  The safety theorems hold for all sets of modes (`ModeSets` is a parameter).
In the log run, lines of two bytes, a file of one configuration holds one line (limit 3)
and one of the other two (limit 4), so that rotations happen at the second line, at the
third, and with the limit of the session before, and both sides of the comparison are met
exactly; a line longer than its limit is left to the theorem; two files are kept, so that the third is one too
many; two seconds give names that are the same and names that are not; two
programs and a session, in any order, are a run, its crash and the rotation of
what it left.

The bounds `MaxMessages`, `MaxConnects`, `MaxWild`, `MaxWire`, `MaxDatagrams`, `MaxPending`,
`MaxLines`, `MaxStarts` and `Seconds` are guards of
the actions that add something.  Deadlock is not checked: a server whose devices
have sent all the bound allows, or whose sockets are stopped, may rest.

Symmetry (of connections, paths, sockets) is used in runs with safety properties
only; both sets are interchangeable in the specification and in the properties.

### Fairness

Only the program is fair.  `DialoutFeed` and `GpbFeed` have weak fairness of
`FeedReceive` for each connection, `GnmiPublish` of `Handler`: the runtime polls a task whose stream
holds a message, whose channel has room or whose response can be sent, and a
handler awaits nothing else in between.  `GuiSession` has weak fairness of the
steps of each command (threads of the command pool, short locks) and of a server's
thread when it is told to stop, when the task it awaits has ended, when it has an
error to report or is about to return;
nothing is assumed of the clicks, of the page, or of sockets, which may bind, fail
or do neither.  `Logging` has weak fairness of `Polls`: the task is spawned once, sleeps
100 ms at a time and takes short locks; threads that log and commands owe nothing.
Devices and network owe nothing: a
device may stop at any time and a connection may never break.  Each liveness
property allows for the loss of the connection.

### What the failing runs show

* **Records that are complete from the start** (`chunk.rs:128`).  `add` asks
  `is_complete` only of a record it extends.  A message announced as one fragment
  is never shown; its record stays and takes the fragment of a later message.
* **Acknowledgements** (`dialout/gnmi.rs:128`).  The receiver of the channel is
  returned after the stream's end, so the message after the 64th blocks the
  handler until the connection is lost, and no device is answered before it has
  ended its stream.
* **The page after a failure** (`index.html:998`).  The event of a server that
  fails at once may be handled before the answer to the start command; the
  answer then sets the page to running, and nothing resets it.
* **Header length** (`udp_header.rs:60`).  The mask and the shift take bits 4-11;
  documentation and tests say bits 8-15.
* **Dropped lines** (`gui.rs:200`).  A line is sent before it is counted.  When the poll
  task receives and subtracts it first, the counter is the largest `usize` until
  the sender counts, and every line of another thread in that time is dropped though
  none waits.

## 5. Proofs

TLAPS checks the theorems below for every value of the constants, under the named
assumptions of the modules (a modulus above 1, natural bounds and sizes, a
positive capacity, values such as `None` and `NoChunk` that are no others; TLC
evaluates them in every run).  Every safety property of the passing runs is a
theorem.

**2-layer service, `DialoutProofs`.**

* `TypeCorrect`, `OnlyRunsAreShown`.  `FragmentRuns` is not inductive by itself: a
  fragment that joins a record must be younger than the record's last one, and
  `FragmentRuns` does not know how far the stream is.  `RunInv` adds the types and
  `RecordsArrived`: no record holds a fragment beyond the handler's count.
  Lemmas say what a new record, an extended record and a removed record do to a
  list.
* `NothingLostOrTwice`, `CountersAgree`.  `UsedOnce` speaks of the arrivals up to
  the handler's count, and a step adds one: `AccountInv` adds `Tidy`, which speaks
  of every number, so that nothing is ahead of the count, and `Complete`, that
  nothing is missing.  `RemoveRecordKeeps` says where each record is after
  `Vec::remove`.
* `OldestIsServed`, an action property.  The first record of the list that matches is
  the oldest one because the list is sorted by first arrival (`Ordered`), which
  `push` and `remove` keep; and since no two records share a first arrival
  (`AccountInv`), only that record is seen to grow (`ReceiveEffect`).

**Devices of the 2-layer service, `DialoutFeedProofs`.**

* `FeedIsService`: `FeedSpec => Spec`.  What is proved of the service holds with devices
  in front of it.  Every message on the way is one the service may receive (`SentInv`,
  from `PlanAssumption`).
* `NoCompleteStays`, for plans with `NoSingleFragment`.  The hypothesis is needed: run
  `dialout_single` shows a complete record that stays when a message is announced as
  one fragment.
* `NoneLeftBehind` and `ShownAsFinished`, for plans that are `Distinguishable`, with the
  service in the mode that parses.  `chunk.rs` knows a record by path and next node id
  alone, so that messages in flight together on a path must not use each other's ids
  (`NodesApart`; nothing is asked of a path with one message at a time).  The records do
  not say which message they belong to, and the stream does not say what has been
  read.  `FeedInv` therefore asks for counters `g`, one for each message: how many of its
  fragments the handler has got.  `Streamed` says that the stream holds exactly the
  fragments between `g` and what is sent, each message's in order; `Assembled`, that there
  is one record for each message of which `g` is neither nothing nor everything, and that
  it holds these fragments; `Reported`, that what is logged are the first of the finished
  messages, and that the last fragments of the others are on the way in that order.
  `WhoMatches` is the step where the hypotheses are used: the record that waits for the
  next fragment's node is the one of its message.  The refinement then maps a last
  fragment that is received to `Deliver`, one that is sent to `Finish`, and other
  fragments to stuttering.

**3-layer service, `GpbProofs`.**

* `OnlyRunsMerged`, `OnlyWholesDrop`, from `PlacedAlways`.  "The next one follows" does
  not tell where a run starts when only its end is known; `PlacedInv` gives every
  arrival in the buffer and in the log its number by its place.
* `NothingCompleteStays`.  The buffer's length is a recursive sum.  That such a function
  exists for every sequence, and that a longer sequence has the sum plus one element
  (`FitsExists` and the lemmas behind it), is proved by induction over a set of naturals.
* `FeedIsService`, `ShownAsFinished`, for any plans (a chunk is not empty, and lengths and
  sums fit) and any other clients.  `FeedInv`: the stream holds the chunks from the
  one the handler waits for to the one the device sends next without a gap (`Gapless`), and
  the buffer is the beginning of the message after the ones shown (`Tidy`).
* `ServiceIsFed`, `RowsDecodedAsSent`.  The index holds, for every name in a compiled file,
  the type of that file and no other, whatever the order (`NamesAssumption`: the
  repository's files never share a top-level name); the directory does not change after
  it was read; and a device names its type as the registry reads paths
  (`ContentAssumption`).

**gNMI service, `GnmiProofs`.**

* `TypeCorrect`, `NoAnswerLost`, `NoAnswerBeforeEnd`, `StuckForGood`, from `PublishInv`:
  types, the balance of answers, and `AnswersHeldBack` (no answer leaves while the
  handler runs; what is past the end has an empty stream).
* `NotifyPublishes`: `NotifySpec => Spec`, fairness included, so that the theorems, and
  the liveness that TLC checks, hold of the handler that logs.
* `EveryValueShown`.  `RowsOfUpdates` holds because a subsequence has its elements at
  rising places and misses none that was chosen (`NthRank`, `SubsequenceElements`).

**UDP server, `UdpProofs`**, all from `UdpInv`.

* `TypeCorrect`, `MessagesEndAtLast`, `SlicesStayInBounds`.  `EndsAtLast` and
  `SlicesInBounds` do not say that pieces and entries belong to datagrams that have
  arrived; `UdpInv` says it, so that the next datagram (`ArrivalKeeps`) changes nothing of
  what is there.
* `SegmentsStayInOrder`.  `InSequence` lines up the merged entries and, behind them, the
  buffer.  A segment goes behind all that are there (`SequenceKeep`), a merged
  entry takes the buffer's place in the line (`SequenceMerge`), and an entry that is no
  segment has no place in it (`SequenceEntry`).

**GUI session, `GuiProofs`.**

* `TypeCorrect`, `AlwaysStoppable`.  `Stoppable` with the types is inductive: a sender
  leaves `stop_tx` only through `ReplaceSender` and `SendStop`, both of which tell its
  server, and a server is started by the command that holds its sender.
* `SessionAgreement`.  `SessionAgrees` speaks of moments without a command.  A rotation
  may come at any moment and only ever puts `RotatedFile` in the writer.  `Alone` says what
  holds in between: a user who waits has one command at a time, and `Course` gives, for each
  step of a start or a stop, which parts of the state are about the running server
  already or still.
* `PageAgreement`, from `Honest`: no event waits for the page, and a command that has
  passed its check finds what the page showed.

**Logs, `LogProofs`.**

* `BacklogAgreement`, `BacklogBound`, from `Backlog`.  The bound on the channel is not
  inductive: a thread that has passed the check sends whatever the counter is by then.
  `Room` counts such threads in: with the lines sent and not subtracted they stay below
  the limit and the number of threads.  A thread passes when the counter is below the
  limit, and `Exact`, the counter as a sum that wraps at most once, tells what that means
  for the lines.  `CounterAssumption`: the counter is wide enough for the limit and the
  threads.
* `TypeCorrect`, from `Typed`, which adds what program, session and poll task know of each
  other's variables: a handle or a writer is a file that was created, a session that is
  being opened has a configuration, the poll task's copies are of a kind with the
  globals, and a program that has ended leaves nothing running.
* `LinesInOrder`, from `Ordered`: lines in files are older than those in the batch, which are
  older than those in the channel; the page is ahead of the files by one batch.
* `SizesBounded`, from `Bytes`: the poll task counts what it has written since a file was
  opened; one opened n times under one name may hold n - 1 times the largest limit more.
* `RotationKeeps`, from `Saved`: the rotation deletes only files that were no logs
  and moves only logs, and these have different names, so none replaces another.  Like
  the property it is about one rotation.
* `CleanupSpares`, an action property: of the matching files in order of modification,
  the first ones may be removed, and num - 1 are behind each (`ExcessOldest`); num is
  positive (`ConfigsAssumption`).

`SubsequenceProofs` has the lemmas about places of sequences and the induction that
`GnmiProofs`, `GpbProofs`, `LogProofs` and `DialoutFeedProofs` share.

Induction over data.  The library's induction theorems take an operator, which the
installed provers cannot instantiate.  Where a proof needs induction it is stated of
a set: `Least`, every set of naturals that is not empty has a least element (from
`WFMin`, which is about sets), and `Induction`.  Values defined along a sequence are
given without recursion where that is as readable (`Subsequences`, `InSequence`).

Only model-checked: the liveness properties `NoneStaysUnshown`, `AnsweredWithinCap`,
`StopsReturn`, `StraysEnd`, `DeafServersEnd` and `LinesLeave`.  They rest on fairness and
`ENABLED`, which are beyond the prover.  The properties of the failing runs are refuted by
TLC on an instance, which is all that is needed.

## 6. Not modelled

The wording of log lines and the layout of JSON; decoding of protobuf and JSON
(an outcome, valid or not); TLS, which only decides how a listener is built;
`parse_udp_header_mobile`, which nothing but its tests calls; argument parsing.
The 3-layer service's response channel: a comment (`dialout/gpb_v3.rs:110`)
says that a task produces empty responses to acknowledge messages, but the task
only drops its sender and nothing is ever sent.  The GUI's statistics, which are
only read, and the counters they show; servers on different ports; the
conversion of a decoded message to JSON; `generate_descriptor_files`, which writes
files that nothing reads and ends the program.

Modelled, but without a run of their own: `server.rs:91` and `:266` speak of
`try_join!` and of the first error aborting, where the tasks are awaited in
order and only the first one's error is noticed (`Notice`); `models.rs:127` says
that an empty list of modes is the same as the 2-layer mode, where `start_multi`
fails for it (both entry points put the default in before); an event of an
earlier server resets the page of a later one (`PageAgrees` leaves servers that
fail out for this reason).

More of the same kind.  Messages in flight on one path that are numbered alike
share a record, though `chunk.rs:78` allows several: `DialoutFeed` has devices that
number on.  The comment at `gui.rs:189` says that a dropped line is still written to
the file, but the layer's writer is one that nothing ever sets (`gui.rs:439`), which is
why `Drop` writes nothing.  `only_log_file` outlives its session (`gui.rs:282`, `Start`
and `Emit`): a later session without a file shows nothing.  A rotation opens a file
also after `stop_server` has closed the session's (`gui.rs:517`), so that a file may be
open when no server runs: `Rotate` of `GuiLog` and of `GuiSession` model it, and no
property denies it.  The command line's `-l` creates a
file that stays empty: a subscriber is installed before (`main.rs:56`), and the second
`try_init` fails (`logging_setup.rs:77`).
