------------------------------- MODULE GuiLog -------------------------------
(***************************************************************************)
(* Where the log of the GUI goes (src/src-tauri/src/gui.rs): the poll      *)
(* task, which shows lines on the page and writes them to the session's    *)
(* file, with a rotation by size, and the parts of start_server and        *)
(* stop_server that open and close that file.                              *)
(*                                                                         *)
(* Commands and poll task share the globals LOG_* and the file writer,     *)
(* each under a lock of its own, taken and left in one step; the poll task *)
(* holds the writer's lock while it writes a batch.  Commands come one     *)
(* after the other here: their overlap is the subject of GuiSession.       *)
(***************************************************************************)
EXTENDS LogQueue, LogFiles

CONSTANTS
    Configs,     \* of sessions: log_output, only_log_file, size, number, prefix
    Defaults     \* initial values of LOG_ONLY_FILE, LOG_MAX_BYTES, LOG_MAX_NUM

\* The page offers 10, 50, 100 or 200 files: none at all would make
\* cleanup_old_logs remove from an empty vector, and the poll task panic.
Limits == [only : BOOLEAN, bytes : Nat, num : Nat \ {0}]

ASSUME ConfigsAssumption ==
    \A c \in Configs : /\ c.log \in BOOLEAN
                       /\ c.limits \in Limits
                       /\ c.prefix \in Prefixes
ASSUME DefaultsAssumption == Defaults \in Limits

VARIABLES
    session,     \* where the command is that starts or stops the session
    config,      \* the GuiConfig it was given
    handle,      \* the file that open_log_file has returned
    writer,      \* AppState.file_writer
    limits,      \* LOG_ONLY_FILE, LOG_MAX_BYTES, LOG_MAX_NUM
    names,       \* LOG_DIR and LOG_PREFIX
    seen,        \* the poll task's copies of limits
    named,       \* ... and of names
    size,        \* current_file_size
    page         \* the numbers of the lines on the page

guiVars == <<session, config, handle, writer, limits, names, seen, named, size, page>>

GuiTypeOK ==
    /\ session \in {"off", "limits", "bytes", "num", "open", "set", "dir", "names", "on"}
    /\ config \in Configs \cup {None}
    /\ {handle, writer} \subseteq 1 .. created \cup {None}
    /\ {limits, seen} \subseteq Limits
    /\ {names, named} \subseteq Names
    /\ size \in Nat
    /\ page \in Seq(Nat)

GuiInit ==
    /\ session = "off"
    /\ config = None
    /\ handle = None
    /\ writer = None
    /\ limits = Defaults
    /\ names = Unnamed
    /\ seen = Defaults
    /\ named = Unnamed
    /\ size = 0
    /\ page = <<>>

\* The program ends, and its window with it.
GuiReset ==
    /\ session' = "off"
    /\ config' = None
    /\ handle' = None
    /\ writer' = None
    /\ limits' = Defaults
    /\ names' = Unnamed
    /\ seen' = Defaults
    /\ named' = Unnamed
    /\ size' = 0
    /\ page' = <<>>

\* The poll task holds the lock of file_writer.
Locked == poll = "writing"

-----------------------------------------------------------------------------
\* start_server, also after a server that failed: the previous file is closed,
Command(from, to) == session \in from /\ session' = to

Start(c) ==
    /\ ~ Locked
    /\ Command({"off", "on"}, IF c.log THEN "limits" ELSE "on")
    /\ config' = IF c.log THEN c ELSE None
    /\ writer' = None
    /\ UNCHANGED <<queueVars, fileVars, handle, limits, names, seen, named, size, page>>

\* ... and if a file is asked for, the limits are set, one after the other,
SetLimits ==
    /\ \/ /\ Command({"limits"}, "bytes")
          /\ limits' = [limits EXCEPT !.only = config.limits.only]
       \/ /\ Command({"bytes"}, "num")
          /\ limits' = [limits EXCEPT !.bytes = config.limits.bytes]
       \/ /\ Command({"num"}, "open")
          /\ limits' = [limits EXCEPT !.num = config.limits.num]
    /\ UNCHANGED <<queueVars, fileVars, config, handle, writer, names, seen, named,
                   size, page>>

\* ... the file is opened, under no lock,
OpenLog ==
    /\ Command({"open"}, "set")
    /\ \E now \in Now :
        /\ clock' = now
        /\ handle' = Opened(files, "gui", InLogs(config.prefix), now)
        /\ files' = AfterOpen(files, "gui", InLogs(config.prefix), now)
    /\ created' = IF handle' > created THEN handle' ELSE created
    /\ UNCHANGED <<queueVars, config, writer, limits, names, seen, named,
                   size, page>>

\* ... or cannot be,
OpenFails ==
    /\ Command({"open"}, "on")
    /\ config' = None
    /\ UNCHANGED <<queueVars, fileVars, handle, writer, limits, names, seen, named,
                   size, page>>

\* ... and it becomes the writer,
SetWriter ==
    /\ ~ Locked
    /\ Command({"set"}, "dir")
    /\ writer' = handle
    /\ handle' = None
    /\ UNCHANGED <<queueVars, fileVars, config, limits, names, seen, named, size, page>>

\* ... whose directory is noted then, and its prefix last.
SetNames ==
    /\ \/ /\ Command({"dir"}, "names")
          /\ names' = [names EXCEPT !.dir = "logs"]
          /\ config' = config
       \/ /\ Command({"names"}, "on")
          /\ names' = [names EXCEPT !.prefix = config.prefix]
          /\ config' = None
    /\ UNCHANGED <<queueVars, fileVars, handle, writer, limits, seen, named, size, page>>

\* stop_server closes the file; lines of the session may still be on their way.
Stop ==
    /\ ~ Locked
    /\ Command({"on"}, "off")
    /\ writer' = None
    /\ UNCHANGED <<queueVars, fileVars, config, handle, limits, names, seen, named,
                   size, page>>

-----------------------------------------------------------------------------
\* The poll task reads the globals, one after the other: commands may come
\* between.  A copy that is not made yet is as at the start.
ReadLimits ==
    /\ \/ Poll("counted", "only", batch) /\ seen' = [seen EXCEPT !.only = limits.only]
       \/ Poll("only", "bytes", batch) /\ seen' = [seen EXCEPT !.bytes = limits.bytes]
       \/ Poll("bytes", "limited", batch) /\ seen' = [seen EXCEPT !.num = limits.num]
    /\ UNCHANGED <<fileVars, session, config, handle, writer, limits, names, named,
                   size, page>>

ReadNames ==
    /\ \/ Poll("limited", "dir", batch) /\ named' = [named EXCEPT !.dir = names.dir]
       \/ Poll("dir", "named", batch) /\ named' = [named EXCEPT !.prefix = names.prefix]
    /\ UNCHANGED <<fileVars, session, config, handle, writer, limits, names, seen,
                   size, page>>

\* No writer at this moment stands for a new session.
LookForWriter ==
    /\ Poll("named", "looked", batch)
    /\ size' = IF writer = None THEN 0 ELSE size
    /\ UNCHANGED <<fileVars, session, config, handle, writer, limits, names, seen,
                   named, page>>

Numbers(lines) == [i \in DOMAIN lines |-> lines[i].no]

\* It shows the batch on the page and takes the lock of the writer.
Emit ==
    /\ Poll("looked", "writing", batch)
    /\ page' = IF seen.only THEN page ELSE page \o Numbers(batch)
    /\ UNCHANGED <<fileVars, session, config, handle, writer, limits, names, seen,
                   named, size>>

LineLeft == poll = "writing" /\ batch # <<>>

\* Mutant of NeedRotate: the line that is to be written is not counted.
NeedRotateLate == size > seen.bytes

NeedRotate == size + Head(batch).size > seen.bytes

\* Mutant of Remaining: the line that caused a rotation is tried again.
RemainingAgain == IF NeedRotate THEN batch ELSE Tail(batch)

Remaining == Tail(batch)

Write ==
    /\ LineLeft /\ ~ NeedRotate
    /\ Poll("writing", "writing", Remaining)
    /\ IF writer = None
       THEN UNCHANGED <<files, size>>
       ELSE /\ files' = AfterWrite(files, writer, Head(batch))
            /\ size' = size + Head(batch).size
    /\ UNCHANGED <<created, clock, session, config, handle, writer, limits, names,
                   seen, named, page>>

\* A rotation opens a file also when there was none.
Rotate ==
    /\ LineLeft /\ NeedRotate
    /\ Poll("writing", "writing", Remaining)
    /\ \E now \in Now, kept \in AfterCleanup(files, named, seen.num) :
        LET new == Opened(kept, "gui", named, now)
        IN  /\ clock' = now
            /\ files' = AfterWrite(AfterOpen(kept, "gui", named, now), new, Head(batch))
            /\ created' = IF new > created THEN new ELSE created
            /\ writer' = new
    /\ size' = Head(batch).size
    /\ UNCHANGED <<session, config, handle, limits, names, seen, named, page>>

\* The loop of the task begins again, without its copies.
Repeat ==
    /\ Poll("writing", "asleep", <<>>)
    /\ seen' = Defaults /\ named' = Unnamed

\* Mutant of RotateFails: the break leaves the loop of the task, not of its batch.
RotateFailsForGood ==
    /\ LineLeft /\ NeedRotate
    /\ Poll("writing", "dead", batch)
    /\ files' \in AfterCleanup(files, named, seen.num)
    /\ UNCHANGED <<created, clock, session, config, handle, writer, limits, names,
                   seen, named, size, page>>

\* The file cannot be opened: the rest of the batch is not written.
RotateFails ==
    /\ LineLeft /\ NeedRotate
    /\ Repeat
    /\ files' \in AfterCleanup(files, named, seen.num)
    /\ UNCHANGED <<created, clock, session, config, handle, writer, limits, names,
                   size, page>>

Sleep ==
    /\ Repeat
    /\ batch = <<>>
    /\ UNCHANGED <<fileVars, session, config, handle, writer, limits, names, size, page>>

PollStep ==
    \/ (Drain \/ Subtract) /\ UNCHANGED <<fileVars, guiVars>>
    \/ ReadLimits \/ ReadNames \/ LookForWriter \/ Emit \/ Write \/ Rotate \/ RotateFails \/ Sleep

=============================================================================
