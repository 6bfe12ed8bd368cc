------------------------------- MODULE CliLog -------------------------------
(***************************************************************************)
(* init_file_logging of the command line                                   *)
(* (src/src-tauri/src/logging_setup.rs): before it creates its file it     *)
(* removes the files in backup and moves there the files in logs, one call *)
(* of the file system after the other.                                     *)
(*                                                                         *)
(* The results of removals and moves are ignored.  The subscriber of the   *)
(* new file is never installed, as main.rs has installed one before: the   *)
(* file remains empty, and so does the model's.                            *)
(***************************************************************************)
EXTENDS LogFiles

VARIABLES
    stage,       \* where init_file_logging is
    todo,        \* files of the current read_dir that are not dealt with
    before       \* history: files in logs when the rotation began

cliVars == <<stage, todo, before>>

Stages == {"off", "begin", "delete", "move", "create", "running"}

CliTypeOK ==
    /\ stage \in Stages
    /\ {todo, before} \subseteq SUBSET (1 .. created)
    /\ (todo # {} => stage \in {"delete", "move"})

CliInit == stage = "off" /\ todo = {} /\ before = {}

\* The program ends.
CliReset == stage' = "off" /\ todo' = {} /\ before' = {}

CliStage(from, to) == stage = from /\ stage' = to

\* The backup directory is there or is created; the file of this run is not.
CliStart(log) ==
    /\ CliStage("off", IF log THEN "begin" ELSE "running")
    /\ UNCHANGED <<todo, before, fileVars>>

\* A directory cannot be created: there is no rotation and no file.
NoDirectory ==
    /\ CliStage("begin", "running")
    /\ UNCHANGED <<todo, before, fileVars>>

\* Mutant of BeginDelete: the files are moved before backup is emptied.
BeginMoved ==
    /\ CliStage("begin", "delete")
    /\ files' = [i \in DOMAIN files |->
                    IF files[i].place = "logs"
                    THEN [files[i] EXCEPT !.place = "backup"] ELSE files[i]]
    /\ todo' = {files[i].id : i \in DOMAIN files}
    /\ before' = IdsIn("logs")
    /\ UNCHANGED <<created, clock>>

BeginDelete ==
    /\ CliStage("begin", "delete")
    /\ todo' = IdsIn("backup")
    /\ before' = IdsIn("logs")
    /\ UNCHANGED fileVars

Delete(id) ==
    /\ stage = "delete" /\ id \in todo
    /\ todo' = todo \ {id}
    /\ files' \in {files, Without(files, {id})}
    /\ UNCHANGED <<stage, before, created, clock>>

BeginMove ==
    /\ todo = {}
    /\ CliStage("delete", "move")
    /\ todo' = IdsIn("logs")
    /\ UNCHANGED <<before, fileVars>>

SameName(f, g) ==
    /\ f.of = g.of
    /\ f.prefix = g.prefix
    /\ f.second = g.second

\* rename replaces a file of that name, which could not be removed.
AfterMove(fs, id) ==
    LET this == TheFile(fs, id)
        rest == Subsequence(fs, {i \in DOMAIN fs :
                    ~ (fs[i].place = "backup" /\ SameName(fs[i], this))})
    IN  [i \in DOMAIN rest |-> IF rest[i].id = id
                               THEN [rest[i] EXCEPT !.place = "backup"] ELSE rest[i]]

Move(id) ==
    /\ stage = "move" /\ id \in todo
    /\ todo' = todo \ {id}
    /\ files' \in {files, AfterMove(files, id)}
    /\ UNCHANGED <<stage, before, created, clock>>

EndMove ==
    /\ todo = {}
    /\ CliStage("move", "create")
    /\ UNCHANGED <<todo, before, fileVars>>

\* The server starts whether the file could be created or not.
Create(prefix) ==
    /\ CliStage("create", "running")
    /\ \E now \in Now :
        LET new == Opened(files, "cli", InLogs(prefix), now)
        IN  /\ clock' = now
            /\ files' = AfterOpen(files, "cli", InLogs(prefix), now)
            /\ created' = IF new > created THEN new ELSE created
    /\ UNCHANGED <<todo, before>>

CreateFails ==
    /\ CliStage("create", "running")
    /\ UNCHANGED <<todo, before, fileVars>>

CliStep ==
    \/ NoDirectory \/ BeginDelete \/ BeginMove \/ EndMove \/ CreateFails
    \/ \E id \in todo : Delete(id) \/ Move(id)
    \/ \E prefix \in Prefixes : Create(prefix)

=============================================================================
