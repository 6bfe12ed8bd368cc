------------------------------ MODULE Logging -------------------------------
(***************************************************************************)
(* The log files over the runs of the program (src/src-tauri/src/main.rs): *)
(* the GUI or the command line, as it was built, started one after the     *)
(* other in the same directory.  A program may end, or be killed, at any   *)
(* step; what remains of it are the files.                                 *)
(***************************************************************************)
EXTENDS GuiLog, CliLog

CONSTANTS
    MaxStarts    \* bound: starts of programs and of sessions together

ASSUME MaxStartsAssumption == MaxStarts \in Nat

VARIABLES
    program,     \* the program that runs
    starts       \* starts so far

vars == <<queueVars, fileVars, guiVars, cliVars, program, starts>>

TypeOK ==
    /\ QueueTypeOK /\ FilesTypeOK /\ GuiTypeOK /\ CliTypeOK
    /\ program \in {"none", "gui", "cli"}
    /\ starts \in 0 .. MaxStarts
    /\ (program # "cli" => stage = "off")
    /\ (program # "gui" => session = "off" /\ channel = <<>> /\ poll = "asleep")

Init ==
    /\ QueueInit /\ FilesInit /\ GuiInit /\ CliInit
    /\ program = "none"
    /\ starts = 0

MayStart == starts < MaxStarts /\ starts' = starts + 1

RunGui ==
    /\ program = "none" /\ program' = "gui"
    /\ MayStart
    /\ UNCHANGED <<queueVars, fileVars, guiVars, cliVars>>

RunCli ==
    /\ program = "none" /\ program' = "cli"
    /\ MayStart
    /\ \E log \in BOOLEAN : CliStart(log)
    /\ UNCHANGED <<queueVars, guiVars>>

End ==
    /\ program # "none" /\ program' = "none"
    /\ QueueReset /\ GuiReset /\ CliReset
    /\ UNCHANGED <<fileVars, starts>>

\* A command of the GUI; only the start of a session counts.
Commands ==
    /\ program = "gui"
    /\ \/ (\E c \in Configs : Start(c)) /\ MayStart
       \/ (SetLimits \/ OpenLog \/ OpenFails \/ SetWriter \/ SetNames \/ Stop)
          /\ UNCHANGED starts
    /\ UNCHANGED <<cliVars, program>>

Logs ==
    /\ program = "gui"
    /\ LogStep
    /\ UNCHANGED <<fileVars, guiVars, cliVars, program, starts>>

Polls ==
    /\ program = "gui"
    /\ PollStep
    /\ UNCHANGED <<cliVars, program, starts>>

Rotates ==
    /\ program = "cli"
    /\ CliStep
    /\ UNCHANGED <<queueVars, guiVars, program, starts>>

Next ==
    \/ RunGui \/ RunCli \/ End
    \/ Commands \/ Logs \/ Polls \/ Rotates

\* The runtime of the GUI runs the poll task whenever it is ready.
Spec == Init /\ [][Next]_vars /\ WF_vars(Polls)

-----------------------------------------------------------------------------
Increasing(s) == \A i, j \in DOMAIN s : i < j => s[i] < s[j]

\* The lines on the page and in each file are in the order in which they were
\* sent, none is there twice, and none is in two files.
InOrder ==
    /\ Increasing(page)
    /\ \A i \in DOMAIN files : Increasing(files[i].lines)
    /\ \A i, j \in DOMAIN files :
        i # j => \A k \in DOMAIN files[i].lines, m \in DOMAIN files[j].lines :
                    files[i].lines[k] # files[j].lines[m]

\* The limits in bytes that a session may have.
ByteLimits == {Defaults.bytes} \cup {c.limits.bytes : c \in Configs}

\* A file that was opened once is within one of the limits, though not always
\* within its session's, or holds a single line.  Opened again under the same
\* name, it starts with a size of zero for the poll task: it may hold as much
\* again, that is a limit or a line, whichever is largest.
FilesBounded ==
    \A i \in DOMAIN files :
        LET f == files[i]
        IN  /\ f.opened = 1 =>
                Len(f.lines) <= 1 \/ \E limit \in ByteLimits : f.bytes <= limit
            /\ \A cap \in ByteLimits \cup Sizes :
                (\A other \in ByteLimits \cup Sizes : other <= cap) =>
                    f.bytes <= f.opened * cap

\* While the GUI runs, a file is removed only if its name starts with the
\* prefix the poll task has copied, and num - 1 such files are left which were
\* modified after it.
CleanupKeepsNewest ==
    [][\A i \in DOMAIN files :
        program = "gui" /\ files[i].id \notin Ids(files') =>
            /\ StartsWith(files[i].prefix, named.prefix)
            /\ \E later \in SUBSET {j \in DOMAIN files : j > i} :
                /\ Cardinality(later) = seen.num - 1
                /\ \A j \in later : /\ StartsWith(files[j].prefix, named.prefix)
                                    /\ files[j].id \in Ids(files')
      ]_vars

\* What was in logs when the command line began to rotate is still there, in
\* logs or in backup, as long as this rotation lasts and wherever it ends,
\* whatever step of it fails.  (A start after a crash in the middle of the moves
\* empties backup of what was moved: it is a rotation of its own.)
RotationKeepsLogs == before \subseteq Ids(files)

\* What has been sent is dealt with, unless the program ends, also when a
\* rotation fails.
InFlight == channel # <<>> \/ batch # <<>>

LinesLeave == []<>(~ InFlight)

=============================================================================
