------------------------------ MODULE LogFiles ------------------------------
(***************************************************************************)
(* The log files that the GUI (src/src-tauri/src/gui.rs) and the command   *)
(* line (src/src-tauri/src/logging_setup.rs) share: a directory logs with  *)
(* a subdirectory backup, in the directory the program is started in.      *)
(*                                                                         *)
(* files is a sequence: the file that was modified last is at its end.  A  *)
(* name is the prefix, made of mode and port, and the second in which the  *)
(* file was asked for; the programs give their files different endings.    *)
(***************************************************************************)
EXTENDS Naturals, Sequences, FiniteSets, Subsequences

CONSTANTS
    Prefixes,    \* mode and port, as in the names of files
    Covers,      \* pairs of prefixes: the first starts with the second
    None,        \* Option::None; of a prefix, the empty string
    Seconds      \* bound: timestamps in names of files

ASSUME NoneAssumption == None \notin Prefixes \cup Nat
ASSUME SecondsAssumption == Seconds \subseteq Nat

VARIABLES
    files,       \* the files there are, least recently modified first
    created,     \* history: files created so far, which numbers them
    clock        \* the second it was when a name was last made

fileVars == <<files, created, clock>>

\* Where a file goes and what its name starts with.  What is without a directory
\* is in the current one.
Names == [dir : {"current", "logs"}, prefix : Prefixes \cup {None}]

Unnamed == [dir |-> "current", prefix |-> None]
InLogs(p) == [dir |-> "logs", prefix |-> p]

FilesTypeOK ==
    /\ \A i \in DOMAIN files :
        LET f == files[i]
        IN  /\ f.place \in {"current", "logs", "backup"}
            /\ f.of \in {"gui", "cli"}
            /\ f.prefix \in Prefixes \cup {None}
            /\ f.id \in 1 .. created
            /\ {f.second, f.opened, f.bytes} \subseteq Nat
    /\ created \in Nat
    /\ clock \in Seconds \cup {0}

FilesInit == files = <<>> /\ created = 0 /\ clock = 0

Ids(fs) == {fs[i].id : i \in DOMAIN fs}
IdsIn(place) == {files[i].id : i \in {i \in DOMAIN files : files[i].place = place}}

Without(fs, ids) == Subsequence(fs, {i \in DOMAIN fs : fs[i].id \notin ids})
TheFile(fs, id) == fs[CHOOSE i \in DOMAIN fs : fs[i].id = id]

\* Time passes between two looks at it.
Now == {second \in Seconds : second >= clock}

\* The files of the name that a program would open now: one at most.
Named(fs, of, name, now) ==
    {i \in DOMAIN fs : /\ fs[i].of = of /\ fs[i].prefix = name.prefix
                       /\ fs[i].place = name.dir /\ fs[i].second = now}

\* OpenOptions with create and append: the identity of the file that is opened,
\* and the files then.  A name that is there already is opened again.
Opened(fs, of, name, now) ==
    LET same == Named(fs, of, name, now)
    IN  IF same = {} THEN created + 1 ELSE fs[CHOOSE i \in same : TRUE].id

AfterOpen(fs, of, name, now) ==
    LET id == Opened(fs, of, name, now)
    IN  IF id <= created
        THEN [i \in DOMAIN fs |-> IF fs[i].id = id
                                  THEN [fs[i] EXCEPT !.opened = @ + 1] ELSE fs[i]]
        ELSE Append(fs, [id |-> id, of |-> of, prefix |-> name.prefix,
                         place |-> name.dir, second |-> now,
                         opened |-> 1, bytes |-> 0, lines |-> <<>>])

\* A line is written to an open file, which becomes the last one modified.  What
\* is written to a file that has been removed is lost with it.
AfterWrite(fs, id, line) ==
    IF id \notin Ids(fs) THEN fs
    ELSE Append(Without(fs, {id}),
                [TheFile(fs, id) EXCEPT !.bytes = @ + line.size,
                                        !.lines = Append(@, line.no)])

\* cleanup_old_logs counts the files whose names start with the prefix, as all
\* do with the empty one.  The empty path is no directory that could be read.
StartsWith(p, start) == start = None \/ <<p, start>> \in Covers

Matching(fs, name) ==
    {i \in DOMAIN fs : /\ fs[i].of = "gui"
                       /\ fs[i].place = "logs" /\ name.dir = "logs"
                       /\ StartsWith(fs[i].prefix, name.prefix)}

\* Mutant of Excess: the newest are removed.
ExcessNewest(fs, name, num) ==
    LET all == Matching(fs, name)
    IN  {fs[Nth(all, k)].id : k \in num .. Cardinality(all)}

\* The oldest of them are to go until one less than num is left.
Excess(fs, name, num) ==
    LET all == Matching(fs, name)
    IN  {fs[Nth(all, k)].id : k \in 1 .. Cardinality(all) + 1 - num}

\* The files then: that one cannot be removed is ignored, and it stays.
AfterCleanup(fs, name, num) ==
    {Without(fs, gone) : gone \in SUBSET Excess(fs, name, num)}

=============================================================================
