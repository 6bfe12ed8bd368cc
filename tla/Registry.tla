------------------------------ MODULE Registry ------------------------------
(***************************************************************************)
(* The registry of message types of the 3-layer service                    *)
(* (src/src-tauri/src/proto_dynamic.rs), which is loaded from a directory  *)
(* of .proto files before the server listens (src/src-tauri/src/server.rs) *)
(* and only read afterwards.                                               *)
(*                                                                         *)
(* The directory lists its files in any order.  The compiler (protox,      *)
(* external) adds what they import and puts a file behind its imports.     *)
(* Types are indexed by their names without the package.                   *)
(***************************************************************************)
EXTENDS Naturals, Sequences, FiniteSets, SequencesExt

CONSTANTS
    Files,       \* .proto files
    Listed,      \* those of the name *_v3.proto, the service's own left out
    Imports,     \* per file: the files it imports
    TopLevel,    \* per file: the names of its top-level messages
    Dashed,      \* per segment of a path: the segment with '-' replaced by '_'
    InSuitOam,   \* the module whose types are named by the second segment
    Missing      \* Option::None

ASSUME ListedAssumption == Listed \subseteq Files
ASSUME ImportsAssumption == Imports \in [Files -> SUBSET Files]
\* Two files of the repository never have a top-level message of one name.
ASSUME NamesAssumption ==
    \A f, g \in Files : f # g => TopLevel[f] \cap TopLevel[g] = {}

VARIABLES
    registry,    \* "none", "loaded" or "failed"
    index        \* message_by_name

registryVars == <<registry, index>>

RegistryInit == registry = "none" /\ index = <<>>

-----------------------------------------------------------------------------
Closed(fs) == \A f \in fs : Imports[f] \subseteq fs

\* What the compiler returns for the files of a directory.
Compiled(fs) ==
    {f \in Files : \A all \in SUBSET Files : fs \subseteq all /\ Closed(all) => f \in all}

Before(pool, f, g) ==
    \E i, j \in DOMAIN pool : i < j /\ pool[i] = f /\ pool[j] = g

\* Each of them once, each behind its imports.
Pools(fs) ==
    {pool \in SetToSeqs(Compiled(fs)) :
        \A f \in Compiled(fs) :
            /\ \E i \in DOMAIN pool : pool[i] = f
            /\ \A g \in Imports[f] : Before(pool, g, f)}

\* insert replaces the type of an earlier file: the last file of the pool counts.
Position(pool, name) ==
    CHOOSE i \in DOMAIN pool :
        /\ name \in TopLevel[pool[i]]
        /\ \A j \in DOMAIN pool : name \in TopLevel[pool[j]] => j <= i

Index(pool) ==
    [name \in UNION {TopLevel[pool[i]] : i \in DOMAIN pool} |->
        <<pool[Position(pool, name)], name>>]

Load(directory) ==
    /\ registry = "none"
    /\ registry' = "loaded"
    /\ \E pool \in Pools(directory \cap Listed) : index' = Index(pool)

\* A directory cannot be read or made, or a file does not compile: the server
\* is not started.
LoadFails ==
    /\ registry = "none"
    /\ registry' = "failed"
    /\ UNCHANGED index

-----------------------------------------------------------------------------
Lookup(name) == IF name \in DOMAIN index THEN index[name] ELSE Missing

\* Mutant of Find: the special case is left out.
FindFirst(path) == Lookup(Dashed[path[1]])

\* find_module, for a path as the sequence of its segments.
Find(path) ==
    IF Dashed[path[1]] \in DOMAIN index THEN index[Dashed[path[1]]]
    ELSE IF Dashed[path[1]] = InSuitOam /\ Len(path) > 1 THEN Lookup(path[2])
    ELSE Missing

=============================================================================
