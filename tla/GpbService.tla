----------------------------- MODULE GpbService -----------------------------
(***************************************************************************)
(* The 3-layer service from the start of its server to the entries of the  *)
(* log: GpbFeed behind a Registry, and what trans_gpb_response             *)
(* (src/src-tauri/src/dialout/gpb_v3.rs) makes of a merged message.        *)
(***************************************************************************)
EXTENDS GpbFeed, Registry

CONSTANTS
    Directories, \* contents of the directory proto
    Content      \* per message of the plan: its Telemetry

\* A message is no Telemetry, or one that carries JSON, well-formed or not, or
\* rows that the device has encoded with a type of one of the files, some of them
\* empty.  The type is named by the first segment of the path or, behind
\* InSuitOam, by the second.
Names(path, name) ==
    \/ Dashed[path[1]] = name /\ name # InSuitOam
    \/ /\ Dashed[path[1]] = InSuitOam /\ Len(path) > 1 /\ path[2] = name
       /\ \A f \in Files : InSuitOam \notin TopLevel[f]

ASSUME ContentAssumption ==
    \A i \in DOMAIN Plan :
        /\ Content[i].encoding \in {"none", "json", "gpb"}
        /\ Content[i].encoding = "gpb" =>
            /\ Content[i].type[1] \in Files
            /\ Content[i].type = <<Content[i].type[1], Content[i].type[2]>>
            /\ Content[i].type[2] \in TopLevel[Content[i].type[1]]
            /\ Names(Content[i].path, Content[i].type[2])
            /\ Missing # Content[i].type

VARIABLE directory  \* the directory that the server finds

serviceVars == <<feedVars, registryVars, directory>>

ServiceInit == FeedInit /\ RegistryInit /\ directory \in Directories

\* The directory is looked at once.
ServiceLoad ==
    /\ Load(directory) \/ LoadFails
    /\ UNCHANGED <<feedVars, directory>>

Serve ==
    /\ registry = "loaded"
    /\ FeedNext
    /\ UNCHANGED <<registryVars, directory>>

ServiceNext == ServiceLoad \/ Serve

ServiceSpec ==
    /\ ServiceInit
    /\ [][ServiceNext]_serviceVars
    /\ \A d \in Devices : WF_feedVars(FeedReceive(d))

-----------------------------------------------------------------------------
\* The rows of a table: each that is not empty is decoded with the type.
Rows(filled, type) == [n \in DOMAIN filled |-> IF filled[n] THEN type ELSE Missing]

Shown(outcome, rows) == [outcome |-> outcome, rows |-> rows]

\* trans_gpb_content: without a module no row is shown.
TransContent(t) ==
    IF Find(t.path) = Missing THEN Shown("no module", <<>>)
    ELSE Shown("rows", Rows(t.rows, Find(t.path)))

\* data_str, as it is or formatted.
TransJson(t) == Shown(IF t.valid THEN "json" ELSE "json error", <<>>)

\* trans_gpb_response: bytes may be no Telemetry at all.
Trans(t) ==
    CASE t.encoding = "none" -> Shown("decode error", <<>>)
      [] t.encoding = "json" -> TransJson(t)
      [] t.encoding = "gpb" -> TransContent(t)

\* The type of a device's rows is in the directory or in what it imports.
Known(t) == t.type[1] \in Compiled(directory \cap Listed)

\* Whatever the order in which the directory lists its files, and whatever the
\* path is spelled like, the rows of a message that a device has sent whole are
\* decoded with the type it has encoded, or, if the directory lacks that type,
\* not with another one.
DecodedAsSent ==
    \A d \in Devices : \A e \in DOMAIN shown[d] :
        LET i == EntryMessage(shown[d][e])
            t == Content[i]
        IN  i \in DOMAIN Plan /\ t.encoding = "gpb" =>
            Trans(t) = IF Known(t) THEN Shown("rows", Rows(t.rows, t.type))
                       ELSE Shown("no module", <<>>)

=============================================================================
