----------------------------- MODULE GnmiNotify -----------------------------
(***************************************************************************)
(* GnmiPublish with what is read: the SubscribeResponses of devices, and   *)
(* what print_gnmi_response (src/src-tauri/src/dialout/gnmi.rs) puts in    *)
(* the log for each.                                                       *)
(***************************************************************************)
EXTENDS GnmiPublish, Subsequences

CONSTANTS
    Paths,       \* elements of paths
    Responses,   \* what devices send
    Quiet        \* performance mode or original mode: nothing is formatted

\* val is "none", or tells how an update's value is shown: "json", "null",
\* "not json", "not utf8", and "no json" for another type of value.
Update == [path : Seq(Paths), val : {"none", "json", "null", "not json", "not utf8", "no json"}]
Response == [notification : BOOLEAN, prefix : Seq(Paths), updates : Seq(Update)]

ASSUME ResponsesAssumption == Responses \subseteq Response
ASSUME QuietAssumption == Quiet \in BOOLEAN

VARIABLES
    response,    \* the response read last, by whichever handler
    entry        \* what was put in the log for it

notifyVars == <<vars, response, entry>>

\* A response whose oneof is another one, or missing.
NoNotification == [notification |-> FALSE, prefix |-> <<>>, updates |-> <<>>]

Entry(level, xpath, rows) == [level |-> level, xpath |-> xpath, rows |-> rows]

NotifyInit == Init /\ response = NoNotification /\ entry = Entry("none", <<>>, <<>>)

-----------------------------------------------------------------------------
Row(n, update) == [n |-> n, path |-> update.path, shown |-> update.val]

\* Mutant of Rows: the rows are numbered as they are shown.
RowsRenumbered(updates) ==
    LET some == Subsequence(updates, {i \in DOMAIN updates : updates[i].val # "none"})
    IN  [i \in DOMAIN some |-> Row(i, some[i])]

\* enumerate, then filter_map: an update without a val leaves a gap.
Rows(updates) ==
    Subsequence([i \in DOMAIN updates |-> Row(i, updates[i])],
                {i \in DOMAIN updates : updates[i].val # "none"})

\* The path of all rows together is that of the first update, shown or not.
XPath(r) == r.prefix \o r.updates[1].path

EntryOf(r) ==
    IF ~ r.notification \/ r.updates = <<>> THEN Entry("error", <<>>, <<>>)
    ELSE Entry("info", XPath(r), Rows(r.updates))

\* The entry is written before the answer is sent; an error is answered too.
NotifyRead(c) ==
    /\ Read(c)
    /\ response' \in Responses
    /\ entry' = IF Quiet THEN Entry("quiet", <<>>, <<>>) ELSE EntryOf(response')

NotifyNext ==
    \E c \in Clients :
        \/ NotifyRead(c)
        \/ /\ \/ Connect(c) \/ DeviceSend(c) \/ DeviceEnd(c) \/ Lose(c)
              \/ Send(c) \/ Return(c) \/ Answer(c) \/ Finish(c)
           /\ UNCHANGED <<response, entry>>

NotifySpec ==
    /\ NotifyInit
    /\ [][NotifyNext]_notifyVars
    /\ \A c \in Clients : WF_vars(Handler(c))

-----------------------------------------------------------------------------
\* An update that has a value is shown in one row, under its position in the
\* notification and with its own path; no other rows are shown, and rows are in
\* the order of the updates.
RowsOfUpdates ==
    entry.level = "info" =>
        LET updates == response.updates
            rows    == entry.rows
        IN  /\ \A i \in DOMAIN updates : updates[i].val # "none" =>
                \E k \in DOMAIN rows :
                    rows[k] = [n |-> i, path |-> updates[i].path, shown |-> updates[i].val]
            /\ \A k \in DOMAIN rows : updates[rows[k].n].val # "none"
            /\ \A k, m \in DOMAIN rows : k < m => rows[k].n < rows[m].n

=============================================================================
