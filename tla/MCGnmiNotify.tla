---------------------------- MODULE MCGnmiNotify ----------------------------
(***************************************************************************)
(* Small instances of GnmiNotify for TLC.                                  *)
(***************************************************************************)
EXTENDS GnmiNotify

CONSTANTS c1, c2

MCClients == {c1, c2}

Of(val, path) == [path |-> path, val |-> val]
Notification(updates) == [notification |-> TRUE, prefix |-> <<"root">>, updates |-> updates]

\* No notification, no updates, and updates of every kind, with and without a
\* value in front of others.
MCResponses ==
    {NoNotification, Notification(<<>>),
     Notification(<<Of("json", <<"a">>)>>),
     Notification(<<Of("none", <<>>), Of("null", <<"a">>), Of("not json", <<"a", "b">>)>>),
     Notification(<<Of("not utf8", <<"b">>), Of("none", <<"a">>), Of("no json", <<"a">>)>>)}

MCPaths == {"root", "a", "b"}

=============================================================================
