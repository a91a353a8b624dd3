------------------------------- MODULE Browser -------------------------------
(***************************************************************************)
(* A browser window with its chat page and its upload page: one of them is *)
(* mounted, and calls of either go on while the other is shown.            *)
(***************************************************************************)
EXTENDS ChatPage, UploadPage

VARIABLE chosen     \* the preset, and what the user chose (history variable)

vars == <<window, chat, uploads, chosen>>

Init == WindowInit /\ ChatInit /\ UploadInit /\ chosen = {Demo}

\* The navigation of Layout.tsx: a page that is mounted reads the window's
\* connector, and knows nothing of what was on it before.
GoToUpload ==
    /\ page = "chat"
    /\ page' = "upload"
    /\ Unmount
    /\ UNCHANGED <<session, stored, uploads, chosen>>

GoToChat ==
    /\ page = "upload"
    /\ page' = "chat"
    /\ UnmountUpload
    /\ connector' = stored
    /\ UNCHANGED <<session, stored, loading, live, messages, panels, calls, streams, during, chosen>>

\* The user chooses the preset, or types in any id.
Choose ==
    /\ \E c \in Connectors : Select(c) /\ chosen' = chosen \union {c}
    /\ UNCHANGED uploads

Next ==
    \/ ChatStep /\ UNCHANGED <<uploads, chosen>>
    \/ UploadStep /\ UNCHANGED <<chat, chosen>>
    \/ GoToUpload
    \/ GoToChat
    \/ Choose

Spec == Init /\ [][Next]_vars

FairSpec == Spec /\ ChatFairness /\ UploadFairness

-----------------------------------------------------------------------------
(***************************************************************************)
(* Properties.                                                             *)
(***************************************************************************)

\* The types, and no question has two messages (ChatPage.tsx:81).
TypeOK ==
    /\ WindowTypes /\ ChatTypes /\ UploadTypes
    /\ chosen \subseteq Connectors
    /\ \A i, j \in DOMAIN messages : messages[i].of = messages[j].of => i = j

\* What the window takes up by itself has been ingested: whatever answers come
\* late, come to nobody, or do not come, a source is shown as connected only after
\* its schema was ingested, and one that was not is kept and asked about only if
\* the user chose it (UploadPage.tsx:24-28, upload.py:69-75,
\* ConnectorSelector.tsx:20-29).
IndexedUnlessChosen ==
    /\ status = "success" => shown # {}
    /\ shown \subseteq indexed
    /\ {stored, connector} \subseteq indexed \union chosen

\* A page waits only for a server that has not answered yet: what has begun to
\* come is shown in the end, or the page says that it broke off
\* (ChatPage.tsx:70-90, UploadPage.tsx:29-32).
WaitsAreForTheServer ==
    /\ []<>(loading => \E q \in Asking : sent[q] = 0)
    /\ []<>(status = "uploading" => \E u \in Uploads : from[u] /\ upload[u] = "sent")
=============================================================================
