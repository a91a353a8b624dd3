----------------------------- MODULE UploadPage -----------------------------
(***************************************************************************)
(* The upload page (frontend/src/pages/UploadPage.tsx) and the handlers it *)
(* calls (api/routers/upload.py).  A file is stored and its schema         *)
(* ingested, a database is only ingested; either way the answer names the  *)
(* connector, which the page shows and keeps for the questions to come.    *)
(* Like a question, an upload goes on when its page is left, and a second  *)
(* one can be begun beside it after switching tabs.                        *)
(***************************************************************************)
EXTENDS Window

VARIABLES
    status,     \* status
    shown,      \* connectorId: the source in the success box, if any
    upload,     \* upload[u]: how far the call is
    from,       \* from[u]: the page that made the call is still mounted, and waits
    indexed     \* the sources whose schema has been ingested

uploads == <<status, shown, upload, from, indexed>>

UploadTypes ==
    /\ status \in {"idle", "uploading", "success", "error"}
    /\ shown \subseteq Uploads
    /\ upload \in [Uploads -> {"none", "sent", "connected", "refused", "over"}]
    /\ from \in [Uploads -> BOOLEAN]
    /\ indexed \subseteq Uploads

UploadInit ==
    /\ status = "idle"
    /\ shown = {}
    /\ upload = [u \in Uploads |-> "none"]
    /\ from = [u \in Uploads |-> FALSE]
    /\ indexed = {}

\* Faulty: the connector is kept before the server has answered.
SendAndStore(u) ==
    /\ page = "upload" /\ status = "idle"
    /\ upload[u] = "none"
    /\ upload' = [upload EXCEPT ![u] = "sent"]
    /\ from' = [from EXCEPT ![u] = TRUE]
    /\ status' = "uploading"
    /\ stored' = u
    /\ UNCHANGED <<page, session, shown, indexed>>

\* handleFile() or handleConnectDb(), as far as the request.
Send(u) ==
    /\ page = "upload" /\ status = "idle"
    /\ upload[u] = "none"
    /\ upload' = [upload EXCEPT ![u] = "sent"]
    /\ from' = [from EXCEPT ![u] = TRUE]
    /\ status' = "uploading"
    /\ UNCHANGED <<window, shown, indexed>>

\* upload_data_file() or connect_database(): refused or failed before the
\* ingestion, ingested, or ingested and failed all the same (the cache is swept
\* after the commit).  A file that was stored stays there in every case.
Handle(u) ==
    /\ upload[u] = "sent"
    /\ \E found \in {"connected", "refused"} :
           /\ upload' = [upload EXCEPT ![u] = found]
           /\ IF found = "connected"
              THEN indexed' = indexed \union {u}
              ELSE indexed' \in {indexed, indexed \union {u}}
    /\ UNCHANGED <<window, status, shown, from>>

\* The answer: kept for the window, and shown if the page is still there.
Connected(u) ==
    /\ upload[u] = "connected"
    /\ upload' = [upload EXCEPT ![u] = "over"]
    /\ stored' = u
    /\ IF from[u] THEN status' = "success" /\ shown' = {u} ELSE UNCHANGED <<status, shown>>
    /\ from' = [from EXCEPT ![u] = FALSE]
    /\ UNCHANGED <<page, session, indexed>>

\* Faulty: only an error the server reports is handled.
RefusedQuietly(u) ==
    /\ upload[u] \in {"sent", "connected", "refused"}
    /\ upload' = [upload EXCEPT ![u] = "over"]
    /\ UNCHANGED <<window, status, shown, from, indexed>>

\* An error status, or no answer at all.
Refused(u) ==
    /\ upload[u] \in {"sent", "connected", "refused"}
    /\ upload' = [upload EXCEPT ![u] = "over"]
    /\ status' = IF from[u] THEN "error" ELSE status
    /\ from' = [from EXCEPT ![u] = FALSE]
    /\ UNCHANGED <<window, shown, indexed>>

\* resetState(), by the buttons of the boxes or by switching tabs.
Reset ==
    /\ page = "upload" /\ status # "idle"
    /\ status' = "idle"
    /\ shown' = {}
    /\ UNCHANGED <<window, upload, from, indexed>>

\* The page is left.
UnmountUpload ==
    /\ status' = "idle"
    /\ shown' = {}
    /\ from' = [u \in Uploads |-> FALSE]
    /\ UNCHANGED <<upload, indexed>>

UploadStep ==
    \/ \E u \in Uploads : Send(u) \/ Handle(u) \/ Connected(u) \/ Refused(u)
    \/ Reset

\* What the server has answered arrives or is lost.
UploadFairness == \A u \in Uploads : WF_uploads(Connected(u) \/ Refused(u))
=============================================================================
