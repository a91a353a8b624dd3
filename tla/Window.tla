------------------------------- MODULE Window -------------------------------
(***************************************************************************)
(* What the pages of one browser window share (frontend/src/session.ts and *)
(* App.tsx): which page is mounted, and the session and connector kept in  *)
(* localStorage.  The pages that only display what the API returns are     *)
(* left out, and so are other windows of the same browser.                 *)
(***************************************************************************)
EXTENDS Naturals, Sequences, FiniteSets

CONSTANTS
    MaxSessions,    \* bound: how many sessions the window has
    Uploads,        \* the sources a user uploads or connects, one connector id each
    Demo            \* the connector id of the demo database, the preset

ASSUME DemoAssumption == Demo \notin Uploads
ASSUME SessionsAssumption == MaxSessions \in Nat \ {0}

\* uuidv4 repeats nothing, so sessions are numbered as they are begun.
Sessions == 1..MaxSessions

Pages == {"chat", "upload"}
Connectors == Uploads \union {Demo}

VARIABLES
    page,       \* the page that is mounted
    session,    \* localStorage[SESSION_KEY], and sessionId of the chat page
    stored      \* localStorage[CONN_KEY]

window == <<page, session, stored>>

WindowTypes == page \in Pages /\ session \in Sessions /\ stored \in Connectors

WindowInit == page = "chat" /\ session = 1 /\ stored = Demo
=============================================================================
