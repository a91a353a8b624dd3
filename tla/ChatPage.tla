------------------------------ MODULE ChatPage ------------------------------
(***************************************************************************)
(* The chat page and the streams it reads (frontend/src/pages/ChatPage.tsx,*)
(* streamQuery of api.ts, and what _stream_insight of api/routers/query.py *)
(* sends).  submit() is an async function: it goes on reading its stream   *)
(* after the page has changed its session, and after it has been left.     *)
(*                                                                         *)
(* An event of a stream is a line, and the network may deliver half of it, *)
(* so a line is two pieces of which the second ends it.  What is done with *)
(* a chunk is one step: no click is handled between two of its events.     *)
(***************************************************************************)
EXTENDS Window, Selection

CONSTANTS
    MaxQuestions,   \* bound: how many questions the user asks
    Words           \* the tokens of an answer

ASSUME WordsAssumption == Words \in Nat \ {0}
ASSUME QuestionsAssumption == MaxQuestions \in Nat

\* Numbered as they are asked.
Questions == 1..MaxQuestions

VARIABLES
    \* The state of the mounted page.
    connector,  \* connector
    loading,    \* loading
    live,       \* streamText
    messages,   \* messages
    panels,     \* the <<session, question>> pairs of the panels saved
    \* Every call of submit().
    stage,      \* stage[q]: "unasked", "asked", or "over" when it returned
    here,       \* here[q]: the page that asked is still mounted, and waits
    text,       \* text[q]: accText
    answered,   \* answered[q]: finalResponse is set
    \* Its stream.
    sent,       \* sent[q]: the events the server has sent
    wire,       \* wire[q]: the pieces on their way
    rest,       \* rest[q]: buf, the piece of a line that has come so far
    parses,     \* parses[q]: the line of the last event is JSON
    during      \* during[q]: the sessions the page had meanwhile (history variable)

display == <<connector, loading, live, messages>>
calls == <<stage, here, text, answered>>
streams == <<sent, wire, rest, parses>>
chat == <<display, panels, calls, streams, during>>

\* The events of a stream: a token for each word, then the one that is done.
Events(q) == [i \in 1..(Words + 1) |-> <<q, i>>]
IsToken(event) == event[2] <= Words
Pieces == [of : Questions \X (1..(Words + 1)), ends : BOOLEAN]
Line(event) == <<[of |-> event, ends |-> FALSE], [of |-> event, ends |-> TRUE]>>

Answer(q) == SubSeq(Events(q), 1, Words)
Prefixes(q) == {SubSeq(Events(q), 1, n) : n \in 0..Words}
Message(q, failed) == [of |-> q, failed |-> failed, text |-> IF failed THEN <<>> ELSE text[q]]

Asking == {q \in Questions : here[q] /\ stage[q] = "asked"}

ChatTypes ==
    /\ connector \in Connectors
    /\ loading \in BOOLEAN
    /\ \A i \in DOMAIN messages : messages[i].of \in Questions /\ messages[i].failed \in BOOLEAN
    /\ panels \subseteq Sessions \X Questions
    /\ stage \in [Questions -> {"unasked", "asked", "over"}]
    /\ here \in [Questions -> BOOLEAN]
    /\ answered \in [Questions -> BOOLEAN]
    /\ sent \in [Questions -> 0..(Words + 1)]
    /\ \A q \in Questions : text[q] \in Prefixes(q)
    /\ \A q \in Questions : wire[q] \in Seq(Pieces) /\ rest[q] \in Seq(Pieces)
    /\ parses \in [Questions -> BOOLEAN]
    /\ during \in [Questions -> SUBSET Sessions]

ChatInit ==
    /\ connector = Demo
    /\ loading = FALSE
    /\ live = <<>>
    /\ messages = <<>>
    /\ panels = {}
    /\ stage = [q \in Questions |-> "unasked"]
    /\ here = [q \in Questions |-> FALSE]
    /\ text = [q \in Questions |-> <<>>]
    /\ answered = [q \in Questions |-> FALSE]
    /\ sent = [q \in Questions |-> 0]
    /\ wire = [q \in Questions |-> <<>>]
    /\ rest = [q \in Questions |-> <<>>]
    /\ parses = [q \in Questions |-> TRUE]
    /\ during = [q \in Questions |-> {}]

-----------------------------------------------------------------------------
(***************************************************************************)
(* What the user does.                                                     *)
(***************************************************************************)

IsNext(q) == stage[q] = "unasked" /\ \A p \in 1..(q - 1) : stage[p] # "unasked"

\* Faulty: a second question while the first is loading.
SubmitAnyTime(q) ==
    /\ page = "chat"
    /\ IsNext(q)
    /\ stage' = [stage EXCEPT ![q] = "asked"]
    /\ here' = [here EXCEPT ![q] = TRUE]
    /\ during' = [during EXCEPT ![q] = {session}]
    /\ loading' = TRUE
    /\ live' = <<>>
    /\ UNCHANGED <<window, connector, messages, panels, text, answered, streams>>

\* submit(), as far as the request.
Submit(q) ==
    /\ page = "chat"
    /\ ~loading
    /\ IsNext(q)
    /\ stage' = [stage EXCEPT ![q] = "asked"]
    /\ here' = [here EXCEPT ![q] = TRUE]
    /\ during' = [during EXCEPT ![q] = {session}]
    /\ loading' = TRUE
    /\ live' = <<>>
    /\ UNCHANGED <<window, connector, messages, panels, text, answered, streams>>

\* Faulty: the messages stay.
NewSessionAppends ==
    /\ page = "chat"
    /\ session < MaxSessions
    /\ session' = session + 1
    /\ during' = [q \in Questions |-> IF q \in Asking THEN during[q] \union {session'} ELSE during[q]]
    /\ UNCHANGED <<page, stored, display, panels, calls, streams>>

\* handleNewSession(): the page is empty, and a question that is being answered
\* goes on being answered.
NewSession ==
    /\ page = "chat"
    /\ session < MaxSessions
    /\ session' = session + 1
    /\ messages' = <<>>
    /\ during' = [q \in Questions |-> IF q \in Asking THEN during[q] \union {session'} ELSE during[q]]
    /\ UNCHANGED <<page, stored, connector, loading, live, panels, calls, streams>>

\* ConnectorSelector: select() sets the connector of the page and of the window.
Select(c) ==
    /\ page = "chat"
    /\ connector' = c
    /\ stored' = c
    /\ UNCHANGED <<page, session, loading, live, messages, panels, calls, streams, during>>

\* handlePin() of an answer with a chart, under the session of the page.
Pin(m) ==
    /\ page = "chat"
    /\ ~m.failed
    /\ panels' = panels \union {<<session, m.of>>}
    /\ UNCHANGED <<window, display, calls, streams, during>>

\* The page is left: what its calls still set is the state of no page.
Unmount ==
    /\ connector' = Demo
    /\ loading' = FALSE
    /\ live' = <<>>
    /\ messages' = <<>>
    /\ here' = [q \in Questions |-> FALSE]
    /\ UNCHANGED <<panels, stage, text, answered, streams, during>>

-----------------------------------------------------------------------------
(***************************************************************************)
(* The server and the network.                                             *)
(***************************************************************************)

\* _stream_insight(): the events come one at a time, the first when the run of
\* the agent has returned.  The last carries the rows of the answer, and
\* json.dumps writes a NaN among them in a way that JSON has not.
SendEvent(q) ==
    /\ stage[q] = "asked"
    /\ sent[q] <= Words
    /\ sent' = [sent EXCEPT ![q] = @ + 1]
    /\ wire' = [wire EXCEPT ![q] = @ \o Line(<<q, sent'[q]>>)]
    /\ \E json \in BOOLEAN :
           /\ sent[q] < Words => json
           /\ parses' = [parses EXCEPT ![q] = json]
    /\ UNCHANGED <<window, display, panels, calls, rest, during>>

\* The lines that are whole, by their ends; what is not one is ignored.
Whole(bytes) == {i \in DOMAIN bytes : bytes[i].ends /\ i > 1 /\ ~bytes[i - 1].ends}
Tokens(bytes) == {i \in Whole(bytes) : IsToken(bytes[i].of)}
WordsIn(bytes) == Picked([i \in DOMAIN bytes |-> bytes[i].of], Tokens(bytes))

\* Faulty: each chunk is taken for whole lines.
NothingLeft(bytes) == <<>>

\* lines.pop(): what comes after the last end of a line.
LeftOver(bytes) == IF bytes[Len(bytes)].ends THEN <<>> ELSE <<bytes[Len(bytes)]>>

\* A read() returns the next pieces, and submit() handles the events in them.
\* A line that does not parse is ignored.
Receive(q) ==
    \E n \in 1..Len(wire[q]) :
        LET bytes == rest[q] \o SubSeq(wire[q], 1, n)
        IN  /\ stage[q] = "asked"
            /\ wire' = [wire EXCEPT ![q] = SubSeq(@, n + 1, Len(@))]
            /\ rest' = [rest EXCEPT ![q] = LeftOver(bytes)]
            /\ text' = [text EXCEPT ![q] = @ \o WordsIn(bytes)]
            /\ answered' = [answered EXCEPT ![q] = @ \/ (Tokens(bytes) # Whole(bytes) /\ parses[q])]
            /\ live' = IF here[q] /\ Tokens(bytes) # {} THEN text'[q] ELSE live
            /\ UNCHANGED <<window, connector, loading, messages, panels, stage, here,
                           sent, parses, during>>

\* The rest of submit(), whose messages are those of the page that called it,
\* and the end of its variables.
Return(q, new) ==
    /\ stage' = [stage EXCEPT ![q] = "over"]
    /\ IF here[q]
       THEN /\ messages' = messages \o new
            /\ live' = <<>>
            /\ loading' = FALSE
       ELSE UNCHANGED <<messages, live, loading>>
    /\ wire' = [wire EXCEPT ![q] = <<>>]
    /\ rest' = [rest EXCEPT ![q] = <<>>]
    /\ text' = [text EXCEPT ![q] = <<>>]
    /\ answered' = [answered EXCEPT ![q] = FALSE]
    /\ sent' = [sent EXCEPT ![q] = 0]
    /\ parses' = [parses EXCEPT ![q] = TRUE]
    /\ here' = [here EXCEPT ![q] = FALSE]
    /\ UNCHANGED <<window, connector, panels, during>>

\* Faulty: the call does not end with its stream.
ReturnsAgain(q) ==
    /\ stage[q] = "asked"
    /\ sent[q] = Words + 1 /\ wire[q] = <<>>
    /\ Len(messages) <= Cardinality(Questions)
    /\ messages' = Append(messages, Message(q, FALSE))
    /\ UNCHANGED <<window, connector, loading, live, panels, calls, streams, during>>

\* The stream ends after its last event, which submit() may not have got.
StreamEnds(q) ==
    /\ stage[q] = "asked"
    /\ sent[q] = Words + 1 /\ wire[q] = <<>>
    /\ Return(q, IF answered[q] THEN <<Message(q, FALSE)>> ELSE <<>>)

\* Faulty: an exception is shown, and the page goes on loading.
BreaksLoading(q) ==
    /\ stage[q] = "asked"
    /\ stage' = [stage EXCEPT ![q] = "over"]
    /\ messages' = IF here[q] THEN Append(messages, Message(q, TRUE)) ELSE messages
    /\ UNCHANGED <<window, connector, loading, live, panels, here, text, answered,
                   streams, during>>

\* The request is refused, the run of the agent raises, or the connection is
\* lost, be it after the last event.
StreamBreaks(q) ==
    /\ stage[q] = "asked"
    /\ Return(q, <<Message(q, TRUE)>>)

ChatStep ==
    \/ \E q \in Questions :
           \/ Submit(q) \/ SendEvent(q) \/ Receive(q) \/ StreamEnds(q) \/ StreamBreaks(q)
    \/ NewSession
    \/ \E i \in DOMAIN messages : Pin(messages[i])

\* A server that has begun to answer goes on, the network delivers, and what
\* has come is read; nothing makes the run of the agent return.
ChatFairness ==
    \A q \in Questions :
        /\ WF_chat(SendEvent(q) /\ sent[q] > 0)
        /\ WF_chat(Receive(q))
        /\ WF_chat(StreamEnds(q))

-----------------------------------------------------------------------------
(***************************************************************************)
(* Properties.                                                             *)
(***************************************************************************)

\* However the network cuts a stream into chunks, a message shows the words of
\* its own question's answer, all of them and in order, or an error
\* (api.ts:129-141, ChatPage.tsx:53-69).
MessagesAreWhole ==
    \A i \in DOMAIN messages :
        messages[i].failed \/ messages[i].text = Answer(messages[i].of)

\* The text that grows on the page is that of the question it is loading: a
\* page reads one stream at a time, and a stream of a page that has been left
\* disturbs no other (ChatPage.tsx:41, 67).
LiveTextIsOwn ==
    /\ loading <=> Asking # {}
    /\ \A q \in Asking : live = text[q]

\* A message is shown, and a panel saved, only under a session the page had
\* while the question was being answered (ChatPage.tsx:81, 97-107): an answer
\* may come late into the next session, but in none after that.
FiledWhereAsked ==
    /\ \A i \in DOMAIN messages : session \in during[messages[i].of]
    /\ \A p \in panels : p[1] \in during[p[2]]

\* When the page stops loading, the question has got its message, however the
\* stream was cut and whatever was clicked: one is dropped without a word only
\* when its stream came to its end with a last event that is no JSON
\* (api.ts:138, ChatPage.tsx:80).
DroppedAtTheEnd(q) == ~parses[q] /\ sent[q] = Words + 1 /\ messages' = messages
NoQuestionDropped ==
    [][\A q \in Asking :
          stage'[q] = "over" =>
              \/ DroppedAtTheEnd(q)
              \/ Len(messages') = Len(messages) + 1 /\ messages'[Len(messages')].of = q]_chat
=============================================================================
