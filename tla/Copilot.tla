------------------------------- MODULE Copilot -------------------------------
(***************************************************************************)
(* The expert copilot against the backend (ExpertCopilot.tsx in live mode, *)
(* lib/api/stream.ts): chat sessions listed when the screen opens, their   *)
(* messages fetched when one is first selected, a session created on the   *)
(* server with its first question, and an answer streamed into a bubble.   *)
(* Several answers may stream at once and calls end in any order.          *)
(***************************************************************************)
EXTENDS Integers, Sequences, FiniteSets, Lists

CONSTANTS
  Chats,         \* chats the server has when the screen opens
  MaxSends,      \* bound: questions asked
  MaxTokens,     \* bound: tokens of an answer
  None

CopilotAssumption == MaxSends \in Nat /\ MaxTokens \in Nat /\ Chats \cap Nat = {} /\ IsFiniteSet(Chats)

VARIABLES
  view,          \* the state hooks
  calls,         \* calls and streams in flight, in no order
  server         \* chats that exist

vars == <<view, calls, server>>

\* A session: its local id, the chat it has on the server, whether its messages were fetched, and
\* the bubbles of the answers asked for here.  Bubbles and new sessions are numbered by question.
Listed(c) == [id |-> c, backend |-> c, loaded |-> FALSE, bubbles |-> <<>>]

Init ==
  /\ view = [sessions |-> <<>>, active |-> None, asked |-> 0,
             text |-> [b \in 1 .. MaxSends |-> 0], streaming |-> [b \in 1 .. MaxSends |-> FALSE]]
  /\ calls = {[op |-> "sessions"]}
  /\ server = Chats

Ids == {view.sessions[i].id : i \in DOMAIN view.sessions}
SessionOf(id) == CHOOSE s \in Elements(view.sessions) : s.id = id
Mapped(id, F(_)) ==
  [i \in DOMAIN view.sessions |-> IF view.sessions[i].id = id THEN F(view.sessions[i])
                                  ELSE view.sessions[i]]
Shown(b) == \E i \in DOMAIN view.sessions : b \in Elements(view.sessions[i].bubbles)

\* The server lists its chats in an order of its own.
Listing ==
  CHOOSE list \in [1 .. Cardinality(server) -> server] :
    \A i, j \in DOMAIN list : list[i] = list[j] => i = j

MessagesCall(s) == [op |-> "messages", id |-> s.id]

\* The list replaces whatever sessions there are by now; the first one is opened.
SessionsListed ==
  /\ [op |-> "sessions"] \in calls
  /\ LET rows == Listing
         sessions == [i \in DOMAIN rows |-> Listed(rows[i])]
     IN /\ view' = [view EXCEPT !.sessions = sessions,
                                !.active = IF rows = <<>> THEN None ELSE rows[1]]
        /\ calls' = (calls \ {[op |-> "sessions"]})
                      \cup (IF rows = <<>> THEN {} ELSE {MessagesCall(sessions[1])})
  /\ UNCHANGED server

SessionsFail ==
  /\ [op |-> "sessions"] \in calls
  /\ calls' = calls \ {[op |-> "sessions"]}
  /\ view' = [view EXCEPT !.sessions = <<>>, !.active = None]
  /\ UNCHANGED server

\* loadSessionMessages: on success what the server has replaces the bubbles of this screen.
MessagesLoaded(id, ok) ==
  /\ [op |-> "messages", id |-> id] \in calls
  /\ calls' = calls \ {[op |-> "messages", id |-> id]}
  /\ view' = [view EXCEPT !.sessions =
                Mapped(id, LAMBDA s : [s EXCEPT !.loaded = TRUE, !.bubbles = IF ok THEN <<>> ELSE @])]
  /\ UNCHANGED server

HandleSelectSession(id) ==
  /\ id \in Ids
  /\ view' = [view EXCEPT !.active = id]
  /\ LET s == SessionOf(id)
     IN calls' = IF s.backend # None /\ ~s.loaded THEN calls \cup {MessagesCall(s)} ELSE calls
  /\ UNCHANGED server

HandleCreateNewSession ==
  /\ view.asked < MaxSends
  /\ -view.asked \notin Ids
  /\ view' = [view EXCEPT !.active = -view.asked,
                          !.sessions = <<[id |-> -view.asked, backend |-> None, loaded |-> FALSE,
                                          bubbles |-> <<>>]>> \o @]
  /\ UNCHANGED <<calls, server>>

\* An id is listed once.
HandleDeleteSession(id) ==
  /\ id \in Ids
  /\ LET left == TakeOut(view.sessions, CHOOSE i \in DOMAIN view.sessions : view.sessions[i].id = id)
         backend == SessionOf(id).backend
     IN /\ view' = [view EXCEPT !.sessions = left,
                                !.active = IF left = <<>> THEN None
                                           ELSE IF @ = id THEN left[1].id ELSE @]
        /\ calls' = IF backend = None THEN calls ELSE calls \cup {[op |-> "delete", chat |-> backend]}
  /\ UNCHANGED server

ChatDeleted(chat, ok) ==
  /\ [op |-> "delete", chat |-> chat] \in calls
  /\ calls' = calls \ {[op |-> "delete", chat |-> chat]}
  /\ server' = IF ok THEN server \ {chat} ELSE server
  /\ UNCHANGED view

Stream(id, chat, b) == [op |-> "stream", id |-> id, chat |-> chat, bubble |-> b, acc |-> 0]

\* handleSend and streamLiveAnswer up to its first call.  Without an active session one is made;
\* a session whose chat is still being created gets another one.
HandleSend ==
  /\ view.asked < MaxSends
  /\ LET k == view.asked + 1
         found == view.active \in Ids
         id == IF found THEN view.active ELSE k
         base == IF found THEN view.sessions
                 ELSE <<[id |-> k, backend |-> None, loaded |-> TRUE, bubbles |-> <<>>]>> \o view.sessions
         chat == IF found THEN SessionOf(id).backend ELSE None
     IN /\ view' = [view EXCEPT
              !.asked = k, !.active = id, !.streaming[k] = TRUE,
              !.sessions = [i \in DOMAIN base |->
                              IF base[i].id = id THEN [base[i] EXCEPT !.bubbles = Append(@, k)]
                              ELSE base[i]]]
        /\ calls' = calls \cup {IF chat = None THEN [op |-> "create", id |-> id, bubble |-> k]
                                ELSE Stream(id, chat, k)}
  /\ UNCHANGED server

\* POST /chat/sessions
ChatCreated(id, b) ==
  /\ [op |-> "create", id |-> id, bubble |-> b] \in calls
  /\ server' = server \cup {b}
  /\ calls' = (calls \ {[op |-> "create", id |-> id, bubble |-> b]}) \cup {Stream(id, b, b)}
  /\ view' = [view EXCEPT !.sessions = Mapped(id, LAMBDA s : [s EXCEPT !.backend = b])]

\* patchBotMessage: only a bubble that is still in its session changes.
Patched(b, text, streaming) ==
  IF Shown(b) THEN [view EXCEPT !.text[b] = text, !.streaming[b] = streaming] ELSE view

ChatCreationFails(id, b) ==
  /\ [op |-> "create", id |-> id, bubble |-> b] \in calls
  /\ calls' = calls \ {[op |-> "create", id |-> id, bubble |-> b]}
  /\ view' = Patched(b, view.text[b], FALSE)
  /\ UNCHANGED server

\* Mutant: a token is written to the newest bubble of the session.
Token_LastBubble(c) ==
  /\ c \in calls /\ c.op = "stream" /\ c.acc < MaxTokens
  /\ calls' = (calls \ {c}) \cup {[c EXCEPT !.acc = @ + 1]}
  /\ LET own == {s \in Elements(view.sessions) : s.id = c.id /\ s.bubbles # <<>>}
     IN view' = IF own = {} THEN view
                ELSE LET s == CHOOSE s \in own : TRUE IN Patched(s.bubbles[Len(s.bubbles)], c.acc + 1, TRUE)
  /\ UNCHANGED server

Token(c) ==
  /\ c \in calls /\ c.op = "stream" /\ c.acc < MaxTokens
  /\ calls' = (calls \ {c}) \cup {[c EXCEPT !.acc = @ + 1]}
  /\ view' = Patched(c.bubble, c.acc + 1, view.streaming[c.bubble])
  /\ UNCHANGED server

\* A done frame leaves the text as it is; an error sets what has come, or an apology for
\* nothing.  The bubble is complete.
StreamEnds(c) ==
  /\ c \in calls /\ c.op = "stream"
  /\ calls' = calls \ {c}
  /\ \E text \in {view.text[c.bubble], c.acc} : view' = Patched(c.bubble, text, FALSE)
  /\ UNCHANGED server

\* The body ends without a done frame: no handler is called.
StreamCloses(c) ==
  /\ c \in calls /\ c.op = "stream"
  /\ calls' = calls \ {c}
  /\ UNCHANGED <<view, server>>

Next ==
  \/ SessionsListed \/ SessionsFail \/ HandleCreateNewSession \/ HandleSend
  \/ \E id \in Ids : HandleSelectSession(id) \/ HandleDeleteSession(id)
  \/ \E c \in calls :
       \/ c.op = "messages" /\ \E ok \in BOOLEAN : MessagesLoaded(c.id, ok)
       \/ c.op = "delete" /\ \E ok \in BOOLEAN : ChatDeleted(c.chat, ok)
       \/ c.op = "create" /\ (ChatCreated(c.id, c.bubble) \/ ChatCreationFails(c.id, c.bubble))
       \/ c.op = "stream" /\ (Token(c) \/ StreamEnds(c) \/ StreamCloses(c))

Spec == Init /\ [][Next]_vars

-----------------------------------------------------------------------------
TypeOK ==
  /\ view.active = None \/ view.active \in Chats \cup (-MaxSends .. MaxSends)
  /\ \A i, j \in DOMAIN view.sessions : view.sessions[i].id = view.sessions[j].id => i = j
  /\ server \subseteq Chats \cup (1 .. MaxSends)

\* A bubble that is shown holds exactly what its own stream has brought so far, although answers
\* stream side by side while sessions are switched, created, deleted and reloaded.
AnswerIsItsOwn ==
  \A c \in calls : c.op = "stream" /\ Shown(c.bubble) => view.text[c.bubble] = c.acc
=============================================================================
