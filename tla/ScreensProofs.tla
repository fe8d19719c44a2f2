---------------------------- MODULE ScreensProofs ----------------------------
(***************************************************************************)
(* Further theorems about the screens under the router: what a screen      *)
(* shows while calls, timers and streams it started earlier are still to   *)
(* end.                                                                    *)
(***************************************************************************)
EXTENDS ConsoleProofs

-----------------------------------------------------------------------------
(* Dashboard *)

\* Past its call a handler has seen the sample data stored, and so has whoever stored the
\* milestones.
HomeInv ==
  /\ HomeRecord(view) /\ server \in [seeded : BOOLEAN, milestones : BOOLEAN, dismissed : BOOLEAN]
  /\ view.handlers \in [1 .. MaxSeeds -> {"idle", "posting", "seeded", "reloading"}]
  /\ server.milestones => server.seeded
  /\ (\E i \in 1 .. MaxSeeds : view.handlers[i] \in {"seeded", "reloading"}) => server.seeded
  /\ Home!CompleteMeansSeeded

LEMMA HomeInit == Home!Init => HomeInv
  BY DEF Home!Init, HomeInv, HomeRecord, Home!CompleteMeansSeeded

\* Steps that leave the handlers alone and complete nothing that is not seeded.
LEMMA HomeHooks ==
  ASSUME HomeInv, HomeRecord(view'), view'.handlers = view.handlers,
         view'.complete => view.complete \/ server.seeded \/ server.milestones, UNCHANGED server
  PROVE  HomeInv'
  BY DEF HomeInv, HomeRecord, Home!CompleteMeansSeeded

LEMMA HomeDraws ==
  ASSUME HomeInv,
         \/ \E c \in calls, ok \in BOOLEAN : Home!WidgetAnswered(c, ok) \/ Home!JobsAnswered(c, ok)
         \/ Home!PollJobs \/ Home!TriggerRefresh \/ Home!RefreshEnds \/ Home!CheckMilestones
  PROVE  HomeInv'
<1>1. HomeRecord(view) /\ UNCHANGED server
  BY DEF HomeInv, Home!WidgetAnswered, Home!JobsAnswered, Home!PollJobs, Home!TriggerRefresh,
         Home!RefreshEnds, Home!CheckMilestones
<1>2. CASE Home!RefreshEnds \/ Home!CheckMilestones
  <2>1. HomeRecord(view') /\ view'.handlers = view.handlers
        /\ view'.complete = (server.seeded \/ server.milestones)
    BY <1>1, <1>2 DEF HomeRecord, Home!RefreshEnds, Home!CheckMilestones
  <2>2. QED BY <1>1, <2>1, HomeHooks
<1>3. ASSUME NEW c, NEW ok \in BOOLEAN,
             \/ Home!WidgetAnswered(c, ok) \/ Home!JobsAnswered(c, ok)
             \/ Home!PollJobs \/ Home!TriggerRefresh
      PROVE  HomeInv'
  <2>1. HomeRecord(view') /\ view'.handlers = view.handlers /\ view'.complete = view.complete
    BY <1>1, <1>3 DEF HomeRecord, Home!WidgetAnswered, Home!JobsAnswered, Home!PollJobs,
                      Home!TriggerRefresh
  <2>2. QED BY <1>1, <2>1, HomeHooks
<1>4. QED BY <1>2, <1>3

LEMMA HomeSeeds ==
  ASSUME HomeInv, NEW i \in 1 .. MaxSeeds,
         \/ Home!LoadSampleData(i) \/ Home!SeedDemo(i) \/ Home!SeedFails(i) \/ Home!StoreMilestones(i)
  PROVE  HomeInv'
<1> USE DEF HomeInv, HomeRecord, Home!CompleteMeansSeeded
<1>1. CASE Home!LoadSampleData(i)
  <2>1. view' = [view EXCEPT !.loadingSeed = TRUE, !.handlers = [view.handlers EXCEPT ![i] = "posting"]]
        /\ UNCHANGED server
    BY <1>1 DEF Home!LoadSampleData
  <2>2. QED BY <2>1
<1>2. CASE Home!SeedDemo(i)
  <2>1. view' = [view EXCEPT !.handlers = [view.handlers EXCEPT ![i] = "seeded"]]
        /\ server' = [server EXCEPT !.seeded = TRUE]
    BY <1>2 DEF Home!SeedDemo
  <2>2. QED BY <2>1
<1>3. CASE Home!SeedFails(i)
  <2>1. view' = [view EXCEPT !.handlers = [view.handlers EXCEPT ![i] = "idle"], !.loadingSeed = FALSE]
        /\ UNCHANGED server
    BY <1>3 DEF Home!SeedFails
  <2>2. QED BY <2>1
<1>4. CASE Home!StoreMilestones(i)
  <2>1. /\ view' = [view EXCEPT !.handlers = [view.handlers EXCEPT ![i] = "reloading"],
                                !.complete = view.complete \/ ~view.loading]
        /\ server' = [server EXCEPT !.milestones = TRUE] /\ server.seeded
    BY <1>4 DEF Home!StoreMilestones
  <2>2. QED BY <2>1
<1>5. QED BY <1>1, <1>2, <1>3, <1>4

LEMMA HomeKeeps ==
  ASSUME HomeInv, [Home!Next]_<<view, calls, server>>
  PROVE  HomeInv'
<1>1. CASE UNCHANGED <<view, calls, server>>
  BY <1>1 DEF HomeInv, HomeRecord, Home!CompleteMeansSeeded
<1>2. CASE Home!HandleDismiss
  <2>1. UNCHANGED view /\ server' = [server EXCEPT !.dismissed = TRUE]
    BY <1>2 DEF Home!HandleDismiss
  <2>2. QED BY <2>1 DEF HomeInv, HomeRecord, Home!CompleteMeansSeeded
<1>3. CASE Home!Reload
  <2>1. HomeRecord(view') /\ view'.complete = (server.seeded \/ server.milestones)
    BY <1>3 DEF Home!Reload, Home!Opened, HomeInv, HomeRecord
  <2>2. view'.handlers = [i \in 1 .. MaxSeeds |-> "idle"] /\ UNCHANGED server
    BY <1>3 DEF Home!Reload, Home!Opened, HomeInv, HomeRecord
  <2>3. QED BY <2>1, <2>2 DEF HomeInv, HomeRecord, Home!CompleteMeansSeeded
<1>4. QED BY <1>1, <1>2, <1>3, HomeDraws, HomeSeeds DEF Home!Next

\* The checklist is only complete over sample data that was stored, whatever fails, is
\* refreshed or is reloaded between the steps of the handlers that load it.
THEOREM CompleteIsSeeded == Spec => []CompleteMeansSeeded
<1> DEFINE Inv == route = "dashboard" => HomeInv
<1>1. Init => Inv
  BY HomeMounted, HomeInit
<1>2. Inv /\ [Next]_vars => Inv'
  BY RouteStays, HomeStep, HomeKeeps
<1>3. Inv => CompleteMeansSeeded
  BY DEF HomeInv, CompleteMeansSeeded
<1>4. QED BY <1>1, <1>2, <1>3, PTL DEF Spec

-----------------------------------------------------------------------------
(* Copilot *)

LEMMA ChatMounted == Init /\ route = "copilot" => Chat!Init
  BY DEF Init, Mounted

LEMMA ChatStep == [Next]_vars /\ route = "copilot" => [Chat!Next]_<<view, calls, server>>
  BY DEF Next, vars

Identities == Chats \cup Int
ChatSession == [id : Identities, backend : Identities \cup {None}, loaded : BOOLEAN, bubbles : Seq(Nat)]

ChatRecord(v) ==
  v = [sessions |-> v.sessions, active |-> v.active, asked |-> v.asked, text |-> v.text,
       streaming |-> v.streaming]

ShownIn(list, b) ==
  \E i \in DOMAIN list : \E j \in DOMAIN list[i].bubbles : list[i].bubbles[j] = b

Answers(c) == c.op \in {"create", "stream"}

\* An answer under way has a bubble of its own, of a question that was asked; while the bubble
\* is shown it holds what the stream has brought, nothing before there is one.  A bubble that has
\* gone does not come back.
Streams(list, asked, text, pending) ==
  /\ \A b : ShownIn(list, b) => b \in 1 .. asked
  /\ \A c \in pending : Answers(c) =>
       /\ c.bubble \in 1 .. asked
       /\ c.op = "stream" =>
            c = [op |-> "stream", id |-> c.id, chat |-> c.chat, bubble |-> c.bubble, acc |-> c.acc]
            /\ c.acc \in Nat
       /\ ShownIn(list, c.bubble) => text[c.bubble] = IF c.op = "stream" THEN c.acc ELSE 0
  /\ \A c, d \in pending : Answers(c) /\ Answers(d) /\ c.bubble = d.bubble => c = d
  /\ \A b \in asked + 1 .. MaxSends : text[b] = 0

ChatInv ==
  /\ ChatRecord(view) /\ view.sessions \in Seq(ChatSession)
  /\ view.asked \in 0 .. MaxSends /\ view.text \in [1 .. MaxSends -> Nat]
  /\ server \subseteq Identities /\ IsFiniteSet(server)
  /\ Streams(view.sessions, view.asked, view.text, calls)

\* The operators of the standard modules, by the names the screen's instance gives them.
LEMMA FiniteHere == \A S : Chat!IsFiniteSet(S) <=> IsFiniteSet(S)
  BY DEF Chat!IsFiniteSet, IsFiniteSet

LEMMA CountedHere == \A S : Chat!Cardinality(S) = Cardinality(S)
  BY DEF Chat!Cardinality, Cardinality

LEMMA ChatInit == Chat!CopilotAssumption /\ Chat!Init => ChatInv
<1> SUFFICES ASSUME Chat!CopilotAssumption, Chat!Init PROVE ChatInv
  OBVIOUS
<1>1. /\ view = [sessions |-> <<>>, active |-> None, asked |-> 0,
                 text |-> [b \in 1 .. MaxSends |-> 0], streaming |-> [b \in 1 .. MaxSends |-> FALSE]]
      /\ calls = {[op |-> "sessions"]} /\ server = Chats
  BY DEF Chat!Init
<1>2. MaxSends \in Nat /\ IsFiniteSet(Chats)
  BY FiniteHere DEF Chat!CopilotAssumption
<1>3. \A b : ~ShownIn(<<>>, b)
  BY DEF ShownIn
<1>4. \A c \in calls : ~Answers(c)
  BY <1>1 DEF Answers
<1>5. ChatRecord(view) /\ view.sessions = <<>> /\ view.asked = 0 /\ view.text = [b \in 1 .. MaxSends |-> 0]
  BY <1>1 DEF ChatRecord
<1>6. Streams(<<>>, 0, view.text, calls)
  BY <1>3, <1>4, <1>5 DEF Streams
<1>7. QED BY <1>1, <1>2, <1>5, <1>6 DEF ChatInv, Identities

\* The bubbles on the screen are those of the sessions.
LEMMA ShownBubbles ==
  ASSUME ChatInv, NEW b
  PROVE  Chat!Shown(b) <=> ShownIn(view.sessions, b)
<1>1. \A i \in DOMAIN view.sessions :
        DOMAIN view.sessions[i].bubbles = 1 .. Len(view.sessions[i].bubbles)
  <2>1. \A i \in DOMAIN view.sessions : view.sessions[i] \in ChatSession
    BY DEF ChatInv
  <2>2. \A s \in ChatSession : s.bubbles \in Seq(Nat)
    BY DEF ChatSession
  <2>3. QED BY <2>1, <2>2
<1>2. QED BY <1>1 DEF Chat!Shown, Chat!Elements, ShownIn

\* Steps that bring no text: no bubble and no answer comes that was not there.
LEMMA ChatQuiet ==
  ASSUME ChatInv, ChatRecord(view'), view'.sessions \in Seq(ChatSession),
         view'.asked = view.asked, view'.text = view.text,
         \A b : ShownIn(view'.sessions, b) => ShownIn(view.sessions, b),
         \A c \in calls' : Answers(c) => c \in calls,
         server' \subseteq Identities, IsFiniteSet(server')
  PROVE  ChatInv'
<1>1. Streams(view'.sessions, view.asked, view.text, calls')
  BY DEF ChatInv, Streams
<1>2. QED BY <1>1 DEF ChatInv, ChatRecord

\* A list made of the rows of another one, some of them without their bubbles.
LEMMA FewerBubbles ==
  ASSUME NEW list, NEW new,
         \A i \in DOMAIN new :
           \/ new[i].bubbles = <<>>
           \/ \E j \in DOMAIN list : new[i].bubbles = list[j].bubbles
  PROVE  \A b : ShownIn(new, b) => ShownIn(list, b)
  BY DEF ShownIn

\* The server's list has each of its chats once.
LEMMA ChatsListed ==
  ASSUME IsFiniteSet(server)
  PROVE  Chat!Listing \in Seq(server) /\ Distinct(Chat!Listing)
<1>1. PICK n \in Nat : ExistsBijection(1 .. n, server)
  BY FS_NatBijection
<1>2. Cardinality(server) = n
  BY <1>1, FS_CountingElements
<1>3. \E f \in [1 .. n -> server] : \A i, j \in DOMAIN f : f[i] = f[j] => i = j
  BY <1>1 DEF ExistsBijection, Bijection, Injection, Surjection, IsInjective
<1>4. /\ Chat!Listing \in [1 .. n -> server]
      /\ \A i, j \in DOMAIN Chat!Listing : Chat!Listing[i] = Chat!Listing[j] => i = j
  BY <1>2, <1>3, CountedHere DEF Chat!Listing
<1>5. QED BY <1>4 DEF Distinct

LEMMA RemovedRow ==
  ASSUME NEW S, NEW list \in Seq(S), NEW i \in DOMAIN list
  PROVE  /\ Chat!TakeOut(list, i) \in Seq(S)
         /\ \A k \in DOMAIN Chat!TakeOut(list, i) :
              \E j \in DOMAIN list : Chat!TakeOut(list, i)[k] = list[j]
<1>1. PICK t : t = Chat!TakeOut(list, i)
  OBVIOUS
<1>2. i \in 1 .. Len(list) /\ Len(list) \in Nat
  OBVIOUS
<1>3. t = TakeOut(list, i)
  BY <1>1 DEF Chat!TakeOut, TakeOut
<1>4. /\ t \in Seq(S) /\ Len(t) = Len(list) - 1
      /\ \A k \in 1 .. i - 1 : t[k] = list[k]
      /\ \A k \in i .. Len(list) - 1 : t[k] = list[k + 1]
  BY <1>2, <1>3, TakenOut
<1>5. ASSUME NEW k \in DOMAIN t PROVE \E j \in DOMAIN list : t[k] = list[j]
  <2>1. CASE k < i
    BY <1>2, <1>4, <2>1
  <2>2. CASE ~(k < i)
    <3>1. k + 1 \in DOMAIN list /\ t[k] = list[k + 1]
      BY <1>2, <1>4, <2>2
    <3>2. QED BY <3>1
  <2>3. QED BY <2>1, <2>2
<1>6. QED BY <1>1, <1>4, <1>5

LEMMA ChatListed ==
  ASSUME ChatInv, Chat!SessionsListed
  PROVE  ChatInv'
<1> DEFINE rows == Chat!Listing
           sessions == [i \in DOMAIN rows |-> Chat!Listed(rows[i])]
<1>1. IsFiniteSet(server) /\ server \subseteq Identities /\ ChatRecord(view)
  BY DEF ChatInv
<1>2. rows \in Seq(server)
  BY <1>1, ChatsListed
<1>3. /\ view' = [view EXCEPT !.sessions = sessions,
                              !.active = IF rows = <<>> THEN None ELSE rows[1]]
      /\ calls' = (calls \ {[op |-> "sessions"]})
                    \cup (IF rows = <<>> THEN {} ELSE {Chat!MessagesCall(sessions[1])})
      /\ server' = server
  BY DEF Chat!SessionsListed
<1> HIDE DEF rows
<1>4. \A i \in DOMAIN rows : sessions[i] \in ChatSession /\ sessions[i].bubbles = <<>>
  <2>1. \A c \in server : Chat!Listed(c) \in ChatSession /\ Chat!Listed(c).bubbles = <<>>
    BY <1>1 DEF Chat!Listed, ChatSession
  <2>2. QED BY <1>2, <2>1
<1>5. sessions \in Seq(ChatSession) /\ DOMAIN sessions = DOMAIN rows
  BY <1>2, <1>4
<1> HIDE DEF sessions
<1>6. ChatRecord(view') /\ view'.sessions = sessions /\ view'.asked = view.asked /\ view'.text = view.text
  BY <1>1, <1>3 DEF ChatRecord
<1>7. \A b : ShownIn(sessions, b) => ShownIn(view.sessions, b)
  BY <1>4, <1>5, FewerBubbles
<1>8. \A c \in calls' : Answers(c) => c \in calls
  BY <1>3 DEF Chat!MessagesCall, Answers
<1>9. QED BY <1>1, <1>3, <1>5, <1>6, <1>7, <1>8, ChatQuiet

LEMMA ChatListingFails ==
  ASSUME ChatInv, Chat!SessionsFail
  PROVE  ChatInv'
<1>1. IsFiniteSet(server) /\ server \subseteq Identities /\ ChatRecord(view)
  BY DEF ChatInv
<1>2. /\ view' = [view EXCEPT !.sessions = <<>>, !.active = None]
      /\ calls' = calls \ {[op |-> "sessions"]} /\ server' = server
  BY DEF Chat!SessionsFail
<1>3. ChatRecord(view') /\ view'.sessions = <<>> /\ view'.asked = view.asked /\ view'.text = view.text
  BY <1>1, <1>2 DEF ChatRecord
<1>4. \A b : ~ShownIn(<<>>, b)
  BY DEF ShownIn
<1>5. QED BY <1>1, <1>2, <1>3, <1>4, ChatQuiet

LEMMA ChatLoaded ==
  ASSUME ChatInv, NEW id, NEW ok \in BOOLEAN, Chat!MessagesLoaded(id, ok)
  PROVE  ChatInv'
<1> DEFINE old == view.sessions
           Fetched(s) == [s EXCEPT !.loaded = TRUE, !.bubbles = IF ok THEN <<>> ELSE s.bubbles]
           new == [i \in DOMAIN old |-> IF old[i].id = id THEN Fetched(old[i]) ELSE old[i]]
<1>1. IsFiniteSet(server) /\ server \subseteq Identities /\ ChatRecord(view) /\ old \in Seq(ChatSession)
  BY DEF ChatInv
<1>2. /\ view' = [view EXCEPT !.sessions = new]
      /\ calls' = calls \ {[op |-> "messages", id |-> id]} /\ server' = server
  BY DEF Chat!MessagesLoaded, Chat!Mapped
<1> HIDE DEF old
<1>3. \A i \in DOMAIN old :
        new[i] \in ChatSession /\ (new[i].bubbles = <<>> \/ new[i].bubbles = old[i].bubbles)
  <2>1. ASSUME NEW s \in ChatSession
        PROVE  Fetched(s) \in ChatSession /\ Fetched(s).bubbles = IF ok THEN <<>> ELSE s.bubbles
    <3> DEFINE left == IF ok THEN <<>> ELSE s.bubbles
    <3>1. left \in Seq(Nat)
      BY DEF ChatSession
    <3> HIDE DEF left
    <3>2. /\ [s EXCEPT !.loaded = TRUE, !.bubbles = left] \in ChatSession
          /\ [s EXCEPT !.loaded = TRUE, !.bubbles = left].bubbles = left
      BY <3>1 DEF ChatSession
    <3>3. QED BY <3>2 DEF left
  <2>2. \A i \in DOMAIN old : old[i] \in ChatSession
    BY <1>1
  <2> HIDE DEF Fetched
  <2>3. QED BY <2>1, <2>2
<1> HIDE DEF Fetched
<1>4. new \in Seq(ChatSession) /\ DOMAIN new = DOMAIN old
  <2>1. DOMAIN old = 1 .. Len(old) /\ Len(old) \in Nat /\ DOMAIN new = DOMAIN old
    BY <1>1
  <2> HIDE DEF new
  <2>2. new \in [1 .. Len(old) -> ChatSession]
    BY <1>3, <2>1 DEF new
  <2>3. QED BY <2>1, <2>2
<1> HIDE DEF new
<1>5. ChatRecord(view') /\ view'.sessions = new /\ view'.asked = view.asked /\ view'.text = view.text
  BY <1>1, <1>2 DEF ChatRecord
<1>6. \A b : ShownIn(new, b) => ShownIn(view.sessions, b)
  BY <1>3, <1>4, FewerBubbles DEF old
<1>7. QED BY <1>1, <1>2, <1>4, <1>5, <1>6, ChatQuiet

LEMMA ChatSelected ==
  ASSUME ChatInv, NEW id, Chat!HandleSelectSession(id)
  PROVE  ChatInv'
<1>1. IsFiniteSet(server) /\ server \subseteq Identities /\ ChatRecord(view)
      /\ view.sessions \in Seq(ChatSession)
  BY DEF ChatInv
<1>2. view' = [view EXCEPT !.active = id] /\ server' = server
  BY DEF Chat!HandleSelectSession
<1>3. \A c \in calls' : Answers(c) => c \in calls
  BY DEF Chat!HandleSelectSession, Chat!MessagesCall, Answers
<1>4. /\ ChatRecord(view') /\ view'.sessions = view.sessions
      /\ view'.asked = view.asked /\ view'.text = view.text
  BY <1>1, <1>2 DEF ChatRecord
<1>5. QED BY <1>1, <1>2, <1>3, <1>4, ChatQuiet

LEMMA ChatMade ==
  ASSUME ChatInv, MaxSends \in Nat, Chat!HandleCreateNewSession
  PROVE  ChatInv'
<1> DEFINE s == [id |-> -view.asked, backend |-> None, loaded |-> FALSE, bubbles |-> <<>>]
           new == <<s>> \o view.sessions
<1>1. /\ IsFiniteSet(server) /\ server \subseteq Identities /\ ChatRecord(view)
      /\ view.sessions \in Seq(ChatSession) /\ view.asked \in 0 .. MaxSends
  BY DEF ChatInv
<1>2. view' = [view EXCEPT !.active = -view.asked, !.sessions = new] /\ server' = server /\ calls' = calls
  BY DEF Chat!HandleCreateNewSession
<1>3. s \in ChatSession /\ s.bubbles = <<>>
  <2>1. -view.asked \in Identities
    BY <1>1 DEF Identities
  <2>2. QED BY <2>1 DEF ChatSession
<1> HIDE DEF s
<1>4. /\ new \in Seq(ChatSession)
      /\ \A i \in DOMAIN new : new[i] = s \/ \E j \in DOMAIN view.sessions : new[i] = view.sessions[j]
  BY <1>1, <1>3, InFront
<1> HIDE DEF new
<1>5. ChatRecord(view') /\ view'.sessions = new /\ view'.asked = view.asked /\ view'.text = view.text
  BY <1>1, <1>2 DEF ChatRecord
<1>6. \A b : ShownIn(new, b) => ShownIn(view.sessions, b)
  BY <1>3, <1>4, FewerBubbles
<1>7. QED BY <1>1, <1>2, <1>4, <1>5, <1>6, ChatQuiet

LEMMA ChatDropped ==
  ASSUME ChatInv, NEW id, Chat!HandleDeleteSession(id)
  PROVE  ChatInv'
<1> DEFINE i == CHOOSE k \in DOMAIN view.sessions : view.sessions[k].id = id
           left == Chat!TakeOut(view.sessions, i)
<1>1. /\ IsFiniteSet(server) /\ server \subseteq Identities /\ ChatRecord(view)
      /\ view.sessions \in Seq(ChatSession)
  BY DEF ChatInv
<1>2. /\ view' = [view EXCEPT !.sessions = left,
                              !.active = IF left = <<>> THEN None
                                         ELSE IF view.active = id THEN left[1].id ELSE view.active]
      /\ server' = server
  BY DEF Chat!HandleDeleteSession
<1>3. \A c \in calls' : Answers(c) => c \in calls
  BY DEF Chat!HandleDeleteSession, Answers
<1>4. i \in DOMAIN view.sessions
  BY DEF Chat!HandleDeleteSession, Chat!Ids
<1> HIDE DEF i
<1>5. /\ left \in Seq(ChatSession)
      /\ \A k \in DOMAIN left : \E j \in DOMAIN view.sessions : left[k] = view.sessions[j]
  BY <1>1, <1>4, RemovedRow
<1> HIDE DEF left
<1>6. ChatRecord(view') /\ view'.sessions = left /\ view'.asked = view.asked /\ view'.text = view.text
  BY <1>1, <1>2 DEF ChatRecord
<1>7. \A b : ShownIn(left, b) => ShownIn(view.sessions, b)
  BY <1>5, FewerBubbles
<1>8. QED BY <1>1, <1>2, <1>3, <1>5, <1>6, <1>7, ChatQuiet

LEMMA ChatGone ==
  ASSUME ChatInv, NEW chat, NEW ok, Chat!ChatDeleted(chat, ok)
  PROVE  ChatInv'
<1>1. /\ IsFiniteSet(server) /\ server \subseteq Identities /\ ChatRecord(view)
      /\ view.sessions \in Seq(ChatSession)
  BY DEF ChatInv
<1>2. view' = view /\ calls' \subseteq calls /\ server' \subseteq server
  BY DEF Chat!ChatDeleted
<1>3. IsFiniteSet(server')
  BY <1>1, <1>2, FS_Subset
<1>4. QED BY <1>1, <1>2, <1>3, ChatQuiet

LEMMA ChatCloses ==
  ASSUME ChatInv, NEW c, Chat!StreamCloses(c)
  PROVE  ChatInv'
<1>1. /\ IsFiniteSet(server) /\ server \subseteq Identities /\ ChatRecord(view)
      /\ view.sessions \in Seq(ChatSession)
  BY DEF ChatInv
<1>2. view' = view /\ calls' \subseteq calls /\ server' = server
  BY DEF Chat!StreamCloses
<1>3. QED BY <1>1, <1>2, ChatQuiet

\* Rows that got a bubble: a list made of the rows of another one, some with b at their end.
LEMMA MoreBubbles ==
  ASSUME NEW list, NEW new, NEW k,
         \A i \in DOMAIN new : \E j \in DOMAIN list :
           /\ list[j].bubbles \in Seq(Nat)
           /\ new[i].bubbles = list[j].bubbles \/ new[i].bubbles = Append(list[j].bubbles, k)
  PROVE  \A b : ShownIn(new, b) => b = k \/ ShownIn(list, b)
<1> SUFFICES ASSUME NEW b, ShownIn(new, b), b # k PROVE ShownIn(list, b)
  OBVIOUS
<1>1. PICK i \in DOMAIN new : \E m \in DOMAIN new[i].bubbles : new[i].bubbles[m] = b
  BY DEF ShownIn
<1>2. PICK m \in DOMAIN new[i].bubbles : new[i].bubbles[m] = b
  BY <1>1
<1>3. PICK j \in DOMAIN list :
        /\ list[j].bubbles \in Seq(Nat)
        /\ new[i].bubbles = list[j].bubbles \/ new[i].bubbles = Append(list[j].bubbles, k)
  OBVIOUS
<1>4. CASE new[i].bubbles = list[j].bubbles
  BY <1>2, <1>4 DEF ShownIn
<1>5. CASE new[i].bubbles = Append(list[j].bubbles, k)
  <2> DEFINE u == list[j].bubbles
             v == Append(u, k)
  <2>1. u \in Seq(Nat) /\ Len(u) \in Nat /\ DOMAIN u = 1 .. Len(u)
    BY <1>3
  <2> HIDE DEF u
  <2>2. DOMAIN v = 1 .. Len(u) + 1 /\ v[Len(u) + 1] = k /\ \A x \in 1 .. Len(u) : v[x] = u[x]
    BY <2>1
  <2>3. m \in DOMAIN v /\ v[m] = b
    BY <1>2, <1>5 DEF u
  <2> HIDE DEF v
  <2>4. m # Len(u) + 1
    BY <2>2, <2>3
  <2>5. m \in 1 .. Len(u)
    BY <2>1, <2>2, <2>3, <2>4
  <2>6. m \in DOMAIN u /\ u[m] = b
    BY <2>1, <2>2, <2>3, <2>5
  <2>7. QED BY <2>6 DEF ShownIn, u
<1>6. QED BY <1>3, <1>4, <1>5

\* A question: its bubble is new, and so is the call that will bring the answer.
LEMMA ChatAsked ==
  ASSUME ChatInv, MaxSends \in Nat, view.asked < MaxSends, NEW n,
         Answers(n), n.bubble = view.asked + 1,
         n.op = "stream" =>
           n = [op |-> "stream", id |-> n.id, chat |-> n.chat, bubble |-> n.bubble, acc |-> 0],
         ChatRecord(view'), view'.sessions \in Seq(ChatSession),
         view'.asked = view.asked + 1, view'.text = view.text,
         \A b : ShownIn(view'.sessions, b) => b = view.asked + 1 \/ ShownIn(view.sessions, b),
         calls' = calls \cup {n}, server' = server
  PROVE  ChatInv'
<1> DEFINE k == view.asked + 1
<1>1. /\ view.asked \in Nat /\ k \in 1 .. MaxSends /\ k \in Nat
      /\ 1 .. view.asked \subseteq 1 .. k /\ k \in 1 .. k /\ k \notin 1 .. view.asked
      /\ k + 1 .. MaxSends \subseteq k .. MaxSends /\ k \in k .. MaxSends
  BY DEF ChatInv
<1> HIDE DEF k
<1>2. Streams(view.sessions, view.asked, view.text, calls)
  BY DEF ChatInv
<1>3. view.text[k] = 0
  BY <1>1, <1>2 DEF Streams, k
<1>4. \A b : ShownIn(view'.sessions, b) => b \in 1 .. k
  BY <1>1, <1>2 DEF Streams, k
<1>5. ASSUME NEW c \in calls', Answers(c)
      PROVE  /\ c.bubble \in 1 .. k
             /\ c.op = "stream" =>
                  c = [op |-> "stream", id |-> c.id, chat |-> c.chat, bubble |-> c.bubble, acc |-> c.acc]
                  /\ c.acc \in Nat
             /\ ShownIn(view'.sessions, c.bubble) => view.text[c.bubble] = IF c.op = "stream" THEN c.acc ELSE 0
  <2>1. CASE c = n
    <3>1. c.op = "stream" => c.acc = 0
      BY <2>1
    <3>2. c.op = "stream" =>
            c = [op |-> "stream", id |-> c.id, chat |-> c.chat, bubble |-> c.bubble, acc |-> c.acc]
      BY <2>1, <3>1
    <3>3. c.bubble = k
      BY <2>1 DEF k
    <3>4. QED BY <1>1, <1>3, <3>1, <3>2, <3>3
  <2>2. CASE c \in calls
    <3>1. /\ c.bubble \in 1 .. view.asked
          /\ c.op = "stream" =>
               c = [op |-> "stream", id |-> c.id, chat |-> c.chat, bubble |-> c.bubble, acc |-> c.acc]
               /\ c.acc \in Nat
          /\ ShownIn(view.sessions, c.bubble) => view.text[c.bubble] = IF c.op = "stream" THEN c.acc ELSE 0
      BY <1>2, <1>5, <2>2 DEF Streams
    <3>2. c.bubble \in 1 .. k /\ c.bubble # k
      BY <1>1, <3>1
    <3>3. ShownIn(view'.sessions, c.bubble) => ShownIn(view.sessions, c.bubble)
      BY <3>2 DEF k
    <3>4. QED BY <3>1, <3>2, <3>3
  <2>3. QED BY <2>1, <2>2
<1>6. ASSUME NEW c \in calls', NEW d \in calls', Answers(c), Answers(d), c.bubble = d.bubble
      PROVE  c = d
  <2>1. \A e \in calls : Answers(e) => e.bubble # k
    BY <1>1, <1>2 DEF Streams
  <2>2. n.bubble = k
    BY DEF k
  <2>3. CASE c \in calls /\ d \in calls
    BY <1>2, <1>6, <2>3 DEF Streams
  <2>4. QED BY <1>6, <2>1, <2>2, <2>3
<1>7. \A b \in k + 1 .. MaxSends : view.text[b] = 0
  <2>1. k + 1 .. MaxSends \subseteq view.asked + 1 .. MaxSends
    BY <1>1 DEF k
  <2>2. QED BY <1>2, <2>1 DEF Streams
<1>8. Streams(view'.sessions, view'.asked, view'.text, calls')
  BY <1>4, <1>5, <1>6, <1>7 DEF Streams, k
<1>9. view'.asked \in 0 .. MaxSends /\ view'.text \in [1 .. MaxSends -> Nat]
  BY <1>1 DEF ChatInv, k
<1>10. QED BY <1>8, <1>9 DEF ChatInv, ChatRecord

LEMMA ChatSends ==
  ASSUME ChatInv, MaxSends \in Nat, Chat!HandleSend
  PROVE  ChatInv'
<1> DEFINE k == view.asked + 1
           found == view.active \in Chat!Ids
           id == IF found THEN view.active ELSE k
           s == [id |-> k, backend |-> None, loaded |-> TRUE, bubbles |-> <<>>]
           base == IF found THEN view.sessions ELSE <<s>> \o view.sessions
           chat == IF found THEN Chat!SessionOf(id).backend ELSE None
           Given(r) == [r EXCEPT !.bubbles = Append(r.bubbles, k)]
           new == [i \in DOMAIN base |-> IF base[i].id = id THEN Given(base[i]) ELSE base[i]]
           n == IF chat = None THEN [op |-> "create", id |-> id, bubble |-> k]
                ELSE [op |-> "stream", id |-> id, chat |-> chat, bubble |-> k, acc |-> 0]
<1>1. /\ IsFiniteSet(server) /\ server \subseteq Identities /\ ChatRecord(view)
      /\ view.sessions \in Seq(ChatSession) /\ view.asked \in 0 .. MaxSends
  BY DEF ChatInv
<1>2. /\ view' = [view EXCEPT !.asked = k, !.active = id, !.streaming[k] = TRUE, !.sessions = new]
      /\ calls' = calls \cup {n} /\ server' = server /\ view.asked < MaxSends
  BY DEF Chat!HandleSend, Chat!Stream
<1>3. Answers(n) /\ n.bubble = k
      /\ (n.op = "stream" => n = [op |-> "stream", id |-> n.id, chat |-> n.chat, bubble |-> n.bubble, acc |-> 0])
  BY DEF Answers
<1>4. s \in ChatSession /\ s.bubbles = <<>> /\ k \in Nat
  <2>1. k \in Nat /\ k \in Identities
    BY <1>1 DEF Identities
  <2> HIDE DEF k
  <2>2. QED BY <2>1 DEF ChatSession
<1> HIDE DEF n, s, found
<1>5. /\ base \in Seq(ChatSession)
      /\ \A i \in DOMAIN base : base[i] = s \/ \E j \in DOMAIN view.sessions : base[i] = view.sessions[j]
  <2>1. CASE found
    BY <1>1, <2>1
  <2>2. CASE ~found
    BY <1>1, <1>4, <2>2, InFront
  <2>3. QED BY <2>1, <2>2
<1>6. \A b : ShownIn(base, b) => ShownIn(view.sessions, b)
  <2> HIDE DEF base
  <2>1. QED BY <1>4, <1>5, FewerBubbles
<1> HIDE DEF base
<1>7. ASSUME NEW r \in ChatSession
      PROVE  Given(r) \in ChatSession /\ Given(r).bubbles = Append(r.bubbles, k) /\ r.bubbles \in Seq(Nat)
  <2> DEFINE longer == Append(r.bubbles, k)
  <2>1. r.bubbles \in Seq(Nat)
    BY DEF ChatSession
  <2>2. longer \in Seq(Nat)
    BY <1>4, <2>1
  <2> HIDE DEF longer
  <2>3. [r EXCEPT !.bubbles = longer] \in ChatSession /\ [r EXCEPT !.bubbles = longer].bubbles = longer
    BY <2>2 DEF ChatSession
  <2>4. QED BY <2>1, <2>3 DEF longer
<1> HIDE DEF Given, k
<1>8. DOMAIN base = 1 .. Len(base) /\ Len(base) \in Nat /\ \A i \in DOMAIN base : base[i] \in ChatSession
  BY <1>5
<1>9. DOMAIN new = DOMAIN base
      /\ \A i \in DOMAIN base : new[i] = IF base[i].id = id THEN Given(base[i]) ELSE base[i]
  OBVIOUS
<1> HIDE DEF new
<1>10. new \in Seq(ChatSession)
  <2> HIDE DEF id
  <2>1. \A i \in DOMAIN new : new[i] \in ChatSession
    BY <1>7, <1>8, <1>9
  <2>2. new = [i \in 1 .. Len(base) |-> new[i]]
    BY <1>8 DEF new
  <2>3. new \in [1 .. Len(base) -> ChatSession]
    BY <1>8, <1>9, <2>1, <2>2
  <2>4. QED BY <1>8, <2>3
<1>11. \A b : ShownIn(new, b) => b = k \/ ShownIn(base, b)
  <2> HIDE DEF id
  <2>1. \A i \in DOMAIN new : \E j \in DOMAIN base :
           /\ base[j].bubbles \in Seq(Nat)
           /\ new[i].bubbles = base[j].bubbles \/ new[i].bubbles = Append(base[j].bubbles, k)
    BY <1>7, <1>8, <1>9
  <2>2. QED BY <2>1, MoreBubbles
<1>12. ChatRecord(view') /\ view'.sessions = new /\ view'.asked = k /\ view'.text = view.text
  <2> HIDE DEF id
  <2>1. QED BY <1>1, <1>2 DEF ChatRecord
<1> HIDE DEF id
<1>13. QED BY <1>1, <1>2, <1>3, <1>6, <1>10, <1>11, <1>12, ChatAsked DEF k

\* An answer moves on: its call is replaced by another one for the same bubble, and what the
\* bubble holds follows it.  Every other answer keeps its own.
LEMMA ChatMoves ==
  ASSUME ChatInv, NEW c \in calls, Answers(c), NEW d, d.op = "stream", d.bubble = c.bubble,
         d = [op |-> "stream", id |-> d.id, chat |-> d.chat, bubble |-> d.bubble, acc |-> d.acc],
         d.acc \in Nat, calls' = (calls \ {c}) \cup {d},
         ChatRecord(view'), view'.sessions \in Seq(ChatSession), view'.asked = view.asked,
         view'.text \in [1 .. MaxSends -> Nat],
         \A b \in 1 .. MaxSends : b # c.bubble => view'.text[b] = view.text[b],
         ShownIn(view.sessions, c.bubble) => view'.text[c.bubble] = d.acc,
         \A b : ShownIn(view'.sessions, b) => ShownIn(view.sessions, b),
         server' \subseteq Identities, IsFiniteSet(server'), MaxSends \in Nat
  PROVE  ChatInv'
<1>1. Streams(view.sessions, view.asked, view.text, calls) /\ view.asked \in 0 .. MaxSends
  BY DEF ChatInv
<1>2. /\ 1 .. view.asked \subseteq 1 .. MaxSends
      /\ view.asked + 1 .. MaxSends \subseteq 1 .. MaxSends
      /\ \A b \in view.asked + 1 .. MaxSends : b \notin 1 .. view.asked
  BY <1>1
<1>3. c.bubble \in 1 .. view.asked /\ Answers(d)
  BY <1>1 DEF Streams, Answers
<1>4. \A e \in calls : Answers(e) /\ e # c => e.bubble # c.bubble
  BY <1>1 DEF Streams
<1>5. ASSUME NEW e \in calls', Answers(e)
      PROVE  /\ e.bubble \in 1 .. view.asked
             /\ e.op = "stream" =>
                  e = [op |-> "stream", id |-> e.id, chat |-> e.chat, bubble |-> e.bubble, acc |-> e.acc]
                  /\ e.acc \in Nat
             /\ ShownIn(view'.sessions, e.bubble) =>
                  view'.text[e.bubble] = IF e.op = "stream" THEN e.acc ELSE 0
  <2>1. CASE e = d
    BY <1>3, <2>1
  <2>2. CASE e \in calls /\ e # c
    <3>1. /\ e.bubble \in 1 .. view.asked
          /\ e.op = "stream" =>
               e = [op |-> "stream", id |-> e.id, chat |-> e.chat, bubble |-> e.bubble, acc |-> e.acc]
               /\ e.acc \in Nat
          /\ ShownIn(view.sessions, e.bubble) => view.text[e.bubble] = IF e.op = "stream" THEN e.acc ELSE 0
      BY <1>1, <1>5, <2>2 DEF Streams
    <3>2. e.bubble # c.bubble /\ e.bubble \in 1 .. MaxSends
      BY <1>2, <1>4, <1>5, <2>2, <3>1
    <3>3. view'.text[e.bubble] = view.text[e.bubble]
      BY <3>2
    <3>4. QED BY <3>1, <3>3
  <2>3. QED BY <2>1, <2>2
<1>6. ASSUME NEW e \in calls', NEW f \in calls', Answers(e), Answers(f), e.bubble = f.bubble
      PROVE  e = f
  <2>1. CASE e # d /\ f # d
    BY <1>1, <1>6, <2>1 DEF Streams
  <2>2. QED BY <1>4, <1>6, <2>1
<1>7. \A b \in view.asked + 1 .. MaxSends : view'.text[b] = 0
  BY <1>1, <1>2, <1>3 DEF Streams
<1>8. \A b : ShownIn(view'.sessions, b) => b \in 1 .. view.asked
  BY <1>1 DEF Streams
<1>9. Streams(view'.sessions, view'.asked, view'.text, calls')
  BY <1>5, <1>6, <1>7, <1>8 DEF Streams
<1>10. QED BY <1>1, <1>9 DEF ChatInv, ChatRecord

LEMMA ChatMakes ==
  ASSUME ChatInv, MaxSends \in Nat, NEW id, NEW k, Chat!ChatCreated(id, k)
  PROVE  ChatInv'
<1> DEFINE c == [op |-> "create", id |-> id, bubble |-> k]
           d == [op |-> "stream", id |-> id, chat |-> k, bubble |-> k, acc |-> 0]
           Backed(r) == [r EXCEPT !.backend = k]
           old == view.sessions
           new == [i \in DOMAIN old |-> IF old[i].id = id THEN Backed(old[i]) ELSE old[i]]
<1>1. /\ IsFiniteSet(server) /\ server \subseteq Identities /\ ChatRecord(view)
      /\ old \in Seq(ChatSession) /\ view.asked \in 0 .. MaxSends
      /\ Streams(view.sessions, view.asked, view.text, calls) /\ view.text \in [1 .. MaxSends -> Nat]
  BY DEF ChatInv
<1>2. /\ c \in calls /\ calls' = (calls \ {c}) \cup {d} /\ server' = server \cup {k}
      /\ view' = [view EXCEPT !.sessions = new]
  BY DEF Chat!ChatCreated, Chat!Stream, Chat!Mapped
<1>3. /\ c.op = "create" /\ c.bubble = k /\ Answers(c) /\ d.op = "stream" /\ d.bubble = c.bubble
      /\ d.acc = 0
      /\ d = [op |-> "stream", id |-> d.id, chat |-> d.chat, bubble |-> d.bubble, acc |-> d.acc]
  BY DEF Answers
<1> HIDE DEF c, d, old
<1>4. /\ k \in 1 .. view.asked
      /\ ShownIn(view.sessions, k) => view.text[k] = 0
  BY <1>1, <1>2, <1>3 DEF Streams
<1>5. k \in Identities
  BY <1>1, <1>4 DEF Identities
<1>6. server' \subseteq Identities /\ IsFiniteSet(server')
  BY <1>1, <1>2, <1>5, FS_AddElement
<1>7. ASSUME NEW r \in ChatSession
      PROVE  Backed(r) \in ChatSession /\ Backed(r).bubbles = r.bubbles
  BY <1>5 DEF ChatSession
<1> HIDE DEF Backed
<1>8. DOMAIN old = 1 .. Len(old) /\ Len(old) \in Nat /\ \A i \in DOMAIN old : old[i] \in ChatSession
  BY <1>1
<1>9. /\ new \in [1 .. Len(old) -> ChatSession]
      /\ \A i \in DOMAIN old : new[i].bubbles = old[i].bubbles
  BY <1>7, <1>8
<1> HIDE DEF new
<1>10. new \in Seq(ChatSession) /\ DOMAIN new = DOMAIN old
  BY <1>8, <1>9
<1>11. \A b : ShownIn(new, b) => ShownIn(old, b)
  BY <1>9, <1>10, FewerBubbles
<1>12. ChatRecord(view') /\ view'.sessions = new /\ view'.asked = view.asked /\ view'.text = view.text
  BY <1>1, <1>2 DEF ChatRecord
<1>13. /\ d.acc \in Nat /\ view'.text \in [1 .. MaxSends -> Nat] /\ view'.sessions \in Seq(ChatSession)
       /\ \A b \in 1 .. MaxSends : b # c.bubble => view'.text[b] = view.text[b]
       /\ ShownIn(view.sessions, c.bubble) => view'.text[c.bubble] = d.acc
       /\ \A b : ShownIn(view'.sessions, b) => ShownIn(view.sessions, b)
  BY <1>1, <1>3, <1>4, <1>10, <1>11, <1>12 DEF old
<1>14. QED BY <1>2, <1>3, <1>6, <1>12, <1>13, ChatMoves

\* What patching a bubble changes: its text, and only when it is shown.
LEMMA ChatPatched ==
  ASSUME ChatInv, NEW k \in 1 .. MaxSends, NEW t \in Nat, NEW streaming,
         view' = Chat!Patched(k, t, streaming)
  PROVE  /\ ChatRecord(view') /\ view'.sessions = view.sessions /\ view'.asked = view.asked
         /\ view'.text = IF ShownIn(view.sessions, k) THEN [view.text EXCEPT ![k] = t] ELSE view.text
         /\ view'.text \in [1 .. MaxSends -> Nat]
<1>1. ChatRecord(view) /\ view.text \in [1 .. MaxSends -> Nat]
  BY DEF ChatInv
<1>2. CASE ShownIn(view.sessions, k)
  <2>1. view' = [view EXCEPT !.text[k] = t, !.streaming[k] = streaming]
    BY <1>2, ShownBubbles DEF Chat!Patched
  <2>2. /\ ChatRecord(view') /\ view'.sessions = view.sessions /\ view'.asked = view.asked
        /\ view'.text = [view.text EXCEPT ![k] = t]
    BY <1>1, <2>1 DEF ChatRecord
  <2>3. [view.text EXCEPT ![k] = t] \in [1 .. MaxSends -> Nat]
    BY <1>1
  <2>4. QED BY <1>2, <2>2, <2>3
<1>3. CASE ~ShownIn(view.sessions, k)
  <2>1. view' = view
    BY <1>3, ShownBubbles DEF Chat!Patched
  <2>2. QED BY <1>1, <1>3, <2>1
<1>4. QED BY <1>2, <1>3

LEMMA ChatUnmade ==
  ASSUME ChatInv, MaxSends \in Nat, NEW id, NEW k, Chat!ChatCreationFails(id, k)
  PROVE  ChatInv'
<1> DEFINE c == [op |-> "create", id |-> id, bubble |-> k]
<1>1. /\ IsFiniteSet(server) /\ server \subseteq Identities /\ view.sessions \in Seq(ChatSession)
      /\ view.asked \in 0 .. MaxSends /\ view.text \in [1 .. MaxSends -> Nat]
      /\ Streams(view.sessions, view.asked, view.text, calls)
  BY DEF ChatInv
<1>2. /\ c \in calls /\ calls' = calls \ {c} /\ server' = server
      /\ view' = Chat!Patched(k, view.text[k], FALSE)
  BY DEF Chat!ChatCreationFails
<1>3. c.bubble = k /\ Answers(c)
  BY DEF Answers
<1> HIDE DEF c
<1>4. k \in 1 .. view.asked
  BY <1>1, <1>2, <1>3 DEF Streams
<1>5. k \in 1 .. MaxSends /\ view.text[k] \in Nat
  BY <1>1, <1>4
<1>6. /\ ChatRecord(view') /\ view'.sessions = view.sessions /\ view'.asked = view.asked
      /\ view'.text = view.text
  BY <1>1, <1>2, <1>5, ChatPatched
<1>7. QED BY <1>1, <1>2, <1>6, ChatQuiet

LEMMA ChatToken ==
  ASSUME ChatInv, MaxSends \in Nat, NEW c, Chat!Token(c)
  PROVE  ChatInv'
<1> DEFINE d == [c EXCEPT !.acc = c.acc + 1]
<1>1. /\ IsFiniteSet(server) /\ server \subseteq Identities /\ view.sessions \in Seq(ChatSession)
      /\ view.asked \in 0 .. MaxSends /\ view.text \in [1 .. MaxSends -> Nat]
      /\ Streams(view.sessions, view.asked, view.text, calls)
  BY DEF ChatInv
<1>2. /\ c \in calls /\ c.op = "stream" /\ calls' = (calls \ {c}) \cup {d} /\ server' = server
      /\ view' = Chat!Patched(c.bubble, c.acc + 1, view.streaming[c.bubble])
  BY DEF Chat!Token
<1>3. Answers(c)
  BY <1>2 DEF Answers
<1>4. /\ c.bubble \in 1 .. view.asked /\ c.acc \in Nat
      /\ c = [op |-> "stream", id |-> c.id, chat |-> c.chat, bubble |-> c.bubble, acc |-> c.acc]
  BY <1>1, <1>2, <1>3 DEF Streams
<1>5. c.bubble \in 1 .. MaxSends /\ c.acc + 1 \in Nat
  BY <1>1, <1>4
<1>6. /\ d.op = "stream" /\ d.bubble = c.bubble /\ d.acc = c.acc + 1
      /\ d = [op |-> "stream", id |-> d.id, chat |-> d.chat, bubble |-> d.bubble, acc |-> d.acc]
  <2>1. PICK e : e = d
    OBVIOUS
  <2>2. /\ e.op = "stream" /\ e.bubble = c.bubble /\ e.acc = c.acc + 1
        /\ e = [op |-> "stream", id |-> e.id, chat |-> e.chat, bubble |-> e.bubble, acc |-> e.acc]
    BY <1>4, <2>1
  <2>3. QED BY <2>1, <2>2
<1> HIDE DEF d
<1>7. /\ ChatRecord(view') /\ view'.sessions = view.sessions /\ view'.asked = view.asked
      /\ view'.text = IF ShownIn(view.sessions, c.bubble)
                      THEN [view.text EXCEPT ![c.bubble] = c.acc + 1] ELSE view.text
      /\ view'.text \in [1 .. MaxSends -> Nat]
  BY <1>2, <1>5, ChatPatched
<1>8. /\ \A b \in 1 .. MaxSends : b # c.bubble => view'.text[b] = view.text[b]
      /\ ShownIn(view.sessions, c.bubble) => view'.text[c.bubble] = d.acc
  BY <1>1, <1>5, <1>6, <1>7
<1>9. d.acc \in Nat /\ server' \subseteq Identities /\ IsFiniteSet(server')
      /\ view'.sessions \in Seq(ChatSession)
      /\ \A b : ShownIn(view'.sessions, b) => ShownIn(view.sessions, b)
  BY <1>1, <1>2, <1>5, <1>6, <1>7
<1>10. QED BY <1>2, <1>3, <1>6, <1>7, <1>8, <1>9, ChatMoves

LEMMA ChatAnswered ==
  ASSUME ChatInv, MaxSends \in Nat, NEW c, Chat!StreamEnds(c)
  PROVE  ChatInv'
<1>1. /\ IsFiniteSet(server) /\ server \subseteq Identities /\ view.sessions \in Seq(ChatSession)
      /\ view.asked \in 0 .. MaxSends /\ view.text \in [1 .. MaxSends -> Nat]
      /\ Streams(view.sessions, view.asked, view.text, calls)
  BY DEF ChatInv
<1>2. /\ c \in calls /\ c.op = "stream" /\ calls' = calls \ {c} /\ server' = server
  BY DEF Chat!StreamEnds
<1> PICK text \in {view.text[c.bubble], c.acc} : view' = Chat!Patched(c.bubble, text, FALSE)
  BY DEF Chat!StreamEnds
<1>3. /\ c.bubble \in 1 .. view.asked /\ c.acc \in Nat
      /\ ShownIn(view.sessions, c.bubble) => view.text[c.bubble] = c.acc
  BY <1>1, <1>2 DEF Streams, Answers
<1>4. c.bubble \in 1 .. MaxSends
  BY <1>1, <1>3
<1> text \in Nat /\ (ShownIn(view.sessions, c.bubble) => text = c.acc)
  BY <1>1, <1>3, <1>4
<1>5. /\ ChatRecord(view') /\ view'.sessions = view.sessions /\ view'.asked = view.asked
      /\ view'.text = IF ShownIn(view.sessions, c.bubble)
                      THEN [view.text EXCEPT ![c.bubble] = text] ELSE view.text
  BY <1>2, <1>3, <1>4, ChatPatched
<1>6. view'.text = view.text
  BY <1>1, <1>3, <1>4, <1>5
<1>7. QED BY <1>1, <1>2, <1>5, <1>6, ChatQuiet

LEMMA ChatKeeps ==
  ASSUME ChatInv, Chat!CopilotAssumption, [Chat!Next]_<<view, calls, server>>
  PROVE  ChatInv'
<1>1. MaxSends \in Nat
  BY DEF Chat!CopilotAssumption
<1>2. CASE UNCHANGED <<view, calls, server>>
  BY <1>2 DEF ChatInv, ChatRecord, Streams
<1>3. CASE \E id \in Chat!Ids : Chat!HandleSelectSession(id) \/ Chat!HandleDeleteSession(id)
  BY <1>3, ChatSelected, ChatDropped
<1>4. CASE \E c \in calls :
             \/ c.op = "messages" /\ \E ok \in BOOLEAN : Chat!MessagesLoaded(c.id, ok)
             \/ c.op = "delete" /\ \E ok \in BOOLEAN : Chat!ChatDeleted(c.chat, ok)
             \/ c.op = "create" /\ (Chat!ChatCreated(c.id, c.bubble) \/ Chat!ChatCreationFails(c.id, c.bubble))
             \/ c.op = "stream" /\ (Chat!Token(c) \/ Chat!StreamEnds(c) \/ Chat!StreamCloses(c))
  BY <1>1, <1>4, ChatLoaded, ChatGone, ChatMakes, ChatUnmade, ChatToken, ChatAnswered, ChatCloses
<1>5. QED BY <1>1, <1>2, <1>3, <1>4, ChatListed, ChatListingFails, ChatMade, ChatSends DEF Chat!Next

\* A bubble that is shown holds what its own stream has brought so far, for any number of
\* questions, whatever sessions are listed, opened, reloaded and deleted meanwhile.
THEOREM AnswersAreTheirOwn == Spec => []AnswerIsItsOwn
<1> DEFINE Inv == route = "copilot" => ChatInv
<1>1. Chat!CopilotAssumption
  BY ConsoleAssumption DEF ConsoleAssumption
<1>2. Init => Inv
  BY <1>1, ChatMounted, ChatInit
<1>3. Inv /\ [Next]_vars => Inv'
  BY <1>1, RouteStays, ChatStep, ChatKeeps
<1>4. Inv => AnswerIsItsOwn
  <2> SUFFICES ASSUME ChatInv, NEW c \in calls, c.op = "stream", Chat!Shown(c.bubble)
               PROVE  view.text[c.bubble] = c.acc
    BY DEF AnswerIsItsOwn, Chat!AnswerIsItsOwn
  <2>1. ShownIn(view.sessions, c.bubble)
    BY ShownBubbles
  <2>2. QED BY <2>1 DEF ChatInv, Streams, Answers
<1>5. QED BY <1>2, <1>3, <1>4, PTL DEF Spec

-----------------------------------------------------------------------------
(* Upload workspace *)

LEMMA UploadMounted == Init /\ route = "upload" => Upload!Init
  BY DEF Init, Mounted

LEMMA UploadStep == [Next]_vars /\ route = "upload" => [Upload!Next]_<<view, calls, server>>
  BY DEF Next, vars

UploadRecord(v) ==
  v = [queue |-> v.queue, task |-> v.task, active |-> v.active, intervals |-> v.intervals,
       gone |-> v.gone]

Task == [status : Nat, tags : Int, entities : Int \cup {None}]
Interval == [next : 1 .. LastStage + 1, tags : Int]

\* The pipeline of a file that is queued is at its stage or goes on to the next one.
Paced(task, intervals) ==
  /\ task \in [DOMAIN task -> Task] /\ intervals \in [DOMAIN intervals -> Interval]
  /\ \A f \in DOMAIN task \cap DOMAIN intervals :
       intervals[f].next \in {task[f].status, task[f].status + 1}

UploadInv == UploadRecord(view) /\ Paced(view.task, view.intervals)

\* The status of every file that is queued before and after the step.
Forward(old, new) ==
  \A f \in DOMAIN old \cap DOMAIN new : new[f].status \in {old[f].status, old[f].status + 1}

LEMMA UploadInit == Upload!Init => UploadInv
  BY DEF Upload!Init, UploadInv, UploadRecord, Paced

LEMMA UploadForward ==
  ASSUME UploadInv, Forward(view.task, view'.task)
  PROVE  Upload!MovesForward
<1>1. \A f \in DOMAIN view.task : view.task[f].status \in Nat
  BY DEF UploadInv, Paced, Task
<1>2. QED BY <1>1 DEF Forward, Upload!MovesForward

\* A step that leaves the pipelines, and the status of the files that stay queued, as they are.
LEMMA UploadSteady ==
  ASSUME UploadInv, UploadRecord(view'), view'.intervals = view.intervals,
         view'.task \in [DOMAIN view'.task -> Task],
         \A f \in DOMAIN view'.task :
           \/ f \in DOMAIN view.task /\ view'.task[f].status = view.task[f].status
           \/ f \notin DOMAIN view.task /\ f \notin DOMAIN view.intervals
  PROVE  UploadInv' /\ Forward(view.task, view'.task)
<1>1. Paced(view'.task, view'.intervals)
  BY DEF UploadInv, Paced
<1>2. Forward(view.task, view'.task)
  BY DEF Forward
<1>3. QED BY <1>1, <1>2 DEF UploadInv, UploadRecord

LEMMA UploadDrops ==
  ASSUME UploadInv, NEW f, Upload!HandleFileDrop(f)
  PROVE  UploadInv' /\ Forward(view.task, view'.task)
<1> DEFINE task == [g \in DOMAIN view.task \cup {f} |-> IF g = f THEN Upload!NewTask ELSE view.task[g]]
<1>1. UploadRecord(view) /\ view.task \in [DOMAIN view.task -> Task]
  BY DEF UploadInv, Paced
<1>2. /\ f \notin DOMAIN view.task /\ f \notin DOMAIN view.intervals
      /\ view' = [view EXCEPT !.queue = Append(view.queue, f), !.task = task,
                              !.active = IF view.active = None THEN f ELSE view.active]
  BY DEF Upload!HandleFileDrop, Upload!Queued
<1>3. Upload!NewTask \in Task
  BY DEF Upload!NewTask, Upload!Pending, Task
<1>4. /\ task \in [DOMAIN task -> Task] /\ DOMAIN task = DOMAIN view.task \cup {f}
      /\ \A g \in DOMAIN view.task : task[g] = view.task[g]
  BY <1>1, <1>2, <1>3
<1> HIDE DEF task
<1>5. UploadRecord(view') /\ view'.task = task /\ view'.intervals = view.intervals
  BY <1>1, <1>2 DEF UploadRecord
<1>6. QED BY <1>2, <1>4, <1>5, UploadSteady

\* The steps of the form and of the table of what was extracted.
LEMMA UploadForm ==
  ASSUME UploadInv,
         \/ \E f \in Files : Upload!Select(f)
         \/ Upload!UpdateTaskMetadata \/ Upload!EditEntity
         \/ UNCHANGED view
  PROVE  UploadInv' /\ Forward(view.task, view'.task)
<1>1. UploadRecord(view) /\ view.task \in [DOMAIN view.task -> Task]
  BY DEF UploadInv, Paced
<1>2. ASSUME NEW f \in Files, Upload!Select(f) PROVE UploadInv' /\ Forward(view.task, view'.task)
  <2>1. view' = [view EXCEPT !.active = f]
    BY <1>2 DEF Upload!Select
  <2>2. UploadRecord(view') /\ view'.task = view.task /\ view'.intervals = view.intervals
    BY <1>1, <2>1 DEF UploadRecord
  <2>3. QED BY <1>1, <2>2, UploadSteady
<1>3. ASSUME NEW f \in DOMAIN view.task, NEW t \in Task, t.status = view.task[f].status,
             view' = [view EXCEPT !.task[f] = t]
      PROVE  UploadInv' /\ Forward(view.task, view'.task)
  <2>1. UploadRecord(view') /\ view'.task = [view.task EXCEPT ![f] = t] /\ view'.intervals = view.intervals
    BY <1>1, <1>3 DEF UploadRecord
  <2>2. /\ view'.task \in [DOMAIN view'.task -> Task] /\ DOMAIN view'.task = DOMAIN view.task
        /\ \A g \in DOMAIN view.task : view'.task[g].status = view.task[g].status
    BY <1>1, <1>3, <2>1
  <2>3. QED BY <2>1, <2>2, UploadSteady
<1>4. ASSUME Upload!UpdateTaskMetadata PROVE UploadInv' /\ Forward(view.task, view'.task)
  <2>1. PICK f \in Upload!Active : view' = [view EXCEPT !.task[f].tags = 1 - @]
    BY <1>4 DEF Upload!UpdateTaskMetadata
  <2>2. f \in DOMAIN view.task /\ view.task[f] \in Task
    BY <1>1, <2>1 DEF Upload!Active, Upload!Queued
  <2>3. PICK t : t = [view.task[f] EXCEPT !.tags = 1 - view.task[f].tags]
    OBVIOUS
  <2>4. t \in Task /\ t.status = view.task[f].status
    BY <2>2, <2>3 DEF Task
  <2>5. view' = [view EXCEPT !.task[f] = t]
    BY <2>1, <2>3
  <2>6. QED BY <1>3, <2>2, <2>4, <2>5
<1>5. ASSUME Upload!EditEntity PROVE UploadInv' /\ Forward(view.task, view'.task)
  <2>1. PICK f \in Upload!Active :
          view.task[f].entities # None /\ view' = [view EXCEPT !.task[f].entities = 1 - @]
    BY <1>5 DEF Upload!EditEntity
  <2>2. f \in DOMAIN view.task /\ view.task[f] \in Task
    BY <1>1, <2>1 DEF Upload!Active, Upload!Queued
  <2>3. PICK t : t = [view.task[f] EXCEPT !.entities = 1 - view.task[f].entities]
    OBVIOUS
  <2>4. t \in Task /\ t.status = view.task[f].status
    BY <2>1, <2>2, <2>3 DEF Task
  <2>5. view' = [view EXCEPT !.task[f] = t]
    BY <2>1, <2>3
  <2>6. QED BY <1>3, <2>2, <2>4, <2>5
<1>6. ASSUME UNCHANGED view PROVE UploadInv' /\ Forward(view.task, view'.task)
  BY <1>1, <1>6, UploadSteady
<1>7. QED BY <1>2, <1>4, <1>5, <1>6

LEMMA UploadRemoves ==
  ASSUME UploadInv, NEW f, NEW queue, NEW active, NEW gone,
         view' = [Upload!Removed(view, f, queue, active) EXCEPT !.gone = gone]
  PROVE  UploadInv' /\ Forward(view.task, view'.task)
<1> DEFINE task == [g \in DOMAIN view.task \ {f} |-> view.task[g]]
<1>1. UploadRecord(view) /\ view.task \in [DOMAIN view.task -> Task]
  BY DEF UploadInv, Paced
<1>2. PICK q, a : Upload!Removed(view, f, queue, active)
                    = [view EXCEPT !.queue = q, !.task = task, !.active = a]
  BY DEF Upload!Removed
<1>3. task \in [DOMAIN task -> Task] /\ DOMAIN task \subseteq DOMAIN view.task
      /\ \A g \in DOMAIN task : task[g] = view.task[g]
  BY <1>1
<1> HIDE DEF task
<1>4. view' = [view EXCEPT !.queue = q, !.task = task, !.active = a, !.gone = gone]
  BY <1>1, <1>2 DEF UploadRecord
<1>5. UploadRecord(view') /\ view'.task = task /\ view'.intervals = view.intervals
  BY <1>1, <1>4 DEF UploadRecord
<1>6. QED BY <1>3, <1>5, UploadSteady

\* One pipeline moves on, with the status of its file: the others are as they were.
LEMMA UploadMoves ==
  ASSUME UploadInv, NEW f, NEW s \in Nat, UploadRecord(view'),
         view'.task \in [DOMAIN view.task -> Task],
         \A g \in DOMAIN view.task : g # f => view'.task[g] = view.task[g],
         f \in DOMAIN view.task => /\ view'.task[f].status = s
                                   /\ s \in {view.task[f].status, view.task[f].status + 1},
         view'.intervals \in [DOMAIN view'.intervals -> Interval],
         \A g \in DOMAIN view'.intervals :
           g # f => g \in DOMAIN view.intervals /\ view'.intervals[g] = view.intervals[g],
         f \in DOMAIN view'.intervals => view'.intervals[f].next \in {s, s + 1}
  PROVE  UploadInv' /\ Forward(view.task, view'.task)
<1>1. DOMAIN view'.task = DOMAIN view.task
  OBVIOUS
<1>2. Paced(view'.task, view'.intervals)
  BY <1>1 DEF UploadInv, Paced
<1>3. Forward(view.task, view'.task)
  BY <1>1 DEF Forward, UploadInv, Paced, Task
<1>4. QED BY <1>2, <1>3 DEF UploadInv, UploadRecord

LEMMA UploadRuns ==
  ASSUME UploadInv, LastStage \in Nat, Upload!RunIngestionPipeline
  PROVE  UploadInv' /\ Forward(view.task, view'.task)
<1>1. UploadRecord(view) /\ view.task \in [DOMAIN view.task -> Task]
      /\ view.intervals \in [DOMAIN view.intervals -> Interval]
  BY DEF UploadInv, Paced
<1>2. PICK f \in Upload!Active :
        /\ view.task[f].status = 0
        /\ view' = [view EXCEPT
             !.task[f].status = 1,
             !.intervals = [g \in DOMAIN view.intervals \cup {f} |->
                              IF g = f THEN [next |-> 1, tags |-> view.task[f].tags]
                              ELSE view.intervals[g]]]
  BY DEF Upload!RunIngestionPipeline, Upload!Pending
<1>3. f \in DOMAIN view.task /\ view.task[f] \in Task
  BY <1>1, <1>2 DEF Upload!Active, Upload!Queued
<1>4. PICK t : t = [view.task[f] EXCEPT !.status = 1]
  OBVIOUS
<1>5. t \in Task /\ t.status = 1
  BY <1>3, <1>4 DEF Task
<1>6. PICK timer \in Interval : timer = [next |-> 1, tags |-> view.task[f].tags]
  <2>1. 1 \in 1 .. LastStage + 1 /\ view.task[f].tags \in Int
    BY <1>3 DEF Task
  <2> DEFINE timer == [next |-> 1, tags |-> view.task[f].tags]
  <2>2. timer \in Interval
    BY <2>1 DEF Interval
  <2>3. QED BY <2>2
<1>7. PICK intervals : intervals = [g \in DOMAIN view.intervals \cup {f} |->
                                      IF g = f THEN timer ELSE view.intervals[g]]
  OBVIOUS
<1>8. intervals \in [DOMAIN intervals -> Interval] /\ intervals[f].next = 1
      /\ \A g \in DOMAIN intervals : g # f => g \in DOMAIN view.intervals /\ intervals[g] = view.intervals[g]
  BY <1>1, <1>6, <1>7
<1>9. view' = [view EXCEPT !.task[f] = t, !.intervals = intervals]
  BY <1>2, <1>4, <1>6, <1>7
<1>10. UploadRecord(view') /\ view'.task = [view.task EXCEPT ![f] = t] /\ view'.intervals = intervals
  BY <1>1, <1>9 DEF UploadRecord
<1>11. /\ view'.task \in [DOMAIN view.task -> Task]
       /\ \A g \in DOMAIN view.task : g # f => view'.task[g] = view.task[g]
       /\ view'.task[f].status = 1 /\ 1 \in {view.task[f].status, view.task[f].status + 1}
  BY <1>1, <1>2, <1>3, <1>5, <1>10
<1>12. QED BY <1>8, <1>10, <1>11, UploadMoves

LEMMA UploadTicks ==
  ASSUME UploadInv, LastStage \in Nat, NEW f, Upload!Tick(f)
  PROVE  UploadInv' /\ Forward(view.task, view'.task)
<1>1. UploadRecord(view) /\ view.task \in [DOMAIN view.task -> Task]
      /\ view.intervals \in [DOMAIN view.intervals -> Interval]
  BY DEF UploadInv, Paced
<1>2. f \in DOMAIN view.intervals /\ view.intervals[f] \in Interval
  BY <1>1 DEF Upload!Tick
<1>3. PICK n \in 1 .. LastStage + 1 : n = view.intervals[f].next
  BY <1>2 DEF Interval
<1>4. n \in Nat /\ (f \in DOMAIN view.task => n \in {view.task[f].status, view.task[f].status + 1})
  BY <1>2, <1>3 DEF UploadInv, Paced
<1>5. CASE n <= LastStage
  <2> DEFINE task == [g \in DOMAIN view.task |->
                        IF g = f THEN [view.task[g] EXCEPT !.status = n] ELSE view.task[g]]
             timer == [view.intervals[f] EXCEPT !.next = n + 1]
             intervals == [view.intervals EXCEPT ![f] = timer]
  <2>1. view' = [view EXCEPT !.intervals[f].next = n + 1, !.task = task]
    BY <1>3, <1>5 DEF Upload!Tick
  <2>2. view' = [view EXCEPT !.intervals = intervals, !.task = task]
    <3> HIDE DEF task
    <3>1. QED BY <2>1
  <2>3. /\ task \in [DOMAIN view.task -> Task]
        /\ \A g \in DOMAIN view.task : g # f => task[g] = view.task[g]
        /\ f \in DOMAIN view.task => task[f].status = n
    <3>1. \A t \in Task : [t EXCEPT !.status = n] \in Task /\ [t EXCEPT !.status = n].status = n
      BY <1>4 DEF Task
    <3>2. QED BY <1>1, <3>1
  <2> HIDE DEF task
  <2>4. timer \in Interval /\ timer.next = n + 1
    BY <1>2, <1>5 DEF Interval
  <2> HIDE DEF timer
  <2>5. /\ intervals \in [DOMAIN intervals -> Interval] /\ DOMAIN intervals = DOMAIN view.intervals
        /\ intervals[f].next = n + 1
        /\ \A g \in DOMAIN intervals : g # f => intervals[g] = view.intervals[g]
    BY <1>1, <1>2, <2>4
  <2> HIDE DEF intervals
  <2>6. UploadRecord(view') /\ view'.task = task /\ view'.intervals = intervals
    BY <1>1, <2>2 DEF UploadRecord
  <2>7. QED BY <1>4, <2>3, <2>5, <2>6, UploadMoves
<1>6. CASE ~(n <= LastStage)
  <2> DEFINE tags == view.intervals[f].tags
             task == [g \in DOMAIN view.task |->
                        IF g = f THEN [view.task[g] EXCEPT !.status = n, !.entities = tags]
                        ELSE view.task[g]]
             intervals == [g \in DOMAIN view.intervals \ {f} |-> view.intervals[g]]
  <2>1. n = Upload!Completed
    BY <1>6 DEF Upload!Completed
  <2>2. view' = [view EXCEPT !.intervals = intervals, !.task = task]
    BY <1>3, <1>6, <2>1 DEF Upload!Tick
  <2>3. tags \in Int
    BY <1>2 DEF Interval
  <2> HIDE DEF tags
  <2>4. /\ task \in [DOMAIN view.task -> Task]
        /\ \A g \in DOMAIN view.task : g # f => task[g] = view.task[g]
        /\ f \in DOMAIN view.task => task[f].status = n
    <3>1. \A t \in Task : /\ [t EXCEPT !.status = n, !.entities = tags] \in Task
                          /\ [t EXCEPT !.status = n, !.entities = tags].status = n
      BY <1>4, <2>3 DEF Task
    <3>2. QED BY <1>1, <3>1
  <2> HIDE DEF task
  <2>5. /\ intervals \in [DOMAIN intervals -> Interval] /\ f \notin DOMAIN intervals
        /\ \A g \in DOMAIN intervals : g \in DOMAIN view.intervals /\ intervals[g] = view.intervals[g]
    BY <1>1
  <2> HIDE DEF intervals
  <2>6. UploadRecord(view') /\ view'.task = task /\ view'.intervals = intervals
    BY <1>1, <2>2 DEF UploadRecord
  <2>7. QED BY <1>4, <2>4, <2>5, <2>6, UploadMoves
<1>7. QED BY <1>5, <1>6

LEMMA UploadKeeps ==
  ASSUME UploadInv, Upload!UploadAssumption, [Upload!Next]_<<view, calls, server>>
  PROVE  UploadInv' /\ Upload!MovesForward
<1>1. LastStage \in Nat
  BY DEF Upload!UploadAssumption
<1>2. ASSUME NEW f, Upload!RemoveTask(f) PROVE UploadInv' /\ Forward(view.task, view'.task)
  <2>1. view' = Upload!Removed(view, f, view.queue, view.active)
    BY <1>2 DEF Upload!RemoveTask
  <2>2. view' = [Upload!Removed(view, f, view.queue, view.active) EXCEPT !.gone = view.gone]
    BY <2>1 DEF UploadInv, UploadRecord, Upload!Removed
  <2>3. QED BY <2>2, UploadRemoves
<1>3. ASSUME Upload!Stored PROVE UploadInv' /\ Forward(view.task, view'.task)
  <2>1. PICK f, queue, active, gone :
          view' = [Upload!Removed(view, f, queue, active) EXCEPT !.gone = gone]
    BY <1>3 DEF Upload!Stored
  <2>2. QED BY <2>1, UploadRemoves
<1>4. CASE Upload!Approve \/ Upload!UploadUrl \/ Upload!ApproveFails \/ UNCHANGED <<view, calls, server>>
  <2>1. UNCHANGED view
    BY <1>4 DEF Upload!Approve, Upload!UploadUrl, Upload!ApproveFails
  <2>2. UploadInv' /\ Forward(view.task, view'.task)
    BY <2>1, UploadForm
  <2>3. QED BY <2>2, UploadForward
<1>5. CASE \E f \in Files :
             Upload!HandleFileDrop(f) \/ Upload!Select(f) \/ Upload!Tick(f) \/ Upload!RemoveTask(f)
  <2>1. UploadInv' /\ Forward(view.task, view'.task)
    BY <1>1, <1>2, <1>5, UploadDrops, UploadForm, UploadTicks
  <2>2. QED BY <2>1, UploadForward
<1>6. CASE Upload!UpdateTaskMetadata \/ Upload!RunIngestionPipeline \/ Upload!EditEntity \/ Upload!Stored
  <2>1. UploadInv' /\ Forward(view.task, view'.task)
    BY <1>1, <1>3, <1>6, UploadForm, UploadRuns
  <2>2. QED BY <2>1, UploadForward
<1>7. QED BY <1>4, <1>5, <1>6 DEF Upload!Next

\* The bar of a file never goes back, for any number of files and of stages, whatever fails and
\* whatever is removed meanwhile.
THEOREM ProgressIsKept == Spec => NothingMovesBack
<1> DEFINE Inv == route = "upload" => UploadInv
           Moves == route = "upload" => Upload!MovesForward
<1>1. Upload!UploadAssumption
  BY ConsoleAssumption DEF ConsoleAssumption
<1>2. Init => Inv
  BY UploadMounted, UploadInit
<1>3. Inv /\ [Next]_vars => Inv'
  BY <1>1, RouteStays, UploadStep, UploadKeeps
<1>4. Inv /\ [Next]_vars => Moves
  BY <1>1, UploadStep, UploadKeeps
<1>5. Inv /\ [Next]_vars => [Moves]_vars
  BY <1>4
<1>6. QED BY <1>2, <1>3, <1>5, PTL DEF Spec, NothingMovesBack

-----------------------------------------------------------------------------
(* Administration panels on the built-in server *)

FormsRecord(v) ==
  v = [panel |-> v.panel, rows |-> v.rows, isLoading |-> v.isLoading, editing |-> v.editing,
       draft |-> v.draft, pending |-> v.pending, preview |-> v.preview, matches |-> v.matches,
       saving |-> v.saving, settings |-> v.settings]

Held == Values \cup {None}
Sheet(p) == [Forms!ItemsOf(p) -> Held]
Anything == (UNION {Forms!ItemsOf(p) : p \in Forms!Panels}) \cup {None}

FormCall ==
  {c \in [op : {"list", "preview", "put", "test"}, panel : Forms!Panels, item : Anything,
          value : Held, mine : BOOLEAN] : c.op = "put" => c.item \in Forms!ItemsOf(c.panel)}

Lists == {c \in FormCall : c.op = "list" /\ c.mine}
Strays(p) == {c \in FormCall : c.op = "put" /\ c.panel = p /\ ~c.mine}
Foreign(p) == {c \in FormCall : c.mine /\ c.panel # p}
Works == {c \in FormCall : c.mine /\ c.op # "list"}
Previews == {c \in FormCall : c.op = "preview" /\ c.mine}
Current(e, d) == {c \in FormCall : c.op = "preview" /\ c.mine /\ c.item = e /\ c.value = d}

FormsTyped ==
  /\ FormsRecord(view) /\ view.panel \in Forms!Panels
  /\ view.editing \in Forms!ItemsOf(view.panel) \cup {None} /\ view.draft \in Held
  /\ view.isLoading \/ view.rows \in Sheet(view.panel)
  /\ calls \in Seq(FormCall)
  /\ server = [p \in Forms!Panels |-> server[p]] /\ \A p \in Forms!Panels : server[p] \in Sheet(p)
  /\ view.settings = server["settings"]["settings"]
  /\ ~Has(calls, Foreign(view.panel))

\* A list that is not the stored one is fetched again, after the saves that were still under
\* way when the panel was opened.  Nothing is edited in the templates while they load.
ListsFollow ==
  /\ view.isLoading \/ (view.panel # "settings" /\ view.rows # server[view.panel]) => Has(calls, Lists)
  /\ Followed(calls, Strays(view.panel), Lists)
  /\ view.panel = "templates" /\ view.isLoading
       => view.editing = None /\ ~Has(calls, Works)

\* A preview under way that is not of the text in the editor has one after it that is.
PreviewsFollow ==
  /\ view.pending => view.panel = "templates" /\ view.editing # None
  /\ view.panel = "templates" /\ view.editing # None /\ ~view.pending
       => /\ Followed(calls, Previews, Current(view.editing, view.draft))
          /\ \/ view.preview = <<view.editing, view.draft>>
             \/ Has(calls, Current(view.editing, view.draft))

FormsInv == FormsTyped /\ ListsFollow /\ PreviewsFollow

LEMMA FormsMounted == Init /\ route = "admin-forms" => Forms!Init
  BY DEF Init, Mounted

LEMMA FormsStep == [Next]_vars /\ route = "admin-forms" => [Forms!Next]_<<view, calls, server>>
  BY DEF Next, vars

FormsAllowed == Forms!FormsAssumption

LEMMA NoneGiven == None \in Anything /\ None \in Held
  BY DEF Anything, Held

LEMMA ListIsCall == \A p \in Forms!Panels : Forms!List(p) \in FormCall /\ Forms!List(p) \in Lists
<1> SUFFICES ASSUME NEW p \in Forms!Panels PROVE Forms!List(p) \in FormCall /\ Forms!List(p) \in Lists
  OBVIOUS
<1>1. /\ Forms!List(p) \in [op : {"list", "preview", "put", "test"}, panel : Forms!Panels,
                            item : Anything, value : Held, mine : BOOLEAN]
      /\ Forms!List(p).op = "list" /\ Forms!List(p).mine
  BY NoneGiven DEF Forms!List
<1>2. QED BY <1>1 DEF FormCall, Lists

LEMMA FormsInit == FormsAllowed /\ Forms!Init => FormsInv
<1> SUFFICES ASSUME FormsAllowed, Forms!Init PROVE FormsInv
  OBVIOUS
<1>1. /\ server = Forms!Stored /\ view = Forms!Panel("templates", server["settings"]["settings"])
      /\ calls = <<Forms!List("templates")>>
  BY DEF Forms!Init
<1>2. "templates" \in Forms!Panels
  BY DEF Forms!Panels
<1>3. /\ FormsRecord(view) /\ view.panel = "templates" /\ view.isLoading /\ view.editing = None
      /\ view.draft = None /\ ~view.pending /\ view.settings = server["settings"]["settings"]
  BY <1>1 DEF Forms!Panel, FormsRecord
<1>4. /\ server = [p \in Forms!Panels |-> server[p]]
      /\ \A p \in Forms!Panels : server[p] \in Sheet(p)
  <2>1. (CHOOSE v \in Values : TRUE) \in Held /\ None \in Held
    BY DEF FormsAllowed, Forms!FormsAssumption, Held
  <2>2. QED BY <1>1, <2>1 DEF Forms!Stored, Sheet
<1>5. PICK c : c = Forms!List("templates")
  OBVIOUS
<1>6. c \in FormCall /\ c \in Lists /\ c.mine /\ c.op = "list" /\ c.panel = "templates"
  BY <1>2, <1>5, ListIsCall DEF Forms!List
<1>7. /\ calls \in Seq(FormCall) /\ DOMAIN calls = {1} /\ calls[1] = c
  BY <1>1, <1>5, <1>6
<1>8. /\ Has(calls, Lists) /\ ~Has(calls, Foreign("templates")) /\ ~Has(calls, Works)
      /\ Followed(calls, Strays("templates"), Lists)
  BY <1>6, <1>7 DEF Has, Followed, Foreign, Works
<1>9. FormsTyped /\ ListsFollow
  BY <1>2, <1>3, <1>4, <1>7, <1>8 DEF FormsTyped, ListsFollow, Held
<1>10. PreviewsFollow
  BY <1>3 DEF PreviewsFollow
<1>11. QED BY <1>9, <1>10 DEF FormsInv

\* What a person does in an editor; the preview is asked for later, if it has to be.
LEMMA FormsEdits ==
  ASSUME FormsInv, FormsRecord(view'), UNCHANGED <<calls, server>>,
         view'.panel = view.panel, view'.rows = view.rows, view'.isLoading = view.isLoading,
         view'.settings = view.settings,
         view'.editing \in Forms!ItemsOf(view.panel) \cup {None}, view'.draft \in Held,
         view'.pending => view.panel = "templates" /\ view'.editing # None,
         view'.pending \/ view'.editing = None \/ view.panel # "templates",
         view.panel = "templates" /\ view.isLoading => view'.editing = None
  PROVE  FormsInv'
<1>1. FormsTyped'
  BY DEF FormsInv, FormsTyped
<1>2. ListsFollow'
  BY DEF FormsInv, ListsFollow
<1>3. PreviewsFollow'
  BY DEF FormsInv, PreviewsFollow
<1>4. QED BY <1>1, <1>2, <1>3 DEF FormsInv

LEMMA PanelItems ==
  /\ Forms!ItemsOf("templates") = Templates /\ Forms!ItemsOf("reports") = Reports
  /\ Forms!ItemsOf("rules") = Rules \cup {NewRule} /\ Forms!ItemsOf("settings") = {"settings"}
  /\ {"templates", "reports", "rules", "settings"} = Forms!Panels
  BY DEF Forms!ItemsOf, Forms!Panels

FormsViewed ==
  /\ FormsRecord(view) /\ view.editing \in Forms!ItemsOf(view.panel) \cup {None}
  /\ view.draft \in Held /\ (view.isLoading \/ view.rows \in Sheet(view.panel))
  /\ view.pending => view.panel = "templates"
  /\ view.panel = "templates" /\ view.isLoading => view.editing = None

LEMMA FormsView == FormsInv => FormsViewed
  BY DEF FormsInv, FormsTyped, ListsFollow, PreviewsFollow, FormsViewed

LEMMA FormsTypes ==
  ASSUME FormsInv, NEW v \in Values,
         \/ Forms!TypeTemplate(v) \/ Forms!TypeReport(v) \/ Forms!TypeRule(v) \/ Forms!TypeSetting(v)
  PROVE  FormsInv'
<1>1. FormsViewed /\ v \in Held
  BY FormsView DEF Held
<1>2. CASE Forms!TypeTemplate(v)
  <2>1. /\ view' = [view EXCEPT !.draft = v, !.pending = TRUE] /\ UNCHANGED <<calls, server>>
        /\ view.panel = "templates" /\ view.editing # None
    BY <1>2 DEF Forms!TypeTemplate
  <2>2. QED BY <1>1, <2>1, FormsEdits DEF FormsViewed, FormsRecord
<1>3. CASE Forms!TypeReport(v) \/ Forms!TypeRule(v) \/ Forms!TypeSetting(v)
  <2>1. /\ view' = [view EXCEPT !.draft = v] /\ UNCHANGED <<calls, server>>
        /\ view.panel # "templates"
    BY <1>3 DEF Forms!TypeReport, Forms!TypeRule, Forms!TypeSetting
  <2>2. QED BY <1>1, <2>1, FormsEdits DEF FormsViewed, FormsRecord
<1>4. QED BY <1>2, <1>3

LEMMA FormsCloses ==
  ASSUME FormsInv, Forms!CloseTemplate \/ Forms!CloseReport \/ Forms!CloseRule
  PROVE  FormsInv'
<1>1. FormsViewed
  BY FormsView
<1>2. CASE Forms!CloseTemplate
  <2>1. view' = [view EXCEPT !.editing = None, !.pending = FALSE] /\ UNCHANGED <<calls, server>>
    BY <1>2 DEF Forms!CloseTemplate
  <2>2. QED BY <1>1, <2>1, FormsEdits DEF FormsViewed, FormsRecord
<1>3. CASE Forms!CloseReport \/ Forms!CloseRule
  <2>1. /\ view' = [view EXCEPT !.editing = None] /\ UNCHANGED <<calls, server>>
        /\ view.panel # "templates"
    BY <1>3 DEF Forms!CloseReport, Forms!CloseRule
  <2>2. QED BY <1>1, <2>1, FormsEdits DEF FormsViewed, FormsRecord
<1>4. QED BY <1>2, <1>3

LEMMA TemplateOpens ==
  ASSUME FormsInv, FormsAllowed, NEW t \in Templates, Forms!EditTemplate(t)
  PROVE  FormsInv'
<1>1. FormsViewed /\ t # None
  BY FormsView DEF FormsAllowed, Forms!FormsAssumption
<1>2. /\ view' = [view EXCEPT !.editing = t, !.draft = view.rows[t], !.preview = None, !.pending = TRUE]
      /\ UNCHANGED <<calls, server>> /\ view.panel = "templates" /\ ~view.isLoading
  BY DEF Forms!EditTemplate, Forms!Shown
<1>3. PICK d : d = view.rows[t]
  OBVIOUS
<1>4. t \in Forms!ItemsOf(view.panel) /\ d \in Held
  BY <1>1, <1>2, <1>3, PanelItems DEF Sheet, FormsViewed
<1>5. view' = [view EXCEPT !.editing = t, !.draft = d, !.preview = None, !.pending = TRUE]
  BY <1>2, <1>3
<1>6. QED BY <1>1, <1>2, <1>4, <1>5, FormsEdits DEF FormsViewed, FormsRecord

LEMMA DrawerOpens ==
  ASSUME FormsInv, view' = [view EXCEPT !.editing = view'.editing, !.draft = view'.draft,
                                        !.matches = view'.matches],
         view'.editing \in Forms!ItemsOf(view.panel), view'.draft \in Held,
         view.panel # "templates", UNCHANGED <<calls, server>>
  PROVE  FormsInv'
<1>1. FormsViewed
  BY FormsView
<1>2. FormsRecord(view')
  BY <1>1 DEF FormsViewed, FormsRecord
<1>3. /\ view'.panel = view.panel /\ view'.rows = view.rows /\ view'.isLoading = view.isLoading
      /\ view'.settings = view.settings /\ view'.pending = view.pending
  BY <1>1 DEF FormsViewed, FormsRecord
<1>4. QED BY <1>1, <1>2, <1>3, FormsEdits DEF FormsViewed

LEMMA ReportOpens ==
  ASSUME FormsInv, NEW r \in Reports, Forms!OpenReport(r)
  PROVE  FormsInv'
<1>1. FormsViewed
  BY FormsView
<1>2. PICK d : d = view.rows[r]
  OBVIOUS
<1>3. /\ view' = [view EXCEPT !.editing = r, !.draft = d] /\ UNCHANGED <<calls, server>>
      /\ view.panel = "reports" /\ ~view.isLoading
  BY <1>2 DEF Forms!OpenReport, Forms!Shown
<1>4. r \in Forms!ItemsOf(view.panel) /\ d \in Held
  BY <1>1, <1>2, <1>3, PanelItems DEF Sheet, FormsViewed
<1>5. /\ view' = [view EXCEPT !.editing = view'.editing, !.draft = view'.draft, !.matches = view'.matches]
      /\ view'.editing = r /\ view'.draft = d
  BY <1>1, <1>3 DEF FormsViewed, FormsRecord
<1>6. QED BY <1>3, <1>4, <1>5, DrawerOpens

LEMMA RuleOpens ==
  ASSUME FormsInv, NEW r \in Rules \cup {NewRule}, Forms!OpenRule(r)
  PROVE  FormsInv'
<1>1. FormsViewed
  BY FormsView
<1>2. PICK d : d = view.rows[r]
  OBVIOUS
<1>3. /\ view' = [view EXCEPT !.editing = r, !.draft = d, !.matches = None]
      /\ UNCHANGED <<calls, server>> /\ view.panel = "rules" /\ ~view.isLoading
  BY <1>2 DEF Forms!OpenRule, Forms!Shown
<1>4. r \in Forms!ItemsOf(view.panel) /\ d \in Held
  BY <1>1, <1>2, <1>3, PanelItems DEF Sheet, FormsViewed
<1>5. /\ view' = [view EXCEPT !.editing = view'.editing, !.draft = view'.draft, !.matches = view'.matches]
      /\ view'.editing = r /\ view'.draft = d
  BY <1>1, <1>3 DEF FormsViewed, FormsRecord
<1>6. QED BY <1>3, <1>4, <1>5, DrawerOpens

LEMMA RuleStarts ==
  ASSUME FormsInv, FormsAllowed, Forms!CreateRule
  PROVE  FormsInv'
<1>1. PICK d : d = CHOOSE v \in Values : TRUE
  OBVIOUS
<1>2. /\ view' = [view EXCEPT !.editing = NewRule, !.draft = d, !.matches = None]
      /\ UNCHANGED <<calls, server>> /\ view.panel = "rules"
  BY <1>1 DEF Forms!CreateRule
<1>3. d \in Held /\ NewRule \in Forms!ItemsOf(view.panel)
  BY <1>1, <1>2, PanelItems DEF FormsAllowed, Forms!FormsAssumption, Held
<1>4. FormsViewed
  BY FormsView
<1>5. /\ view' = [view EXCEPT !.editing = view'.editing, !.draft = view'.draft, !.matches = view'.matches]
      /\ view'.editing = NewRule /\ view'.draft = d
  BY <1>2, <1>4 DEF FormsViewed, FormsRecord
<1>6. QED BY <1>2, <1>3, <1>5, DrawerOpens

\* A call of the panel that is open, for the item in the drawer.
LEMMA CallMade ==
  ASSUME NEW op \in {"preview", "put", "test"}, NEW p \in Forms!Panels, NEW item, NEW value \in Held,
         item \in Forms!ItemsOf(p)
  PROVE  [op |-> op, panel |-> p, item |-> item, value |-> value, mine |-> TRUE] \in FormCall
  BY DEF FormCall, Anything

LEMMA FormsCalls ==
  ASSUME FormsInv, NEW c \in FormCall, c.mine, c.panel = view.panel, calls' = Append(calls, c),
         UNCHANGED server, FormsRecord(view'), view'.panel = view.panel, view'.rows = view.rows,
         view'.isLoading = view.isLoading, view'.editing = view.editing,
         view'.draft = view.draft, view'.preview = view.preview, view'.settings = view.settings,
         ~view.isLoading \/ view.panel # "templates",
         \/ c.op \in {"put", "test"} /\ view'.pending = view.pending
         \/ c \in Current(view.editing, view.draft) /\ ~view'.pending
  PROVE  FormsInv'
<1>1. calls \in Seq(FormCall) /\ calls' \in Seq(FormCall)
  BY DEF FormsInv, FormsTyped
<1>2. c \notin Lists /\ c \notin Strays(view.panel) /\ c \notin Foreign(view.panel)
  BY DEF Lists, Strays, Foreign, Current
<1>3. /\ Has(calls', Lists) <=> Has(calls, Lists)
      /\ Has(calls', Foreign(view.panel)) <=> Has(calls, Foreign(view.panel))
      /\ Followed(calls, Strays(view.panel), Lists) => Followed(calls', Strays(view.panel), Lists)
  BY <1>1, <1>2, HasAppended, FollowedAppended
<1>4. FormsTyped'
  BY <1>1, <1>3 DEF FormsInv, FormsTyped
<1>5. ListsFollow'
  BY <1>3 DEF FormsInv, ListsFollow
<1>6. PreviewsFollow'
  <2> DEFINE B == Current(view.editing, view.draft)
  <2>1. /\ Has(calls', B) <=> Has(calls, B) \/ c \in B
        /\ c \in B => Followed(calls', Previews, B)
        /\ c \notin Previews /\ Followed(calls, Previews, B) => Followed(calls', Previews, B)
    BY <1>1, HasAppended, FollowedAppended
  <2>2. c \in B \/ (c \notin Previews /\ view'.pending = view.pending)
    BY DEF Previews
  <2>3. c \in B => ~view'.pending
    BY DEF Current
  <2> HIDE DEF B
  <2>4. QED BY <2>1, <2>2, <2>3 DEF FormsInv, PreviewsFollow, B
<1>7. QED BY <1>4, <1>5, <1>6 DEF FormsInv

LEMMA PreviewAsked ==
  ASSUME FormsInv, Forms!PreviewFires
  PROVE  FormsInv'
<1>1. /\ FormsViewed /\ view.panel \in Forms!Panels /\ view.pending
      /\ view.panel = "templates" /\ view.editing # None /\ ~view.isLoading
  BY FormsView DEF FormsInv, FormsTyped, PreviewsFollow, FormsViewed, Forms!PreviewFires
<1>2. PICK c : c = [op |-> "preview", panel |-> view.panel, item |-> view.editing,
                    value |-> view.draft, mine |-> TRUE]
  OBVIOUS
<1>3. /\ view' = [view EXCEPT !.pending = FALSE] /\ calls' = Append(calls, c) /\ UNCHANGED server
  BY <1>2 DEF Forms!PreviewFires, Forms!Call
<1>4. c \in FormCall
  BY <1>1, <1>2, CallMade DEF FormsViewed
<1>5. c.mine /\ c.panel = view.panel /\ c \in Current(view.editing, view.draft)
  BY <1>2, <1>4 DEF Current
<1>6. FormsRecord(view') /\ view'.panel = view.panel /\ view'.rows = view.rows
      /\ view'.isLoading = view.isLoading /\ view'.editing = view.editing
      /\ view'.draft = view.draft /\ view'.preview = view.preview
      /\ view'.settings = view.settings /\ ~view'.pending
  BY <1>1, <1>3 DEF FormsViewed, FormsRecord
<1>7. QED BY <1>1, <1>3, <1>4, <1>5, <1>6, FormsCalls

LEMMA FormsSaves ==
  ASSUME FormsInv,
         \/ Forms!SaveTemplate \/ Forms!SaveReport \/ Forms!SaveRule \/ Forms!TestRule
         \/ Forms!SaveSettings
  PROVE  FormsInv'
<1>1. FormsViewed /\ view.panel \in Forms!Panels
  BY FormsView DEF FormsInv, FormsTyped
<1>2. PICK op \in {"put", "test"}, item \in Forms!ItemsOf(view.panel) :
        calls' = Append(calls, [op |-> op, panel |-> view.panel, item |-> item,
                                value |-> view.draft, mine |-> TRUE])
  <2>1. CASE Forms!SaveSettings
    BY <2>1, PanelItems DEF Forms!SaveSettings, Forms!Call
  <2>2. CASE ~Forms!SaveSettings
    BY <1>1, <2>2 DEF Forms!SaveTemplate, Forms!SaveReport, Forms!SaveRule, Forms!TestRule,
                      Forms!Call, FormsViewed
  <2>3. QED BY <2>1, <2>2
<1>3. PICK c : c = [op |-> op, panel |-> view.panel, item |-> item, value |-> view.draft, mine |-> TRUE]
  OBVIOUS
<1>4. c \in FormCall
  BY <1>1, <1>2, <1>3, CallMade DEF FormsViewed
<1>5. c.mine /\ c.panel = view.panel /\ c.op \in {"put", "test"} /\ calls' = Append(calls, c)
  BY <1>2, <1>3
<1>6. /\ view' = view \/ view' = [view EXCEPT !.saving = TRUE]
      /\ UNCHANGED server /\ (view.panel = "templates" => view.editing # None)
  BY DEF Forms!SaveTemplate, Forms!SaveReport, Forms!SaveRule, Forms!TestRule,
         Forms!SaveSettings, Forms!Call
<1>7. FormsRecord(view') /\ view'.panel = view.panel /\ view'.rows = view.rows
      /\ view'.isLoading = view.isLoading /\ view'.editing = view.editing
      /\ view'.draft = view.draft /\ view'.preview = view.preview
      /\ view'.settings = view.settings /\ view'.pending = view.pending
  BY <1>1, <1>6 DEF FormsViewed, FormsRecord
<1>8. ~view.isLoading \/ view.panel # "templates"
  BY <1>1, <1>6 DEF FormsViewed
<1>9. QED BY <1>4, <1>5, <1>6, <1>7, <1>8, FormsCalls

\* What an answer leaves of the calls.
LEMMA FormsLeft ==
  ASSUME FormsInv, calls # <<>>, NEW rest, rest = Tail(calls)
  PROVE  /\ rest \in Seq(FormCall) /\ Head(calls) \in FormCall
         /\ Head(calls).mine => Head(calls).panel = view.panel
         /\ ~Has(rest, Foreign(view.panel)) /\ (~Has(calls, Works) => ~Has(rest, Works))
         /\ Followed(rest, Strays(view.panel), Lists)
         /\ Head(calls) \in Strays(view.panel) => Has(rest, Lists)
         /\ Has(calls, Lists) => Head(calls) \in Lists \/ Has(rest, Lists)
<1> DEFINE c == Head(calls)
<1>1. calls \in Seq(FormCall) /\ ~Has(calls, Foreign(view.panel))
      /\ Followed(calls, Strays(view.panel), Lists)
  BY DEF FormsInv, FormsTyped, ListsFollow
<1>2. rest \in Seq(FormCall) /\ c \in FormCall
      /\ \A B : Has(calls, B) <=> c \in B \/ Has(rest, B)
  BY <1>1, Shortened
<1>3. /\ Followed(rest, Strays(view.panel), Lists)
      /\ c \in Strays(view.panel) /\ c \notin Lists => Has(rest, Lists)
  BY <1>1, Shortened
<1> HIDE DEF c
<1>4. c \in Strays(view.panel) => c \notin Lists
  BY DEF Strays, Lists
<1>5. c.mine => c.panel = view.panel
  BY <1>1, <1>2 DEF Foreign
<1>6. QED BY <1>1, <1>2, <1>3, <1>4, <1>5 DEF c

\* An answer that is no preview leaves the previews as they are.
LEMMA PreviewsLeft ==
  ASSUME FormsInv, calls # <<>>, calls' = Tail(calls), Head(calls) \notin Previews,
         view'.panel = view.panel, view'.editing = view.editing, view'.draft = view.draft,
         view'.pending = view.pending, view'.preview = view.preview
  PROVE  PreviewsFollow'
<1> DEFINE B == Current(view.editing, view.draft)
<1>1. calls \in Seq(FormCall)
  BY DEF FormsInv, FormsTyped
<1>2. /\ Followed(calls, Previews, B) => Followed(calls', Previews, B)
      /\ Has(calls, B) <=> Head(calls) \in B \/ Has(calls', B)
  BY <1>1, Shortened
<1>3. Head(calls) \notin B
  BY DEF Current, Previews
<1> HIDE DEF B
<1>4. QED BY <1>2, <1>3 DEF FormsInv, PreviewsFollow, B

LEMMA PreviewComes ==
  ASSUME FormsInv, Forms!PreviewAnswered
  PROVE  FormsInv'
<1> DEFINE B == Current(view.editing, view.draft)
<1>1. PICK c : c = Head(calls)
  OBVIOUS
<1>2. /\ FormsViewed /\ calls \in Seq(FormCall) /\ calls # <<>> /\ calls' = Tail(calls)
      /\ c.op = "preview" /\ UNCHANGED server
      /\ view' = IF c.mine THEN [view EXCEPT !.preview = <<c.item, c.value>>] ELSE view
  BY <1>1, FormsView DEF FormsInv, FormsTyped, Forms!PreviewAnswered
<1>3. /\ FormsRecord(view') /\ view'.panel = view.panel /\ view'.rows = view.rows
      /\ view'.isLoading = view.isLoading /\ view'.editing = view.editing
      /\ view'.draft = view.draft /\ view'.settings = view.settings
      /\ view'.pending = view.pending
      /\ view'.preview = IF c.mine THEN <<c.item, c.value>> ELSE view.preview
  BY <1>2 DEF FormsViewed, FormsRecord
<1>4. c \in FormCall /\ c \notin Lists /\ (c.mine <=> c \in Previews)
  BY <1>1, <1>2, FormsLeft DEF Lists, Previews
<1>5. FormsTyped' /\ ListsFollow'
  BY <1>1, <1>2, <1>3, <1>4, FormsLeft DEF FormsInv, FormsTyped, ListsFollow
<1>6. /\ Followed(calls, Previews, B) => Followed(calls', Previews, B)
      /\ Has(calls, B) <=> c \in B \/ Has(calls', B)
      /\ Followed(calls, Previews, B) /\ c \in Previews /\ c \notin B => Has(calls', B)
  BY <1>1, <1>2, Shortened
<1>7. c \in B => c.mine /\ c.item = view.editing /\ c.value = view.draft
  BY DEF Current
<1> HIDE DEF B
<1>8. PreviewsFollow'
  <2> SUFFICES ASSUME view.panel = "templates", view.editing # None, ~view.pending
               PROVE  /\ Followed(calls', Previews, B)
                      /\ view'.preview = <<view.editing, view.draft>> \/ Has(calls', B)
    BY <1>3 DEF PreviewsFollow, B, FormsInv
  <2>1. /\ Followed(calls, Previews, B)
        /\ view.preview = <<view.editing, view.draft>> \/ Has(calls, B)
    BY DEF FormsInv, PreviewsFollow, B
  <2>2. CASE c \in B
    BY <1>3, <1>6, <1>7, <2>1, <2>2
  <2>3. CASE c \notin B /\ c.mine
    BY <1>4, <1>6, <2>1, <2>3
  <2>4. CASE ~c.mine
    BY <1>3, <1>4, <1>6, <1>7, <2>1, <2>4
  <2>5. QED BY <2>2, <2>3, <2>4
<1>9. QED BY <1>5, <1>8 DEF FormsInv

LEMMA TestComes ==
  ASSUME FormsInv, Forms!TestAnswered
  PROVE  FormsInv'
<1>1. PICK c : c = Head(calls)
  OBVIOUS
<1>2. /\ FormsViewed /\ calls # <<>> /\ calls' = Tail(calls)
      /\ c.op = "test" /\ UNCHANGED server
      /\ view' = IF c.mine THEN [view EXCEPT !.saving = FALSE, !.matches = <<c.item, c.value>>] ELSE view
  BY <1>1, FormsView DEF Forms!TestAnswered
<1>3. /\ FormsRecord(view') /\ view'.panel = view.panel /\ view'.rows = view.rows
      /\ view'.isLoading = view.isLoading /\ view'.editing = view.editing
      /\ view'.draft = view.draft /\ view'.settings = view.settings
      /\ view'.pending = view.pending /\ view'.preview = view.preview
  BY <1>2 DEF FormsViewed, FormsRecord
<1>4. c \notin Lists /\ c \notin Previews
  BY <1>2 DEF Lists, Previews
<1>5. FormsTyped' /\ ListsFollow'
  BY <1>1, <1>2, <1>3, <1>4, FormsLeft DEF FormsInv, FormsTyped, ListsFollow
<1>6. PreviewsFollow'
  BY <1>1, <1>2, <1>3, <1>4, PreviewsLeft
<1>7. QED BY <1>5, <1>6 DEF FormsInv

LEMMA SettingsCome ==
  ASSUME FormsInv, Forms!SettingsSaved
  PROVE  FormsInv'
<1>1. PICK c : c = Head(calls)
  OBVIOUS
<1>2. PICK d : d = IF view.panel = "settings" /\ ~view.isLoading THEN c.value ELSE view.draft
  OBVIOUS
<1>3. PICK busy : busy = IF c.mine THEN FALSE ELSE view.saving
  OBVIOUS
<1>4. /\ FormsViewed /\ calls # <<>> /\ calls' = Tail(calls)
      /\ c.op = "put" /\ c.panel = "settings"
      /\ view' = [view EXCEPT !.settings = c.value, !.saving = busy, !.draft = d]
      /\ server' = [server EXCEPT !["settings"]["settings"] = c.value]
  BY <1>1, <1>2, <1>3, FormsView DEF Forms!SettingsSaved, FormsViewed, FormsRecord
<1>5. c \in FormCall /\ c.value \in Held /\ d \in Held /\ c \notin Lists /\ c \notin Previews
  BY <1>1, <1>2, <1>4, FormsLeft DEF FormCall, Lists, Previews, FormsViewed
<1>6. /\ FormsRecord(view') /\ view'.panel = view.panel /\ view'.rows = view.rows
      /\ view'.isLoading = view.isLoading /\ view'.editing = view.editing
      /\ view'.draft = d /\ view'.settings = c.value
      /\ view'.pending = view.pending /\ view'.preview = view.preview
  BY <1>4 DEF FormsViewed, FormsRecord
<1>7. /\ server' = [p \in Forms!Panels |-> server'[p]]
      /\ \A p \in Forms!Panels : server'[p] \in Sheet(p)
      /\ \A p \in Forms!Panels : p # "settings" => server'[p] = server[p]
      /\ server'["settings"]["settings"] = c.value
  <2>1. /\ server = [p \in Forms!Panels |-> server[p]] /\ \A p \in Forms!Panels : server[p] \in Sheet(p)
    BY DEF FormsInv, FormsTyped
  <2>2. server["settings"] \in [{"settings"} -> Held] /\ "settings" \in Forms!Panels
    BY <2>1, PanelItems DEF Sheet
  <2>3. PICK stored : stored = [server["settings"] EXCEPT !["settings"] = c.value]
    OBVIOUS
  <2>4. stored \in Sheet("settings") /\ stored["settings"] = c.value
    BY <1>5, <2>2, <2>3, PanelItems DEF Sheet
  <2>5. server' = [server EXCEPT !["settings"] = stored]
    BY <1>4, <2>3
  <2>6. QED BY <2>1, <2>2, <2>4, <2>5
<1>8. FormsTyped'
  BY <1>1, <1>4, <1>5, <1>6, <1>7, FormsLeft DEF FormsInv, FormsTyped
<1>9. ListsFollow'
  BY <1>1, <1>4, <1>5, <1>6, <1>7, FormsLeft DEF FormsInv, FormsTyped, ListsFollow
<1>10. PreviewsFollow'
  <2>1. CASE view.panel = "settings"
    BY <1>6, <2>1 DEF FormsInv, PreviewsFollow
  <2>2. CASE view.panel # "settings"
    BY <1>1, <1>2, <1>4, <1>5, <1>6, <2>2, PreviewsLeft
  <2>3. QED BY <2>1, <2>2
<1>11. QED BY <1>8, <1>9, <1>10 DEF FormsInv

LEMMA ListComes ==
  ASSUME FormsInv, Forms!ListAnswered
  PROVE  FormsInv'
<1>1. PICK c : c = Head(calls)
  OBVIOUS
<1>2. PICK d : d = IF c.panel = "settings" THEN view.settings ELSE view.draft
  OBVIOUS
<1>3. /\ FormsViewed /\ calls # <<>> /\ calls' = Tail(calls) /\ c.op = "list" /\ UNCHANGED server
      /\ ~c.mine => view' = view
      /\ c.mine => view' = [view EXCEPT !.rows = server[c.panel], !.isLoading = FALSE, !.draft = d]
  BY <1>1, <1>2, FormsView DEF Forms!ListAnswered, FormsViewed, FormsRecord
<1>4. c \in FormCall /\ (c.mine => c.panel = view.panel) /\ c \notin Previews
  BY <1>1, <1>3, FormsLeft DEF Previews
<1>5. CASE ~c.mine
  <2>1. c \notin Lists
    BY <1>5 DEF Lists
  <2>2. FormsTyped' /\ ListsFollow'
    BY <1>1, <1>3, <1>5, <2>1, FormsLeft DEF FormsInv, FormsTyped, ListsFollow
  <2>3. PreviewsFollow'
    BY <1>1, <1>3, <1>4, <1>5, PreviewsLeft
  <2>4. QED BY <2>2, <2>3 DEF FormsInv
<1>6. CASE c.mine
  <2>1. /\ FormsRecord(view') /\ view'.panel = view.panel /\ view'.rows = server[view.panel]
        /\ ~view'.isLoading /\ view'.editing = view.editing
        /\ view'.draft = d /\ view'.settings = view.settings
        /\ view'.pending = view.pending /\ view'.preview = view.preview
    BY <1>3, <1>4, <1>6 DEF FormsViewed, FormsRecord
  <2>2. /\ view.panel \in Forms!Panels /\ \A p \in Forms!Panels : server[p] \in Sheet(p)
        /\ view.settings = server["settings"]["settings"]
    BY DEF FormsInv, FormsTyped
  <2>3. view.settings \in Held
    BY <2>2, PanelItems DEF Sheet
  <2>4. d \in Held
    BY <1>2, <1>3, <2>3 DEF FormsViewed
  <2>5. /\ calls' \in Seq(FormCall) /\ ~Has(calls', Foreign(view.panel))
        /\ Followed(calls', Strays(view.panel), Lists)
    BY <1>3, FormsLeft
  <2>6. FormsTyped' /\ ListsFollow'
    BY <1>3, <2>1, <2>2, <2>4, <2>5 DEF FormsInv, FormsTyped, ListsFollow
  <2>7. PreviewsFollow'
    <3>1. CASE view.panel = "settings"
      BY <2>1, <3>1 DEF FormsInv, PreviewsFollow
    <3>2. CASE view.panel # "settings"
      BY <1>1, <1>2, <1>3, <1>4, <1>6, <2>1, <3>2, PreviewsLeft
    <3>3. QED BY <3>1, <3>2
  <2>8. QED BY <2>6, <2>7 DEF FormsInv
<1>7. QED BY <1>5, <1>6

LEMMA SheetSet ==
  ASSUME FormsInv, NEW c \in FormCall, c.op = "put",
         server' = [server EXCEPT ![c.panel][c.item] = c.value]
  PROVE  /\ server' = [p \in Forms!Panels |-> server'[p]]
         /\ \A p \in Forms!Panels : server'[p] \in Sheet(p)
         /\ \A p \in Forms!Panels : p # c.panel => server'[p] = server[p]
<1>1. /\ server = [p \in Forms!Panels |-> server[p]] /\ \A p \in Forms!Panels : server[p] \in Sheet(p)
  BY DEF FormsInv, FormsTyped
<1>2. c.panel \in Forms!Panels /\ c.item \in Forms!ItemsOf(c.panel) /\ c.value \in Held
  BY DEF FormCall
<1>3. PICK stored : stored = [server[c.panel] EXCEPT ![c.item] = c.value]
  OBVIOUS
<1>4. stored \in Sheet(c.panel)
  BY <1>1, <1>2, <1>3 DEF Sheet
<1>5. server' = [server EXCEPT ![c.panel] = stored]
  BY <1>3
<1>6. QED BY <1>1, <1>2, <1>4, <1>5

LEMMA SaveComes ==
  ASSUME FormsInv, Forms!Saved
  PROVE  FormsInv'
<1>1. PICK c : c = Head(calls)
  OBVIOUS
<1>2. PICK rest : rest = Tail(calls)
  OBVIOUS
<1>3. PICK new : new = [Forms!List(c.panel) EXCEPT !.mine = c.mine]
  OBVIOUS
<1>4. PICK busy : busy = IF c.panel = "reports" THEN FALSE ELSE view.saving
  OBVIOUS
<1>5. /\ FormsViewed /\ calls # <<>> /\ c.op = "put" /\ c.panel # "settings"
      /\ server' = [server EXCEPT ![c.panel][c.item] = c.value]
      /\ calls' = Append(rest, new)
      /\ ~c.mine => view' = view
      /\ c.mine => view' = [view EXCEPT !.editing = None, !.pending = FALSE, !.saving = busy,
                                        !.isLoading = c.panel # "templates"]
  BY <1>1, <1>2, <1>3, <1>4, FormsView DEF Forms!Saved, Forms!Stores, FormsViewed, FormsRecord
<1>6. /\ calls \in Seq(FormCall) /\ view.panel \in Forms!Panels
      /\ view.settings = server["settings"]["settings"]
  BY DEF FormsInv, FormsTyped
<1>7. /\ c \in FormCall /\ (c.mine => c.panel = view.panel)
      /\ c \notin Lists /\ c \notin Previews
  BY <1>1, <1>2, <1>5, FormsLeft DEF Lists, Previews
<1>8. /\ new \in FormCall /\ (new \in Lists <=> c.mine) /\ new \notin Previews
      /\ new \notin Strays(view.panel) /\ new \notin Foreign(view.panel) /\ new \notin Works
  <2>1. c.panel \in Forms!Panels /\ c.mine \in BOOLEAN
    BY <1>7 DEF FormCall
  <2>2. None \in Anything /\ None \in Held
    BY NoneGiven
  <2>3. new = [op |-> "list", panel |-> c.panel, item |-> None, value |-> None, mine |-> c.mine]
    <3>1. Forms!List(c.panel)
            = [op |-> "list", panel |-> c.panel, item |-> None, value |-> None, mine |-> TRUE]
      BY DEF Forms!List
    <3>2. QED BY <1>3, <3>1
  <2>4. new \in FormCall
    BY <2>1, <2>2, <2>3 DEF FormCall
  <2>5. QED BY <1>7, <2>3, <2>4 DEF Lists, Previews, Strays, Foreign, Works
<1>9. /\ rest \in Seq(FormCall) /\ calls' \in Seq(FormCall)
      /\ Has(calls', Lists) <=> Has(rest, Lists) \/ c.mine
      /\ ~Has(calls', Foreign(view.panel))
      /\ ~Has(calls, Works) => ~Has(calls', Works)
      /\ Followed(calls', Strays(view.panel), Lists)
  <2>1. /\ rest \in Seq(FormCall) /\ ~Has(rest, Foreign(view.panel))
        /\ ~Has(calls, Works) => ~Has(rest, Works)
        /\ Followed(rest, Strays(view.panel), Lists)
    BY <1>2, <1>5, FormsLeft
  <2>2. QED BY <1>5, <1>8, <2>1, HasAppended, FollowedAppended
<1>10. /\ server' = [p \in Forms!Panels |-> server'[p]]
       /\ \A p \in Forms!Panels : server'[p] \in Sheet(p)
       /\ \A p \in Forms!Panels : p # c.panel => server'[p] = server[p]
  BY <1>5, <1>7, SheetSet
<1>11. view.settings = server'["settings"]["settings"]
  BY <1>5, <1>6, <1>10, PanelItems
<1>12. CASE ~c.mine
  <2>1. FormsTyped'
    BY <1>5, <1>9, <1>10, <1>11, <1>12 DEF FormsInv, FormsTyped
  <2>2. Has(calls, Lists) \/ c.panel = view.panel => Has(calls', Lists)
    BY <1>1, <1>2, <1>5, <1>7, <1>9, <1>12, FormsLeft DEF Strays
  <2>3. ListsFollow'
    BY <1>5, <1>6, <1>9, <1>10, <1>12, <2>2 DEF FormsInv, ListsFollow
  <2>4. PreviewsFollow'
    <3> DEFINE B == Current(view.editing, view.draft)
    <3>1. /\ Followed(calls, Previews, B) => Followed(rest, Previews, B)
          /\ Has(calls, B) <=> c \in B \/ Has(rest, B)
      BY <1>1, <1>2, <1>5, <1>6, Shortened
    <3>2. c \notin B /\ new \notin B
      BY <1>7, <1>8 DEF Current, Previews
    <3>3. /\ Followed(rest, Previews, B) => Followed(calls', Previews, B)
          /\ Has(calls', B) <=> Has(rest, B) \/ new \in B
      BY <1>5, <1>8, <1>9, HasAppended, FollowedAppended
    <3> HIDE DEF B
    <3>4. QED BY <1>5, <1>12, <3>1, <3>2, <3>3 DEF FormsInv, PreviewsFollow, B
  <2>5. QED BY <2>1, <2>3, <2>4 DEF FormsInv
<1>13. CASE c.mine
  <2>1. /\ FormsRecord(view') /\ view'.panel = view.panel /\ view'.rows = view.rows
        /\ view'.isLoading = (c.panel # "templates") /\ view'.editing = None
        /\ view'.draft = view.draft /\ view'.settings = view.settings
        /\ ~view'.pending
    BY <1>5, <1>13 DEF FormsViewed, FormsRecord
  <2>2. Has(calls, Works)
    <3>1. c \in Works
      BY <1>5, <1>7, <1>13 DEF Works
    <3>2. QED BY <1>1, <1>5, <1>6, <3>1, Shortened
  <2>3. view'.isLoading \/ view.rows \in Sheet(view.panel)
    BY <1>5, <1>7, <1>13, <2>1, <2>2 DEF FormsInv, ListsFollow, FormsViewed
  <2>4. FormsTyped'
    BY <1>5, <1>6, <1>9, <1>10, <1>11, <2>1, <2>3 DEF FormsViewed, FormsTyped
  <2>5. ListsFollow'
    BY <1>7, <1>9, <1>13, <2>1 DEF ListsFollow
  <2>6. PreviewsFollow'
    BY <2>1 DEF PreviewsFollow
  <2>7. QED BY <2>4, <2>5, <2>6 DEF FormsInv
<1>14. QED BY <1>12, <1>13

LEMMA PanelOpens ==
  ASSUME FormsInv, NEW p \in Forms!Panels, Forms!OpenPanel(p)
  PROVE  FormsInv'
<1> DEFINE left == [k \in DOMAIN calls |-> [calls[k] EXCEPT !.mine = FALSE]]
<1>1. PICK c : c = Forms!List(p)
  OBVIOUS
<1>2. /\ view' = Forms!Panel(p, view.settings) /\ calls' = Append(left, c) /\ UNCHANGED server
  BY <1>1 DEF Forms!OpenPanel
<1>3. c \in FormCall /\ c \in Lists /\ c.mine /\ c.op = "list" /\ c.panel = p
  BY <1>1, ListIsCall DEF Forms!List
<1>4. /\ FormsRecord(view') /\ view'.panel = p /\ view'.isLoading /\ view'.editing = None
      /\ view'.draft = None /\ ~view'.pending /\ view'.settings = view.settings
  BY <1>2 DEF Forms!Panel, FormsRecord
<1>5. left \in Seq(FormCall) /\ \A i \in DOMAIN left : ~left[i].mine
  <2>1. calls \in Seq(FormCall)
    BY DEF FormsInv, FormsTyped
  <2>2. \A k \in DOMAIN calls : left[k] \in FormCall /\ ~left[k].mine
    <3>1. ASSUME NEW call \in FormCall
          PROVE  [call EXCEPT !.mine = FALSE] \in FormCall /\ ~[call EXCEPT !.mine = FALSE].mine
      BY DEF FormCall
    <3>2. \A k \in DOMAIN calls : calls[k] \in FormCall
      BY <2>1
    <3>3. QED BY <3>1, <3>2
  <2>3. Len(calls) \in Nat /\ DOMAIN calls = 1 .. Len(calls) /\ left \in [1 .. Len(calls) -> FormCall]
    BY <2>1, <2>2
  <2>4. left \in Seq(FormCall)
    BY <2>3
  <2>5. QED BY <2>2, <2>4
<1> HIDE DEF left
<1>6. ~Has(left, Foreign(p)) /\ ~Has(left, Works)
  BY <1>5 DEF Has, Foreign, Works
<1>7. c \notin Foreign(p) /\ c \notin Works
  BY <1>3 DEF Foreign, Works
<1>8. /\ calls' \in Seq(FormCall) /\ Has(calls', Lists) /\ ~Has(calls', Foreign(p)) /\ ~Has(calls', Works)
      /\ Followed(calls', Strays(p), Lists)
  BY <1>2, <1>3, <1>5, <1>6, <1>7, HasAppended, FollowedAppended
<1>9. FormsTyped' /\ ListsFollow'
  BY <1>2, <1>4, <1>8 DEF FormsInv, FormsTyped, ListsFollow, Held
<1>10. PreviewsFollow'
  BY <1>4 DEF PreviewsFollow
<1>11. QED BY <1>9, <1>10 DEF FormsInv

LEMMA FormsKeep ==
  ASSUME FormsAllowed, FormsInv, [Forms!Next]_<<view, calls, server>>
  PROVE  FormsInv'
<1>1. CASE UNCHANGED <<view, calls, server>>
  BY <1>1 DEF FormsInv, FormsTyped, FormsRecord, ListsFollow, PreviewsFollow
<1>2. CASE Forms!Next
  BY <1>2, PanelOpens, TemplateOpens, ReportOpens, RuleOpens, RuleStarts, FormsTypes, FormsCloses,
     PreviewAsked, FormsSaves, PreviewComes, TestComes, SettingsCome, ListComes, SaveComes
     DEF Forms!Next
<1>3. QED BY <1>1, <1>2

-----------------------------------------------------------------------------
\* Once every call is answered, the preview is of the template and the text in the editor and the
\* suggestions of the canvas are of the query in its box: the answers of older questions, however
\* many are under way, are dropped.
THEOREM AskedForIsShown == Spec => []ShownIsAskedFor
<1> DEFINE Inv == /\ route = "admin-forms" => FormsInv
                  /\ route = "knowledge-graph" => SearchInv
<1>1. FormsAllowed
  BY ConsoleAssumption DEF FormsAllowed
<1>2. Init => Inv
  BY <1>1, FormsMounted, FormsInit, GraphMounted, SearchInit
<1>3. Inv /\ [Next]_vars => Inv'
  BY <1>1, RouteStays, FormsStep, FormsKeep, GraphStep, SearchKeeps
<1>4. Inv => ShownIsAskedFor
  <2>1. FormsInv => Forms!PreviewSettles
    BY DEF FormsInv, PreviewsFollow, Has, Forms!PreviewSettles
  <2>2. SearchInv => Graph!SuggestionsAreOfTheQuery
    BY DEF SearchInv, NoSearch, Graph!SuggestionsAreOfTheQuery
  <2>3. QED BY <2>1, <2>2 DEF ShownIsAskedFor
<1>5. QED BY <1>2, <1>3, <1>4, PTL DEF Spec
=============================================================================
