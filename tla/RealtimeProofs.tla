--------------------------- MODULE RealtimeProofs ---------------------------
(***************************************************************************)
(* Theorems about Realtime, for any number of sockets, notifications and   *)
(* visits: the inbox never lists a notification twice, and the client that *)
(* has logged out stays quiet.                                             *)
(***************************************************************************)
EXTENDS Realtime, WellFoundedInduction, TLAPS

Once(list) == \A i, j \in DOMAIN list : list[i].id = list[j].id => i = j

Answers == [at : {"sent", "served", "done"}, list : Seq(Row)]

ClientOK ==
  /\ ready \in [Sockets -> {"none", "connecting", "open", "closing"}]
  /\ socket \in Sockets \cup {NoSocket}
  /\ socket # NoSocket => socket \in Live
  /\ reconnectTimer \in BOOLEAN /\ closedByUser \in BOOLEAN
  /\ LoggedOutStaysQuiet
SessionOK == token \in {"none", "fresh", "stale"} /\ shell \in BOOLEAN
\* The answers under way list nothing twice either: one of them is the next inbox.
AskedOK == asked \in Seq(Answers) /\ \A k \in DOMAIN asked : Once(asked[k].list)
InboxOK ==
  /\ notifications \in Seq(Row) /\ Once(notifications)
  /\ activeToast \in Ids \cup {NoId} /\ inAppToast \in BOOLEAN
ServerOK ==
  /\ rows \in [Ids -> Committed \cup {"none", "open", "gone"}]
  /\ frames \subseteq Sockets \X Ids /\ marks \subseteq Ids \cup {AllRead}

IInv == ClientOK /\ SessionOK /\ AskedOK /\ InboxOK /\ ServerOK

LEMMA InvImpliesTyped == IInv => TypeOK /\ LoggedOutStaysQuiet /\ NoDuplicateRows
  BY DEF IInv, ClientOK, SessionOK, AskedOK, InboxOK, ServerOK, TypeOK, Answers,
         NoDuplicateRows, IsInjective, Once

-----------------------------------------------------------------------------
(* Lists *)

\* A set of naturals with zero and the successor of each of its elements is all of them.
LEMMA Induct ==
  ASSUME NEW S, 0 \in S, \A n \in Nat : n \in S => n + 1 \in S
  PROVE  Nat \subseteq S
<1> SUFFICES ASSUME NEW k \in Nat \ S PROVE FALSE
  OBVIOUS
<1>1. PICK m \in Nat \ S : \A y \in Nat \ S : ~ (<<y, m>> \in OpToRel(<, Nat))
  <2>1. Nat \ S \in SUBSET Nat /\ Nat \ S # {}
    OBVIOUS
  <2>2. QED BY <2>1, NatLessThanWellFounded, WFMin
<1>2. \A y \in Nat \ S : ~(y < m)
  BY <1>1 DEF OpToRel
<1>3. m - 1 \in S /\ m - 1 \in Nat
  BY <1>2
<1>4. (m - 1) + 1 = m /\ (m - 1) + 1 \in S
  BY <1>3
<1>5. QED BY <1>4

\* A function on an initial segment of the positive numbers is a sequence.
LEMMA FcnIsSeq ==
  ASSUME NEW S, NEW n \in Nat, NEW f \in [1 .. n -> S]
  PROVE  f \in Seq(S) /\ Len(f) = n
  OBVIOUS

\* What is left of a list after a row has been looked at.
After(prev, row, which) == IF row.id \in which THEN prev ELSE Append(prev, row)

IsKept(kept, list, which) ==
  kept = [n \in 0 .. Len(list) |->
           IF n = 0 THEN <<>>
           ELSE IF list[n].id \in which THEN kept[n - 1] ELSE Append(kept[n - 1], list[n])]

\* Without is defined for every list.
LEMMA KeptExists ==
  ASSUME NEW list \in Seq(Row), NEW which
  PROVE  \E kept : IsKept(kept, list, which) /\ Without(list, which) = kept[Len(list)]
<1> DEFINE To(n) == {g \in [0 .. n -> Seq(Row)] :
                       g[0] = <<>> /\ \A m \in 1 .. n : g[m] = After(g[m - 1], list[m], which)}
           S == {n \in Nat : n <= Len(list) => To(n) # {}}
<1>1. 0 \in S
  <2>1. [m \in 0 .. 0 |-> <<>>] \in To(0)
    OBVIOUS
  <2>2. QED BY <2>1
<1>2. ASSUME NEW n \in Nat, n \in S PROVE n + 1 \in S
  <2> SUFFICES ASSUME n + 1 <= Len(list) PROVE To(n + 1) # {}
    <3> HIDE DEF To
    <3>1. QED OBVIOUS
  <2>1. PICK g \in To(n) : TRUE
    <3> HIDE DEF To
    <3>1. n <= Len(list)
      OBVIOUS
    <3>2. QED BY <1>2, <3>1
  <2>2. g \in [0 .. n -> Seq(Row)] /\ g[0] = <<>>
        /\ \A m \in 1 .. n : g[m] = After(g[m - 1], list[m], which)
    BY <2>1
  <2> DEFINE h == [m \in 0 .. n + 1 |-> IF m <= n THEN g[m] ELSE After(g[n], list[n + 1], which)]
  <2>3. list[n + 1] \in Row /\ g[n] \in Seq(Row)
    BY <2>2
  <2>4. After(g[n], list[n + 1], which) \in Seq(Row)
    BY <2>3 DEF After
  <2>5. h \in [0 .. n + 1 -> Seq(Row)]
    BY <2>2, <2>4
  <2>6. h[0] = <<>>
    BY <2>2
  <2>7. ASSUME NEW m \in 1 .. n + 1 PROVE h[m] = After(h[m - 1], list[m], which)
    <3>1. m - 1 \in 0 .. n /\ h[m - 1] = g[m - 1]
      OBVIOUS
    <3>2. CASE m <= n
      BY <2>2, <3>1, <3>2
    <3>3. CASE m = n + 1
      BY <3>1, <3>3
    <3>4. QED BY <3>2, <3>3
  <2>8. h \in To(n + 1)
    <3> HIDE DEF h
    <3>1. QED BY <2>5, <2>6, <2>7
  <2>9. QED BY <2>8
<1>3. Len(list) \in S
  <2> HIDE DEF S
  <2>1. QED BY <1>1, <1>2, Induct
<1>4. PICK g \in To(Len(list)) : TRUE
  BY <1>3
<1>5. /\ g \in [0 .. Len(list) -> Seq(Row)] /\ g[0] = <<>>
      /\ \A m \in 1 .. Len(list) : g[m] = After(g[m - 1], list[m], which)
  BY <1>4
<1>6. IsKept(g, list, which)
  <2> DEFINE r == [n \in 0 .. Len(list) |->
                    IF n = 0 THEN <<>>
                    ELSE IF list[n].id \in which THEN g[n - 1] ELSE Append(g[n - 1], list[n])]
  <2>1. \A n \in 0 .. Len(list) : n = 0 \/ n \in 1 .. Len(list)
    OBVIOUS
  <2>2. \A n \in 0 .. Len(list) : g[n] = r[n]
    BY <1>5, <2>1 DEF After
  <2>3. g = r
    BY <1>5, <2>2
  <2>4. QED BY <2>3 DEF IsKept
<1> DEFINE c == CHOOSE kept : kept = [n \in 0 .. Len(list) |->
                  IF n = 0 THEN <<>>
                  ELSE IF list[n].id \in which THEN kept[n - 1] ELSE Append(kept[n - 1], list[n])]
<1>7. IsKept(c, list, which)
  BY <1>6 DEF IsKept
<1>8. Without(list, which) = c[Len(list)]
  BY DEF Without
<1>9. QED BY <1>7, <1>8

\* Taking rows out of a list without duplicates leaves a list without duplicates.
LEMMA WithoutKeeps ==
  ASSUME NEW list \in Seq(Row), Once(list), NEW which
  PROVE  Without(list, which) \in Seq(Row) /\ Once(Without(list, which))
<1>1. PICK kept : IsKept(kept, list, which) /\ Without(list, which) = kept[Len(list)]
  BY KeptExists
<1> DEFINE From(n) == \A k \in DOMAIN kept[n] : \E i \in 1 .. n : kept[n][k] = list[i]
           S == {n \in Nat : n <= Len(list) => kept[n] \in Seq(Row) /\ Once(kept[n]) /\ From(n)}
<1>2. 0 \in S
  <2>1. kept[0] = <<>>
    BY <1>1 DEF IsKept
  <2>2. kept[0] \in Seq(Row) /\ DOMAIN kept[0] = {}
    BY <2>1
  <2> HIDE DEF IsKept
  <2>3. Once(kept[0]) /\ From(0)
    BY <2>2 DEF Once
  <2>4. QED BY <2>2, <2>3
<1>3. ASSUME NEW n \in Nat, n \in S PROVE n + 1 \in S
  <2> SUFFICES ASSUME n + 1 <= Len(list)
               PROVE  kept[n + 1] \in Seq(Row) /\ Once(kept[n + 1]) /\ From(n + 1)
    OBVIOUS
  <2> DEFINE row == list[n + 1]
             p == kept[n]
  <2>1. kept[n + 1] = IF row.id \in which THEN p ELSE Append(p, row)
    <3>1. n + 1 \in 0 .. Len(list) /\ n + 1 # 0 /\ (n + 1) - 1 = n
      OBVIOUS
    <3>2. QED BY <1>1, <3>1 DEF IsKept
  <2>2. p \in Seq(Row) /\ Once(p) /\ From(n) /\ row \in Row
    BY <1>3
  <2>3. CASE row.id \in which
    <3>1. kept[n + 1] = p
      BY <2>1, <2>3
    <3>2. From(n + 1)
      BY <2>2, <3>1
    <3>3. QED BY <2>2, <3>1, <3>2
  <2>4. CASE row.id \notin which
    <3>1. kept[n + 1] = Append(p, row)
      BY <2>1, <2>4
    <3>2. \A k \in DOMAIN p : p[k].id # row.id
      <4> SUFFICES ASSUME NEW k \in DOMAIN p, p[k].id = row.id PROVE FALSE
        OBVIOUS
      <4>1. PICK i \in 1 .. n : p[k] = list[i]
        BY <2>2
      <4>2. i \in DOMAIN list /\ n + 1 \in DOMAIN list /\ i # n + 1
        OBVIOUS
      <4>3. QED BY <4>1, <4>2 DEF Once
    <3> DEFINE q == Append(p, row)
    <3>3. /\ DOMAIN p = 1 .. Len(p) /\ DOMAIN q = 1 .. Len(p) + 1 /\ Len(p) \in Nat
          /\ \A k \in 1 .. Len(p) : q[k] = p[k]
          /\ q[Len(p) + 1] = row /\ q \in Seq(Row)
      BY <2>2
    <3> HIDE DEF q, p, row
    <3>4. Once(q)
      BY <2>2, <3>2, <3>3 DEF Once
    <3>5. \A k \in DOMAIN q : \E i \in 1 .. n + 1 : q[k] = list[i]
      BY <2>2, <3>3 DEF p, row
    <3>6. QED BY <3>1, <3>3, <3>4, <3>5 DEF q
  <2>5. QED BY <2>3, <2>4
<1>4. Len(list) \in S
  <2> HIDE DEF S
  <2>1. QED BY <1>2, <1>3, Induct
<1>5. QED BY <1>1, <1>4

\* The server lists every notification of the user once.
LEMMA ListedOnce == Listed \in Seq(Row) /\ Once(Listed)
<1>1. LastId \in Nat /\ \A i \in 1 .. LastId : LastId + 1 - i \in 1 .. LastId
  BY BoundAssumption
<1>2. Newest \in [1 .. LastId -> Row]
  BY <1>1 DEF Newest, Row, Ids
<1>3. Newest \in Seq(Row) /\ DOMAIN Newest = 1 .. LastId
  BY <1>1, <1>2, FcnIsSeq
<1>4. \A i \in 1 .. LastId : Newest[i].id = LastId + 1 - i
  BY DEF Newest
<1>5. Once(Newest)
  BY <1>1, <1>3, <1>4 DEF Once
<1> DEFINE hidden == {id \in Ids : rows[id] \notin Committed}
<1>6. Listed = Without(Newest, hidden)
  BY DEF Listed
<1> HIDE DEF hidden
<1>7. QED BY <1>3, <1>5, <1>6, WithoutKeeps

\* A row put before the others is listed once if it was not there.
LEMMA ShowOnce ==
  ASSUME NEW list \in Seq(Row), Once(list), NEW row \in Row,
         \A i \in DOMAIN list : list[i].id # row.id
  PROVE  <<row>> \o list \in Seq(Row) /\ Once(<<row>> \o list)
<1> DEFINE q == <<row>> \o list
<1>1. /\ q \in Seq(Row) /\ Len(q) = Len(list) + 1 /\ Len(list) \in Nat
      /\ DOMAIN q = 1 .. Len(list) + 1 /\ DOMAIN list = 1 .. Len(list)
      /\ q[1] = row /\ \A i \in 2 .. Len(list) + 1 : q[i] = list[i - 1]
  OBVIOUS
<1> HIDE DEF q
<1>2. ASSUME NEW i \in DOMAIN q, NEW j \in DOMAIN q, q[i].id = q[j].id PROVE i = j
  <2>1. CASE i = 1 /\ j # 1
    <3>1. j - 1 \in DOMAIN list /\ q[j] = list[j - 1]
      BY <1>1, <2>1
    <3>2. QED BY <1>1, <1>2, <2>1, <3>1
  <2>2. CASE i # 1 /\ j = 1
    <3>1. i - 1 \in DOMAIN list /\ q[i] = list[i - 1]
      BY <1>1, <2>2
    <3>2. QED BY <1>1, <1>2, <2>2, <3>1
  <2>3. CASE i # 1 /\ j # 1
    <3>1. i - 1 \in DOMAIN list /\ q[i] = list[i - 1] /\ j - 1 \in DOMAIN list /\ q[j] = list[j - 1]
      BY <1>1, <2>3
    <3>2. i - 1 = j - 1
      BY <1>2, <3>1 DEF Once
    <3>3. QED BY <1>1, <3>2
  <2>4. QED BY <2>1, <2>2, <2>3
<1>3. QED BY <1>1, <1>2 DEF Once, q

-----------------------------------------------------------------------------
(* Every step keeps the invariant *)

LEMMA ConnectKeeps ==
  ASSUME ClientOK, NEW tok, Connect(tok), reconnectTimer' \in BOOLEAN, reconnectTimer' => reconnectTimer
  PROVE  ClientOK'
<1>1. CASE tok = "none" \/ socket \in Live
  BY <1>1 DEF ClientOK, Connect, LoggedOutStaysQuiet, Live
<1>2. CASE ~(tok = "none" \/ socket \in Live)
  BY <1>2, SocketAssumption DEF ClientOK, Connect, LoggedOutStaysQuiet, Live
<1>3. QED BY <1>1, <1>2

LEMMA ForgetKeeps ==
  ASSUME IInv, NEW s \in Sockets, Forget(s)
  PROVE  IInv'
<1>1. ClientOK'
  BY DEF IInv, ClientOK, Forget, LoggedOutStaysQuiet
<1>2. ServerOK'
  BY DEF IInv, ServerOK, Forget
<1>3. SessionOK' /\ AskedOK' /\ InboxOK'
  BY DEF IInv, SessionOK, AskedOK, InboxOK, Forget, inbox, Once
<1>4. QED BY <1>1, <1>2, <1>3 DEF IInv

LEMMA NetworkKeeps ==
  ASSUME IInv, NEW s \in Sockets, Network(s) \/ Dropped(s)
  PROVE  IInv'
<1>1. CASE Rejected(s) \/ Closed(s) \/ Dropped(s)
  BY <1>1, ForgetKeeps DEF Rejected, Closed, Dropped
<1>2. CASE Opened(s)
  <2>1. ClientOK'
    BY <1>2, SocketAssumption DEF IInv, ClientOK, Opened, LoggedOutStaysQuiet, Live
  <2>2. SessionOK' /\ AskedOK' /\ InboxOK' /\ ServerOK'
    BY <1>2 DEF IInv, SessionOK, AskedOK, InboxOK, ServerOK, Opened, inbox, server, Once
  <2>3. QED BY <2>1, <2>2 DEF IInv
<1>3. QED BY <1>1, <1>2 DEF Network

\* An answer asked for, served or dealt with.
LEMMA AskedStep ==
  ASSUME AskedOK, NEW k \in DOMAIN asked, NEW a \in Answers, Once(a.list),
         asked' = [asked EXCEPT ![k] = a]
  PROVE  AskedOK'
<1>1. asked' \in Seq(Answers) /\ DOMAIN asked' = DOMAIN asked
  BY DEF AskedOK
<1>2. \A i \in DOMAIN asked : asked'[i] = IF i = k THEN a ELSE asked[i]
  OBVIOUS
<1>3. \A i \in DOMAIN asked' : Once(asked'[i].list)
  BY <1>1, <1>2 DEF AskedOK
<1>4. QED BY <1>1, <1>3 DEF AskedOK, Once

LEMMA SessionKeeps ==
  ASSUME IInv, Login \/ Remount \/ Logout \/ Expelled \/ Expire \/ Refresh
  PROVE  IInv'
<1>1. InboxOK' /\ ServerOK'
  BY DEF IInv, InboxOK, ServerOK, Once, inbox, server, Login, Remount, Logout, Expelled, Expire, Refresh
<1>2. CASE Login \/ Remount
  <2> DEFINE a == [at |-> "sent", list |-> <<>>]
  <2>1. asked' = Append(asked, a) /\ shell' = TRUE /\ UNCHANGED reconnectTimer
    BY <1>2 DEF Login, Remount, InitLive
  <2>2. a \in Answers /\ Once(a.list)
    BY DEF Answers, Once
  <2>3. asked \in Seq(Answers)
    BY DEF IInv, AskedOK
  <2> HIDE DEF a
  <2>4. /\ asked' \in Seq(Answers) /\ Len(asked) \in Nat
        /\ DOMAIN asked' = 1 .. Len(asked) + 1 /\ DOMAIN asked = 1 .. Len(asked)
        /\ asked'[Len(asked) + 1] = a /\ \A k \in 1 .. Len(asked) : asked'[k] = asked[k]
    BY <2>1, <2>2, <2>3
  <2>5. \A k \in DOMAIN asked' : Once(asked'[k].list)
    BY <2>2, <2>4 DEF IInv, AskedOK
  <2>6. AskedOK'
    BY <2>4, <2>5 DEF AskedOK, Once
  <2>7. \E tok : Connect(tok)
    BY <1>2 DEF Login, Remount, InitLive
  <2>8. ClientOK'
    <3>1. reconnectTimer' \in BOOLEAN /\ (reconnectTimer' => reconnectTimer)
      BY <2>1 DEF IInv, ClientOK
    <3>2. QED BY <2>7, <3>1, ConnectKeeps DEF IInv
  <2>9. SessionOK'
    BY <1>2, <2>1 DEF IInv, SessionOK, Login, Remount
  <2>10. QED BY <1>1, <2>6, <2>8, <2>9 DEF IInv
<1>3. CASE Logout \/ Expelled \/ Expire \/ Refresh
  <2>1. AskedOK'
    BY <1>3 DEF IInv, AskedOK, Once, Logout, Expelled, Expire, Refresh
  <2>2. SessionOK'
    BY <1>3 DEF IInv, SessionOK, Logout, Expelled, Expire, Refresh
  <2>3. ClientOK'
    <3>1. CASE Logout
      BY <3>1 DEF IInv, ClientOK, Logout, Disconnect, LoggedOutStaysQuiet
    <3>2. CASE Expelled \/ Expire \/ Refresh
      BY <3>2 DEF IInv, ClientOK, Expelled, Expire, Refresh, LoggedOutStaysQuiet, client, Live
    <3>3. QED BY <1>3, <3>1, <3>2
  <2>4. QED BY <1>1, <2>1, <2>2, <2>3 DEF IInv
<1>4. QED BY <1>2, <1>3

\* A step that only the list or the toast of the inbox is changed by.
LEMMA OnlyInbox ==
  ASSUME IInv, InboxOK', UNCHANGED <<client, token, shell, asked, server>>
  PROVE  IInv'
<1>1. ClientOK'
  BY DEF IInv, ClientOK, client, Live, LoggedOutStaysQuiet
<1>2. SessionOK' /\ AskedOK' /\ ServerOK'
  BY DEF IInv, SessionOK, AskedOK, ServerOK, server, Once
<1>3. QED BY <1>1, <1>2 DEF IInv

\* A step of the server, which the console has not heard of yet.
LEMMA OnlyServer ==
  ASSUME IInv, ServerOK', UNCHANGED <<client, token, shell, asked, inbox>>
  PROVE  IInv'
<1>1. ClientOK'
  BY DEF IInv, ClientOK, client, Live, LoggedOutStaysQuiet
<1>2. SessionOK' /\ AskedOK' /\ InboxOK'
  BY DEF IInv, SessionOK, AskedOK, InboxOK, inbox, Once
<1>3. QED BY <1>1, <1>2 DEF IInv

LEMMA ServerKeeps ==
  ASSUME IInv,
         \/ \E id \in Ids : Create(id) \/ Commit(id)
         \/ \E m \in Ids \cup {AllRead} : ServeMark(m) \/ MarkLost(m)
  PROVE  IInv'
<1>1. ServerOK
  BY DEF IInv
<1>2. ASSUME NEW id \in Ids, Create(id) PROVE IInv'
  <2>1. rows' \in [Ids -> Committed \cup {"none", "open", "gone"}]
    BY <1>1, <1>2 DEF ServerOK, Create
  <2>2. frames' \subseteq Sockets \X Ids
    BY <1>1, <1>2 DEF ServerOK, Create
  <2>3. ServerOK'
    BY <1>1, <1>2, <2>1, <2>2 DEF ServerOK, Create
  <2>4. QED BY <1>2, <2>3, OnlyServer DEF Create
<1>3. ASSUME NEW id \in Ids, Commit(id) PROVE IInv'
  <2>1. ServerOK'
    BY <1>1, <1>3 DEF ServerOK, Commit, Committed
  <2>2. QED BY <1>3, <2>1, OnlyServer DEF Commit
<1>4. ASSUME NEW m \in Ids \cup {AllRead}, ServeMark(m) PROVE IInv'
  <2>1. rows' \in [Ids -> Committed \cup {"none", "open", "gone"}]
    BY <1>1, <1>4 DEF ServerOK, ServeMark, Committed
  <2>2. ServerOK'
    BY <1>1, <1>4, <2>1 DEF ServerOK, ServeMark
  <2>3. QED BY <1>4, <2>2, OnlyServer DEF ServeMark
<1>5. ASSUME NEW m \in Ids \cup {AllRead}, MarkLost(m) PROVE IInv'
  <2>1. ServerOK'
    BY <1>1, <1>5 DEF ServerOK, MarkLost
  <2>2. QED BY <1>5, <2>1, OnlyServer DEF MarkLost
<1>6. QED BY <1>2, <1>3, <1>4, <1>5

LEMMA ReceiveKeeps ==
  ASSUME IInv, NEW s \in Sockets, NEW id \in Ids, Receive(s, id)
  PROVE  IInv'
<1>1. ServerOK'
  BY DEF IInv, ServerOK, Receive
<1>2. ClientOK' /\ SessionOK' /\ AskedOK'
  <2>1. ClientOK'
    BY DEF IInv, ClientOK, client, Live, LoggedOutStaysQuiet, Receive
  <2>2. SessionOK' /\ AskedOK'
    BY DEF IInv, SessionOK, AskedOK, Once, Receive
  <2>3. QED BY <2>1, <2>2
<1>3. InboxOK'
  <2>1. CASE id \in Shown \/ ready[s] # "open"
    BY <2>1 DEF IInv, InboxOK, Once, Receive
  <2>2. CASE ~(id \in Shown \/ ready[s] # "open")
    <3> DEFINE row == [id |-> id, isRead |-> FALSE]
    <3>1. Show(id) /\ UNCHANGED inAppToast
      BY <2>2 DEF Receive
    <3>2. row \in Row /\ \A i \in DOMAIN notifications : notifications[i].id # row.id
      BY <2>2 DEF Row, Shown
    <3>3. notifications' = <<row>> \o notifications
      BY <3>1 DEF Show
    <3> HIDE DEF row
    <3>4. notifications' \in Seq(Row) /\ Once(notifications')
      BY <3>2, <3>3, ShowOnce DEF IInv, InboxOK
    <3>5. activeToast' \in Ids \cup {NoId}
      BY <3>1 DEF Show, IInv, InboxOK
    <3>6. QED BY <3>1, <3>4, <3>5 DEF InboxOK, IInv, Once
  <2>3. QED BY <2>1, <2>2
<1>4. QED BY <1>1, <1>2, <1>3 DEF IInv

LEMMA AnswersKeep ==
  ASSUME IInv, NEW k \in DOMAIN asked, ServeInbox(k) \/ Hydrate(k) \/ HydrateFails(k)
  PROVE  IInv'
<1> DEFINE done == [at |-> "done", list |-> <<>>]
           served == [at |-> "served", list |-> Listed]
<1>1. done \in Answers /\ Once(done.list)
  BY DEF Answers, Once
<1>2. served \in Answers /\ Once(served.list)
  BY ListedOnce DEF IInv, Answers
<1>3. asked' = [asked EXCEPT ![k] = done] \/ asked' = [asked EXCEPT ![k] = served]
  BY DEF ServeInbox, Hydrate, HydrateFails
<1>4. AskedOK'
  <2> HIDE DEF done, served
  <2>1. QED BY <1>1, <1>2, <1>3, AskedStep DEF IInv
<1>5. ClientOK' /\ SessionOK' /\ ServerOK'
  <2>1. UNCHANGED <<client, token, shell, server>>
    BY DEF ServeInbox, Hydrate, HydrateFails
  <2>2. ClientOK'
    BY <2>1 DEF IInv, ClientOK, client, Live, LoggedOutStaysQuiet
  <2>3. SessionOK' /\ ServerOK'
    BY <2>1 DEF IInv, SessionOK, ServerOK, server
  <2>4. QED BY <2>2, <2>3
<1>6. InboxOK'
  <2>1. CASE Hydrate(k)
    <3>1. asked[k].list \in Seq(Row) /\ Once(asked[k].list)
      <4>1. asked \in Seq(Answers) /\ Once(asked[k].list)
        BY DEF IInv, AskedOK
      <4>2. asked[k] \in Answers
        BY <4>1
      <4>3. QED BY <4>1, <4>2 DEF Answers
    <3>2. notifications' = asked[k].list /\ UNCHANGED <<activeToast, inAppToast>>
      BY <2>1 DEF Hydrate
    <3>3. QED BY <3>1, <3>2 DEF IInv, InboxOK, Once
  <2>2. CASE ServeInbox(k) \/ HydrateFails(k)
    BY <2>2 DEF ServeInbox, HydrateFails, inbox, IInv, InboxOK, Once
  <2>3. QED BY <2>1, <2>2
<1>7. QED BY <1>4, <1>5, <1>6 DEF IInv

LEMMA MarkReadKeeps ==
  ASSUME IInv, NEW which, NEW mark \in Ids \cup {AllRead}, MarkRead(which, mark)
  PROVE  IInv'
<1> DEFINE n == Len(notifications)
<1>1. /\ notifications \in Seq(Row) /\ Once(notifications) /\ n \in Nat
      /\ DOMAIN notifications = 1 .. n /\ \A i \in 1 .. n : notifications[i] \in Row
  BY DEF IInv, InboxOK
<1>2. notifications' = [i \in 1 .. n |->
        [notifications[i] EXCEPT !.isRead = @ \/ notifications[i].id \in which]]
  BY <1>1 DEF MarkRead
<1>3. \A i \in 1 .. n : notifications'[i] \in Row /\ notifications'[i].id = notifications[i].id
  <2> SUFFICES ASSUME NEW i \in 1 .. n
               PROVE  notifications'[i] \in Row /\ notifications'[i].id = notifications[i].id
    OBVIOUS
  <2> DEFINE row == notifications[i]
             read == row.isRead \/ row.id \in which
  <2>1. row \in Row /\ read \in BOOLEAN
    BY <1>1
  <2>2. notifications'[i] = [row EXCEPT !.isRead = read]
    BY <1>2
  <2> HIDE DEF row, read
  <2>3. notifications'[i] \in Row /\ notifications'[i].id = row.id
    BY <2>1, <2>2 DEF Row
  <2>4. QED BY <2>3 DEF row
<1>4. notifications' \in [1 .. n -> Row]
  BY <1>2, <1>3
<1> HIDE DEF n
<1>5. notifications' \in Seq(Row)
  BY <1>1, <1>4, FcnIsSeq
<1>6. Once(notifications')
  BY <1>1, <1>2, <1>3 DEF Once
<1>7. InboxOK'
  BY <1>5, <1>6 DEF IInv, InboxOK, MarkRead, Once
<1>8. ServerOK'
  BY DEF IInv, ServerOK, MarkRead
<1>9. ClientOK' /\ SessionOK' /\ AskedOK'
  <2>1. ClientOK'
    BY DEF IInv, ClientOK, client, Live, LoggedOutStaysQuiet, MarkRead
  <2>2. SessionOK' /\ AskedOK'
    BY DEF IInv, SessionOK, AskedOK, Once, MarkRead
  <2>3. QED BY <2>1, <2>2
<1>10. QED BY <1>7, <1>8, <1>9 DEF IInv

LEMMA ClearKeeps ==
  ASSUME IInv, NEW which, Clear(which) \/ DismissToast \/ UpdatePreference
  PROVE  IInv'
<1>1. CASE Clear(which)
  <2>1. notifications' \in Seq(Row) /\ Once(notifications')
    BY <1>1, WithoutKeeps DEF IInv, InboxOK, Clear
  <2>2. InboxOK'
    BY <1>1, <2>1 DEF IInv, InboxOK, Clear, Once
  <2>3. QED BY <1>1, <2>2, OnlyInbox DEF Clear
<1>2. CASE DismissToast \/ UpdatePreference
  <2>1. InboxOK'
    BY <1>2 DEF IInv, InboxOK, DismissToast, UpdatePreference, Once
  <2>2. QED BY <1>2, <2>1, OnlyInbox DEF DismissToast, UpdatePreference
<1>3. QED BY <1>1, <1>2

LEMMA InitOK == Init => IInv
<1> SUFFICES ASSUME Init PROVE IInv
  OBVIOUS
<1>1. ClientOK /\ SessionOK
  BY DEF Init, ClientOK, SessionOK, LoggedOutStaysQuiet
<1>2. AskedOK /\ InboxOK
  BY DEF Init, AskedOK, InboxOK, Once
<1>3. ServerOK
  BY BoundAssumption DEF Init, ServerOK
<1>4. QED BY <1>1, <1>2, <1>3 DEF IInv

LEMMA NextKeeps == IInv /\ [Next]_vars => IInv'
<1> SUFFICES ASSUME IInv, [Next]_vars PROVE IInv'
  OBVIOUS
<1>1. ASSUME NEW s \in Sockets, Network(s) \/ Dropped(s) \/ \E id \in Ids : Receive(s, id)
      PROVE  IInv'
  BY <1>1, NetworkKeeps, ReceiveKeeps
<1>2. CASE Reconnect
  <2>1. ClientOK'
    BY <1>2, ConnectKeeps DEF IInv, Reconnect
  <2>2. SessionOK' /\ AskedOK' /\ InboxOK' /\ ServerOK'
    BY <1>2 DEF IInv, SessionOK, AskedOK, InboxOK, ServerOK, Reconnect, inbox, server, Once
  <2>3. QED BY <2>1, <2>2 DEF IInv
<1>3. CASE Login \/ Remount \/ Logout \/ Expelled \/ Expire \/ Refresh
  BY <1>3, SessionKeeps
<1>4. CASE \/ \E id \in Ids : Create(id) \/ Commit(id)
           \/ \E m \in Ids \cup {AllRead} : ServeMark(m) \/ MarkLost(m)
  BY <1>4, ServerKeeps
<1>5. ASSUME NEW k \in DOMAIN asked, ServeInbox(k) \/ Hydrate(k) \/ HydrateFails(k)
      PROVE  IInv'
  BY <1>5, AnswersKeep
<1>6. CASE MarkAllAsRead \/ \E id \in Ids : MarkAsRead(id)
  BY <1>6, MarkReadKeeps DEF MarkAllAsRead, MarkAsRead
<1>7. CASE Clear(Shown) \/ (\E id \in Ids : Clear({id})) \/ DismissToast \/ UpdatePreference
  BY <1>7, ClearKeeps
<1>8. CASE UNCHANGED vars
  <2>1. InboxOK' /\ UNCHANGED <<client, token, shell, asked, server>>
    BY <1>8 DEF vars, inbox, IInv, InboxOK, Once
  <2>2. QED BY <2>1, OnlyInbox
<1>9. QED BY <1>1, <1>2, <1>3, <1>4, <1>5, <1>6, <1>7, <1>8 DEF Next

LEMMA Inductive == Spec => []IInv
  BY InitOK, NextKeeps, PTL DEF Spec

-----------------------------------------------------------------------------
(* Theorems *)

\* Every variable has its type, and the client never remembers a socket that has
\* closed or is closing.
THEOREM Typing == Spec => []TypeOK
  BY Inductive, InvImpliesTyped, PTL

\* A notification is in the inbox once, however many sockets push it, whatever is
\* cleared, and in whichever order pushes and answers arrive.
THEOREM ListedAtMostOnce == Spec => []NoDuplicateRows
  BY Inductive, InvImpliesTyped, PTL

\* Once disconnect() has been called no timer runs, and a socket that closes later
\* starts none, until connect() is called again.
THEOREM QuietAfterLogout == Spec => []LoggedOutStaysQuiet
  BY Inductive, InvImpliesTyped, PTL
=============================================================================
