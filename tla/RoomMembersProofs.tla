-------------------------- MODULE RoomMembersProofs --------------------------
(***************************************************************************)
(* Proofs about RoomMembers, for any number of visits, browsers and        *)
(* cleaners and any capacity.                                              *)
(***************************************************************************)
EXTENDS RoomMembers, FiniteSetTheorems, TLAPS

\* Where a visit's own session is not committed yet, and where its page may
\* have a slot to give back.
Early == {"idle"} \cup JoinPC
Seated == {"joined"} \cup SocketPC \cup LeavePC

\* What token[v] is in each state of visit v.
Tokens == \A v \in Visits :
    /\ v \in sockets => token[v] \in Visits /\ pc[v] \in SocketPC \cup {"failed"}
    /\ pc[v] \in Seated \cup {"lookup", "late", "reuse", "reused", "inserted"} => token[v] \in Visits
    /\ pc[v] \in {"idle", "claim", "claimed"} => token[v] = NoSession
    /\ pc[v] = "inserted" => token[v] = v
    /\ pc[v] \in {"lookup", "late", "reuse", "reused"} => token[v] # v

\* A cookie names a session that has been committed.
Cookies == \A b \in Browsers : cookie[b] \in Visits => pc[cookie[b]] \notin Early

Kinds == \A c \in Cleaners : pc[c] \in CleanerPC

TInv == TypeOK /\ Tokens /\ Cookies /\ Kinds

RoomRow == Row([status : {"ACTIVE", "DELETING", "DELETED"}, count : 0..MaxUsers], Txs)
SessionRow == Row(SessionValue, Txs)
MessageRow == Row(MessageValue, Txs)

-----------------------------------------------------------------------------
(***************************************************************************)
(* The count is within its bounds.                                         *)
(***************************************************************************)
\* A process that moves on stays in a state of its kind, and nobody else moves.
LEMMA GotoTypes ==
    ASSUME TypeOK, Kinds, NEW p \in Txs, NEW l, Goto(p, l),
           p \in Visits => l \in VisitPC, p \in Cleaners => l \in CleanerPC
    PROVE  /\ pc' \in [Txs -> VisitPC \cup CleanerPC]
           /\ pc'[p] = l
           /\ \A q \in Txs : q # p => pc'[q] = pc[q]
           /\ Kinds'
  <1>1. l \in VisitPC \cup CleanerPC
    BY DEF Txs
  <1>2. /\ pc' \in [Txs -> VisitPC \cup CleanerPC]
        /\ pc'[p] = l
        /\ \A q \in Txs : q # p => pc'[q] = pc[q]
    BY <1>1 DEF TypeOK, Goto
  <1> QED
    BY <1>2 DEF Kinds, Txs

\* A transaction that ends leaves well-typed rows.
LEMMA RowsEnd ==
    ASSUME TypeOK, NEW t, CommitAll(t) \/ RollbackAll(t)
    PROVE  /\ room' \in RoomRow
           /\ session' \in [Visits -> SessionRow]
           /\ message' \in [Visits -> MessageRow]
  <1>1. /\ room \in RoomRow
        /\ \A s \in Visits : session[s] \in SessionRow /\ message[s] \in MessageRow
    BY DEF TypeOK, RoomRow, SessionRow, MessageRow
  <1>2. Commit(room, t) \in RoomRow /\ Rollback(room, t) \in RoomRow
    BY <1>1, RowEnds DEF RoomRow
  <1>3. \A s \in Visits : Commit(session[s], t) \in SessionRow /\ Rollback(session[s], t) \in SessionRow
    BY <1>1, RowEnds DEF SessionRow
  <1>4. \A s \in Visits : Commit(message[s], t) \in MessageRow /\ Rollback(message[s], t) \in MessageRow
    BY <1>1, RowEnds DEF MessageRow
  <1> QED
    BY <1>2, <1>3, <1>4 DEF CommitAll, RollbackAll

\* A change of the count within the limits, or of the status, keeps the type of
\* the room's row.
LEMMA RoomWrites ==
    ASSUME TypeOK, NEW t \in Txs
    PROVE  /\ \A n \in 0..MaxUsers : Write(room, t, [room.draft EXCEPT !.count = n]) \in RoomRow
           /\ \A l \in {"DELETING", "DELETED"} :
                 /\ Write(room, t, [room.draft EXCEPT !.status = l]) \in RoomRow
                 /\ Clean([room.draft EXCEPT !.status = l]) \in RoomRow
  BY DEF TypeOK, RoomRow, Row, Write, Clean

\* A write of a session or a message keeps the types of the rows.
LEMMA SessionWrites ==
    ASSUME TypeOK, NEW t \in Txs, NEW s, NEW x \in SessionValue
    PROVE  [session EXCEPT ![s] = Write(@, t, x)] \in [Visits -> SessionRow]
  BY DEF TypeOK, SessionRow, Row, Write

LEMMA MessageWrites ==
    ASSUME TypeOK, NEW t \in Txs, NEW s, NEW x \in MessageValue
    PROVE  [message EXCEPT ![s] = Write(@, t, x)] \in [Visits -> MessageRow]
  BY DEF TypeOK, MessageRow, Row, Write

\* Joins.
LEMMA JoinTypes == ASSUME TInv, NEW v \in Visits, Join(v) PROVE TInv'
  <1> USE DEF TInv
  <1>0. v \in Txs /\ v \notin Cleaners /\ NoSession \notin Visits /\ Browser[v] \in Browsers
    BY MembersAssumption DEF Txs
  <1>1. ASSUME NEW l \in VisitPC, Goto(v, l)
        PROVE  /\ pc' \in [Txs -> VisitPC \cup CleanerPC] /\ pc'[v] = l /\ Kinds'
               /\ \A q \in Txs : q # v => pc'[q] = pc[q]
    BY <1>0, <1>1, GotoTypes
  <1>2. CASE JoinBegin(v)
    <2>1. PICK l \in {"lookup", "late", "claim"} :
             /\ Goto(v, l)
             /\ l # "claim" => cookie[Browser[v]] # NoSession
             /\ l = "claim" => cookie[Browser[v]] = NoSession
      BY <1>2 DEF JoinBegin
    <2>2. /\ pc' \in [Txs -> VisitPC \cup CleanerPC] /\ pc'[v] = l /\ Kinds'
          /\ \A q \in Txs : q # v => pc'[q] = pc[q]
      BY <2>1, <1>1 DEF VisitPC, JoinPC
    <2>3. /\ token' \in [Visits -> Visits \cup {NoSession}] /\ token'[v] = cookie[Browser[v]]
          /\ \A u \in Visits : u # v => token'[u] = token[u]
          /\ cookie[Browser[v]] \in Visits \cup {NoSession}
      BY <1>0, <1>2 DEF JoinBegin, TypeOK
    <2>4. pc[v] = "idle" /\ v \notin sockets /\ cookie[Browser[v]] # v
      BY <1>0, <1>2, <2>3 DEF JoinBegin, Tokens, Cookies, Early
    <2>5. Tokens'
      BY <1>0, <1>2, <2>1, <2>2, <2>3, <2>4 DEF JoinBegin, Tokens, Txs, Seated, SocketPC, LeavePC, Early, JoinPC
    <2>6. Cookies'
      BY <1>0, <1>2, <2>1, <2>2, <2>4 DEF JoinBegin, Cookies, Txs, Early, JoinPC
    <2> QED
      BY <1>2, <2>2, <2>3, <2>5, <2>6 DEF JoinBegin, TypeOK, rows
  <1>3. CASE JoinRefused(v) \/ LookupFinds(v) \/ ReuseFails(v) \/ RoomFull(v)
    <2>1. PICK l \in {"ended", "reuse", "failed"} :
             /\ Goto(v, l)
             /\ l = "reuse" => pc[v] \in {"lookup", "late"}
             /\ pc[v] \in {"idle", "lookup", "late", "claim", "reuse"}
      BY <1>3 DEF JoinRefused, LookupFinds, ReuseFails, RoomFull
    <2>2. /\ pc' \in [Txs -> VisitPC \cup CleanerPC] /\ pc'[v] = l /\ Kinds'
          /\ \A q \in Txs : q # v => pc'[q] = pc[q]
      BY <2>1, <1>1 DEF VisitPC, JoinPC
    <2>3. UNCHANGED <<rows, cookie, token, sockets, todo, listed, page, faults>>
      BY <1>3 DEF JoinRefused, LookupFinds, ReuseFails, RoomFull
    <2>4. Tokens'
      BY <1>0, <2>1, <2>2, <2>3 DEF Tokens, Txs, Seated, SocketPC, LeavePC, Early, JoinPC
    <2>5. Cookies'
      BY <1>0, <2>1, <2>2, <2>3 DEF Cookies, Txs, Early, JoinPC
    <2> QED
      BY <2>2, <2>3, <2>4, <2>5 DEF TypeOK, rows
  <1>4. CASE LookupFindsNone(v)
    <2>1. /\ pc' \in [Txs -> VisitPC \cup CleanerPC] /\ pc'[v] = "claim" /\ Kinds'
          /\ \A q \in Txs : q # v => pc'[q] = pc[q]
      BY <1>1, <1>4 DEF LookupFindsNone, VisitPC, JoinPC
    <2>2. /\ token' \in [Visits -> Visits \cup {NoSession}] /\ token'[v] = NoSession
          /\ \A u \in Visits : u # v => token'[u] = token[u]
      BY <1>4 DEF LookupFindsNone, TypeOK
    <2>3. Tokens'
      BY <1>0, <1>4, <2>1, <2>2 DEF LookupFindsNone, Tokens, Txs, Seated, SocketPC, LeavePC, Early, JoinPC
    <2>4. Cookies'
      BY <1>0, <1>4, <2>1 DEF LookupFindsNone, Cookies, Txs, Early, JoinPC
    <2> QED
      BY <1>4, <2>1, <2>2, <2>3, <2>4 DEF LookupFindsNone, TypeOK, rows
  <1>5. CASE Reuse(v) \/ Claim(v)
    <2>1. PICK l \in {"reused", "claimed"} :
             Goto(v, l) /\ pc[v] = (IF l = "reused" THEN "reuse" ELSE "claim")
      BY <1>5 DEF Reuse, Claim
    <2>2. /\ pc' \in [Txs -> VisitPC \cup CleanerPC] /\ pc'[v] = l /\ Kinds'
          /\ \A q \in Txs : q # v => pc'[q] = pc[q]
      BY <2>1, <1>1 DEF VisitPC, JoinPC
    <2>3. UNCHANGED <<message, cookie, token, sockets, todo, listed, page, faults>>
      BY <1>5 DEF Reuse, Claim
    <2>4. room' \in RoomRow /\ session' \in [Visits -> SessionRow]
      <3>1. CASE Reuse(v)
        BY <1>0, <3>1, SessionWrites DEF Reuse, TypeOK, RoomRow, SessionValue
      <3>2. CASE Claim(v)
        <4>1. room.draft.count + 1 \in 0..MaxUsers
          BY <3>2, MembersAssumption DEF Claim, HasRoom, TypeOK, Row
        <4>2. room' = Write(room, v, [room.draft EXCEPT !.count = room.draft.count + 1])
          BY <3>2 DEF Claim
        <4> QED
          BY <1>0, <3>2, <4>1, <4>2, RoomWrites DEF Claim, TypeOK, SessionRow
      <3> QED
        BY <1>5, <3>1, <3>2
    <2>5. Tokens'
      BY <1>0, <2>1, <2>2, <2>3 DEF Tokens, Txs, Seated, SocketPC, LeavePC, Early, JoinPC
    <2>6. Cookies'
      BY <1>0, <2>1, <2>2, <2>3 DEF Cookies, Txs, Early, JoinPC
    <2> QED
      BY <2>2, <2>3, <2>4, <2>5, <2>6 DEF TypeOK, RoomRow, SessionRow
  <1>6. CASE CreateSession(v)
    <2>1. /\ pc' \in [Txs -> VisitPC \cup CleanerPC] /\ pc'[v] = "inserted" /\ Kinds'
          /\ \A q \in Txs : q # v => pc'[q] = pc[q]
      BY <1>1, <1>6 DEF CreateSession, VisitPC, JoinPC
    <2>2. /\ token' \in [Visits -> Visits \cup {NoSession}] /\ token'[v] = v
          /\ \A u \in Visits : u # v => token'[u] = token[u]
      BY <1>6 DEF CreateSession, TypeOK
    <2>3. session' \in [Visits -> SessionRow]
      BY <1>0, <1>6, SessionWrites DEF CreateSession, SessionValue
    <2>4. Tokens'
      BY <1>0, <1>6, <2>1, <2>2 DEF CreateSession, Tokens, Txs, Seated, SocketPC, LeavePC, Early, JoinPC
    <2>5. Cookies'
      BY <1>0, <1>6, <2>1 DEF CreateSession, Cookies, Txs, Early, JoinPC
    <2> QED
      BY <1>6, <2>1, <2>2, <2>3, <2>4, <2>5 DEF CreateSession, TypeOK, SessionRow
  <1>7. CASE JoinCommit(v)
    <2>1. /\ pc' \in [Txs -> VisitPC \cup CleanerPC] /\ pc'[v] = "joined" /\ Kinds'
          /\ \A q \in Txs : q # v => pc'[q] = pc[q]
      BY <1>1, <1>7 DEF JoinCommit, VisitPC, JoinPC
    <2>2. /\ room' \in RoomRow /\ session' \in [Visits -> SessionRow]
          /\ message' \in [Visits -> MessageRow]
      BY <1>7, RowsEnd DEF JoinCommit
    <2>3. cookie' \in [Browsers -> Visits \cup {NoSession}]
      BY <1>0, <1>7 DEF JoinCommit, TypeOK
    <2>4. Tokens'
      BY <1>0, <1>7, <2>1 DEF JoinCommit, Tokens, Txs, Seated, SocketPC, LeavePC, Early, JoinPC
    <2>5. \A b \in Browsers : cookie'[b] \in {v, cookie[b]}
      BY <1>7 DEF JoinCommit, TypeOK
    <2>6. Cookies'
      BY <1>0, <1>7, <2>1, <2>5 DEF JoinCommit, Cookies, Txs, Early, JoinPC
    <2> QED
      BY <1>7, <2>1, <2>2, <2>3, <2>4, <2>6 DEF JoinCommit, TypeOK, RoomRow, SessionRow, MessageRow
  <1> QED
    BY <1>2, <1>3, <1>4, <1>5, <1>6, <1>7 DEF Join


\* The sessions registered are sessions.
LEMMA RegisteredSessions ==
    ASSUME TInv
    PROVE  /\ Registered \subseteq Visits
           /\ \A v \in Visits : {token[u] : u \in sockets \ {v}} \subseteq Visits
  BY DEF TInv, TypeOK, Tokens, Registered

\* What a broadcast does to a page keeps the page's type.
LEMMA DeliverTypes ==
    ASSUME TInv, NEW v \in Visits, Deliver(v)
    PROVE  /\ page' \in [Visits -> Shown]
           /\ todo' \in [Txs -> SUBSET Visits]
  <1>1. PICK s \in todo[v] :
           /\ page' = [c \in Visits |->
                          IF c \in sockets /\ token[c] = s /\ HasState(c)
                            THEN Handled(v, c) ELSE page[c]]
           /\ todo' = [todo EXCEPT ![v] = @ \ {s}]
    BY DEF Deliver
  <1>2. todo' \in [Txs -> SUBSET Visits]
    BY <1>1 DEF TInv, TypeOK
  <1>3. pc[v] = "open" => token[v] \in Visits
    BY DEF TInv, Tokens, Seated, SocketPC
  <1>4. ASSUME NEW c \in Visits PROVE Handled(v, c) \in Shown
    <2>1. page[c] \in Shown
      BY DEF TInv, TypeOK
    <2> QED
      BY <1>3, <2>1 DEF Handled, Shown
  <1> QED
    BY <1>1, <1>2, <1>4 DEF TInv, TypeOK

\* The handler of a socket while its page is there.
LEMMA SocketTypes == ASSUME TInv, NEW v \in Visits, Socket(v) PROVE TInv'
  <1>0. v \in Txs /\ v \notin Cleaners
    BY MembersAssumption DEF Txs
  <1>1. CASE Deliver(v)
    <2>1. UNCHANGED <<rows, cookie, token, sockets, pc, listed, faults>>
      BY <1>1 DEF Deliver
    <2> QED
      BY <1>1, <2>1, DeliverTypes DEF TInv, TypeOK, Tokens, Cookies, Kinds, rows
  <1>2. CASE ~Deliver(v)
    <2>1. PICK l \in {"authed", "ended", "registered", "listed", "ready", "stated", "open",
                      "posting", "failed", "posted", "published"} :
             /\ Goto(v, l)
             /\ pc[v] \in Seated
      BY <1>2 DEF Socket, Auth, AuthRefused, Connect, ListSessions, ListMessages, SendState,
                  AnnounceJoin, Post, PostFails, PostCommit, Publish, Receiving,
                  Seated, SocketPC, LeavePC
    <2>2. /\ pc' \in [Txs -> VisitPC \cup CleanerPC] /\ pc'[v] = l /\ Kinds'
          /\ \A q \in Txs : q # v => pc'[q] = pc[q]
      <3>1. l \in VisitPC
        BY DEF VisitPC, SocketPC
      <3> QED
        BY <1>0, <2>1, <3>1, GotoTypes DEF TInv
    <2>3. token[v] \in Visits /\ pc[v] \notin Early
      BY <2>1 DEF TInv, Tokens, Seated, SocketPC, LeavePC, Early, JoinPC
    <2>4. UNCHANGED <<cookie, token, faults>> /\ sockets' \subseteq sockets \cup {v}
      BY <1>2 DEF Socket, Auth, AuthRefused, Connect, ListSessions, ListMessages, SendState,
                  AnnounceJoin, Post, PostFails, PostCommit, Publish
    <2>5. l = "ended" => v \notin sockets'
      <3>1. AuthRefused(v) => pc[v] \notin SocketPC \cup {"failed"} /\ sockets' = sockets
        BY DEF AuthRefused, SocketPC
      <3>2. l = "ended" => AuthRefused(v)
        BY <1>0, <1>2, <2>2
        DEF Socket, Auth, AuthRefused, Connect, ListSessions, ListMessages, SendState,
            AnnounceJoin, Post, PostFails, PostCommit, Publish, Goto, TInv, TypeOK
      <3> QED
        BY <3>1, <3>2 DEF TInv, Tokens
    <2>6. Tokens'
      <3>1. l \in SocketPC \cup {"failed", "ended"}
        BY DEF SocketPC
      <3> QED
        BY <1>0, <2>2, <2>3, <2>4, <2>5, <3>1
        DEF TInv, Tokens, Txs, Seated, SocketPC, LeavePC, Early, JoinPC
    <2>7. Cookies'
      BY <1>0, <2>2, <2>4 DEF TInv, Cookies, Txs, Early, JoinPC
    <2>8. room' \in RoomRow /\ session' \in [Visits -> SessionRow] /\ message' \in [Visits -> MessageRow]
      <3>1. CASE Post(v)
        BY <1>0, <3>1, MessageWrites DEF Post, TInv, TypeOK, RoomRow, SessionRow, MessageValue
      <3>2. CASE PostCommit(v)
        BY <3>2, RowsEnd DEF PostCommit, TInv
      <3>3. CASE UNCHANGED rows
        BY <3>3 DEF rows, TInv, TypeOK, RoomRow, SessionRow, MessageRow
      <3> QED
        BY <1>2, <3>1, <3>2, <3>3
        DEF Socket, Auth, AuthRefused, Connect, ListSessions, ListMessages, SendState,
            AnnounceJoin, PostFails, Publish
    <2>9. todo' \in [Txs -> SUBSET Visits]
      <3>1. CASE UNCHANGED todo
        BY <3>1 DEF TInv, TypeOK
      <3>2. CASE AnnounceJoin(v) \/ Publish(v)
        BY <3>2, RegisteredSessions DEF AnnounceJoin, Publish, TInv, TypeOK
      <3> QED
        BY <1>2, <3>1, <3>2
        DEF Socket, Auth, AuthRefused, Connect, ListSessions, ListMessages, SendState,
            Post, PostFails, PostCommit
    <2>10. listed' \in [Visits -> Shown] /\ page' \in [Visits -> Shown]
      <3>1. CASE UNCHANGED <<listed, page>>
        BY <3>1 DEF TInv, TypeOK
      <3>2. CASE ListSessions(v) \/ ListMessages(v)
        BY <3>2 DEF ListSessions, ListMessages, TInv, TypeOK, Shown
      <3>3. CASE SendState(v)
        <4>1. [listed[v] EXCEPT !.members = Present(@)] \in Shown /\ Nothing \in Shown
          BY DEF Present, Nothing, TInv, TypeOK, Shown
        <4> QED
          BY <3>3, <4>1 DEF SendState, TInv, TypeOK
      <3>4. CASE PostFails(v)
        <4>1. Nothing \in Shown
          BY DEF Nothing, Shown
        <4> QED
          BY <3>4, <4>1 DEF PostFails, TInv, TypeOK
      <3> QED
        BY <1>2, <3>1, <3>2, <3>3, <3>4
        DEF Socket, Auth, AuthRefused, Connect, AnnounceJoin, Post, PostCommit, Publish
    <2> QED
      BY <2>2, <2>4, <2>6, <2>7, <2>8, <2>9, <2>10
      DEF TInv, TypeOK, RoomRow, SessionRow, MessageRow
  <1> QED
    BY <1>1, <1>2

\* The end of a socket's handler.
LEMMA DisconnectTypes ==
    ASSUME TInv, NEW v \in Visits, NEW l \in LeavePC, Disconnect(v, l)
    PROVE  /\ \E k \in {"ended", l} : Goto(v, k)
           /\ todo' \in [Txs -> SUBSET Visits]
           /\ listed' \in [Visits -> Shown] /\ page' \in [Visits -> Shown]
           /\ UNCHANGED <<cookie, token>> /\ sockets' \subseteq sockets
  <1>1. {token[u] : u \in sockets \ {v}} \subseteq Visits
    BY RegisteredSessions
  <1>2. todo' = todo \/ todo' = [todo EXCEPT ![v] = {token[u] : u \in sockets \ {v}}]
    BY DEF Disconnect
  <1>3. todo' \in [Txs -> SUBSET Visits]
    BY <1>1, <1>2 DEF TInv, TypeOK
  <1> QED
    BY <1>3 DEF Disconnect, TInv, TypeOK, Shown, Nothing

LEMMA LeaveTypes == ASSUME TInv, NEW v \in Visits, Leave(v) PROVE TInv'
  <1>0. v \in Txs /\ v \notin Cleaners
    BY MembersAssumption DEF Txs
  <1>1. PICK l \in {"ended", "failed"} \cup LeavePC : Goto(v, l) /\ pc[v] \in Seated
    <2>1. CASE Close(v)
      BY <2>1, DisconnectTypes DEF Close, Receiving, LeavePC, Seated, SocketPC
    <2>2. CASE ReadFails(v)
      BY <2>2, DisconnectTypes DEF ReadFails, LeavePC, Seated, SocketPC
    <2>3. CASE ~Close(v) /\ ~ReadFails(v)
      BY <2>3 DEF Leave, Uncount, ExpireSession, LeaveCommit, UncountFails, LeavePC, Seated
    <2> QED
      BY <2>1, <2>2, <2>3
  <1>2. /\ UNCHANGED <<cookie, token>> /\ sockets' \subseteq sockets
        /\ todo' \in [Txs -> SUBSET Visits]
        /\ listed' \in [Visits -> Shown] /\ page' \in [Visits -> Shown]
    <2>1. CASE Close(v)
      BY <2>1, DisconnectTypes DEF Close, LeavePC
    <2>2. CASE ReadFails(v)
      BY <2>2, DisconnectTypes DEF ReadFails, LeavePC
    <2>3. CASE ~Close(v) /\ ~ReadFails(v)
      BY <2>3 DEF Leave, Uncount, ExpireSession, LeaveCommit, UncountFails, TInv, TypeOK
    <2> QED
      BY <2>1, <2>2, <2>3
  <1>3. faults' \in 0..MaxFaults
    BY MembersAssumption
    DEF Leave, Close, ReadFails, Fault, Uncount, ExpireSession, LeaveCommit, UncountFails, TInv, TypeOK
  <1>4. /\ pc' \in [Txs -> VisitPC \cup CleanerPC] /\ pc'[v] = l /\ Kinds'
        /\ \A q \in Txs : q # v => pc'[q] = pc[q]
    <2>1. l \in VisitPC
      BY DEF VisitPC
    <2> QED
      BY <1>0, <1>1, <2>1, GotoTypes DEF TInv
  <1>5. Tokens'
    <2>1. v \notin sockets' \/ l = "failed"
      BY <1>1, <1>2
      DEF Leave, Close, ReadFails, Disconnect, Uncount, ExpireSession, LeaveCommit, UncountFails,
          TInv, Tokens, SocketPC
    <2> QED
      BY <1>0, <1>1, <1>2, <1>4, <2>1 DEF TInv, Tokens, Txs, Seated, SocketPC, LeavePC, Early, JoinPC
  <1>6. Cookies'
    BY <1>0, <1>2, <1>4 DEF TInv, Cookies, Txs, Early, JoinPC, LeavePC
  <1>7. room' \in RoomRow /\ session' \in [Visits -> SessionRow] /\ message' \in [Visits -> MessageRow]
    <2>1. CASE Uncount(v)
      <3>1. room.draft.count \in 0..MaxUsers /\ MaxUsers \in Nat
        BY MembersAssumption DEF TInv, TypeOK, Row
      <3>2. room.draft.count > 0 => room.draft.count - 1 \in 0..MaxUsers
        BY <3>1
      <3>3. room' \in RoomRow
        <4>1. room \in RoomRow
          BY DEF TInv, TypeOK, RoomRow
        <4> QED
          BY <1>0, <2>1, <3>2, <4>1, RoomWrites DEF Uncount, TInv
      <3> QED
        BY <2>1, <3>3 DEF Uncount, TInv, TypeOK, SessionRow, MessageRow
    <2>2. CASE ExpireSession(v)
      <3>1. session' \in [Visits -> SessionRow]
        BY <1>0, <2>2, RowWrites DEF ExpireSession, TInv, TypeOK, SessionRow, SessionValue
      <3> QED
        BY <2>2, <3>1 DEF ExpireSession, TInv, TypeOK, RoomRow, MessageRow
    <2>3. CASE LeaveCommit(v)
      BY <2>3, RowsEnd DEF LeaveCommit, TInv
    <2>4. CASE UNCHANGED rows
      BY <2>4 DEF rows, TInv, TypeOK, RoomRow, SessionRow, MessageRow
    <2> QED
      BY <2>1, <2>2, <2>3, <2>4 DEF Leave, Close, ReadFails, UncountFails
  <1> QED
    BY <1>2, <1>3, <1>4, <1>5, <1>6, <1>7 DEF TInv, TypeOK, RoomRow, SessionRow, MessageRow

\* The wipe.
LEMMA WipeTypes == ASSUME TInv, NEW c \in Cleaners, Wipe(c) PROVE TInv'
  <1>0. c \in Txs /\ c \notin Visits
    BY MembersAssumption DEF Txs
  <1>1. /\ pc' \in [Txs -> VisitPC \cup CleanerPC] /\ Kinds'
        /\ \A q \in Txs : q # c => pc'[q] = pc[q]
    <2>1. CASE DeleteSession(c)
      BY <2>1 DEF DeleteSession, TInv, TypeOK, Kinds
    <2>2. CASE ~DeleteSession(c)
      <3>1. PICK l \in CleanerPC : Goto(c, l)
        BY <2>2 DEF Wipe, MarkRoom, DeleteMessages, DeleteSessions, WipeCommit, CleanerPC
      <3> QED
        BY <1>0, <3>1, GotoTypes DEF TInv
    <2> QED
      BY <2>1, <2>2
  <1>2. UNCHANGED <<cookie, token, sockets, listed, page, faults>>
    BY DEF Wipe, MarkRoom, DeleteMessages, DeleteSessions, DeleteSession, WipeCommit
  <1>3. Tokens' /\ Cookies'
    BY <1>0, <1>1, <1>2 DEF TInv, Tokens, Cookies, Txs
  <1>4. todo' \in [Txs -> SUBSET Visits]
    BY DEF Wipe, MarkRoom, DeleteMessages, DeleteSessions, DeleteSession, WipeCommit, TInv, TypeOK
  <1>5. room' \in RoomRow /\ session' \in [Visits -> SessionRow] /\ message' \in [Visits -> MessageRow]
    <2>1. CASE MarkRoom(c)
      BY <1>0, <2>1, RoomWrites DEF MarkRoom, TInv, TypeOK, SessionRow, MessageRow
    <2>2. CASE DeleteMessages(c)
      BY <1>0, <2>2, RowWrites DEF DeleteMessages, TInv, TypeOK, RoomRow, SessionRow, MessageRow, MessageValue
    <2>3. CASE DeleteSessions(c)
      BY <2>3 DEF DeleteSessions, rows, TInv, TypeOK, RoomRow, SessionRow, MessageRow
    <2>4. CASE DeleteSession(c)
      BY <1>0, <2>4, SessionWrites DEF DeleteSession, TInv, TypeOK, RoomRow, MessageRow, SessionValue
    <2>5. CASE WipeCommit(c)
      <3>1. room' \in RoomRow
        BY <1>0, <2>5, RoomWrites DEF WipeCommit, TInv
      <3>2. \A s \in Visits : Commit(session[s], c) \in SessionRow /\ Commit(message[s], c) \in MessageRow
        BY RowEnds DEF TInv, TypeOK, SessionRow, MessageRow
      <3> QED
        BY <2>5, <3>1, <3>2 DEF WipeCommit
    <2> QED
      BY <2>1, <2>2, <2>3, <2>4, <2>5 DEF Wipe
  <1> QED
    BY <1>1, <1>2, <1>3, <1>4, <1>5 DEF TInv, TypeOK, RoomRow, SessionRow, MessageRow

\* Faults.
LEMMA FailTypes == ASSUME TInv, NEW p \in Txs, Fail(p) PROVE TInv'
  <1>1. PICK l \in {"idle", "failed"} :
           /\ Goto(p, l)
           /\ p \in Cleaners => l = "idle"
           /\ p \in Visits => l = "failed"
    BY MembersAssumption DEF Fail, Txs
  <1>2. /\ pc' \in [Txs -> VisitPC \cup CleanerPC] /\ pc'[p] = l /\ Kinds'
        /\ \A q \in Txs : q # p => pc'[q] = pc[q]
    <2>1. p \in Cleaners => l \in CleanerPC
      BY <1>1 DEF CleanerPC
    <2>2. p \in Visits => l \in VisitPC
      BY <1>1 DEF VisitPC
    <2> QED
      BY <1>1, <2>1, <2>2, GotoTypes DEF TInv
  <1>3. UNCHANGED <<cookie, token, sockets, listed, page>>
    BY DEF Fail
  <1>4. room' \in RoomRow /\ session' \in [Visits -> SessionRow] /\ message' \in [Visits -> MessageRow]
    BY RowsEnd DEF Fail, TInv
  <1>5. faults' \in 0..MaxFaults /\ todo' \in [Txs -> SUBSET Visits]
    BY MembersAssumption DEF Fail, Fault, TInv, TypeOK
  <1>6. p \in Visits => /\ pc[p] # "idle"
                         /\ pc'[p] = "failed"
    BY <1>1, <1>2, MembersAssumption DEF Fail, JoinPC, TInv, TypeOK
  <1>7. Tokens'
    BY <1>2, <1>3, <1>6 DEF TInv, Tokens, Txs, Seated, SocketPC, LeavePC, Early, JoinPC
  <1>8. Cookies'
    BY <1>2, <1>3, <1>6 DEF TInv, Cookies, Txs, Early, JoinPC
  <1> QED
    BY <1>2, <1>3, <1>4, <1>5, <1>7, <1>8 DEF TInv, TypeOK, RoomRow, SessionRow, MessageRow

LEMMA ChatFailsTypes == ASSUME TInv, NEW v \in Visits, ChatFails(v) PROVE TInv'
  <1>0. v \in Txs /\ v \notin Cleaners /\ "failed" \in VisitPC
    BY MembersAssumption DEF Txs, VisitPC
  <1>1. /\ pc' \in [Txs -> VisitPC \cup CleanerPC] /\ pc'[v] = "failed" /\ Kinds'
        /\ \A q \in Txs : q # v => pc'[q] = pc[q]
    BY <1>0, GotoTypes DEF ChatFails, TInv
  <1>2. /\ UNCHANGED <<cookie, token, sockets, todo, listed>>
        /\ pc[v] \in {"posting", "posted"}
    BY DEF ChatFails
  <1>3. room' \in RoomRow /\ session' \in [Visits -> SessionRow] /\ message' \in [Visits -> MessageRow]
    BY RowsEnd DEF ChatFails, TInv
  <1>4. faults' \in 0..MaxFaults /\ page' \in [Visits -> Shown]
    BY MembersAssumption DEF ChatFails, Fault, Nothing, Shown, TInv, TypeOK
  <1>5. Tokens'
    BY <1>0, <1>1, <1>2 DEF TInv, Tokens, Txs, Seated, SocketPC, LeavePC, Early, JoinPC
  <1>6. Cookies'
    BY <1>0, <1>1, <1>2 DEF TInv, Cookies, Txs, Early, JoinPC
  <1> QED
    BY <1>1, <1>2, <1>3, <1>4, <1>5, <1>6 DEF TInv, TypeOK, RoomRow, SessionRow, MessageRow

LEMMA LapseTypes == ASSUME TInv, NEW s \in Visits, Lapse(s) PROVE TInv'
  <1>1. faults' \in 0..MaxFaults
    BY MembersAssumption DEF Lapse, Fault, TInv, TypeOK
  <1>2. Clean("EXPIRED") \in SessionRow
    BY RowWrites, MembersAssumption DEF SessionRow, SessionValue, Clean, Row
  <1>3. session' \in [Visits -> SessionRow]
    BY <1>2 DEF Lapse, TInv, TypeOK, SessionRow
  <1> QED
    BY <1>1, <1>3 DEF Lapse, TInv, TypeOK, Tokens, Cookies, Kinds, SessionRow

LEMMA CrashTypes == ASSUME TInv, Crash PROVE TInv'
  <1>1. /\ pc' \in [Txs -> VisitPC \cup CleanerPC] /\ Kinds'
        /\ \A v \in Visits : pc'[v] = IF pc[v] \in {"idle", "joined", "ended"} THEN pc[v] ELSE "failed"
    BY MembersAssumption DEF Crash, Txs, VisitPC, CleanerPC, Kinds
  <1>2. UNCHANGED <<cookie, token>> /\ sockets' = {}
    BY DEF Crash
  <1>3. \A A, x : x \in Row(A, Txs) => Clean(x.saved) \in Row(A, Txs)
    BY DEF Row, Clean
  <1>4. room' \in RoomRow /\ session' \in [Visits -> SessionRow] /\ message' \in [Visits -> MessageRow]
    BY <1>3 DEF Crash, TInv, TypeOK, RoomRow, SessionRow, MessageRow
  <1>5. /\ faults' \in 0..MaxFaults /\ todo' \in [Txs -> SUBSET Visits]
        /\ listed' \in [Visits -> Shown] /\ page' \in [Visits -> Shown]
    BY MembersAssumption DEF Crash, Fault, Nothing, Shown, TInv, TypeOK
  <1>6. Tokens'
    BY <1>1, <1>2 DEF TInv, Tokens, Txs, Seated, SocketPC, LeavePC, Early, JoinPC
  <1>7. Cookies'
    BY <1>1, <1>2 DEF TInv, Cookies, Txs, Early, JoinPC
  <1> QED
    BY <1>1, <1>2, <1>4, <1>5, <1>6, <1>7 DEF TInv, TypeOK, RoomRow, SessionRow, MessageRow

LEMMA InitTypes == ASSUME Init PROVE TInv
  <1>1. /\ room \in RoomRow
        /\ session \in [Visits -> SessionRow]
        /\ message \in [Visits -> MessageRow]
    BY MembersAssumption
    DEF Init, RoomRow, SessionRow, MessageRow, Row, Clean, SessionValue, MessageValue
  <1>2. /\ pc \in [Txs -> VisitPC \cup CleanerPC]
        /\ \A v \in Visits : pc[v] = IF v = Owner THEN "joined" ELSE "idle"
        /\ \A c \in Cleaners : pc[c] = "idle"
    BY MembersAssumption DEF Init, Txs, VisitPC, CleanerPC
  <1>3. Tokens /\ Cookies /\ Kinds
    BY <1>2, MembersAssumption
    DEF Init, Tokens, Cookies, Kinds, CleanerPC, Seated, SocketPC, LeavePC, Early, JoinPC
  <1> QED
    BY <1>1, <1>2, <1>3, MembersAssumption
    DEF Init, TInv, TypeOK, RoomRow, SessionRow, MessageRow, Shown, Nothing

LEMMA StepTypes == ASSUME TInv, [Next]_vars PROVE TInv'
  <1>1. ASSUME NEW v \in Visits, Join(v) \/ Socket(v) \/ Leave(v) \/ ChatFails(v) \/ Lapse(v)
        PROVE  TInv'
    BY <1>1, JoinTypes, SocketTypes, LeaveTypes, ChatFailsTypes, LapseTypes
  <1>2. ASSUME NEW c \in Cleaners, Wipe(c) PROVE TInv'
    BY <1>2, WipeTypes
  <1>3. ASSUME NEW p \in Txs, Fail(p) PROVE TInv'
    BY <1>3, FailTypes
  <1>4. CASE Crash
    BY <1>4, CrashTypes
  <1>5. CASE UNCHANGED vars
    BY <1>5 DEF vars, rows, TInv, TypeOK, Tokens, Cookies, Kinds
  <1> QED
    BY <1>1, <1>2, <1>3, <1>4, <1>5 DEF Next

\* Whatever the order of joins, reconnects, leaves, wipes and faults, user_count
\* is never above max_users and never below 0: the test and the change of
\* increment_user_count_atomic and decrement_user_count are one statement.
THEOREM CountInBounds == Spec => []TypeOK
  <1>1. Init => TInv
    BY InitTypes
  <1>2. TInv /\ [Next]_vars => TInv'
    BY StepTypes
  <1>3. TInv => TypeOK
    BY DEF TInv
  <1> QED
    BY <1>1, <1>2, <1>3, PTL DEF Spec

-----------------------------------------------------------------------------
(***************************************************************************)
(* Everybody with a live session has a slot.                               *)
(***************************************************************************)
\* Who holds a slot: a session may expire while its page is open, it is live
\* still when its page has gone without giving back the slot, and the socket of
\* a handler that broke off stays in the registry.
Holders == LiveSessions \cup {v \in Visits : pc[v] \in Seated} \cup sockets

\* A session that another visit holds has been committed.
Borrowed == \A v \in Visits : token[v] \in Visits => token[v] = v \/ pc[token[v]] \notin Early

\* Who has the lock of the room's row, and what it has made of the count.
RoomLock ==
    /\ room.by = NoTx => room.draft = room.saved
    /\ \A v \in Visits : pc[v] \in {"claimed", "inserted"} =>
          room.by = v /\ room.draft.count = room.saved.count + 1
    /\ \A v \in Visits : pc[v] \in {"uncounted", "expired"} /\ room.by = v =>
          room.draft.count >= room.saved.count - 1
    /\ \A c \in Cleaners : pc[c] # "idle" =>
          room.by = c /\ room.draft.count = room.saved.count
    /\ \A v \in Visits : room.by = v => pc[v] \in {"claimed", "inserted", "uncounted", "expired"}
    /\ \A c \in Cleaners : room.by = c => pc[c] # "idle"

\* Who has the lock of a session's row.
SessionLocks == \A s \in Visits :
    /\ session[s].by = NoTx => session[s].draft = session[s].saved
    /\ pc[s] \in Early \ {"inserted"} => session[s] = Clean("ABSENT")
    /\ pc[s] = "inserted" => session[s] = Write(Clean("ABSENT"), s, "LIVE")
    /\ \A v \in Visits : session[s].by = v =>
          pc[v] \in {"reused", "inserted", "expired"} /\ s = token[v]
    /\ \A c \in Cleaners : session[s].by = c => session[s].draft = "ABSENT" /\ pc[c] # "idle"

\* A session that is about to be given up will not be live.
Expiring == \A v \in Visits : pc[v] = "expired" =>
    \/ session[token[v]].by = v /\ session[token[v]].draft = "EXPIRED"
    \/ session[token[v]].saved = "ABSENT" /\ session[token[v]].draft = "ABSENT"

\* A wipe deletes sessions that have been committed.
WipesCommitted == \A c \in Cleaners : \A s \in todo[c] : pc[s] \notin Early

Counted == NoReuse => Cardinality(Holders) <= room.saved.count

Locks == RoomLock /\ SessionLocks /\ Expiring
IInv == TInv /\ Locks /\ Borrowed /\ WipesCommitted /\ Counted

\* What every step does to every visit: it never goes back before its session
\* is committed, its token changes in the join only, and it is given no session
\* that it has not looked up.
LEMMA VisitSteps ==
    ASSUME TInv, [Next]_vars, NEW u \in Visits
    PROVE  /\ pc[u] \notin Early => pc'[u] \notin Early
           /\ \/ token'[u] \in {token[u], NoSession, u}
              \/ token'[u] = cookie[Browser[u]]
           /\ \/ token'[u] = token[u] /\ pc'[u] \in {pc[u]} \cup (VisitPC \ {"lookup", "late", "reuse"})
              \/ pc[u] \in {"idle", "lookup", "late", "claimed"}
  <1>0. /\ u \in Txs /\ pc \in [Txs -> VisitPC \cup CleanerPC]
        /\ token \in [Visits -> Visits \cup {NoSession}]
    BY DEF Txs, TInv, TypeOK
  <1>1. ASSUME NEW v \in Visits, Join(v)
        PROVE  /\ u # v => (pc'[u] = pc[u] /\ token'[u] = token[u])
               /\ \/ token'[v] \in {token[v], NoSession, v}
                  \/ token'[v] = cookie[Browser[v]]
               /\ \/ token'[v] = token[v] /\ pc'[v] \in VisitPC \ {"lookup", "late", "reuse"}
                  \/ pc[v] \in {"idle", "lookup", "late", "claimed"}
               /\ pc[v] \in Early
    BY <1>0, <1>1
    DEF Join, JoinBegin, JoinRefused, LookupFinds, LookupFindsNone, Reuse, ReuseFails, Claim,
        RoomFull, CreateSession, JoinCommit, Goto, VisitPC, JoinPC, Early, Txs
  <1>2. ASSUME NEW v \in Visits, Socket(v)
        PROVE  /\ UNCHANGED token
               /\ u # v => pc'[u] = pc[u]
               /\ pc'[v] \in {pc[v]} \cup (VisitPC \ Early)
    BY <1>0, <1>2
    DEF Socket, Auth, AuthRefused, Connect, ListSessions, ListMessages, SendState, AnnounceJoin,
        Deliver, Post, PostFails, PostCommit, Publish, Goto, VisitPC, SocketPC, JoinPC, Early, Txs
  <1>3. ASSUME NEW v \in Visits, Leave(v) \/ ChatFails(v) \/ Lapse(v)
        PROVE  /\ UNCHANGED token
               /\ u # v => pc'[u] = pc[u]
               /\ pc'[v] \in {pc[v]} \cup (VisitPC \ Early)
    BY <1>0, <1>3
    DEF Leave, Close, Uncount, ExpireSession, LeaveCommit, ReadFails, UncountFails, Disconnect,
        ChatFails, Lapse, Goto, VisitPC, LeavePC, JoinPC, Early, Txs
  <1>4. ASSUME NEW c \in Cleaners, Wipe(c) PROVE UNCHANGED token /\ pc'[u] = pc[u]
    BY <1>0, <1>4, MembersAssumption
    DEF Wipe, MarkRoom, DeleteMessages, DeleteSessions, DeleteSession, WipeCommit, Goto, Txs
  <1>5. ASSUME NEW p \in Txs, Fail(p)
        PROVE  UNCHANGED token /\ pc'[u] \in {pc[u], "failed"}
    BY <1>0, <1>5, MembersAssumption DEF Fail, Goto, Txs
  <1>6. CASE Crash
    BY <1>0, <1>6, MembersAssumption DEF Crash, VisitPC, Early, JoinPC, Txs
  <1>7. ASSUME UNCHANGED vars PROVE UNCHANGED token /\ pc'[u] = pc[u]
    BY <1>7 DEF vars
  <1>8. Early \cap (VisitPC \ Early) = {} /\ {"lookup", "late", "reuse"} \subseteq Early /\ "failed" \in VisitPC \ Early
    BY DEF Early, JoinPC, VisitPC
  <1>9. CASE \E v \in Visits : Join(v)
    BY <1>1, <1>9
  <1>10. CASE \E v \in Visits : Socket(v) \/ Leave(v) \/ ChatFails(v) \/ Lapse(v)
    <2>1. UNCHANGED token /\ pc'[u] \in {pc[u]} \cup (VisitPC \ Early)
      BY <1>2, <1>3, <1>10
    <2> QED
      BY <1>8, <2>1
  <1>11. CASE \/ \E c \in Cleaners : Wipe(c)
              \/ \E p \in Txs : Fail(p)
              \/ UNCHANGED vars
    <2>1. UNCHANGED token /\ pc'[u] \in {pc[u], "failed"}
      <3>1. CASE \E c \in Cleaners : Wipe(c)
        BY <1>4, <3>1
      <3>2. CASE \E p \in Txs : Fail(p)
        BY <1>5, <3>2
      <3> QED
        BY <1>7, <1>11, <3>1, <3>2
    <2> QED
      BY <1>8, <2>1
  <1> QED
    BY <1>6, <1>9, <1>10, <1>11 DEF Next

\* Once a session has been handed out again, it has been.
LEMMA ReuseLasts == ASSUME TInv, [Next]_vars PROVE NoReuse' => NoReuse
  <1>1. ASSUME NoReuse', NEW v \in Visits
        PROVE  token[v] \in {v, NoSession} \/ pc[v] \in {"lookup", "late", "reuse"}
    <2>1. pc[v] \in {"idle", "claimed"} => token[v] = NoSession
      BY DEF TInv, Tokens
    <2>2. token'[v] \in {v, NoSession} \/ pc'[v] \in {"lookup", "late", "reuse"}
      BY <1>1 DEF NoReuse
    <2> QED
      BY <2>1, <2>2, VisitSteps
  <1> QED
    BY <1>1 DEF NoReuse

LEMMA BorrowedKept == ASSUME TInv, Borrowed, [Next]_vars PROVE Borrowed'
  <1>1. ASSUME NEW v \in Visits, token'[v] \in Visits
        PROVE  token'[v] = v \/ pc'[token'[v]] \notin Early
    <2>1. NoSession \notin Visits /\ Browser[v] \in Browsers
      BY MembersAssumption
    <2>2. \A u \in Visits : pc[u] \notin Early => pc'[u] \notin Early
      BY VisitSteps
    <2>3. CASE token'[v] \in {token[v], NoSession, v}
      BY <1>1, <2>1, <2>2, <2>3 DEF Borrowed
    <2>4. CASE token'[v] = cookie[Browser[v]]
      BY <1>1, <2>1, <2>2, <2>4 DEF TInv, Cookies
    <2> QED
      BY <2>3, <2>4, VisitSteps
  <1> QED
    BY <1>1 DEF Borrowed

\* A wipe reads committed sessions only.
LEMMA WipesCommittedKept ==
    ASSUME TInv, SessionLocks, WipesCommitted, [Next]_vars
    PROVE  WipesCommitted'
  <1>1. ASSUME NEW c \in Cleaners, NEW s \in todo'[c]
        PROVE  pc'[s] \notin Early
    <2>1. \/ todo'[c] \subseteq todo[c]
          \/ todo'[c] = {x \in Visits : session[x].saved # "ABSENT"}
      <3>0. /\ c \in Txs /\ c \notin Visits /\ todo \in [Txs -> SUBSET Visits]
            /\ \A v \in Visits : v \in Txs /\ v # c
        BY MembersAssumption DEF Txs, TInv, TypeOK
      <3>1. ASSUME NEW v \in Visits, Join(v) \/ Socket(v) \/ Leave(v) \/ ChatFails(v) \/ Lapse(v)
            PROVE  todo'[c] = todo[c]
        <4>1. CASE Join(v)
          BY <4>1
          DEF Join, JoinBegin, JoinRefused, LookupFinds, LookupFindsNone, Reuse, ReuseFails,
              Claim, RoomFull, CreateSession, JoinCommit
        <4>2. CASE Socket(v)
          BY <3>0, <4>2
          DEF Socket, Auth, AuthRefused, Connect, ListSessions, ListMessages, SendState,
              AnnounceJoin, Deliver, Post, PostFails, PostCommit, Publish
        <4>3. CASE Leave(v) \/ ChatFails(v) \/ Lapse(v)
          BY <3>0, <4>3
          DEF Leave, Close, Uncount, ExpireSession, LeaveCommit, ReadFails, UncountFails,
              Disconnect, ChatFails, Lapse
        <4> QED
          BY <3>1, <4>1, <4>2, <4>3
      <3>2. ASSUME NEW d \in Cleaners, Wipe(d)
            PROVE  \/ todo'[c] \subseteq todo[c]
                   \/ todo'[c] = {x \in Visits : session[x].saved # "ABSENT"}
        BY <3>0, <3>2
        DEF Wipe, MarkRoom, DeleteMessages, DeleteSessions, DeleteSession, WipeCommit
      <3>3. ASSUME NEW p \in Txs, Fail(p) PROVE todo'[c] \subseteq todo[c]
        BY <3>0, <3>3 DEF Fail
      <3>4. CASE Crash
        BY <3>0, <3>4 DEF Crash
      <3>5. CASE UNCHANGED vars
        BY <3>5 DEF vars
      <3> QED
        BY <3>1, <3>2, <3>3, <3>4, <3>5 DEF Next
    <2>2. s \in Visits
      <3>1. todo[c] \subseteq Visits
        BY DEF TInv, TypeOK, Txs
      <3> QED
        BY <1>1, <2>1, <3>1
    <2>3. s \in todo[c] => pc[s] \notin Early
      BY DEF WipesCommitted
    <2>4. session[s].saved # "ABSENT" => pc[s] \notin Early
      <3>1. pc[s] \in Early \ {"inserted"} => session[s] = Clean("ABSENT")
        BY <2>2 DEF SessionLocks
      <3>2. pc[s] = "inserted" => session[s] = Write(Clean("ABSENT"), s, "LIVE")
        BY <2>2 DEF SessionLocks
      <3>3. Clean("ABSENT").saved = "ABSENT" /\ Write(Clean("ABSENT"), s, "LIVE").saved = "ABSENT"
        BY DEF Clean, Write
      <3> QED
        BY <3>1, <3>2, <3>3
    <2>5. pc[s] \notin Early
      BY <1>1, <2>1, <2>3, <2>4
    <2> QED
      BY <2>2, <2>5, VisitSteps
  <1> QED
    BY <1>1 DEF WipesCommitted

-----------------------------------------------------------------------------
\* The states in which a visit has locked a row of a room or a session.
Locking == {"reused", "claimed", "inserted", "uncounted", "expired"}

\* What most steps keep: the locks, and nobody takes or gives up a slot.
Kept == Locks' /\ Holders' \subseteq Holders /\ room'.saved.count = room.saved.count

LEMMA HoldersFinite ==
    ASSUME TInv
    PROVE  Holders \subseteq Visits /\ IsFiniteSet(Holders) /\ Cardinality(Holders) \in Nat
  <1>1. Holders \subseteq Visits
    BY DEF Holders, LiveSessions, TInv, TypeOK
  <1> QED
    BY <1>1, MembersAssumption, FS_Subset, FS_CardinalityType

LEMMA CountKept ==
    ASSUME IInv, [Next]_vars, Holders' \subseteq Holders, room'.saved.count = room.saved.count
    PROVE  Counted'
  <1>1. IsFiniteSet(Holders)
    BY HoldersFinite DEF IInv
  <1>2. Cardinality(Holders') <= Cardinality(Holders)
    BY <1>1, FS_Subset
  <1>3. Cardinality(Holders) \in Nat /\ Cardinality(Holders') \in Nat
    BY <1>1, FS_Subset, FS_CardinalityType
  <1>4. room.saved.count \in Nat
    BY MembersAssumption DEF IInv, TInv, TypeOK, Row
  <1>5. NoReuse' => Cardinality(Holders) <= room.saved.count
    BY ReuseLasts DEF IInv, Counted
  <1>6. NoReuse' => Cardinality(Holders') <= room'.saved.count
    BY <1>2, <1>3, <1>4, <1>5
  <1> QED
    BY <1>6 DEF Counted

\* A step that writes no room and no session, of a visit that has locked none
\* and locks none.
LEMMA Quiet ==
    ASSUME IInv, NEW v \in Visits, UNCHANGED <<room, session>>,
           pc[v] \notin Locking, pc'[v] \notin Locking,
           pc'[v] \in Early => pc[v] \in Early,
           pc'[v] \in Seated => pc[v] \in Seated,
           \A q \in Txs : q # v => pc'[q] = pc[q],
           \A u \in Visits : u # v => token'[u] = token[u],
           \A u \in sockets' : u \in sockets \/ (u = v /\ pc[v] \in Seated)
    PROVE  Kept
  <1>0. \A c \in Cleaners : c \in Txs /\ c # v
    BY MembersAssumption DEF Txs
  <1>1. \A u \in Visits : u \in Txs
    BY DEF Txs
  <1>2. RoomLock'
    BY <1>0, <1>1 DEF IInv, Locks, RoomLock, Locking
  <1>3. SessionLocks'
    <2>1. ASSUME NEW s \in Visits
          PROVE  /\ session[s].by = NoTx => session[s].draft = session[s].saved
                 /\ pc'[s] \in Early \ {"inserted"} => session[s] = Clean("ABSENT")
                 /\ pc'[s] = "inserted" => session[s] = Write(Clean("ABSENT"), s, "LIVE")
                 /\ \A u \in Visits : session[s].by = u =>
                       pc'[u] \in {"reused", "inserted", "expired"} /\ s = token'[u]
                 /\ \A c \in Cleaners : session[s].by = c => session[s].draft = "ABSENT" /\ pc'[c] # "idle"
      BY <1>0, <1>1 DEF IInv, Locks, SessionLocks, Locking
    <2> QED
      BY <2>1 DEF SessionLocks
  <1>4. Expiring'
    BY <1>1 DEF IInv, Locks, Expiring, Locking
  <1>5. Holders' \subseteq Holders
    BY <1>1 DEF Holders, LiveSessions
  <1> QED
    BY <1>2, <1>3, <1>4, <1>5 DEF Kept, Locks

\* A transaction that has locked no room and no session ends without a trace.
LEMMA NothingLocked ==
    ASSUME IInv, NEW v \in Visits, pc[v] \notin Locking, CommitAll(v) \/ RollbackAll(v)
    PROVE  UNCHANGED <<room, session>>
  <1>1. room.by # v /\ \A s \in Visits : session[s].by # v
    BY DEF IInv, Locks, RoomLock, SessionLocks, Locking
  <1> QED
    BY <1>1 DEF CommitAll, RollbackAll, Commit, Rollback, IInv, TInv, TypeOK

LEMMA JoinQuiet ==
    ASSUME IInv, NEW v \in Visits,
           \/ JoinBegin(v) \/ JoinRefused(v) \/ LookupFinds(v) \/ LookupFindsNone(v)
           \/ ReuseFails(v) \/ RoomFull(v)
    PROVE  Kept
  <1>1. /\ v \in Txs /\ pc \in [Txs -> VisitPC \cup CleanerPC]
        /\ token \in [Visits -> Visits \cup {NoSession}]
    BY DEF Txs, IInv, TInv, TypeOK
  <1>2. PICK l \in {"lookup", "late", "claim", "ended", "reuse", "failed"} :
           Goto(v, l) /\ pc[v] \in {"idle", "lookup", "late", "claim", "reuse"}
    BY DEF JoinBegin, JoinRefused, LookupFinds, LookupFindsNone, ReuseFails, RoomFull
  <1>3. pc'[v] = l /\ \A q \in Txs : q # v => pc'[q] = pc[q]
    BY <1>1, <1>2 DEF Goto
  <1>4. UNCHANGED <<room, session, sockets>> /\ \A u \in Visits : u # v => token'[u] = token[u]
    BY <1>1 DEF JoinBegin, JoinRefused, LookupFinds, LookupFindsNone, ReuseFails, RoomFull, rows
  <1>5. pc[v] \notin Locking /\ l \notin Locking /\ pc[v] \in Early /\ l \notin Seated
    BY <1>2 DEF Locking, Early, JoinPC, Seated, SocketPC, LeavePC
  <1> QED
    BY <1>3, <1>4, <1>5, Quiet

LEMMA SocketQuiet ==
    ASSUME IInv, NEW v \in Visits, Socket(v) \/ ChatFails(v)
    PROVE  Kept
  <1>1. v \in Txs /\ pc \in [Txs -> VisitPC \cup CleanerPC]
    BY DEF Txs, IInv, TInv, TypeOK
  <1>2. CASE Deliver(v)
    <2>1. UNCHANGED <<room, session, pc, token, sockets>>
      BY <1>2 DEF Deliver, rows
    <2> QED
      BY <2>1 DEF Kept, IInv, Locks, RoomLock, SessionLocks, Expiring, Holders, LiveSessions
  <1>3. CASE ~Deliver(v)
    <2>1. PICK l \in VisitPC \ (Early \cup Locking) :
             /\ Goto(v, l)
             /\ pc[v] \in Seated \ Locking
      BY <1>3
      DEF Socket, Auth, AuthRefused, Connect, ListSessions, ListMessages, SendState,
          AnnounceJoin, Post, PostFails, PostCommit, Publish, Receiving, ChatFails,
          Seated, SocketPC, LeavePC, Locking, VisitPC, Early, JoinPC
    <2>2. pc'[v] = l /\ \A q \in Txs : q # v => pc'[q] = pc[q]
      BY <1>1, <2>1 DEF Goto
    <2>3. UNCHANGED token /\ sockets' \subseteq sockets \cup {v}
      BY <1>3
      DEF Socket, Auth, AuthRefused, Connect, ListSessions, ListMessages, SendState,
          AnnounceJoin, Post, PostFails, PostCommit, Publish, ChatFails
    <2>4. UNCHANGED <<room, session>>
      <3>1. CASE PostCommit(v) \/ ChatFails(v)
        BY <2>1, <3>1, NothingLocked DEF PostCommit, ChatFails
      <3> QED
        BY <1>3, <3>1
        DEF Socket, Auth, AuthRefused, Connect, ListSessions, ListMessages, SendState,
            AnnounceJoin, Post, PostFails, Publish, rows
    <2> QED
      BY <2>1, <2>2, <2>3, <2>4, Quiet
  <1> QED
    BY <1>2, <1>3

LEMMA LeaveQuiet ==
    ASSUME IInv, NEW v \in Visits, Close(v) \/ ReadFails(v) \/ UncountFails(v)
    PROVE  Kept
  <1>1. v \in Txs /\ pc \in [Txs -> VisitPC \cup CleanerPC]
    BY DEF Txs, IInv, TInv, TypeOK
  <1>2. PICK l \in {"leaving", "doomed", "ended", "failed"} :
           /\ Goto(v, l)
           /\ pc[v] \in Seated \ Locking
    BY DEF Close, ReadFails, UncountFails, Disconnect, Receiving, Seated, SocketPC, LeavePC, Locking
  <1>3. pc'[v] = l /\ \A q \in Txs : q # v => pc'[q] = pc[q]
    BY <1>1, <1>2 DEF Goto
  <1>4. UNCHANGED <<room, session, token>> /\ sockets' \subseteq sockets
    BY DEF Close, ReadFails, UncountFails, Disconnect, rows
  <1>5. l \notin Locking \cup Early
    BY DEF Locking, Early, JoinPC
  <1> QED
    BY <1>2, <1>3, <1>4, <1>5, Quiet

\* What a step of visit v does to the states of the visits, and the rows' types.
LEMMA Moves ==
    ASSUME TInv, NEW v \in Visits, NEW l, Goto(v, l)
    PROVE  /\ pc'[v] = l
           /\ \A u \in Visits : u # v => pc'[u] = pc[u]
           /\ \A c \in Cleaners : pc'[c] = pc[c] /\ c # v /\ c \notin Visits
           /\ v # NoTx /\ NoTx \notin Visits \cup Cleaners
           /\ room \in RoomRow
           /\ \A s \in Visits : session[s] \in SessionRow
  <1>1. v \in Txs /\ pc \in [Txs -> VisitPC \cup CleanerPC]
    BY DEF Txs, TInv, TypeOK
  <1> QED
    BY <1>1, MembersAssumption DEF Goto, Txs, TInv, TypeOK, RoomRow, SessionRow

LEMMA ReuseKept == ASSUME IInv, NEW v \in Visits, Reuse(v) PROVE Kept
  <1> DEFINE s == token[v]
  <1>1. /\ pc[v] = "reuse" /\ s \in Visits /\ s # v
        /\ Lockable(session[s], v) /\ session[s].draft # "ABSENT"
        /\ session' = [session EXCEPT ![s] = Write(session[s], v, "LIVE")]
        /\ Goto(v, "reused")
        /\ UNCHANGED <<room, token, sockets>>
    BY DEF Reuse, IInv, TInv, Tokens
  <1>2. /\ pc'[v] = "reused"
        /\ \A u \in Visits : u # v => pc'[u] = pc[u]
        /\ \A c \in Cleaners : pc'[c] = pc[c] /\ c # v /\ c \notin Visits
        /\ v # NoTx /\ NoTx \notin Visits \cup Cleaners
        /\ \A x \in Visits : session[x] \in SessionRow
    BY <1>1, Moves DEF IInv
  <1>3. RoomLock'
    BY <1>1, <1>2 DEF IInv, Locks, RoomLock
  <1>4. /\ session'[s] = Write(session[s], v, "LIVE")
        /\ \A x \in Visits : x # s => session'[x] = session[x]
    BY <1>1 DEF IInv, TInv, TypeOK
  <1>5. session[s].by = NoTx /\ pc[s] \notin Early
    BY <1>1 DEF Lockable, IInv, Locks, SessionLocks, Borrowed
  <1>6. SessionLocks'
    <2>1. ASSUME NEW x \in Visits
          PROVE  /\ session'[x].by = NoTx => session'[x].draft = session'[x].saved
                 /\ pc'[x] \in Early \ {"inserted"} => session'[x] = Clean("ABSENT")
                 /\ pc'[x] = "inserted" => session'[x] = Write(Clean("ABSENT"), x, "LIVE")
                 /\ \A u \in Visits : session'[x].by = u =>
                       pc'[u] \in {"reused", "inserted", "expired"} /\ x = token'[u]
                 /\ \A c \in Cleaners : session'[x].by = c => session'[x].draft = "ABSENT" /\ pc'[c] # "idle"
      <3>1. CASE x = s
        <4>1. pc'[x] \notin Early
          BY <1>1, <1>2, <1>5, <3>1
        <4>2. session'[x].by = v
          BY <1>4, <3>1 DEF Write
        <4> QED
          BY <1>1, <1>2, <3>1, <4>1, <4>2 DEF Early, JoinPC
      <3>2. CASE x # s
        <4>1. session[x].by # v
          BY <1>1, <3>2 DEF IInv, Locks, SessionLocks
        <4>2. /\ pc'[x] \in Early \ {"inserted"} => pc[x] \in Early \ {"inserted"}
              /\ pc'[x] = "inserted" => pc[x] = "inserted"
          BY <1>1, <1>2 DEF Early, JoinPC
        <4> QED
          BY <1>1, <1>2, <1>4, <3>2, <4>1, <4>2 DEF IInv, Locks, SessionLocks
      <3> QED
        BY <3>1, <3>2
    <2> QED
      BY <2>1 DEF SessionLocks
  <1>7. Expiring'
    <2>1. ASSUME NEW u \in Visits, pc'[u] = "expired"
          PROVE  \/ session'[token[u]].by = u /\ session'[token[u]].draft = "EXPIRED"
                 \/ session'[token[u]].saved = "ABSENT" /\ session'[token[u]].draft = "ABSENT"
      <3>1. pc[u] = "expired" /\ token[u] \in Visits
        BY <1>2, <2>1 DEF IInv, TInv, Tokens, Seated, LeavePC
      <3>2. token[u] # s
        BY <1>1, <1>5, <3>1, <1>2 DEF IInv, Locks, Expiring
      <3> QED
        BY <1>4, <3>1, <3>2 DEF IInv, Locks, Expiring
    <2> QED
      BY <1>1, <2>1 DEF Expiring
  <1>8. Holders' \subseteq Holders
    <2>1. \A x \in Visits : session'[x].saved = session[x].saved
      BY <1>4 DEF Write
    <2> QED
      BY <1>1, <1>2, <2>1 DEF Holders, LiveSessions, Seated, SocketPC, LeavePC
  <1> QED
    BY <1>1, <1>3, <1>6, <1>7, <1>8 DEF Kept, Locks

LEMMA ClaimKept == ASSUME IInv, NEW v \in Visits, Claim(v) \/ Uncount(v) PROVE Kept
  <1>1. PICK l \in {"claimed", "uncounted"} :
           /\ Goto(v, l)
           /\ pc[v] = IF l = "claimed" THEN "claim" ELSE "leaving"
           /\ \/ l = "uncounted" /\ UNCHANGED room
              \/ /\ Lockable(room, v)
                 /\ \E n : /\ room' = Write(room, v, [room.draft EXCEPT !.count = n])
                           /\ l = "claimed" => n = room.draft.count + 1
                           /\ l = "uncounted" => n = room.draft.count - 1
    BY DEF Claim, Uncount
  <1>2. UNCHANGED <<session, token, sockets>>
    BY DEF Claim, Uncount
  <1>3. /\ pc'[v] = l
        /\ \A u \in Visits : u # v => pc'[u] = pc[u]
        /\ \A c \in Cleaners : pc'[c] = pc[c] /\ c # v /\ c \notin Visits
        /\ v # NoTx /\ NoTx \notin Visits \cup Cleaners
        /\ room \in RoomRow
    BY <1>1, Moves DEF IInv
  <1>4. room.by # v
    BY <1>1 DEF IInv, Locks, RoomLock
  <1>5. \/ l = "uncounted" /\ UNCHANGED room
        \/ /\ room.by = NoTx /\ room.draft = room.saved
           /\ room'.by = v /\ room'.saved = room.saved
           /\ l = "claimed" => room'.draft.count = room.saved.count + 1
           /\ l = "uncounted" => room'.draft.count >= room.saved.count - 1
    <2>1. CASE l = "uncounted" /\ UNCHANGED room
      BY <2>1
    <2>2. CASE /\ Lockable(room, v)
               /\ \E n : /\ room' = Write(room, v, [room.draft EXCEPT !.count = n])
                         /\ l = "claimed" => n = room.draft.count + 1
                         /\ l = "uncounted" => n = room.draft.count - 1
      <3>1. room.by = NoTx /\ room.draft = room.saved
        BY <1>4, <2>2 DEF Lockable, IInv, Locks, RoomLock
      <3>2. PICK n : /\ room' = Write(room, v, [room.draft EXCEPT !.count = n])
                     /\ l = "claimed" => n = room.draft.count + 1
                     /\ l = "uncounted" => n = room.draft.count - 1
        BY <2>2
      <3>3. room'.draft.count = n
        BY <1>3, <3>2 DEF Write, RoomRow, Row
      <3>4. room.saved.count \in 0..MaxUsers
        BY <1>3 DEF RoomRow, Row
      <3> QED
        BY <3>1, <3>2, <3>3, <3>4, MembersAssumption DEF Write
    <2> QED
      BY <1>1, <2>1, <2>2
  <1>6. RoomLock'
    BY <1>1, <1>3, <1>4, <1>5 DEF IInv, Locks, RoomLock
  <1>7. SessionLocks'
    <2>1. ASSUME NEW x \in Visits
          PROVE  /\ pc'[x] \in Early \ {"inserted"} => session[x] = Clean("ABSENT")
                 /\ pc'[x] = "inserted" => session[x] = Write(Clean("ABSENT"), x, "LIVE")
                 /\ \A u \in Visits : session[x].by = u => pc'[u] \in {"reused", "inserted", "expired"}
      <3>1. pc'[x] \in Early => pc[x] \in Early \ {"inserted"} \/ pc'[x] = pc[x]
        BY <1>1, <1>3 DEF Early, JoinPC
      <3>2. pc'[x] = "inserted" => pc[x] = "inserted"
        BY <1>1, <1>3
      <3> QED
        BY <1>1, <1>3, <3>1, <3>2 DEF IInv, Locks, SessionLocks, Early
    <2> QED
      BY <1>2, <1>3, <2>1 DEF IInv, Locks, SessionLocks
  <1>8. Expiring'
    BY <1>1, <1>2, <1>3 DEF IInv, Locks, Expiring
  <1>9. Holders' \subseteq Holders
    BY <1>1, <1>2, <1>3 DEF Holders, LiveSessions, Seated, SocketPC, LeavePC
  <1> QED
    BY <1>5, <1>6, <1>7, <1>8, <1>9 DEF Kept, Locks

LEMMA CreateKept == ASSUME IInv, NEW v \in Visits, CreateSession(v) PROVE Kept
  <1>1. /\ pc[v] = "claimed" /\ Goto(v, "inserted") /\ UNCHANGED <<room, sockets>>
        /\ session' = [session EXCEPT ![v] = Write(session[v], v, "LIVE")]
        /\ token' = [token EXCEPT ![v] = v]
    BY DEF CreateSession
  <1>2. /\ pc'[v] = "inserted"
        /\ \A u \in Visits : u # v => pc'[u] = pc[u]
        /\ \A c \in Cleaners : pc'[c] = pc[c] /\ c # v /\ c \notin Visits
        /\ v # NoTx /\ NoTx \notin Visits \cup Cleaners
    BY <1>1, Moves DEF IInv
  <1>3. RoomLock'
    BY <1>1, <1>2 DEF IInv, Locks, RoomLock
  <1>4. /\ session'[v] = Write(session[v], v, "LIVE")
        /\ \A x \in Visits : x # v => session'[x] = session[x]
        /\ token'[v] = v
        /\ \A x \in Visits : x # v => token'[x] = token[x]
    BY <1>1 DEF IInv, TInv, TypeOK
  <1>5. session[v] = Clean("ABSENT")
    BY <1>1 DEF IInv, Locks, SessionLocks, Early, JoinPC
  <1>6. session'[v] = Write(Clean("ABSENT"), v, "LIVE") /\ session'[v].by = v
    BY <1>4, <1>5 DEF Write
  <1>7. \A x \in Visits : session[x].by # v
    BY <1>1 DEF IInv, Locks, SessionLocks
  <1>8. SessionLocks'
    <2>1. ASSUME NEW x \in Visits
          PROVE  /\ session'[x].by = NoTx => session'[x].draft = session'[x].saved
                 /\ pc'[x] \in Early \ {"inserted"} => session'[x] = Clean("ABSENT")
                 /\ pc'[x] = "inserted" => session'[x] = Write(Clean("ABSENT"), x, "LIVE")
                 /\ \A u \in Visits : session'[x].by = u =>
                       pc'[u] \in {"reused", "inserted", "expired"} /\ x = token'[u]
                 /\ \A c \in Cleaners : session'[x].by = c => session'[x].draft = "ABSENT" /\ pc'[c] # "idle"
      <3>1. CASE x = v
        BY <1>2, <1>4, <1>6, <3>1
      <3>2. CASE x # v
        BY <1>2, <1>4, <1>7, <3>2 DEF IInv, Locks, SessionLocks
      <3> QED
        BY <3>1, <3>2
    <2> QED
      BY <2>1 DEF SessionLocks
  <1>9. Expiring'
    <2>1. ASSUME NEW u \in Visits, pc'[u] = "expired"
          PROVE  u # v /\ pc[u] = "expired" /\ token[u] \in Visits /\ token[u] # v
      <3>1. u # v /\ pc[u] = "expired" /\ token[u] \in Visits
        BY <1>2, <2>1 DEF IInv, TInv, Tokens, Seated, LeavePC
      <3>2. token[u] # v
        BY <1>1, <3>1 DEF IInv, Borrowed, Early, JoinPC
      <3> QED
        BY <3>1, <3>2
    <2> QED
      BY <1>4, <2>1 DEF IInv, Locks, Expiring
  <1>10. Holders' \subseteq Holders
    <2>1. \A x \in Visits : session'[x].saved = session[x].saved
      BY <1>4 DEF Write
    <2> QED
      BY <1>1, <1>2, <2>1 DEF Holders, LiveSessions, Seated, SocketPC, LeavePC
  <1> QED
    BY <1>1, <1>3, <1>8, <1>9, <1>10 DEF Kept, Locks

LEMMA ExpireKept == ASSUME IInv, NEW v \in Visits, ExpireSession(v) PROVE Kept
  <1> DEFINE s == token[v]
  <1>1. /\ pc[v] = "uncounted" /\ s \in Visits
        /\ Lockable(session[s], v)
        /\ session' = [session EXCEPT ![s] = IF @.draft = "ABSENT" THEN @ ELSE Write(@, v, "EXPIRED")]
        /\ Goto(v, "expired")
        /\ UNCHANGED <<room, token, sockets>>
    BY DEF ExpireSession, IInv, TInv, Tokens, Seated, LeavePC
  <1>2. /\ pc'[v] = "expired"
        /\ \A u \in Visits : u # v => pc'[u] = pc[u]
        /\ \A c \in Cleaners : pc'[c] = pc[c] /\ c # v /\ c \notin Visits
        /\ v # NoTx /\ NoTx \notin Visits \cup Cleaners
        /\ \A x \in Visits : session[x] \in SessionRow
    BY <1>1, Moves DEF IInv
  <1>3. RoomLock'
    BY <1>1, <1>2 DEF IInv, Locks, RoomLock
  <1>4. /\ session'[s] = IF session[s].draft = "ABSENT" THEN session[s] ELSE Write(session[s], v, "EXPIRED")
        /\ \A x \in Visits : x # s => session'[x] = session[x]
    BY <1>1 DEF IInv, TInv, TypeOK
  <1>5. session[s].by = NoTx /\ pc[s] \notin Early /\ session[s].draft = session[s].saved
    <2>1. session[s].by # v
      BY <1>1 DEF IInv, Locks, SessionLocks
    <2>2. session[s].by = NoTx
      BY <1>1, <2>1 DEF Lockable
    <2>3. s = v \/ pc[s] \notin Early
      BY <1>1 DEF IInv, Borrowed
    <2>4. pc[s] \notin Early
      BY <1>1, <2>3 DEF Early, JoinPC
    <2> QED
      BY <1>1, <2>2, <2>4 DEF IInv, Locks, SessionLocks
  <1>6. SessionLocks'
    <2>1. ASSUME NEW x \in Visits
          PROVE  /\ session'[x].by = NoTx => session'[x].draft = session'[x].saved
                 /\ pc'[x] \in Early \ {"inserted"} => session'[x] = Clean("ABSENT")
                 /\ pc'[x] = "inserted" => session'[x] = Write(Clean("ABSENT"), x, "LIVE")
                 /\ \A u \in Visits : session'[x].by = u =>
                       pc'[u] \in {"reused", "inserted", "expired"} /\ x = token'[u]
                 /\ \A c \in Cleaners : session'[x].by = c => session'[x].draft = "ABSENT" /\ pc'[c] # "idle"
      <3>1. CASE x = s
        <4>1. pc'[x] \notin Early
          BY <1>2, <1>5, <3>1 DEF Early, JoinPC
        <4>2. session'[x].by \in {v, NoTx} /\ (session'[x].by = NoTx => session'[x] = session[x])
          BY <1>2, <1>4, <1>5, <3>1 DEF Write
        <4> QED
          BY <1>1, <1>2, <1>5, <3>1, <4>1, <4>2 DEF Early, JoinPC
      <3>2. CASE x # s
        <4>1. session[x].by # v
          BY <1>1, <3>2 DEF IInv, Locks, SessionLocks
        <4>2. /\ pc'[x] \in Early \ {"inserted"} => pc[x] \in Early \ {"inserted"}
              /\ pc'[x] = "inserted" => pc[x] = "inserted"
          BY <1>1, <1>2 DEF Early, JoinPC
        <4> QED
          BY <1>1, <1>2, <1>4, <3>2, <4>1, <4>2 DEF IInv, Locks, SessionLocks
      <3> QED
        BY <3>1, <3>2
    <2> QED
      BY <2>1 DEF SessionLocks
  <1>7. Expiring'
    <2>1. ASSUME NEW u \in Visits, pc'[u] = "expired"
          PROVE  \/ session'[token[u]].by = u /\ session'[token[u]].draft = "EXPIRED"
                 \/ session'[token[u]].saved = "ABSENT" /\ session'[token[u]].draft = "ABSENT"
      <3>1. CASE u = v
        BY <1>4, <1>5, <3>1 DEF Write
      <3>2. CASE u # v
        \* The other visit has another session, or this one's row is gone.
        <4>1. pc[u] = "expired" /\ token[u] \in Visits /\ u # NoTx
          BY <1>2, <2>1, <3>2, MembersAssumption DEF IInv, TInv, Tokens, Seated, LeavePC, Txs
        <4>2. CASE token[u] = s
          BY <1>4, <1>5, <4>1, <4>2 DEF IInv, Locks, Expiring
        <4>3. CASE token[u] # s
          BY <1>1, <1>4, <4>1, <4>3 DEF IInv, Locks, Expiring
        <4> QED
          BY <4>2, <4>3
      <3> QED
        BY <3>1, <3>2
    <2> QED
      BY <1>1, <2>1 DEF Expiring
  <1>8. Holders' \subseteq Holders
    <2>1. \A x \in Visits : session'[x].saved = session[x].saved
      BY <1>4 DEF Write
    <2> QED
      BY <1>1, <1>2, <2>1 DEF Holders, LiveSessions, Seated, SocketPC, LeavePC
  <1> QED
    BY <1>1, <1>3, <1>6, <1>7, <1>8 DEF Kept, Locks

\* The end of a transaction of a visit keeps what the other transactions have
\* locked.
LEMMA EndKeepsLocks ==
    ASSUME IInv, NEW v \in Visits, NEW l \in {"joined", "ended", "failed"},
           Goto(v, l), UNCHANGED token, CommitAll(v) \/ RollbackAll(v),
           pc[v] \notin {"idle"},
           RollbackAll(v) \/ pc[v] \in {"reused", "inserted", "expired"}
    PROVE  Locks'
  <1>1. /\ pc'[v] = l
        /\ \A u \in Visits : u # v => pc'[u] = pc[u]
        /\ \A c \in Cleaners : pc'[c] = pc[c] /\ c # v /\ c \notin Visits
        /\ v # NoTx /\ NoTx \notin Visits \cup Cleaners
        /\ \A x \in Visits : session[x] \in SessionRow
    BY Moves DEF IInv
  <1>2. /\ room.by # v => room' = room
        /\ room'.by # v
        /\ room'.by = NoTx => room'.draft = room'.saved
    BY <1>1 DEF CommitAll, RollbackAll, Commit, Rollback, Clean, IInv, Locks, RoomLock
  <1>3. \A x \in Visits :
           /\ session[x].by # v => session'[x] = session[x]
           /\ session[x].by = v => session'[x].by = NoTx /\ session'[x].draft = session'[x].saved
           /\ session'[x].by # v
    BY <1>1 DEF CommitAll, RollbackAll, Commit, Rollback, Clean
  <1>4. l \notin Early \cup {"claimed", "inserted", "uncounted", "expired"}
    BY DEF Early, JoinPC
  <1>5. RoomLock'
    <2>1. room.by = v => room'.by = NoTx
      BY DEF CommitAll, RollbackAll, Commit, Rollback, Clean
    <2> QED
      BY <1>1, <1>2, <1>4, <2>1 DEF IInv, Locks, RoomLock
  <1>6. SessionLocks'
    <2>1. ASSUME NEW x \in Visits
          PROVE  /\ session'[x].by = NoTx => session'[x].draft = session'[x].saved
                 /\ pc'[x] \in Early \ {"inserted"} => session'[x] = Clean("ABSENT")
                 /\ pc'[x] = "inserted" => session'[x] = Write(Clean("ABSENT"), x, "LIVE")
                 /\ \A u \in Visits : session'[x].by = u =>
                       pc'[u] \in {"reused", "inserted", "expired"} /\ x = token'[u]
                 /\ \A c \in Cleaners : session'[x].by = c => session'[x].draft = "ABSENT" /\ pc'[c] # "idle"
      <3>1. CASE session[x].by = v
        <4>1. x = token[v] /\ pc[v] \in {"reused", "inserted", "expired"}
          BY <3>1 DEF IInv, Locks, SessionLocks
        <4>2. pc'[x] \notin Early
          BY <1>1, <1>4, <4>1 DEF IInv, Borrowed
        <4> QED
          BY <1>1, <1>3, <3>1, <4>2 DEF Early, JoinPC
      <3>2. CASE session[x].by # v
        <4>1. session'[x] = session[x]
          BY <1>3, <3>2
        <4>2. /\ pc'[x] \in Early \ {"inserted"} => pc[x] \in Early \ {"inserted"}
              /\ pc'[x] = "inserted" => pc[x] = "inserted"
          BY <1>1, <1>4
        <4> QED
          BY <1>1, <3>2, <4>1, <4>2 DEF IInv, Locks, SessionLocks
      <3> QED
        BY <3>1, <3>2
    <2> QED
      BY <2>1 DEF SessionLocks
  <1>7. Expiring'
    <2>1. ASSUME NEW u \in Visits, pc'[u] = "expired"
          PROVE  \/ session'[token[u]].by = u /\ session'[token[u]].draft = "EXPIRED"
                 \/ session'[token[u]].saved = "ABSENT" /\ session'[token[u]].draft = "ABSENT"
      <3>1. u # v /\ pc[u] = "expired" /\ token[u] \in Visits
        BY <1>1, <1>4, <2>1 DEF IInv, TInv, Tokens, Seated, LeavePC
      <3>2. CASE session[token[u]].by = u
        BY <1>3, <3>1, <3>2 DEF IInv, Locks, Expiring
      <3>3. CASE session[token[u]].saved = "ABSENT" /\ session[token[u]].draft = "ABSENT"
        BY <3>1, <3>3 DEF CommitAll, RollbackAll, Commit, Rollback, Clean
      <3> QED
        BY <3>1, <3>2, <3>3 DEF IInv, Locks, Expiring
    <2> QED
      BY <2>1 DEF Expiring
  <1> QED
    BY <1>5, <1>6, <1>7 DEF Locks

\* The commit of a join: the new session takes the slot that has been claimed.
LEMMA JoinCommitKept ==
    ASSUME IInv, NEW v \in Visits, JoinCommit(v), [Next]_vars PROVE Locks' /\ Counted'
  <1>1. /\ pc[v] \in {"reused", "inserted"} /\ CommitAll(v) /\ Goto(v, "joined") /\ UNCHANGED <<token, sockets>>
    BY DEF JoinCommit
  <1>2. Locks'
    BY <1>1, EndKeepsLocks
  <1>3. /\ pc'[v] = "joined"
        /\ \A u \in Visits : u # v => pc'[u] = pc[u]
    BY <1>1, Moves DEF IInv
  <1>4. CASE pc[v] = "reused"
    <2>1. token[v] \in Visits /\ token[v] # v /\ NoSession \notin Visits
      BY <1>4, MembersAssumption DEF IInv, TInv, Tokens
    <2>2. ~NoReuse'
      BY <1>1, <1>3, <2>1 DEF NoReuse
    <2> QED
      BY <1>2, <2>2 DEF Counted
  <1>5. CASE pc[v] = "inserted"
    <2>1. room'.saved.count = room.saved.count + 1
      BY <1>1, <1>5 DEF CommitAll, Commit, Clean, IInv, Locks, RoomLock
    <2>2. \A s \in Visits : s # v => session'[s].saved = session[s].saved
      <3>1. \A s \in Visits : s # v => session[s].by # v
        BY <1>5 DEF IInv, Locks, SessionLocks, TInv, Tokens
      <3> QED
        BY <1>1, <3>1 DEF CommitAll, Commit
    <2>3. Holders' \subseteq Holders \cup {v}
      BY <1>1, <1>3, <2>2 DEF Holders, LiveSessions
    <2>4. IsFiniteSet(Holders)
      BY HoldersFinite DEF IInv
    <2>5. /\ IsFiniteSet(Holders \cup {v})
          /\ Cardinality(Holders \cup {v}) <= Cardinality(Holders) + 1
          /\ Cardinality(Holders) \in Nat
      BY <2>4, FS_AddElement, FS_CardinalityType
    <2>6. /\ Cardinality(Holders') <= Cardinality(Holders \cup {v})
          /\ Cardinality(Holders') \in Nat /\ Cardinality(Holders \cup {v}) \in Nat
      BY <2>3, <2>5, FS_Subset, FS_CardinalityType
    <2>7. room.saved.count \in Nat
      BY MembersAssumption DEF IInv, TInv, TypeOK, Row
    <2>8. NoReuse' => Cardinality(Holders) <= room.saved.count
      BY ReuseLasts DEF IInv, Counted
    <2>9. NoReuse' => Cardinality(Holders') <= room'.saved.count
      BY <2>1, <2>5, <2>6, <2>7, <2>8
    <2> QED
      BY <1>2, <2>9 DEF Counted
  <1> QED
    BY <1>1, <1>4, <1>5

\* The commit of a leave: the slot and the session are given up together.
LEMMA LeaveCommitKept ==
    ASSUME IInv, NEW v \in Visits, LeaveCommit(v), [Next]_vars PROVE Locks' /\ Counted'
  <1>1. /\ pc[v] = "expired" /\ CommitAll(v) /\ Goto(v, "ended") /\ UNCHANGED <<token, sockets>>
        /\ v \notin sockets
    BY DEF LeaveCommit, IInv, TInv, Tokens, SocketPC
  <1>2. Locks'
    BY <1>1, EndKeepsLocks
  <1>3. /\ pc'[v] = "ended"
        /\ \A u \in Visits : u # v => pc'[u] = pc[u]
        /\ \A x \in Visits : session[x] \in SessionRow
        /\ v # NoTx
    BY <1>1, Moves DEF IInv
  <1>4. ASSUME NoReuse'
        PROVE  Cardinality(Holders') <= room'.saved.count
    <2>1. token[v] = v
      <3>1. token[v] \in Visits /\ NoSession \notin Visits
        BY <1>1, MembersAssumption DEF IInv, TInv, Tokens, Seated, LeavePC
      <3> QED
        BY <1>1, <1>3, <1>4, <3>1 DEF NoReuse
    <2>2. session'[v].saved # "LIVE"
      BY <1>1, <2>1 DEF CommitAll, Commit, Clean, IInv, Locks, Expiring
    <2>3. \A s \in Visits : s # v => session'[s].saved = session[s].saved
      <3>1. \A s \in Visits : s # v => session[s].by # v
        BY <2>1 DEF IInv, Locks, SessionLocks
      <3> QED
        BY <1>1, <3>1 DEF CommitAll, Commit
    <2>4. Holders' \subseteq Holders \ {v} /\ v \in Holders
      BY <1>1, <1>3, <2>2, <2>3 DEF Holders, LiveSessions, Seated, SocketPC, LeavePC
    <2>5. room'.saved.count >= room.saved.count - 1 /\ room'.saved.count \in Int
      <3>1. CASE room.by = v
        <4>1. room'.saved = room.draft /\ room.draft.count >= room.saved.count - 1
          BY <1>1, <3>1 DEF CommitAll, Commit, Clean, IInv, Locks, RoomLock
        <4> QED
          BY <4>1 DEF IInv, TInv, TypeOK, Row
      <3>2. CASE room.by # v
        <4>1. room' = room
          BY <1>1, <3>2 DEF CommitAll, Commit
        <4> QED
          BY <4>1 DEF IInv, TInv, TypeOK, Row
      <3> QED
        BY <3>1, <3>2
    <2>6. IsFiniteSet(Holders)
      BY HoldersFinite DEF IInv
    <2>7. /\ IsFiniteSet(Holders \ {v})
          /\ Cardinality(Holders \ {v}) = Cardinality(Holders) - 1
          /\ Cardinality(Holders) \in Nat
      BY <2>4, <2>6, FS_RemoveElement, FS_CardinalityType
    <2>8. /\ Cardinality(Holders') <= Cardinality(Holders \ {v})
          /\ Cardinality(Holders') \in Nat
      BY <2>4, <2>7, FS_Subset, FS_CardinalityType
    <2>9. room.saved.count \in Nat
      BY MembersAssumption DEF IInv, TInv, TypeOK, Row
    <2>10. Cardinality(Holders) <= room.saved.count
      BY <1>4, ReuseLasts DEF IInv, Counted
    <2> QED
      BY <2>5, <2>7, <2>8, <2>9, <2>10
  <1> QED
    BY <1>2, <1>4 DEF Counted

\* What a step of cleaner c does to the states of visits and cleaners.
LEMMA CleanerMoves ==
    ASSUME TInv, NEW c \in Cleaners, NEW l, Goto(c, l) \/ (UNCHANGED pc /\ l = pc[c])
    PROVE  /\ pc'[c] = l
           /\ \A u \in Visits : pc'[u] = pc[u] /\ u # c
           /\ \A d \in Cleaners : d # c => pc'[d] = pc[d]
           /\ \A d \in Cleaners : d \notin Visits
           /\ c # NoTx /\ NoTx \notin Visits \cup Cleaners
           /\ room \in RoomRow
           /\ \A s \in Visits : session[s] \in SessionRow
  <1>1. c \in Txs /\ pc \in [Txs -> VisitPC \cup CleanerPC]
    BY DEF Txs, TInv, TypeOK
  <1> QED
    BY <1>1, MembersAssumption DEF Goto, Txs, TInv, TypeOK, RoomRow, SessionRow

LEMMA MarkKept ==
    ASSUME IInv, NEW c \in Cleaners, MarkRoom(c) \/ DeleteMessages(c) \/ DeleteSessions(c)
    PROVE  Kept
  <1>1. PICK l \in {"wiping", "cleared", "emptied"} :
           /\ Goto(c, l)
           /\ l = "wiping" => pc[c] = "idle"
           /\ l # "wiping" => pc[c] # "idle"
    BY DEF MarkRoom, DeleteMessages, DeleteSessions
  <1>2. /\ pc'[c] = l
        /\ \A u \in Visits : pc'[u] = pc[u] /\ u # c
        /\ \A d \in Cleaners : d # c => pc'[d] = pc[d]
        /\ \A d \in Cleaners : d \notin Visits
        /\ c # NoTx /\ NoTx \notin Visits \cup Cleaners
        /\ room \in RoomRow
    BY <1>1, CleanerMoves DEF IInv
  <1>3. UNCHANGED <<session, token, sockets>>
    BY DEF MarkRoom, DeleteMessages, DeleteSessions, rows
  <1>4. RoomLock' /\ room'.saved.count = room.saved.count
    <2>1. CASE MarkRoom(c)
      <3>1. /\ pc[c] = "idle" /\ Lockable(room, c)
            /\ room' = Write(room, c, [room.draft EXCEPT !.status = "DELETING"])
        BY <2>1 DEF MarkRoom
      <3>2. room.by = NoTx /\ room.draft = room.saved
        BY <3>1 DEF Lockable, IInv, Locks, RoomLock
      <3>3. room'.by = c /\ room'.saved = room.saved /\ room'.draft.count = room.saved.count
        BY <1>2, <3>1, <3>2 DEF Write, RoomRow, Row
      <3> QED
        BY <1>1, <1>2, <3>1, <3>2, <3>3 DEF IInv, Locks, RoomLock
    <2>2. CASE DeleteMessages(c) \/ DeleteSessions(c)
      <3>1. pc[c] # "idle" /\ room' = room
        BY <2>2 DEF DeleteMessages, DeleteSessions, rows
      <3> QED
        BY <1>1, <1>2, <3>1 DEF IInv, Locks, RoomLock
    <2> QED
      BY <2>1, <2>2
  <1>5. SessionLocks'
    <2>1. l # "idle"
      BY <1>1
    <2> QED
      BY <1>2, <1>3, <2>1 DEF IInv, Locks, SessionLocks
  <1>6. Expiring' /\ Holders' \subseteq Holders
    BY <1>2, <1>3 DEF IInv, Locks, Expiring, Holders, LiveSessions
  <1> QED
    BY <1>4, <1>5, <1>6 DEF Kept, Locks

LEMMA DeleteSessionKept == ASSUME IInv, NEW c \in Cleaners, DeleteSession(c) PROVE Kept
  <1>1. PICK s \in todo[c] :
           /\ pc[c] = "emptied" /\ Lockable(session[s], c)
           /\ session' = [session EXCEPT ![s] = Write(session[s], c, "ABSENT")]
           /\ UNCHANGED <<room, token, pc, sockets>>
    BY DEF DeleteSession
  <1>2. s \in Visits /\ pc[s] \notin Early
    BY DEF IInv, TInv, TypeOK, Txs, WipesCommitted
  <1>3. /\ session'[s] = Write(session[s], c, "ABSENT")
        /\ \A x \in Visits : x # s => session'[x] = session[x]
    BY <1>1, <1>2 DEF IInv, TInv, TypeOK
  <1>4. /\ c # NoTx /\ NoTx \notin Visits \cup Cleaners
        /\ \A u \in Visits : u # c /\ \A d \in Cleaners : d # u
    BY MembersAssumption DEF Txs
  <1>5. /\ session'[s].by = c /\ session'[s].draft = "ABSENT"
        /\ \A x \in Visits : session'[x].saved = session[x].saved
    BY <1>3 DEF Write
  <1>6. SessionLocks'
    <2>1. ASSUME NEW x \in Visits
          PROVE  /\ session'[x].by = NoTx => session'[x].draft = session'[x].saved
                 /\ pc[x] \in Early \ {"inserted"} => session'[x] = Clean("ABSENT")
                 /\ pc[x] = "inserted" => session'[x] = Write(Clean("ABSENT"), x, "LIVE")
                 /\ \A u \in Visits : session'[x].by = u =>
                       pc[u] \in {"reused", "inserted", "expired"} /\ x = token[u]
                 /\ \A d \in Cleaners : session'[x].by = d => session'[x].draft = "ABSENT" /\ pc[d] # "idle"
      <3>1. CASE x = s
        BY <1>1, <1>2, <1>4, <1>5, <3>1 DEF Early, JoinPC
      <3>2. CASE x # s
        BY <1>3, <3>2 DEF IInv, Locks, SessionLocks
      <3> QED
        BY <3>1, <3>2
    <2> QED
      BY <1>1, <2>1 DEF SessionLocks
  <1>7. Expiring'
    <2>1. ASSUME NEW u \in Visits, pc[u] = "expired"
          PROVE  \/ session'[token[u]].by = u /\ session'[token[u]].draft = "EXPIRED"
                 \/ session'[token[u]].saved = "ABSENT" /\ session'[token[u]].draft = "ABSENT"
      <3>1. token[u] \in Visits
        BY <2>1 DEF IInv, TInv, Tokens, Seated, LeavePC
      <3>2. session[s].by # u
        BY <1>1, <1>4 DEF Lockable
      <3>3. CASE session[token[u]].by = u /\ session[token[u]].draft = "EXPIRED"
        BY <1>3, <3>1, <3>2, <3>3
      <3>4. CASE session[token[u]].saved = "ABSENT" /\ session[token[u]].draft = "ABSENT"
        BY <1>3, <1>5, <3>1, <3>4
      <3> QED
        BY <2>1, <3>3, <3>4 DEF IInv, Locks, Expiring
    <2> QED
      BY <1>1, <2>1 DEF Expiring
  <1>8. RoomLock' /\ Holders' \subseteq Holders
    BY <1>1, <1>5 DEF IInv, Locks, RoomLock, Holders, LiveSessions
  <1> QED
    BY <1>1, <1>6, <1>7, <1>8 DEF Kept, Locks

\* The end of a wipe, by its commit or by a failure.
LEMMA WipeEndKept ==
    ASSUME IInv, NEW c \in Cleaners, WipeCommit(c) \/ Fail(c) PROVE Kept
  <1>1. pc[c] # "idle" /\ Goto(c, "idle") /\ UNCHANGED <<token, sockets>>
    BY MembersAssumption DEF WipeCommit, Fail
  <1>2. /\ pc'[c] = "idle"
        /\ \A u \in Visits : pc'[u] = pc[u] /\ u # c
        /\ \A d \in Cleaners : d # c => pc'[d] = pc[d]
        /\ \A d \in Cleaners : d \notin Visits
        /\ c # NoTx /\ NoTx \notin Visits \cup Cleaners
        /\ room \in RoomRow
        /\ \A x \in Visits : session[x] \in SessionRow
    BY <1>1, CleanerMoves DEF IInv
  <1>3. room.by = c /\ room.draft.count = room.saved.count
    BY <1>1 DEF IInv, Locks, RoomLock
  <1>4. /\ room'.by = NoTx /\ room'.draft = room'.saved
        /\ room'.saved.count = room.saved.count
    BY <1>2, <1>3 DEF WipeCommit, Fail, RollbackAll, Rollback, Clean, RoomRow, Row
  <1>5. RoomLock'
    BY <1>2, <1>3, <1>4 DEF IInv, Locks, RoomLock
  <1>6. \A x \in Visits :
           /\ session[x].by # c => session'[x] = session[x]
           /\ session[x].by = c => /\ session'[x].by = NoTx
                                   /\ session'[x].draft = session'[x].saved
                                   /\ session'[x].saved \in {"ABSENT", session[x].saved}
           /\ session'[x].by # c
    BY <1>2 DEF WipeCommit, Fail, RollbackAll, Commit, Rollback, Clean, IInv, Locks, SessionLocks
  <1>7. SessionLocks'
    <2>1. ASSUME NEW x \in Visits
          PROVE  /\ session'[x].by = NoTx => session'[x].draft = session'[x].saved
                 /\ pc[x] \in Early \ {"inserted"} => session'[x] = Clean("ABSENT")
                 /\ pc[x] = "inserted" => session'[x] = Write(Clean("ABSENT"), x, "LIVE")
                 /\ \A u \in Visits : session'[x].by = u =>
                       pc[u] \in {"reused", "inserted", "expired"} /\ x = token[u]
                 /\ \A d \in Cleaners : session'[x].by = d => session'[x].draft = "ABSENT" /\ pc'[d] # "idle"
      <3>1. CASE session[x].by = c
        <4>1. pc[x] \notin Early
          <5>1. Clean("ABSENT").by = NoTx /\ Write(Clean("ABSENT"), x, "LIVE").by = x
            BY DEF Clean, Write
          <5> QED
            BY <1>2, <3>1, <5>1 DEF IInv, Locks, SessionLocks
        <4> QED
          BY <1>2, <1>6, <3>1, <4>1 DEF Early, JoinPC
      <3>2. CASE session[x].by # c
        <4>1. session'[x] = session[x]
          BY <1>6, <3>2
        <4> QED
          BY <1>2, <3>2, <4>1 DEF IInv, Locks, SessionLocks
      <3> QED
        BY <3>1, <3>2
    <2> QED
      BY <1>1, <1>2, <2>1 DEF SessionLocks
  <1>8. Expiring'
    <2>1. ASSUME NEW u \in Visits, pc[u] = "expired"
          PROVE  \/ session'[token[u]].by = u /\ session'[token[u]].draft = "EXPIRED"
                 \/ session'[token[u]].saved = "ABSENT" /\ session'[token[u]].draft = "ABSENT"
      <3>1. token[u] \in Visits
        BY <2>1 DEF IInv, TInv, Tokens, Seated, LeavePC
      <3> QED
        BY <1>2, <1>6, <2>1, <3>1 DEF IInv, Locks, Expiring
    <2> QED
      BY <1>1, <1>2, <2>1 DEF Expiring
  <1>9. Holders' \subseteq Holders
    BY <1>1, <1>2, <1>6 DEF Holders, LiveSessions
  <1> QED
    BY <1>4, <1>5, <1>7, <1>8, <1>9 DEF Kept, Locks

\* The faults.
LEMMA VisitFailKept == ASSUME IInv, NEW v \in Visits, Fail(v) PROVE Kept
  <1>1. pc[v] # "idle" /\ Goto(v, "failed") /\ UNCHANGED <<token, sockets>> /\ RollbackAll(v)
    BY MembersAssumption DEF Fail, JoinPC
  <1>2. Locks'
    BY <1>1, EndKeepsLocks
  <1>3. /\ pc'[v] = "failed"
        /\ \A u \in Visits : u # v => pc'[u] = pc[u]
    BY <1>1, Moves DEF IInv
  <1>4. /\ room'.saved = room.saved
        /\ \A s \in Visits : session'[s].saved = session[s].saved
    BY <1>1 DEF RollbackAll, Rollback, Clean
  <1> QED
    BY <1>1, <1>2, <1>3, <1>4 DEF Kept, Holders, LiveSessions, Seated, SocketPC, LeavePC

LEMMA LapseKept == ASSUME IInv, NEW s \in Visits, Lapse(s) PROVE Kept
  <1>1. /\ session[s] = Clean("LIVE")
        /\ session' = [session EXCEPT ![s] = Clean("EXPIRED")]
        /\ UNCHANGED <<room, token, pc, sockets>>
    BY DEF Lapse
  <1>2. /\ session'[s] = Clean("EXPIRED")
        /\ \A x \in Visits : x # s => session'[x] = session[x]
    <2>1. session \in [Visits -> SessionRow]
      BY DEF IInv, TInv, TypeOK, SessionRow
    <2> QED
      BY <1>1, <2>1
  <1>3. NoTx \notin Visits \cup Cleaners
    BY MembersAssumption DEF Txs
  <1>4. session[s].by = NoTx /\ session[s].draft = "LIVE" /\ session[s].saved = "LIVE"
    BY <1>1 DEF Clean
  <1>5. pc[s] \notin Early
    <2>1. Clean("ABSENT").saved = "ABSENT" /\ Write(Clean("ABSENT"), s, "LIVE").saved = "ABSENT"
      BY DEF Clean, Write
    <2> QED
      BY <1>4, <2>1 DEF IInv, Locks, SessionLocks
  <1>6. /\ session'[s].by = NoTx /\ session'[s].draft = session'[s].saved
        /\ session'[s].saved = "EXPIRED"
    BY <1>2 DEF Clean
  <1>7. SessionLocks'
    <2>1. ASSUME NEW x \in Visits
          PROVE  /\ session'[x].by = NoTx => session'[x].draft = session'[x].saved
                 /\ pc[x] \in Early \ {"inserted"} => session'[x] = Clean("ABSENT")
                 /\ pc[x] = "inserted" => session'[x] = Write(Clean("ABSENT"), x, "LIVE")
                 /\ \A u \in Visits : session'[x].by = u =>
                       pc[u] \in {"reused", "inserted", "expired"} /\ x = token[u]
                 /\ \A d \in Cleaners : session'[x].by = d => session'[x].draft = "ABSENT" /\ pc[d] # "idle"
      <3>1. CASE x = s
        BY <1>3, <1>5, <1>6, <3>1 DEF Early, JoinPC
      <3>2. CASE x # s
        BY <1>2, <3>2 DEF IInv, Locks, SessionLocks
      <3> QED
        BY <3>1, <3>2
    <2> QED
      BY <1>1, <2>1 DEF SessionLocks
  <1>8. Expiring'
    <2>1. ASSUME NEW u \in Visits, pc[u] = "expired" PROVE token[u] \in Visits /\ token[u] # s
      BY <1>3, <1>4, <2>1 DEF IInv, TInv, Tokens, Seated, LeavePC, Locks, Expiring
    <2> QED
      BY <1>1, <1>2, <2>1 DEF IInv, Locks, Expiring
  <1>9. RoomLock' /\ Holders' \subseteq Holders
    BY <1>1, <1>2, <1>4 DEF IInv, Locks, RoomLock, Holders, LiveSessions
  <1> QED
    BY <1>1, <1>7, <1>8, <1>9 DEF Kept, Locks

LEMMA CrashKept == ASSUME IInv, Crash PROVE Kept
  <1>1. /\ \A v \in Visits :
              pc'[v] = IF pc[v] \in {"idle", "joined", "ended"} THEN pc[v] ELSE "failed"
        /\ \A c \in Cleaners : pc'[c] = "idle"
        /\ NoTx \notin Visits \cup Cleaners /\ sockets' = {}
    BY MembersAssumption DEF Crash, Txs
  <1>2. room' = Clean(room.saved)
    BY DEF Crash
  <1>3. /\ room'.by = NoTx /\ room'.draft = room'.saved /\ room'.saved = room.saved
        /\ \A s \in Visits : /\ session'[s].by = NoTx /\ session'[s].draft = session'[s].saved
                             /\ session'[s].saved = session[s].saved
                             /\ session'[s] = Clean(session[s].saved)
    BY DEF Crash, Clean
  <1>4. RoomLock'
    BY <1>1, <1>3 DEF RoomLock
  <1>5. SessionLocks'
    <2>1. ASSUME NEW s \in Visits, pc'[s] \in Early
          PROVE  pc'[s] = "idle" /\ session'[s] = Clean("ABSENT")
      <3>1. pc[s] = "idle" /\ pc'[s] = "idle"
        BY <1>1, <2>1 DEF Early, JoinPC
      <3>2. session[s] = Clean("ABSENT")
        BY <3>1 DEF IInv, Locks, SessionLocks, Early
      <3> QED
        BY <1>3, <3>1, <3>2 DEF Clean
    <2>2. "inserted" \in Early
      BY DEF Early, JoinPC
    <2> QED
      BY <1>1, <1>3, <2>1, <2>2 DEF SessionLocks
  <1>6. Expiring'
    BY <1>1 DEF Expiring
  <1>7. Holders' \subseteq Holders
    BY <1>1, <1>3 DEF Holders, LiveSessions, Seated, SocketPC, LeavePC
  <1> QED
    BY <1>3, <1>4, <1>5, <1>6, <1>7 DEF Kept, Locks

LEMMA InitHolds == ASSUME Init PROVE IInv
  <1>1. TInv
    BY InitTypes
  <1>2. /\ \A v \in Visits : pc[v] = IF v = Owner THEN "joined" ELSE "idle"
        /\ \A c \in Cleaners : pc[c] = "idle" /\ todo[c] = {}
        /\ NoTx \notin Visits \cup Cleaners
    BY MembersAssumption DEF Init, Txs
  <1>3. room = Clean([status |-> "ACTIVE", count |-> 1])
    BY DEF Init
  <1>4. RoomLock
    BY <1>2, <1>3 DEF RoomLock, Clean
  <1>5. SessionLocks
    <2>1. \A s \in Visits : session[s] = Clean(IF s = Owner THEN "LIVE" ELSE "ABSENT")
      BY DEF Init
    <2>2. \A s \in Visits : session[s].by = NoTx /\ session[s].draft = session[s].saved
      <3>1. \A x : Clean(x).by = NoTx /\ Clean(x).draft = Clean(x).saved
        BY DEF Clean
      <3> QED
        BY <2>1, <3>1
    <2>3. \A s \in Visits : s # Owner => session[s] = Clean("ABSENT")
      BY <2>1
    <2>4. "joined" \notin Early /\ "inserted" # "joined" /\ "inserted" # "idle"
      BY DEF Early, JoinPC
    <2> QED
      BY <1>2, <2>2, <2>3, <2>4 DEF SessionLocks
  <1>6. Expiring /\ Borrowed /\ WipesCommitted
    <2>1. \A v \in Visits : token[v] = IF v = Owner THEN Owner ELSE NoSession
      BY DEF Init
    <2>2. Borrowed
      BY <2>1, MembersAssumption DEF Borrowed
    <2> QED
      BY <1>2, <2>2 DEF Expiring, WipesCommitted
  <1>7. Counted
    <2>1. Holders = {Owner}
      <3>1. \A s \in Visits : session[s].saved = IF s = Owner THEN "LIVE" ELSE "ABSENT"
        BY DEF Init, Clean
      <3>2. LiveSessions = {Owner}
        BY <3>1, MembersAssumption DEF LiveSessions
      <3>3. "joined" \in Seated /\ "idle" \notin Seated
        BY DEF Seated, SocketPC, LeavePC
      <3>4. {v \in Visits : pc[v] \in Seated} = {Owner}
        BY <1>2, <3>3, MembersAssumption
      <3> QED
        BY <3>2, <3>4 DEF Holders, Init
    <2>2. Cardinality({Owner}) = 1
      BY FS_Singleton
    <2> QED
      BY <1>3, <2>1, <2>2 DEF Counted, Clean
  <1> QED
    BY <1>1, <1>4, <1>5, <1>6, <1>7 DEF IInv, Locks

LEMMA StepKeeps == ASSUME IInv, [Next]_vars PROVE IInv'
  <1>1. TInv' /\ Borrowed' /\ WipesCommitted'
    BY StepTypes, BorrowedKept, WipesCommittedKept DEF IInv, Locks
  <1>2. Kept => Locks' /\ Counted'
    BY CountKept DEF Kept
  <1>3. ASSUME NEW v \in Visits, Join(v) PROVE Locks' /\ Counted'
    <2>1. CASE JoinCommit(v)
      BY <2>1, JoinCommitKept
    <2> QED
      BY <1>2, <1>3, <2>1, JoinQuiet, ReuseKept, ClaimKept, CreateKept DEF Join
  <1>4. ASSUME NEW v \in Visits, Socket(v) \/ ChatFails(v) PROVE Locks' /\ Counted'
    BY <1>2, <1>4, SocketQuiet
  <1>5. ASSUME NEW v \in Visits, Leave(v) PROVE Locks' /\ Counted'
    <2>1. CASE LeaveCommit(v)
      BY <2>1, LeaveCommitKept
    <2> QED
      BY <1>2, <1>5, <2>1, LeaveQuiet, ClaimKept, ExpireKept DEF Leave
  <1>6. ASSUME NEW v \in Visits, Lapse(v) PROVE Locks' /\ Counted'
    BY <1>2, <1>6, LapseKept
  <1>7. ASSUME NEW c \in Cleaners, Wipe(c) PROVE Locks' /\ Counted'
    BY <1>2, <1>7, MarkKept, DeleteSessionKept, WipeEndKept DEF Wipe
  <1>8. ASSUME NEW p \in Txs, Fail(p) PROVE Locks' /\ Counted'
    BY <1>2, <1>8, VisitFailKept, WipeEndKept DEF Txs
  <1>9. CASE Crash
    BY <1>1, <1>2, <1>9, CrashKept DEF IInv
  <1>10. CASE UNCHANGED vars
    BY <1>10, <1>1
    DEF vars, rows, IInv, Locks, RoomLock, SessionLocks, Expiring, Counted, NoReuse, Holders, LiveSessions
  <1> QED
    BY <1>1, <1>3, <1>4, <1>5, <1>6, <1>7, <1>8, <1>9, <1>10 DEF Next, IInv

\* As long as no browser is given the session of its cookie again, the slots
\* that are taken are at least as many as the live sessions: the slot and the
\* session are committed together by a join and given up together by a leave,
\* and neither a wipe nor a fault takes a slot from a session.
THEOREM LiveSessionsHaveSlots == Spec => []EveryoneCounted
  <1>1. Init => IInv
    BY InitHolds
  <1>2. IInv /\ [Next]_vars => IInv'
    BY StepKeeps
  <1>3. IInv => EveryoneCounted
    <2>1. ASSUME IInv, NoReuse PROVE Cardinality(LiveSessions) <= room.saved.count
      <3>1. IsFiniteSet(Holders)
        BY <2>1, HoldersFinite DEF IInv
      <3>2. Cardinality(LiveSessions) <= Cardinality(Holders) /\ IsFiniteSet(LiveSessions)
        BY <3>1, FS_Subset DEF Holders
      <3>3. Cardinality(LiveSessions) \in Nat /\ Cardinality(Holders) \in Nat
        BY <3>1, <3>2, FS_CardinalityType
      <3>4. room.saved.count \in Nat /\ Cardinality(Holders) <= room.saved.count
        BY <2>1, MembersAssumption DEF IInv, TInv, TypeOK, Row, Counted
      <3> QED
        BY <3>2, <3>3, <3>4
    <2> QED
      BY <2>1 DEF EveryoneCounted
  <1> QED
    BY <1>1, <1>2, <1>3, PTL DEF Spec

\* "Maximum of 10 people per room" (Plan.md) fails for one reason only: as long
\* as no browser is given the session of its cookie again, no more people are
\* connected than max_users, in spite of lapsed sessions, crashes and wipes.
THEOREM RoomIsNeverOverfull == Spec => [](NoReuse => PeopleWithinCapacity)
  <1>1. IInv => (NoReuse => PeopleWithinCapacity)
    <2>1. ASSUME IInv, NoReuse PROVE Cardinality(Connected) <= MaxUsers
      <3>1. Connected \subseteq Holders
        <4>1. \A v \in sockets : v \in Visits /\ token[v] = v
          BY <2>1, MembersAssumption DEF IInv, TInv, TypeOK, Tokens, NoReuse, SocketPC
        <4> QED
          BY <4>1 DEF Connected, Holders
      <3>2. IsFiniteSet(Holders) /\ Cardinality(Holders) \in Nat
        BY <2>1, HoldersFinite DEF IInv
      <3>3. Cardinality(Connected) <= Cardinality(Holders) /\ Cardinality(Connected) \in Nat
        BY <3>1, <3>2, FS_Subset, FS_CardinalityType
      <3>4. room.saved.count \in 0..MaxUsers /\ Cardinality(Holders) <= room.saved.count
        BY <2>1 DEF IInv, TInv, TypeOK, Row, Counted
      <3> QED
        BY <3>2, <3>3, <3>4, MembersAssumption
    <2> QED
      BY <2>1 DEF PeopleWithinCapacity
  <1> QED
    BY <1>1, InitHolds, StepKeeps, PTL DEF Spec
=============================================================================
