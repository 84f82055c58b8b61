--------------------------- MODULE RoomPagesProofs ---------------------------
(***************************************************************************)
(* Proofs about what the pages of RoomMembers show, for any number of      *)
(* visits, browsers and cleaners: nobody who has left, and no message that *)
(* is not stored; about the slots: each of them is somebody's who is still *)
(* on their way in or out, or at a page, unless a fault took it; and about *)
(* the messages a wipe leaves behind.                                      *)
(***************************************************************************)
EXTENDS RoomMembersProofs

-----------------------------------------------------------------------------
(***************************************************************************)
(* Members.                                                                *)
(***************************************************************************)
\* A page with somebody on it is connected and has had its ROOM_STATE.
PagesOpen == \A c \in Visits : page[c].members # {} => c \in sockets /\ HasState(c)

\* A handler that has called manager.connect, and not disconnect, is registered.
HandlersRegistered == \A v \in Visits : pc[v] \in SocketPC \ {"authed"} => v \in sockets

\* USER_LEFT for session s is on its way from handler u to the page c.
LeftIsDue(u, s, c) ==
    pc[u] \in {"leaving", "doomed"} /\ token[u] = s /\ token[c] \in todo[u]

\* Whoever a page shows is in the registry, or USER_LEFT is on its way.
ShownAreRegistered == \A c \in Visits : \A s \in page[c].members :
    s \in Registered \/ \E v \in Visits : LeftIsDue(v, s, c)

GInv == TInv /\ PagesOpen /\ HandlersRegistered /\ ShownAreRegistered

\* A step that registers and unregisters nobody, puts nobody on a page and
\* leaves every USER_LEFT on its way that is not delivered.
LEMMA GhostsQuiet ==
    ASSUME GInv, UNCHANGED sockets,
           \A c \in Visits : page'[c].members \subseteq page[c].members,
           \A c \in Visits : page'[c].members # {} /\ HasState(c) => HasState(c)',
           \A u \in Visits : pc[u] \in {"leaving", "doomed"} /\ todo[u] # {} =>
               pc'[u] = pc[u] /\ todo'[u] = todo[u],
           \A u \in Visits : u \in sockets \/ pc[u] \in {"leaving", "doomed"} => token'[u] = token[u],
           \A u \in Visits : pc'[u] \in SocketPC \ {"authed"} => pc[u] \in SocketPC \ {"authed"}
    PROVE  PagesOpen' /\ HandlersRegistered' /\ ShownAreRegistered'
  <1>1. PagesOpen'
    BY DEF GInv, PagesOpen
  <1>2. HandlersRegistered'
    BY DEF GInv, HandlersRegistered
  <1>3. Registered' = Registered
    BY DEF Registered, GInv, TInv, TypeOK
  <1>4. ASSUME NEW c \in Visits, NEW s \in page'[c].members
        PROVE  s \in Registered' \/ \E u \in Visits : LeftIsDue(u, s, c)'
    <2>1. s \in page[c].members /\ c \in sockets
      BY <1>4 DEF GInv, PagesOpen
    <2>2. CASE s \in Registered
      BY <1>3, <2>2
    <2>3. CASE s \notin Registered
      <3>1. PICK u \in Visits : LeftIsDue(u, s, c)
        BY <2>1, <2>3 DEF GInv, ShownAreRegistered, LeftIsDue
      <3>2. LeftIsDue(u, s, c)'
        BY <2>1, <3>1 DEF LeftIsDue
      <3> QED
        BY <3>2
    <2> QED
      BY <2>2, <2>3
  <1>5. ShownAreRegistered'
    BY <1>4 DEF ShownAreRegistered, LeftIsDue
  <1> QED
    BY <1>1, <1>2, <1>5

\* The steps of one handler that are quiet.
LEMMA HandlerQuiet ==
    ASSUME GInv, NEW v \in Visits, NEW l,
           Goto(v, l), UNCHANGED sockets,
           UNCHANGED page \/ page' = [page EXCEPT ![v] = Nothing],
           \A u \in Visits : u # v => todo'[u] = todo[u],
           \A u \in Visits : u # v => token'[u] = token[u],
           token'[v] = token[v] \/ pc[v] \in Early,
           pc[v] \in {"leaving", "doomed"} => todo[v] = {},
           l \in SocketPC \ {"authed"} => pc[v] \in SocketPC \ {"authed"},
           HasState(v) => page'[v] = Nothing \/ l \in {"stated", "open", "posting", "posted", "published"}
    PROVE  PagesOpen' /\ HandlersRegistered' /\ ShownAreRegistered'
  <1>1. /\ pc'[v] = l
        /\ \A u \in Visits : u # v => pc'[u] = pc[u]
    BY DEF Goto, GInv, TInv, TypeOK, Txs
  <1>2. (v \notin sockets /\ pc[v] \notin {"leaving", "doomed"}) \/ token'[v] = token[v]
    BY DEF GInv, TInv, Tokens, Early, JoinPC, SocketPC
  <1>3. \A c \in Visits : page'[c].members \subseteq page[c].members
    BY DEF Nothing, GInv, TInv, TypeOK
  <1>4. \A c \in Visits : page'[c].members # {} /\ HasState(c) => HasState(c)'
    BY <1>1 DEF HasState, Nothing
  <1> QED
    BY <1>1, <1>2, <1>3, <1>4, GhostsQuiet

LEMMA JoinGhosts == ASSUME GInv, NEW v \in Visits, Join(v) PROVE PagesOpen' /\ HandlersRegistered' /\ ShownAreRegistered'
  <1>1. PICK l \in JoinPC \cup {"ended", "failed", "joined"} : Goto(v, l)
    BY DEF Join, JoinBegin, JoinRefused, LookupFinds, LookupFindsNone, Reuse, ReuseFails, Claim,
           RoomFull, CreateSession, JoinCommit, JoinPC
  <1>2. pc[v] \in Early /\ UNCHANGED <<sockets, page, todo>>
    BY DEF Join, JoinBegin, JoinRefused, LookupFinds, LookupFindsNone, Reuse, ReuseFails, Claim,
           RoomFull, CreateSession, JoinCommit, JoinPC, Early
  <1>3. \A u \in Visits : u # v => token'[u] = token[u]
    BY DEF Join, JoinBegin, JoinRefused, LookupFinds, LookupFindsNone, Reuse, ReuseFails, Claim,
           RoomFull, CreateSession, JoinCommit, GInv, TInv, TypeOK
  <1>4. l \notin SocketPC /\ pc[v] \notin {"leaving", "doomed"} /\ ~HasState(v)
    BY <1>2 DEF JoinPC, SocketPC, Early, HasState
  <1> QED
    BY <1>1, <1>2, <1>3, <1>4, HandlerQuiet

\* Connect makes nobody look gone.
LEMMA ConnectGhosts == ASSUME GInv, NEW v \in Visits, Connect(v) PROVE PagesOpen' /\ HandlersRegistered' /\ ShownAreRegistered'
  <1>1. /\ pc[v] = "authed" /\ pc'[v] = "registered"
        /\ \A u \in Visits : u # v => pc'[u] = pc[u]
        /\ sockets' = sockets \cup {v}
        /\ UNCHANGED <<token, todo, page>>
    BY DEF Connect, Goto, GInv, TInv, TypeOK, Txs
  <1>2. PagesOpen'
    BY <1>1 DEF GInv, PagesOpen, HasState
  <1>3. HandlersRegistered'
    BY <1>1 DEF GInv, HandlersRegistered
  <1>4. Registered \subseteq Registered'
    BY <1>1 DEF Registered
  <1>5. ShownAreRegistered'
    BY <1>1, <1>4 DEF GInv, ShownAreRegistered, LeftIsDue
  <1> QED
    BY <1>2, <1>3, <1>5

\* ROOM_STATE shows those who are registered when it is sent.
LEMMA SendStateGhosts == ASSUME GInv, NEW v \in Visits, SendState(v) PROVE PagesOpen' /\ HandlersRegistered' /\ ShownAreRegistered'
  <1>1. /\ pc[v] = "ready" /\ pc'[v] = "stated"
        /\ \A u \in Visits : u # v => pc'[u] = pc[u] /\ page'[u] = page[u]
        /\ UNCHANGED <<token, todo, sockets>>
    BY DEF SendState, Goto, GInv, TInv, TypeOK, Txs
  <1>2. page'[v].members \subseteq Registered
    BY DEF SendState, Present, GInv, TInv, TypeOK, Shown
  <1>3. v \in sockets
    BY <1>1 DEF GInv, HandlersRegistered, SocketPC
  <1>4. PagesOpen'
    BY <1>1, <1>3 DEF GInv, PagesOpen, HasState
  <1>5. HandlersRegistered'
    BY <1>1, <1>3 DEF GInv, HandlersRegistered
  <1>6. Registered' = Registered
    BY <1>1 DEF Registered
  <1>7. ShownAreRegistered'
    BY <1>1, <1>2, <1>6 DEF GInv, ShownAreRegistered, LeftIsDue
  <1> QED
    BY <1>4, <1>5, <1>7

\* USER_JOINED comes from somebody registered, and USER_LEFT takes its sender
\* off every page it reaches.
LEMMA DeliverGhosts == ASSUME GInv, NEW v \in Visits, Deliver(v) PROVE PagesOpen' /\ HandlersRegistered' /\ ShownAreRegistered'
  <1>1. PICK s \in todo[v] :
           /\ page' = [c \in Visits |->
                          IF c \in sockets /\ token[c] = s /\ HasState(c)
                            THEN Handled(v, c) ELSE page[c]]
           /\ todo' = [todo EXCEPT ![v] = @ \ {s}]
           /\ UNCHANGED <<token, sockets, pc>>
    BY DEF Deliver
  <1>2. \A c \in Visits : HasState(c)' <=> HasState(c)
    BY <1>1 DEF HasState
  <1>3. PagesOpen'
    BY <1>1, <1>2 DEF GInv, PagesOpen
  <1>4. HandlersRegistered'
    BY <1>1 DEF GInv, HandlersRegistered
  <1>5. Registered' = Registered
    BY <1>1 DEF Registered
  <1>6. /\ todo'[v] = todo[v] \ {s}
        /\ \A u \in Visits : u # v => todo'[u] = todo[u]
    BY <1>1 DEF GInv, TInv, TypeOK, Txs
  <1>7. ASSUME NEW c \in Visits, NEW x \in page'[c].members
        PROVE  x \in Registered \/ \E u \in Visits : LeftIsDue(u, x, c)'
    <2>1. CASE x \notin page[c].members
      <3>1. pc[v] = "open" /\ x = token[v]
        <4>1. page[c] \in Shown /\ page'[c] = Handled(v, c)
          BY <1>1, <1>7, <2>1 DEF GInv, TInv, TypeOK
        <4> QED
          BY <1>7, <2>1, <4>1 DEF Handled, Shown
      <3> QED
        BY <3>1 DEF GInv, HandlersRegistered, SocketPC, Registered
    <2>2. CASE x \in page[c].members /\ x \notin Registered
      <3>1. PICK u \in Visits : LeftIsDue(u, x, c)
        BY <2>2 DEF GInv, ShownAreRegistered, LeftIsDue
      <3>2. CASE u # v \/ token[c] # s
        BY <1>1, <1>6, <3>1, <3>2 DEF LeftIsDue
      <3>3. CASE u = v /\ token[c] = s
        <4>1. page[c] \in Shown /\ page'[c] = Handled(v, c)
          BY <1>1, <2>2, <3>3 DEF GInv, PagesOpen, TInv, TypeOK
        <4>2. x \notin page'[c].members
          BY <3>1, <3>3, <4>1 DEF Handled, Shown, LeftIsDue
        <4> QED
          BY <1>7, <4>2
      <3> QED
        BY <3>2, <3>3
    <2> QED
      BY <2>1, <2>2
  <1>8. ShownAreRegistered'
    BY <1>5, <1>7 DEF ShownAreRegistered, LeftIsDue
  <1> QED
    BY <1>3, <1>4, <1>8

\* Whoever leaves the registry as the last of a session has USER_LEFT on its way
\* to all who are in it then, for there is no await in between.
LEMMA DisconnectGhosts ==
    ASSUME GInv, NEW v \in Visits, NEW l \in {"leaving", "doomed"}, Disconnect(v, l),
           pc[v] \notin {"leaving", "doomed"}
    PROVE  PagesOpen' /\ HandlersRegistered' /\ ShownAreRegistered'
  <1> DEFINE remaining == {token[u] : u \in sockets \ {v}}
  <1>1. /\ sockets' = sockets \ {v} /\ UNCHANGED token
        /\ page'[v].members = {}
        /\ \A c \in Visits : c # v => page'[c] = page[c]
    BY DEF Disconnect, Nothing, GInv, TInv, TypeOK
  <1>2. /\ pc'[v] \in {"ended", l}
        /\ \A u \in Visits : u # v => pc'[u] = pc[u] /\ todo'[u] = todo[u]
        /\ token[v] \notin remaining => pc'[v] = l /\ todo'[v] = remaining
    BY DEF Disconnect, Goto, GInv, TInv, TypeOK, Txs
  <1>3. Registered' = remaining
    BY <1>1 DEF Registered
  <1>4. PagesOpen'
    BY <1>1, <1>2 DEF GInv, PagesOpen, HasState
  <1>5. HandlersRegistered'
    BY <1>1, <1>2 DEF GInv, HandlersRegistered, SocketPC
  <1>6. ASSUME NEW c \in Visits, NEW x \in page'[c].members
        PROVE  x \in remaining \/ \E u \in Visits : LeftIsDue(u, x, c)'
    <2>1. c # v /\ x \in page[c].members /\ c \in sockets
      BY <1>1, <1>6 DEF GInv, PagesOpen
    <2>2. CASE x \in Registered /\ x \notin remaining
      <3>1. x = token[v] /\ token[c] \in remaining
        BY <2>1, <2>2 DEF Registered
      <3>2. LeftIsDue(v, x, c)'
        BY <1>1, <1>2, <2>2, <3>1 DEF LeftIsDue
      <3> QED
        BY <3>2
    <2>3. CASE x \notin Registered
      <3>1. PICK u \in Visits : LeftIsDue(u, x, c)
        BY <2>1, <2>3 DEF GInv, ShownAreRegistered, LeftIsDue
      <3>2. LeftIsDue(u, x, c)'
        BY <1>1, <1>2, <3>1 DEF LeftIsDue
      <3> QED
        BY <3>2
    <2> QED
      BY <2>2, <2>3
  <1>7. ShownAreRegistered'
    BY <1>3, <1>6 DEF ShownAreRegistered, LeftIsDue
  <1> QED
    BY <1>4, <1>5, <1>7

LEMMA SocketGhosts == ASSUME GInv, NEW v \in Visits, Socket(v) PROVE PagesOpen' /\ HandlersRegistered' /\ ShownAreRegistered'
  <1>1. CASE Connect(v)
    BY <1>1, ConnectGhosts
  <1>2. CASE SendState(v)
    BY <1>2, SendStateGhosts
  <1>3. CASE Deliver(v)
    BY <1>3, DeliverGhosts
  <1>4. CASE ~Connect(v) /\ ~SendState(v) /\ ~Deliver(v)
    <2>1. PICK l \in {"authed", "ended", "listed", "ready", "open", "posting", "failed", "posted", "published"} :
             /\ Goto(v, l)
             /\ l \in SocketPC \ {"authed"} => pc[v] \in SocketPC \ {"authed"}
             /\ HasState(v) => page'[v] = Nothing \/ l \in {"stated", "open", "posting", "posted", "published"}
             /\ pc[v] \notin {"leaving", "doomed"}
      BY <1>4 DEF Socket, Auth, AuthRefused, ListSessions, ListMessages, AnnounceJoin, Post, PostFails,
                  PostCommit, Publish, Receiving, HasState, SocketPC, GInv, TInv, TypeOK
    <2>2. UNCHANGED <<sockets, token>>
      BY <1>4 DEF Socket, Auth, AuthRefused, ListSessions, ListMessages, AnnounceJoin, Post, PostFails,
                  PostCommit, Publish
    <2>3. UNCHANGED page \/ page' = [page EXCEPT ![v] = Nothing]
      BY <1>4 DEF Socket, Auth, AuthRefused, ListSessions, ListMessages, AnnounceJoin, Post, PostFails,
                  PostCommit, Publish
    <2>4. \A u \in Visits : u # v => todo'[u] = todo[u]
      <3>1. \E x : todo' = todo \/ todo' = [todo EXCEPT ![v] = x]
        BY <1>4 DEF Socket, Auth, AuthRefused, ListSessions, ListMessages, AnnounceJoin, Post, PostFails,
                    PostCommit, Publish
      <3> QED
        BY <3>1 DEF GInv, TInv, TypeOK, Txs
    <2> QED
      BY <2>1, <2>2, <2>3, <2>4, HandlerQuiet
  <1> QED
    BY <1>1, <1>2, <1>3, <1>4

LEMMA LeaveGhosts ==
    ASSUME GInv, NEW v \in Visits, Leave(v) \/ ChatFails(v)
    PROVE  PagesOpen' /\ HandlersRegistered' /\ ShownAreRegistered'
  <1>1. CASE Close(v)
    BY <1>1, DisconnectGhosts DEF Close, Receiving
  <1>2. CASE ReadFails(v)
    BY <1>2, DisconnectGhosts DEF ReadFails
  <1>3. CASE ~Close(v) /\ ~ReadFails(v)
    <2>1. PICK l \in {"uncounted", "expired", "ended", "failed"} :
             /\ Goto(v, l)
             /\ pc[v] \in {"leaving", "doomed"} => todo[v] = {}
             /\ HasState(v) => page'[v] = Nothing
      BY <1>3 DEF Leave, Uncount, ExpireSession, LeaveCommit, UncountFails, ChatFails, HasState,
                  GInv, TInv, TypeOK
    <2>2. UNCHANGED <<sockets, token, todo>> /\ (UNCHANGED page \/ page' = [page EXCEPT ![v] = Nothing])
      BY <1>3 DEF Leave, Uncount, ExpireSession, LeaveCommit, UncountFails, ChatFails
    <2>3. l \notin SocketPC
      BY DEF SocketPC
    <2> QED
      BY <2>1, <2>2, <2>3, HandlerQuiet
  <1> QED
    BY <1>1, <1>2, <1>3 DEF Leave

\* Cleaners, faults and stuttering steps leave members alone.
LEMMA OtherGhosts ==
    ASSUME GInv,
           \/ \E c \in Cleaners : Wipe(c)
           \/ \E v \in Visits : Lapse(v)
           \/ \E p \in Txs : Fail(p)
           \/ UNCHANGED vars
    PROVE  PagesOpen' /\ HandlersRegistered' /\ ShownAreRegistered'
  <1>1. UNCHANGED <<sockets, token, page>>
    BY DEF Wipe, MarkRoom, DeleteMessages, DeleteSessions, DeleteSession, WipeCommit, Lapse, Fail, vars
  <1>2. ASSUME NEW u \in Visits
        PROVE  \/ pc'[u] = pc[u] /\ todo'[u] = todo[u]
               \/ /\ pc'[u] = "failed" /\ ~HasState(u)
                  /\ pc[u] \in {"leaving", "doomed"} => todo[u] = {}
    <2>1. CASE \E c \in Cleaners : Wipe(c)
      BY <2>1, MembersAssumption
      DEF Wipe, MarkRoom, DeleteMessages, DeleteSessions, DeleteSession, WipeCommit, Goto,
          GInv, TInv, TypeOK, Txs
    <2>2. CASE \E v \in Visits : Lapse(v)
      BY <2>2 DEF Lapse
    <2>3. CASE \E p \in Txs : Fail(p)
      BY <2>3, MembersAssumption DEF Fail, Goto, HasState, JoinPC, GInv, TInv, TypeOK, Txs
    <2>4. CASE UNCHANGED vars
      BY <2>4 DEF vars
    <2> QED
      BY <2>1, <2>2, <2>3, <2>4
  <1>3. \A c \in Visits : page'[c].members # {} /\ HasState(c) => HasState(c)'
    BY <1>2 DEF HasState
  <1> QED
    BY <1>1, <1>2, <1>3, GhostsQuiet DEF SocketPC

LEMMA CrashGhosts == ASSUME GInv, Crash PROVE PagesOpen' /\ HandlersRegistered' /\ ShownAreRegistered'
  <1>1. \A c \in Visits : page'[c].members = {}
    BY DEF Crash, Nothing
  <1>2. \A v \in Visits : pc'[v] \in {"idle", "joined", "ended", "failed"}
    BY DEF Crash, Txs
  <1> QED
    BY <1>1, <1>2 DEF PagesOpen, HandlersRegistered, ShownAreRegistered, SocketPC

LEMMA GhostsKept ==
    /\ Init => GInv
    /\ GInv /\ [Next]_vars => GInv'
  <1>1. Init => GInv
    <2>1. Init => TInv
      BY InitTypes
    <2>2. Init => PagesOpen /\ ShownAreRegistered
      BY DEF Init, PagesOpen, ShownAreRegistered, Nothing
    <2>3. Init => HandlersRegistered
      BY DEF Init, HandlersRegistered, SocketPC, Txs
    <2> QED
      BY <2>1, <2>2, <2>3 DEF GInv
  <1>2. GInv /\ [Next]_vars => GInv'
    <2> SUFFICES ASSUME GInv, [Next]_vars PROVE GInv'
      OBVIOUS
    <2>1. TInv'
      BY StepTypes DEF GInv
    <2>2. PagesOpen' /\ HandlersRegistered' /\ ShownAreRegistered'
      BY JoinGhosts, SocketGhosts, LeaveGhosts, OtherGhosts, CrashGhosts DEF Next
    <2> QED
      BY <2>1, <2>2 DEF GInv
  <1> QED
    BY <1>1, <1>2

-----------------------------------------------------------------------------
(***************************************************************************)
(* Messages.                                                               *)
(***************************************************************************)
\* A room that is over stays so: nobody who holds its row makes it anything else.
OverForGood == room.saved.status = "DELETED" =>
    room.draft.status = "DELETED" /\ \A c \in Cleaners : pc[c] = "idle"

\* Where a visit has not committed its message.
Unposted == Early \cup {"joined", "authed", "registered", "listed", "ready", "stated", "open", "posting"}

\* Who writes the row of a message: its sender while posting, and a cleaner once
\* it is committed.
MessageLocks == \A m \in Visits :
    /\ \A v \in Visits : message[m].by = v =>
          v = m /\ pc[m] = "posting" /\ message[m].draft = "STORED"
    /\ pc[m] = "posting" => message[m].by = m
    /\ pc[m] \in Unposted => message[m].saved = "ABSENT"
    /\ \A c \in Cleaners : message[m].by = c => pc[m] \notin Unposted

Stored(m) == message[m].saved = "STORED" \/ room.saved.status = "DELETED"

\* Whatever has been read for a page or sent is stored.
ReadIsStored == \A c \in Visits : \A m \in listed[c].messages : Stored(m)
SentIsStored == \A v \in Visits : pc[v] \in {"posted", "published"} => Stored(v)

SInv == IInv /\ OverForGood /\ MessageLocks /\ ReadIsStored /\ SentIsStored /\ ShownIsStored

\* The room's row.
LEMMA OverKept ==
    ASSUME IInv, OverForGood, [Next]_vars
    PROVE  OverForGood' /\ (room.saved.status = "DELETED" => room'.saved.status = "DELETED")
  <1>0. /\ RoomLock /\ room \in RoomRow
        /\ pc \in [Txs -> VisitPC \cup CleanerPC]
    BY DEF IInv, Locks, TInv, TypeOK, RoomRow
  <1> DEFINE Lasts == OverForGood' /\ (room.saved.status = "DELETED" => room'.saved.status = "DELETED")
  <1>1. ASSUME room' = room, \A c \in Cleaners : pc[c] = "idle" => pc'[c] = "idle"
        PROVE  Lasts
    BY <1>1 DEF OverForGood
  <1>2. ASSUME NEW v \in Visits, CommitAll(v) \/ RollbackAll(v), \A c \in Cleaners : pc'[c] = pc[c]
        PROVE  Lasts
    <2>1. CASE room' = room
      BY <1>1, <1>2, <2>1
    <2>2. CASE room.by = v
      <3>1. \A c \in Cleaners : pc[c] = "idle"
        BY <1>0, <2>2, MembersAssumption DEF RoomLock
      <3>2. room' \in {Clean(room.draft), Clean(room.saved)}
        BY <1>2, <2>2 DEF CommitAll, RollbackAll, Commit, Rollback
      <3> QED
        BY <1>2, <3>1, <3>2 DEF OverForGood, Clean
    <2> QED
      BY <1>2, <2>1, <2>2 DEF CommitAll, RollbackAll, Commit, Rollback
  <1>3. ASSUME NEW v \in Visits, Join(v) \/ Socket(v) \/ Leave(v) \/ ChatFails(v) \/ Lapse(v) PROVE Lasts
    <2>1. \A c \in Cleaners : pc'[c] = pc[c]
      BY <1>0, <1>3, MembersAssumption
      DEF Join, JoinBegin, JoinRefused, LookupFinds, LookupFindsNone, Reuse, ReuseFails, Claim,
          RoomFull, CreateSession, JoinCommit, Socket, Auth, AuthRefused, Connect, ListSessions,
          ListMessages, SendState, AnnounceJoin, Deliver, Post, PostFails, PostCommit, Publish,
          Leave, Close, Uncount, ExpireSession, LeaveCommit, ReadFails, UncountFails, Disconnect,
          ChatFails, Lapse, Goto, Txs
    <2>2. CASE Claim(v) \/ Uncount(v)
      <3>1. room'.saved = room.saved /\ room'.draft.status = room.draft.status
        BY <1>0, <2>2 DEF Claim, Uncount, Write, RoomRow, Row
      <3> QED
        BY <2>1, <3>1 DEF OverForGood
    <2>3. CASE CommitAll(v) \/ RollbackAll(v)
      BY <1>2, <2>1, <2>3
    <2>4. CASE room' = room
      BY <1>1, <2>1, <2>4
    <2> QED
      BY <1>3, <2>2, <2>3, <2>4
      DEF Join, JoinBegin, JoinRefused, LookupFinds, LookupFindsNone, Reuse, ReuseFails,
          RoomFull, CreateSession, JoinCommit, Socket, Auth, AuthRefused, Connect, ListSessions,
          ListMessages, SendState, AnnounceJoin, Deliver, Post, PostFails, PostCommit, Publish,
          Leave, Close, ExpireSession, LeaveCommit, ReadFails, UncountFails, Disconnect,
          ChatFails, Lapse, rows
  <1>4. ASSUME NEW c \in Cleaners, Wipe(c) PROVE Lasts
    <2>1. CASE MarkRoom(c)
      <3>1. room.by = NoTx
        BY <1>0, <2>1, MembersAssumption DEF MarkRoom, Lockable, RoomLock, Txs
      <3>2. room.saved.status = "ACTIVE" /\ room'.saved = room.saved
        BY <1>0, <2>1, <3>1 DEF MarkRoom, RoomLock, Write
      <3> QED
        BY <3>2 DEF OverForGood
    <2>2. CASE WipeCommit(c)
      <3>1. \A d \in Cleaners : d # c => pc[d] = "idle"
        BY <1>0, <2>2 DEF WipeCommit, RoomLock
      <3>2. \A d \in Cleaners : pc'[d] = "idle"
        BY <1>0, <2>2, <3>1 DEF WipeCommit, Goto, Txs
      <3> QED
        BY <1>0, <2>2, <3>2 DEF WipeCommit, OverForGood, Clean, RoomRow, Row
    <2>3. CASE DeleteMessages(c) \/ DeleteSessions(c) \/ DeleteSession(c)
      <3>1. room' = room
        BY <2>3 DEF DeleteMessages, DeleteSessions, DeleteSession, rows
      <3>2. \A d \in Cleaners : pc[d] = "idle" => pc'[d] = "idle"
        BY <1>0, <2>3 DEF DeleteMessages, DeleteSessions, DeleteSession, Goto, Txs
      <3> QED
        BY <1>1, <3>1, <3>2
    <2> QED
      BY <1>4, <2>1, <2>2, <2>3 DEF Wipe
  <1>5. ASSUME NEW p \in Txs, Fail(p) PROVE Lasts
    <2>1. \A c \in Cleaners : pc[c] = "idle" => pc'[c] = "idle"
      BY <1>0, <1>5, MembersAssumption DEF Fail, Goto, Txs
    <2>2. CASE room.by = p
      <3>1. room' = Clean(room.saved)
        BY <1>5, <2>2 DEF Fail, RollbackAll, Rollback
      <3> QED
        BY <2>1, <3>1 DEF OverForGood, Clean
    <2>3. CASE room.by # p
      BY <1>1, <1>5, <2>1, <2>3 DEF Fail, RollbackAll, Rollback
    <2> QED
      BY <2>2, <2>3
  <1>6. CASE Crash
    <2>1. \A c \in Cleaners : pc'[c] = "idle"
      BY <1>6 DEF Crash, Txs
    <2> QED
      BY <1>6, <2>1 DEF Crash, OverForGood, Clean
  <1>7. CASE UNCHANGED vars
    BY <1>1, <1>7 DEF vars, rows
  <1> QED
    BY <1>3, <1>4, <1>5, <1>6, <1>7 DEF Next

\* A step of a handler that is not about its message.
LEMMA LocksQuiet ==
    ASSUME TInv, MessageLocks, UNCHANGED message,
           \A u \in Visits :
               \/ pc'[u] = pc[u]
               \/ /\ pc[u] # "posting" /\ pc'[u] # "posting"
                  /\ pc'[u] \in Unposted => pc[u] \in Unposted
    PROVE  MessageLocks'
  BY DEF MessageLocks

\* Whoever commits or rolls back while it is not posting leaves messages alone.
LEMMA NoMessageEnds ==
    ASSUME TInv, MessageLocks, NEW v \in Visits, pc[v] # "posting", CommitAll(v) \/ RollbackAll(v)
    PROVE  message' = message
  <1>1. \A m \in Visits : message[m].by # v
    BY DEF MessageLocks
  <1>2. message \in [Visits -> MessageRow]
    BY DEF TInv, TypeOK, MessageRow
  <1> QED
    BY <1>1, <1>2 DEF CommitAll, RollbackAll, Commit, Rollback

\* What a step does to messages: all but an insert, the end of a sender's
\* transaction and a wipe leave them alone.
LEMMA LocksKept == ASSUME IInv, MessageLocks, [Next]_vars PROVE MessageLocks'
  <1>0. /\ TInv /\ message \in [Visits -> MessageRow]
        /\ pc \in [Txs -> VisitPC \cup CleanerPC]
        /\ Visits \subseteq Txs /\ Visits \cap Cleaners = {} /\ NoTx \notin Txs
    BY MembersAssumption DEF IInv, TInv, TypeOK, MessageRow, Txs
  <1>1. ASSUME NEW v \in Visits, Join(v) PROVE MessageLocks'
    <2>1. PICK l \in VisitPC : Goto(v, l) /\ l # "posting" /\ l \in Unposted \cup {"ended", "failed"}
      BY <1>1 DEF Join, JoinBegin, JoinRefused, LookupFinds, LookupFindsNone, Reuse, ReuseFails, Claim,
                  RoomFull, CreateSession, JoinCommit, VisitPC, JoinPC, Unposted, Early
    <2>2. pc[v] \in Early
      BY <1>1 DEF Join, JoinBegin, JoinRefused, LookupFinds, LookupFindsNone, Reuse, ReuseFails, Claim,
                  RoomFull, CreateSession, JoinCommit, JoinPC, Early
    <2>3. message' = message
      <3>1. CASE JoinCommit(v)
        BY <1>0, <3>1, NoMessageEnds DEF JoinCommit
      <3>2. CASE ~JoinCommit(v)
        BY <1>1, <3>2 DEF Join, JoinBegin, JoinRefused, LookupFinds, LookupFindsNone, Reuse,
                          ReuseFails, Claim, RoomFull, CreateSession, rows
      <3> QED
        BY <3>1, <3>2
    <2> QED
      BY <1>0, <2>1, <2>2, <2>3, LocksQuiet DEF Goto, Unposted, Early, JoinPC
  <1>2. ASSUME NEW v \in Visits, Socket(v), ~Post(v), ~PostCommit(v) PROVE MessageLocks'
    <2>1. CASE Deliver(v)
      BY <1>0, <2>1, LocksQuiet DEF Deliver, rows
    <2>2. CASE ~Deliver(v)
      <3>1. PICK l : /\ Goto(v, l)
                     /\ l # "posting" /\ pc[v] # "posting"
                     /\ l \in Unposted => pc[v] \in Unposted
        BY <1>2, <2>2 DEF Socket, Auth, AuthRefused, Connect, ListSessions, ListMessages, SendState,
                          AnnounceJoin, PostFails, Publish, Receiving, Unposted, Early, JoinPC
      <3>2. message' = message
        BY <1>2, <2>2 DEF Socket, Auth, AuthRefused, Connect, ListSessions, ListMessages, SendState,
                          AnnounceJoin, PostFails, Publish, rows
      <3> QED
        BY <1>0, <3>1, <3>2, LocksQuiet DEF Goto
    <2> QED
      BY <2>1, <2>2
  <1>3. ASSUME NEW v \in Visits, Post(v) PROVE MessageLocks'
    <2>1. /\ message' = [message EXCEPT ![v] = Write(@, v, "STORED")]
          /\ pc' = [pc EXCEPT ![v] = "posting"]
          /\ pc[v] = "open"
      BY <1>3 DEF Post, Goto
    <2>2. /\ message'[v] = Write(message[v], v, "STORED")
          /\ \A m \in Visits : m # v => message'[m] = message[m] /\ pc'[m] = pc[m]
          /\ pc'[v] = "posting" /\ message[v].saved = "ABSENT"
      BY <1>0, <2>1 DEF MessageLocks, Unposted
    <2> QED
      BY <1>0, <2>1, <2>2 DEF MessageLocks, Write
  <1>4. ASSUME NEW v \in Visits, PostCommit(v) \/ ChatFails(v) PROVE MessageLocks'
    <2>1. /\ \A m \in Visits : message'[m] \in {message[m], Clean(message[m].draft), Clean(message[m].saved)}
          /\ \A m \in Visits : message[m].by # v => message'[m] = message[m]
          /\ message[v].by = v => message'[v].by = NoTx
      BY <1>4 DEF PostCommit, ChatFails, CommitAll, RollbackAll, Commit, Rollback, Clean
    <2>2. /\ pc'[v] \in {"posted", "failed"}
          /\ \A m \in Visits : m # v => pc'[m] = pc[m]
      BY <1>0, <1>4 DEF PostCommit, ChatFails, Goto
    <2>3. /\ \A m \in Visits : m # v => message'[m] = message[m]
          /\ message'[v].by # v
      BY <2>1, <1>0 DEF MessageLocks
    <2>4. \A u \in Visits : message'[v].by # u
      BY <1>0, <2>1, <2>3 DEF MessageLocks, Clean
    <2> QED
      BY <2>2, <2>3, <2>4 DEF MessageLocks, Unposted, Early, JoinPC
  <1>5. ASSUME NEW v \in Visits, Leave(v) PROVE MessageLocks'
    <2>1. PICK l \in {"leaving", "doomed", "ended", "uncounted", "expired", "failed"} :
             Goto(v, l) /\ pc[v] # "posting"
      BY <1>5 DEF Leave, Close, Uncount, ExpireSession, LeaveCommit, ReadFails, UncountFails,
                  Disconnect, Receiving
    <2>2. message' = message
      <3>1. CASE LeaveCommit(v)
        BY <1>0, <3>1, NoMessageEnds DEF LeaveCommit
      <3>2. CASE ~LeaveCommit(v)
        BY <1>5, <3>2 DEF Leave, Close, Uncount, ExpireSession, ReadFails, UncountFails, rows
      <3> QED
        BY <3>1, <3>2
    <2> QED
      BY <1>0, <2>1, <2>2, LocksQuiet DEF Goto, Unposted, Early, JoinPC
  <1>6. ASSUME NEW s \in Visits, Lapse(s) PROVE MessageLocks'
    BY <1>0, <1>6, LocksQuiet DEF Lapse
  <1>7. ASSUME NEW c \in Cleaners, Wipe(c) PROVE MessageLocks'
    <2>1. \A u \in Visits : pc'[u] = pc[u]
      BY <1>0, <1>7 DEF Wipe, MarkRoom, DeleteMessages, DeleteSessions, DeleteSession, WipeCommit, Goto
    <2>2. CASE DeleteMessages(c)
      <3>1. \A m \in Visits : \/ message'[m] = message[m]
                              \/ /\ message[m].saved = "STORED"
                                 /\ message'[m] = Write(message[m], c, "ABSENT")
        BY <2>2 DEF DeleteMessages
      <3>2. \A m \in Visits : message[m].saved = "STORED" => pc[m] # "posting" /\ pc[m] \notin Unposted
        BY DEF MessageLocks, Unposted
      <3>3. \A m \in Visits : message[m].saved = "STORED" =>
               Write(message[m], c, "ABSENT").by = c /\ Write(message[m], c, "ABSENT").saved = "STORED"
        BY DEF Write
      <3> QED
        BY <1>0, <1>7, <2>1, <3>1, <3>2, <3>3 DEF MessageLocks
    <2>3. CASE WipeCommit(c)
      <3>1. \A m \in Visits : \/ message'[m] = message[m]
                              \/ message[m].by = c /\ message'[m] = Clean(message[m].draft)
        BY <2>3 DEF WipeCommit, Commit
      <3>2. \A m \in Visits : message[m].by = c => pc[m] # "posting"
        BY <1>0 DEF MessageLocks
      <3>3. \A m \in Visits : message[m].by = c => pc[m] \notin Unposted
        BY <1>7 DEF MessageLocks
      <3>4. \A m \in Visits : Clean(message[m].draft).by = NoTx
        BY DEF Clean
      <3> QED
        BY <1>0, <2>1, <3>1, <3>2, <3>3, <3>4 DEF MessageLocks, Txs
    <2>4. CASE ~DeleteMessages(c) /\ ~WipeCommit(c)
      BY <1>0, <1>7, <2>1, <2>4, LocksQuiet DEF Wipe, MarkRoom, DeleteSessions, DeleteSession, rows
    <2> QED
      BY <2>2, <2>3, <2>4
  <1>8. ASSUME NEW p \in Txs, Fail(p) PROVE MessageLocks'
    <2>1. CASE p \in Visits
      <3>1. pc[p] # "posting" /\ Goto(p, "failed") /\ RollbackAll(p)
        BY <1>0, <1>8, <2>1 DEF Fail, JoinPC
      <3>2. message' = message
        BY <1>0, <2>1, <3>1, NoMessageEnds
      <3> QED
        BY <1>0, <3>1, <3>2, LocksQuiet DEF Goto, Unposted, Early, JoinPC
    <2>2. CASE p \in Cleaners
      <3>1. \A u \in Visits : pc'[u] = pc[u]
        BY <1>0, <1>8, <2>2 DEF Fail, Goto
      <3>2. \A m \in Visits : \/ message'[m] = message[m]
                              \/ message'[m] = Clean(message[m].saved) /\ message[m].by = p
        BY <1>8 DEF Fail, RollbackAll, Rollback
      <3>3. \A m \in Visits : message[m].by = p => pc[m] \notin Unposted
        BY <2>2 DEF MessageLocks
      <3>4. \A m \in Visits : Clean(message[m].saved).by = NoTx
        BY DEF Clean
      <3> QED
        BY <1>0, <3>1, <3>2, <3>3, <3>4 DEF MessageLocks, Txs, Unposted
    <2> QED
      BY <2>1, <2>2 DEF Txs
  <1>9. CASE Crash
    <2>1. \A m \in Visits : message'[m] = Clean(message[m].saved)
      BY <1>9 DEF Crash
    <2>2. \A u \in Visits : pc'[u] \in {pc[u], "failed"} /\ pc'[u] # "posting"
      BY <1>0, <1>9 DEF Crash
    <2>3. ASSUME NEW m \in Visits PROVE message'[m].by = NoTx /\ message'[m].saved = message[m].saved
      <3>1. message'[m] = [saved |-> message[m].saved, draft |-> message[m].saved, by |-> NoTx]
        BY <2>1 DEF Clean
      <3> QED
        BY <3>1
    <2>4. \A u \in Visits : pc'[u] \in Unposted => pc[u] \in Unposted
      BY <2>2 DEF Unposted, Early, JoinPC
    <2> QED
      BY <1>0, <2>2, <2>3, <2>4 DEF MessageLocks, Txs
  <1>10. CASE UNCHANGED vars
    BY <1>0, <1>10, LocksQuiet DEF vars, rows
  <1> QED
    BY <1>1, <1>2, <1>3, <1>4, <1>5, <1>6, <1>7, <1>8, <1>9, <1>10 DEF Next

\* What is stored stays stored until the room is wiped.
LEMMA StoredLasts ==
    ASSUME IInv, OverForGood, MessageLocks, [Next]_vars, NEW m \in Visits, Stored(m)
    PROVE  Stored(m)'
  <1>0. /\ message \in [Visits -> MessageRow]
        /\ Visits \cap Cleaners = {}
    BY MembersAssumption DEF IInv, TInv, TypeOK, MessageRow
  <1>1. CASE room.saved.status = "DELETED"
    BY <1>1, OverKept DEF Stored
  <1>2. CASE message[m].saved = "STORED"
    <2>1. CASE \E c \in Cleaners : WipeCommit(c)
      BY <2>1 DEF WipeCommit, Clean, Stored, IInv, TInv, TypeOK, Row
    <2>2. CASE \E v \in Visits : CommitAll(v)
      BY <1>0, <1>2, <2>2 DEF CommitAll, Commit, Clean, MessageLocks, Stored
    <2>3. CASE \E v \in Visits : \E x : message' = [message EXCEPT ![v] = Write(@, v, x)]
      BY <1>0, <1>2, <2>3 DEF Write, Stored
    <2>4. CASE \E c \in Cleaners : DeleteMessages(c)
      BY <1>0, <1>2, <2>4 DEF DeleteMessages, Write, Stored
    <2>5. CASE \E p : RollbackAll(p)
      BY <1>0, <1>2, <2>5 DEF RollbackAll, Rollback, Clean, Stored
    <2>6. CASE Crash
      BY <1>2, <2>6 DEF Crash, Clean, Stored
    <2>7. CASE message' = message
      BY <1>2, <2>7 DEF Stored
    <2>8. ASSUME NEW v \in Visits, Join(v) \/ Socket(v) \/ Leave(v) \/ ChatFails(v) \/ Lapse(v)
          PROVE  \/ message' = message
                 \/ CommitAll(v) \/ RollbackAll(v)
                 \/ \E x : message' = [message EXCEPT ![v] = Write(@, v, x)]
      BY <2>8
      DEF Join, JoinBegin, JoinRefused, LookupFinds, LookupFindsNone, Reuse, ReuseFails, Claim,
          RoomFull, CreateSession, JoinCommit, Socket, Auth, AuthRefused, Connect, ListSessions,
          ListMessages, SendState, AnnounceJoin, Deliver, Post, PostFails, PostCommit, Publish,
          Leave, Close, Uncount, ExpireSession, LeaveCommit, ReadFails, UncountFails,
          ChatFails, Lapse, rows
    <2>9. ASSUME NEW c \in Cleaners, Wipe(c)
          PROVE  message' = message \/ DeleteMessages(c) \/ WipeCommit(c)
      BY <2>9 DEF Wipe, MarkRoom, DeleteSessions, DeleteSession, rows
    <2>10. ASSUME NEW p \in Txs, Fail(p) PROVE RollbackAll(p)
      BY <2>10 DEF Fail
    <2>11. CASE UNCHANGED vars
      BY <2>7, <2>11 DEF vars, rows
    <2> QED
      BY <2>1, <2>2, <2>3, <2>4, <2>5, <2>6, <2>7, <2>8, <2>9, <2>10, <2>11 DEF Next
  <1> QED
    BY <1>1, <1>2 DEF Stored

\* Pages and the lists read for them grow by what is stored only.
LEMMA PagesKeepStored ==
    ASSUME SInv, [Next]_vars, \A m \in Visits : Stored(m) => Stored(m)'
    PROVE  ReadIsStored' /\ SentIsStored' /\ ShownIsStored'
  <1>0. /\ TInv /\ listed \in [Visits -> Shown] /\ page \in [Visits -> Shown]
        /\ pc \in [Txs -> VisitPC \cup CleanerPC]
        /\ Visits \subseteq Txs /\ Visits \cap Cleaners = {}
    BY MembersAssumption DEF SInv, IInv, TInv, TypeOK, Txs
  <1>1. \A c \in Visits : /\ \A m \in page[c].messages : m \in Visits /\ Stored(m)
                          /\ \A m \in listed[c].messages : m \in Visits /\ Stored(m)
    BY <1>0 DEF SInv, ReadIsStored, ShownIsStored, Stored, Shown
  <1>2. ASSUME NEW v \in Visits, Disconnect(v, "leaving") \/ Disconnect(v, "doomed")
        PROVE  /\ \A c \in Visits : page'[c].messages \subseteq page[c].messages
               /\ \A c \in Visits : listed'[c].messages \subseteq listed[c].messages
    BY <1>0, <1>2 DEF Disconnect, Nothing
  <1>3. ASSUME NEW c \in Visits, NEW m \in listed'[c].messages
        PROVE  m \in listed[c].messages \/ (m \in Visits /\ Stored(m))
    <2>1. CASE \E v \in Visits : ListMessages(v)
      BY <1>0, <1>3, <2>1 DEF ListMessages, Stored, Shown
    <2>2. CASE \E v \in Visits : ListSessions(v)
      BY <1>0, <1>3, <2>2 DEF ListSessions, Shown
    <2>3. CASE \E v \in Visits : SendState(v)
      BY <1>0, <1>3, <2>3 DEF SendState, Nothing
    <2>4. CASE \E v \in Visits : Close(v) \/ ReadFails(v)
      BY <1>2, <1>3, <2>4 DEF Close, ReadFails
    <2>5. CASE Crash
      BY <1>3, <2>5 DEF Crash, Nothing
    <2>6. CASE UNCHANGED listed
      BY <1>3, <2>6
    <2> QED
      BY <2>1, <2>2, <2>3, <2>4, <2>5, <2>6
      DEF Next, Join, JoinBegin, JoinRefused, LookupFinds, LookupFindsNone, Reuse, ReuseFails, Claim,
          RoomFull, CreateSession, JoinCommit, Socket, Auth, AuthRefused, Connect, AnnounceJoin,
          Deliver, Post, PostFails, PostCommit, Publish, Leave, Uncount, ExpireSession, LeaveCommit,
          UncountFails, ChatFails, Lapse, Wipe, MarkRoom, DeleteMessages, DeleteSessions,
          DeleteSession, WipeCommit, Fail, vars
  <1>4. ASSUME NEW c \in Visits, NEW m \in page'[c].messages
        PROVE  m \in page[c].messages \/ m \in listed[c].messages \/ (m \in Visits /\ pc[m] = "published")
    <2>1. ASSUME NEW v \in Visits, Deliver(v)
          PROVE  m \in page[c].messages \/ (m = v /\ pc[m] = "published")
      <3>1. page'[c] \in {page[c], Handled(v, c)} /\ page[c] \in Shown
        BY <1>0, <2>1 DEF Deliver
      <3> QED
        BY <1>4, <3>1 DEF Handled, Shown
    <2>2. CASE \E v \in Visits : SendState(v)
      BY <1>0, <1>4, <2>2 DEF SendState, Shown
    <2>3. CASE \E v \in Visits : Close(v) \/ ReadFails(v)
      BY <1>2, <1>4, <2>3 DEF Close, ReadFails
    <2>4. CASE \E v \in Visits : PostFails(v) \/ ChatFails(v)
      BY <1>0, <1>4, <2>4 DEF PostFails, ChatFails, Nothing
    <2>5. CASE Crash
      BY <1>4, <2>5 DEF Crash, Nothing
    <2>6. CASE UNCHANGED page
      BY <1>4, <2>6
    <2> QED
      BY <2>1, <2>2, <2>3, <2>4, <2>5, <2>6
      DEF Next, Join, JoinBegin, JoinRefused, LookupFinds, LookupFindsNone, Reuse, ReuseFails, Claim,
          RoomFull, CreateSession, JoinCommit, Socket, Auth, AuthRefused, Connect, ListSessions,
          ListMessages, AnnounceJoin, Post, PostCommit, Publish, Leave, Uncount, ExpireSession,
          LeaveCommit, UncountFails, Lapse, Wipe, MarkRoom, DeleteMessages, DeleteSessions,
          DeleteSession, WipeCommit, Fail, vars
  <1>5. ASSUME NEW v \in Visits, pc'[v] \in {"posted", "published"}
        PROVE  pc[v] \in {"posted", "published"} \/ PostCommit(v)
    <2>1. CASE \E u \in Visits : Join(u)
      BY <1>0, <1>5, <2>1
      DEF Join, JoinBegin, JoinRefused, LookupFinds, LookupFindsNone, Reuse, ReuseFails, Claim,
          RoomFull, CreateSession, JoinCommit, Goto
    <2>2. CASE \E u \in Visits : Socket(u)
      BY <1>0, <1>5, <2>2
      DEF Socket, Auth, AuthRefused, Connect, ListSessions, ListMessages, SendState, AnnounceJoin,
          Deliver, Post, PostFails, PostCommit, Publish, Goto
    <2>3. CASE \E u \in Visits : Leave(u) \/ ChatFails(u) \/ Lapse(u)
      BY <1>0, <1>5, <2>3
      DEF Leave, Close, Uncount, ExpireSession, LeaveCommit, ReadFails, UncountFails, Disconnect,
          ChatFails, Lapse, Goto
    <2>4. CASE \E c \in Cleaners : Wipe(c)
      BY <1>0, <1>5, <2>4
      DEF Wipe, MarkRoom, DeleteMessages, DeleteSessions, DeleteSession, WipeCommit, Goto
    <2>5. CASE \E p \in Txs : Fail(p)
      BY <1>0, <1>5, <2>5 DEF Fail, Goto
    <2>6. CASE Crash
      BY <1>0, <1>5, <2>6 DEF Crash
    <2>7. CASE UNCHANGED vars
      BY <1>5, <2>7 DEF vars
    <2> QED
      BY <2>1, <2>2, <2>3, <2>4, <2>5, <2>6, <2>7 DEF Next
  <1>6. ASSUME NEW v \in Visits, PostCommit(v) PROVE Stored(v)'
    <2>1. message[v].by = v /\ message[v].draft = "STORED"
      BY <1>6 DEF PostCommit, SInv, MessageLocks
    <2> QED
      BY <1>6, <2>1 DEF PostCommit, CommitAll, Commit, Clean, Stored
  <1>7. ReadIsStored'
    BY <1>1, <1>3 DEF ReadIsStored
  <1>8. SentIsStored'
    BY <1>5, <1>6 DEF SInv, SentIsStored
  <1>9. ASSUME NEW c \in Visits, NEW m \in page'[c].messages PROVE Stored(m)'
    BY <1>1, <1>4 DEF SInv, SentIsStored
  <1>10. ShownIsStored'
    BY <1>9 DEF ShownIsStored, Stored
  <1> QED
    BY <1>7, <1>8, <1>10

LEMMA SInvStarts == ASSUME Init PROVE SInv
  <1>1. IInv
    BY InitHolds
  <1>2. OverForGood
    BY DEF Init, OverForGood, Clean
  <1>3. MessageLocks
    BY MembersAssumption DEF Init, MessageLocks, Clean, Txs
  <1>4. ReadIsStored /\ ShownIsStored
    BY DEF Init, ReadIsStored, ShownIsStored, Nothing
  <1>5. SentIsStored
    BY DEF Init, SentIsStored, Txs
  <1> QED
    BY <1>1, <1>2, <1>3, <1>4, <1>5 DEF SInv

LEMMA SInvKept == ASSUME SInv, [Next]_vars PROVE SInv'
  <1>1. IInv' /\ OverForGood' /\ MessageLocks'
    BY StepKeeps, OverKept, LocksKept DEF SInv
  <1>2. \A m \in Visits : Stored(m) => Stored(m)'
    BY StoredLasts DEF SInv
  <1> QED
    BY <1>1, <1>2, PagesKeepStored DEF SInv

\* A page shows no message that is not in the database unless the room is wiped:
\* CHAT_SEND commits before it broadcasts, ROOM_STATE reads what is committed,
\* and only the wipe deletes.
THEOREM NothingUnsavedShows == Spec => []ShownIsStored
  <1>1. Init => SInv
    BY SInvStarts
  <1>2. SInv /\ [Next]_vars => SInv'
    BY SInvKept
  <1>3. SInv => ShownIsStored
    BY DEF SInv
  <1> QED
    BY <1>1, <1>2, <1>3, PTL DEF Spec

-----------------------------------------------------------------------------
(***************************************************************************)
(* Slots.  The count is never more than the live sessions that no leave is *)
(* about to end without a slot to give back, and a session that is live    *)
(* has a visit that will give back its slot.                               *)
(***************************************************************************)
Untroubled == faults = 0 /\ room.saved.status = "ACTIVE"

\* What a join that reuses a session and a leave have in their hands.
Open(v) ==
    /\ pc[v] = "reused" => session[token[v]].by = v /\ session[token[v]].draft = "LIVE"
    /\ pc[v] \in {"uncounted", "expired"} /\ room.by = v =>
          room.draft.count \in {0, room.saved.count - 1}

\* Only a cleaner changes the status of the room.
StatusLock == room.by \notin Cleaners => room.draft.status = room.saved.status

SlotLocks == StatusLock /\ \A v \in Visits : Open(v)

\* A visit that has joined has a session that is in the database.
SeatedKnown == \A v \in Visits : pc[v] \in Seated => session[token[v]].saved # "ABSENT"

\* A socket is in the registry for as long as its handler serves it.
SocketsServed == \A v \in sockets : pc[v] \in SocketPC

\* A session that is live has a visit that has not left.
LiveAreSeated == \A s \in LiveSessions : \E v \in Visits : token[v] = s /\ pc[v] \in Seated

\* The sessions about to end whose leave has found the count at 0.
Freed == {token[v] : v \in {u \in Visits : pc[u] \in {"uncounted", "expired"} /\ room.by # u}}

NoSlotLost == room.saved.count <= Cardinality(LiveSessions \ Freed)

Orderly ==
    /\ SeatedKnown /\ SocketsServed /\ LiveAreSeated /\ NoSlotLost
    /\ \A v \in Visits : pc[v] # "doomed"

FInv == IInv /\ SlotLocks /\ (Untroubled => Orderly)

\* A step of process p.
StepOf(p) ==
    \/ p \in Visits /\ (Join(p) \/ Socket(p) \/ Leave(p) \/ ChatFails(p))
    \/ p \in Cleaners /\ Wipe(p)
    \/ Fail(p)

\* Nobody changes a row that another transaction has locked, or where another
\* process stands.
LEMMA Isolated ==
    ASSUME IInv, NEW p \in Txs, StepOf(p), NEW u \in Txs, u # p
    PROVE  /\ pc'[u] = pc[u] /\ todo'[u] = todo[u]
           /\ u \in Visits => token'[u] = token[u]
           /\ room.by = u => room' = room
           /\ room'.by = u => room.by = u
           /\ \A s \in Visits : session[s].by = u => session'[s] = session[s]
  <1>0. /\ pc \in [Txs -> VisitPC \cup CleanerPC]
        /\ token \in [Visits -> Visits \cup {NoSession}]
        /\ \A s \in Visits : session[s] \in SessionRow
        /\ session \in [Visits -> SessionRow]
        /\ todo \in [Txs -> SUBSET Visits]
        /\ u # NoTx
    BY MembersAssumption DEF IInv, TInv, TypeOK, SessionRow, Txs
  <1>1. ASSUME CommitAll(p) \/ RollbackAll(p)
        PROVE  /\ room.by = u => room' = room
               /\ room'.by = u => room.by = u
               /\ \A s \in Visits : session[s].by = u => session'[s] = session[s]
    BY <1>0, <1>1 DEF CommitAll, RollbackAll, Commit, Rollback, Clean
  <1>2. CASE p \in Visits /\ Join(p)
    <2>1. pc'[u] = pc[u] /\ todo'[u] = todo[u] /\ (u \in Visits => token'[u] = token[u])
      BY <1>0, <1>2
      DEF Join, JoinBegin, JoinRefused, LookupFinds, LookupFindsNone, Reuse, ReuseFails, Claim,
          RoomFull, CreateSession, JoinCommit, Goto
    <2>2. CASE Reuse(p) \/ Claim(p)
      BY <1>0, <2>1, <2>2 DEF Reuse, Claim, Lockable, Write
    <2>3. CASE CreateSession(p)
      <3>1. session[p].by = NoTx
        BY <1>2, <2>3 DEF CreateSession, IInv, Locks, SessionLocks, Early, JoinPC, Clean
      <3> QED
        BY <1>0, <2>1, <2>3, <3>1 DEF CreateSession
    <2>4. CASE JoinCommit(p)
      BY <1>1, <2>1, <2>4 DEF JoinCommit
    <2> QED
      BY <1>2, <2>1, <2>2, <2>3, <2>4
      DEF Join, JoinBegin, JoinRefused, LookupFinds, LookupFindsNone, ReuseFails, RoomFull, rows
  <1>3. CASE p \in Visits /\ (Socket(p) \/ ChatFails(p))
    <2>1. pc'[u] = pc[u] /\ todo'[u] = todo[u] /\ (u \in Visits => token'[u] = token[u])
      BY <1>0, <1>3
      DEF Socket, Auth, AuthRefused, Connect, ListSessions, ListMessages, SendState, AnnounceJoin,
          Deliver, Post, PostFails, PostCommit, Publish, ChatFails, Goto
    <2>2. CASE PostCommit(p) \/ ChatFails(p)
      BY <1>1, <2>1, <2>2 DEF PostCommit, ChatFails
    <2> QED
      BY <1>3, <2>1, <2>2
      DEF Socket, Auth, AuthRefused, Connect, ListSessions, ListMessages, SendState, AnnounceJoin,
          Deliver, Post, PostFails, Publish, rows
  <1>4. CASE p \in Visits /\ Leave(p)
    <2>1. pc'[u] = pc[u] /\ todo'[u] = todo[u] /\ (u \in Visits => token'[u] = token[u])
      BY <1>0, <1>4
      DEF Leave, Close, Uncount, ExpireSession, LeaveCommit, ReadFails, UncountFails, Disconnect,
          Goto
    <2>2. CASE Uncount(p)
      BY <1>0, <2>1, <2>2 DEF Uncount, Lockable, Write
    <2>3. CASE ExpireSession(p)
      <3>1. /\ room' = room /\ Lockable(session[token[p]], p)
            /\ \E x : session' = [session EXCEPT ![token[p]] = x]
        BY <2>3 DEF ExpireSession
      <3> QED
        BY <1>0, <2>1, <3>1 DEF Lockable
    <2>4. CASE LeaveCommit(p)
      BY <1>1, <2>1, <2>4 DEF LeaveCommit
    <2> QED
      BY <1>4, <2>1, <2>2, <2>3, <2>4 DEF Leave, Close, ReadFails, UncountFails, rows
  <1>5. CASE p \in Cleaners /\ Wipe(p)
    <2>1. pc'[u] = pc[u] /\ todo'[u] = todo[u] /\ (u \in Visits => token'[u] = token[u])
      BY <1>0, <1>5
      DEF Wipe, MarkRoom, DeleteMessages, DeleteSessions, DeleteSession, WipeCommit, Goto
    <2>2. CASE MarkRoom(p) \/ DeleteSession(p)
      BY <1>0, <2>1, <2>2 DEF MarkRoom, DeleteSession, Lockable, Write
    <2>3. CASE WipeCommit(p)
      <3>1. room.by = p
        BY <1>5, <2>3 DEF WipeCommit, IInv, Locks, RoomLock
      <3> QED
        BY <1>0, <2>1, <2>3, <3>1 DEF WipeCommit, Commit, Clean
    <2> QED
      BY <1>5, <2>1, <2>2, <2>3 DEF Wipe, DeleteMessages, DeleteSessions, rows
  <1>6. CASE Fail(p)
    BY <1>0, <1>1, <1>6 DEF Fail, Goto
  <1> QED
    BY <1>2, <1>3, <1>4, <1>5, <1>6 DEF StepOf

\* What a visit itself has in its hands after its step.
LEMMA OpenAfter ==
    ASSUME IInv, NEW v \in Visits, Open(v), StepOf(v)
    PROVE  Open(v)'
  <1>0. /\ v \in Txs /\ v \notin Cleaners /\ v # NoTx
        /\ pc \in [Txs -> VisitPC \cup CleanerPC]
        /\ session \in [Visits -> SessionRow]
        /\ room \in RoomRow
    BY MembersAssumption DEF IInv, TInv, TypeOK, SessionRow, RoomRow, Txs
  <1>1. CASE Reuse(v)
    <2>1. token[v] \in Visits /\ token' = token
      BY <1>1 DEF Reuse, IInv, TInv, Tokens
    <2>2. session'[token[v]] = Write(session[token[v]], v, "LIVE") /\ pc'[v] = "reused"
      BY <1>0, <1>1, <2>1 DEF Reuse, Goto
    <2> QED
      BY <2>1, <2>2 DEF Write, Open
  <1>2. CASE Uncount(v)
    <2>1. room.by # v
      BY <1>2 DEF Uncount, IInv, Locks, RoomLock
    <2>2. pc'[v] = "uncounted"
      BY <1>0, <1>2 DEF Uncount, Goto
    <2>3. CASE room' = room
      BY <2>1, <2>2, <2>3 DEF Open
    <2>4. CASE /\ Lockable(room, v) /\ room.draft.count > 0
               /\ room' = Write(room, v, [room.draft EXCEPT !.count = @ - 1])
      <3>1. room.draft = room.saved
        BY <1>0, <2>1, <2>4 DEF Lockable, IInv, Locks, RoomLock
      <3>2. room'.saved = room.saved /\ room'.draft.count = room.saved.count - 1
        BY <1>0, <2>4, <3>1 DEF Write, RoomRow, Row
      <3> QED
        BY <2>2, <3>2 DEF Open
    <2> QED
      BY <1>2, <2>3, <2>4 DEF Uncount
  <1>3. CASE ExpireSession(v)
    BY <1>0, <1>3 DEF ExpireSession, Goto, Open
  <1>4. CASE Deliver(v)
    BY <1>4 DEF Deliver, rows, Open
  <1>5. CASE ~(Reuse(v) \/ Uncount(v) \/ ExpireSession(v) \/ Deliver(v))
    <2>1. pc'[v] \notin {"reused", "uncounted", "expired"}
      <3>1. CASE Join(v)
        BY <1>0, <1>5, <3>1
        DEF Join, JoinBegin, JoinRefused, LookupFinds, LookupFindsNone, ReuseFails, Claim,
            RoomFull, CreateSession, JoinCommit, Goto
      <3>2. CASE Socket(v) \/ ChatFails(v)
        BY <1>0, <1>5, <3>2
        DEF Socket, Auth, AuthRefused, Connect, ListSessions, ListMessages, SendState,
            AnnounceJoin, Post, PostFails, PostCommit, Publish, ChatFails, Goto
      <3>3. CASE Leave(v)
        BY <1>0, <1>5, <3>3
        DEF Leave, Close, LeaveCommit, ReadFails, UncountFails, Disconnect, Goto
      <3>4. CASE Fail(v)
        BY <1>0, <3>4 DEF Fail, Goto
      <3> QED
        BY <1>0, <3>1, <3>2, <3>3, <3>4 DEF StepOf
    <2> QED
      BY <2>1 DEF Open
  <1> QED
    BY <1>1, <1>2, <1>3, <1>4, <1>5

\* The status of the room.
LEMMA StatusLockKept ==
    ASSUME IInv, StatusLock, NEW p \in Txs, StepOf(p)
    PROVE  /\ StatusLock'
           /\ room'.saved.status = "ACTIVE" => room.saved.status = "ACTIVE"
  <1>0. room \in RoomRow /\ NoTx \notin Cleaners
    BY MembersAssumption DEF IInv, TInv, TypeOK, RoomRow, Txs
  <1>1. CASE room' = room
    BY <1>1 DEF StatusLock
  <1>2. CASE RollbackAll(p) \/ (CommitAll(p) /\ p \notin Cleaners)
    BY <1>2 DEF CommitAll, RollbackAll, Commit, Rollback, StatusLock, Clean
  <1>3. CASE p \in Visits /\ (Claim(p) \/ Uncount(p))
    <2>1. p \notin Cleaners /\ (room' = room \/ room.by \in {NoTx, p})
      BY <1>3, MembersAssumption DEF Claim, Uncount, Lockable, Txs
    <2>2. room'.saved = room.saved /\ room'.draft.status = room.draft.status
      BY <1>0, <1>3 DEF Claim, Uncount, Write, RoomRow, Row
    <2> QED
      BY <1>0, <2>1, <2>2 DEF StatusLock
  <1>4. CASE p \in Cleaners /\ MarkRoom(p)
    BY <1>4 DEF MarkRoom, Write, StatusLock
  <1>5. CASE p \in Cleaners /\ WipeCommit(p)
    <2>1. room'.saved.status = "DELETED" /\ room'.draft = room'.saved
      BY <1>0, <1>5 DEF WipeCommit, Clean, RoomRow, Row
    <2> QED
      BY <2>1 DEF StatusLock
  <1>6. p \in Visits => p \notin Cleaners
    BY MembersAssumption
  <1>7. CASE Fail(p) \/ (p \in Visits /\ ChatFails(p))
    BY <1>2, <1>7 DEF Fail, ChatFails
  <1>8. CASE p \in Cleaners /\ Wipe(p)
    BY <1>1, <1>4, <1>5, <1>8 DEF Wipe, DeleteMessages, DeleteSessions, DeleteSession, rows
  <1>9. CASE p \in Visits /\ Join(p)
    BY <1>1, <1>2, <1>3, <1>6, <1>9
    DEF Join, JoinBegin, JoinRefused, LookupFinds, LookupFindsNone, Reuse, ReuseFails,
        RoomFull, CreateSession, JoinCommit, rows
  <1>10. CASE p \in Visits /\ Socket(p)
    BY <1>1, <1>2, <1>6, <1>10
    DEF Socket, Auth, AuthRefused, Connect, ListSessions, ListMessages, SendState, AnnounceJoin,
        Deliver, Post, PostFails, PostCommit, Publish, rows
  <1>11. CASE p \in Visits /\ Leave(p)
    BY <1>1, <1>2, <1>3, <1>6, <1>11
    DEF Leave, Close, ExpireSession, LeaveCommit, ReadFails, UncountFails, rows
  <1> QED
    BY <1>7, <1>8, <1>9, <1>10, <1>11 DEF StepOf

\* What open transactions have in their hands, after any step.
LEMMA SlotLocksKept ==
    ASSUME IInv, SlotLocks, [Next]_vars
    PROVE  /\ SlotLocks'
           /\ room'.saved.status = "ACTIVE" => room.saved.status = "ACTIVE"
  <1>1. ASSUME NEW p \in Txs, StepOf(p)
        PROVE  SlotLocks' /\ (room'.saved.status = "ACTIVE" => room.saved.status = "ACTIVE")
    <2>1. ASSUME NEW u \in Visits PROVE Open(u)'
      <3>1. CASE u = p
        BY <1>1, <3>1, OpenAfter DEF SlotLocks
      <3>2. CASE u # p
        <4>1. pc[u] = "reused" => token[u] \in Visits
          BY DEF IInv, TInv, Tokens
        <4> QED
          BY <1>1, <3>2, <4>1, Isolated DEF SlotLocks, Open, Txs
      <3> QED
        BY <3>1, <3>2
    <2> QED
      BY <1>1, <2>1, StatusLockKept DEF SlotLocks
  <1>2. ASSUME NEW s \in Visits, Lapse(s)
        PROVE  SlotLocks' /\ room' = room
    <2>1. /\ session[s].by = NoTx
          /\ \A x \in Visits : x # s => session'[x] = session[x]
          /\ UNCHANGED <<room, pc, token>>
      BY <1>2 DEF Lapse, Clean, IInv, TInv, TypeOK
    <2>2. ASSUME NEW u \in Visits PROVE Open(u)'
      <3>1. u # NoTx /\ (pc[u] = "reused" => token[u] \in Visits)
        BY MembersAssumption DEF IInv, TInv, Tokens, Txs
      <3> QED
        BY <2>1, <3>1 DEF SlotLocks, Open
    <2> QED
      BY <2>1, <2>2 DEF SlotLocks, StatusLock
  <1>3. CASE Crash
    <2>1. \A u \in Visits : pc'[u] \in {"idle", "joined", "ended", "failed"}
      BY <1>3, MembersAssumption DEF Crash, Txs
    <2> QED
      BY <1>3, <2>1 DEF Crash, Clean, SlotLocks, StatusLock, Open
  <1>4. CASE UNCHANGED vars
    BY <1>4 DEF vars, rows, SlotLocks, StatusLock, Open
  <1>5. CASE \E p \in Txs : StepOf(p)
    BY <1>1, <1>5
  <1>6. (\E p \in Txs : StepOf(p)) \/ (\E s \in Visits : Lapse(s)) \/ Crash \/ UNCHANGED vars
    BY DEF Next, StepOf, Txs
  <1> QED
    BY <1>2, <1>3, <1>4, <1>5, <1>6

\* Only a leave that finds the count at 0 adds to the sessions freed.
LEMMA FreedKept ==
    ASSUME IInv, NEW p \in Txs, StepOf(p)
    PROVE  \/ Freed' \subseteq Freed
           \/ p \in Visits /\ Uncount(p) /\ room.saved.count = 0
  <1> SUFFICES ASSUME NEW u \in Visits, pc'[u] \in {"uncounted", "expired"}, room'.by # u
               PROVE  \/ token'[u] = token[u] /\ pc[u] \in {"uncounted", "expired"} /\ room.by # u
                      \/ p \in Visits /\ Uncount(p) /\ room.saved.count = 0
    BY DEF Freed
  <1>0. u \in Txs /\ u \notin Cleaners
    BY MembersAssumption DEF Txs
  <1>1. CASE u # p
    BY <1>0, <1>1, Isolated
  <1>2. CASE u = p /\ Uncount(p)
    <2>1. room.by # p
      BY <1>2 DEF Uncount, IInv, Locks, RoomLock
    <2>2. room' # room => room'.by = p
      BY <1>2 DEF Uncount, Write
    <2> QED
      BY <1>2, <2>1, <2>2 DEF Uncount, Sees, Write
  <1>3. CASE u = p /\ ~Uncount(p)
    <2>1. pc \in [Txs -> VisitPC \cup CleanerPC]
      BY DEF IInv, TInv, TypeOK
    <2>2. CASE ExpireSession(p) \/ Deliver(p)
      BY <1>3, <2>2 DEF ExpireSession, Deliver, rows
    <2>3. CASE ~(ExpireSession(p) \/ Deliver(p))
      <3>1. CASE Join(p)
        BY <1>0, <1>3, <2>1, <3>1
        DEF Join, JoinBegin, JoinRefused, LookupFinds, LookupFindsNone, Reuse, ReuseFails, Claim,
            RoomFull, CreateSession, JoinCommit, Goto
      <3>2. CASE Socket(p) \/ ChatFails(p)
        BY <1>0, <1>3, <2>1, <2>3, <3>2
        DEF Socket, Auth, AuthRefused, Connect, ListSessions, ListMessages, SendState,
            AnnounceJoin, Post, PostFails, PostCommit, Publish, ChatFails, Goto
      <3>3. CASE Leave(p)
        BY <1>0, <1>3, <2>1, <2>3, <3>3
        DEF Leave, Close, LeaveCommit, ReadFails, UncountFails, Disconnect, Goto
      <3>4. CASE Fail(p)
        BY <1>0, <1>3, <2>1, <3>4 DEF Fail, Goto
      <3> QED
        BY <1>0, <1>3, <3>1, <3>2, <3>3, <3>4 DEF StepOf
    <2> QED
      BY <2>2, <2>3
  <1> QED
    BY <1>1, <1>2, <1>3

\* The slots are still somebody's when fewer of the live sessions are freed.
LEMMA SlotsHeld ==
    ASSUME NoSlotLost, room.saved.count \in Nat,
           room'.saved.count = room.saved.count,
           \/ LiveSessions \ Freed \subseteq LiveSessions' \ Freed'
           \/ room.saved.count = 0
    PROVE  NoSlotLost'
  <1>1. /\ LiveSessions \ Freed \subseteq Visits
        /\ LiveSessions' \ Freed' \subseteq Visits
    BY DEF LiveSessions
  <1>2. /\ IsFiniteSet(LiveSessions \ Freed) /\ Cardinality(LiveSessions \ Freed) \in Nat
        /\ IsFiniteSet(LiveSessions' \ Freed') /\ Cardinality(LiveSessions' \ Freed') \in Nat
    BY <1>1, MembersAssumption, FS_Subset, FS_CardinalityType
  <1>3. CASE LiveSessions \ Freed \subseteq LiveSessions' \ Freed'
    <2>1. Cardinality(LiveSessions \ Freed) <= Cardinality(LiveSessions' \ Freed')
      BY <1>2, <1>3, FS_Subset
    <2> QED
      BY <1>2, <2>1 DEF NoSlotLost
  <1>4. CASE room.saved.count = 0
    BY <1>2, <1>4 DEF NoSlotLost
  <1> QED
    BY <1>3, <1>4

\* A step that leaves the count and the live sessions alone and takes no seat;
\* a seat is left only for one of the same session, or when that is not live.
LEMMA OrderlyKept ==
    ASSUME Orderly, room.saved.count \in Nat, room'.saved.count = room.saved.count,
           Freed' \subseteq Freed \/ room.saved.count = 0,
           \A s \in Visits : session'[s].saved = session[s].saved,
           \A u \in Visits : pc'[u] \in Seated => pc[u] \in Seated /\ pc'[u] # "doomed",
           \A u \in Visits : pc[u] \in Seated => token'[u] = token[u],
           \A u \in Visits : pc[u] \in Seated =>
              \/ session[token[u]].saved # "LIVE"
              \/ \E w \in Visits : /\ token[w] = token[u] /\ pc[w] \in Seated
                                  /\ pc'[w] \in Seated,
           \A u \in Visits : pc[u] \in Seated => token[u] \in Visits,
           \A u \in sockets' : pc'[u] \in SocketPC
    PROVE  Orderly'
  <1>1. LiveSessions' = LiveSessions
    BY DEF LiveSessions
  <1>2. SeatedKnown'
    BY DEF Orderly, SeatedKnown
  <1>3. LiveAreSeated'
    <2>1. ASSUME NEW s \in LiveSessions
          PROVE  \E w \in Visits : token'[w] = s /\ pc'[w] \in Seated
      <3>1. PICK u \in Visits : token[u] = s /\ pc[u] \in Seated
        BY DEF Orderly, LiveAreSeated
      <3>2. session[token[u]].saved = "LIVE"
        BY <3>1 DEF LiveSessions
      <3>3. PICK w \in Visits : token[w] = s /\ pc[w] \in Seated /\ pc'[w] \in Seated
        BY <3>1, <3>2
      <3> QED
        BY <3>3
    <2> QED
      BY <1>1, <2>1 DEF LiveAreSeated
  <1>4. NoSlotLost' /\ SocketsServed'
    BY <1>1, SlotsHeld DEF Orderly, SocketsServed
  <1>5. \A v \in Visits : pc'[v] # "doomed"
    BY DEF Seated, LeavePC
  <1> QED
    BY <1>2, <1>3, <1>4, <1>5 DEF Orderly

\* Joins.
LEMMA JoinOrderly ==
    ASSUME IInv, SlotLocks, Orderly, NEW v \in Visits, Join(v)
    PROVE  Orderly'
  <1>0. /\ v \in Txs /\ pc \in [Txs -> VisitPC \cup CleanerPC]
        /\ token \in [Visits -> Visits \cup {NoSession}]
        /\ session \in [Visits -> SessionRow] /\ room \in RoomRow
        /\ \A u \in Visits : u \in Txs
        /\ \A u \in Visits : pc[u] \in Seated => token[u] \in Visits
    BY DEF IInv, TInv, TypeOK, Tokens, SessionRow, RoomRow, Txs
  <1>1. /\ pc[v] \in Early /\ pc[v] \notin Seated /\ v \notin sockets
        /\ sockets' = sockets
        /\ \A u \in Visits : u # v => pc'[u] = pc[u] /\ token'[u] = token[u]
    <2>1. /\ pc[v] \in Early /\ sockets' = sockets
          /\ \A u \in Visits : u # v => pc'[u] = pc[u] /\ token'[u] = token[u]
      BY <1>0
      DEF Join, JoinBegin, JoinRefused, LookupFinds, LookupFindsNone, Reuse, ReuseFails, Claim,
          RoomFull, CreateSession, JoinCommit, Goto, Early, JoinPC
    <2> QED
      BY <2>1 DEF Early, JoinPC, Seated, SocketPC, LeavePC, IInv, TInv, Tokens
  <1>2. \A u \in sockets : pc'[u] \in SocketPC
    BY <1>1 DEF Orderly, SocketsServed, IInv, TInv, TypeOK
  <1>3. Freed' \subseteq Freed /\ room.saved.count \in Nat
    <2>1. ~Uncount(v)
      BY <1>1 DEF Uncount, Early, JoinPC
    <2>2. StepOf(v)
      BY DEF StepOf
    <2> QED
      BY <1>0, <2>1, <2>2, FreedKept, MembersAssumption DEF RoomRow, Row
  <1>4. CASE ~JoinCommit(v)
    <2>1. pc'[v] \notin Seated
      BY <1>0, <1>4
      DEF Join, JoinBegin, JoinRefused, LookupFinds, LookupFindsNone, Reuse, ReuseFails, Claim,
          RoomFull, CreateSession, Goto, Seated, SocketPC, LeavePC
    <2>2. /\ room'.saved = room.saved
          /\ \A s \in Visits : session'[s].saved = session[s].saved
      <3>1. CASE Reuse(v)
        BY <1>0, <3>1 DEF Reuse, Write
      <3>2. CASE CreateSession(v)
        BY <1>0, <3>2 DEF CreateSession, Write
      <3>3. CASE Claim(v)
        BY <3>3 DEF Claim, Write
      <3> QED
        BY <1>4, <3>1, <3>2, <3>3
        DEF Join, JoinBegin, JoinRefused, LookupFinds, LookupFindsNone, ReuseFails, RoomFull, rows
    <2> QED
      BY <1>0, <1>1, <1>2, <1>3, <2>1, <2>2, OrderlyKept DEF Orderly
  <1>5. CASE JoinCommit(v)
    <2>1. /\ pc[v] \in {"reused", "inserted"} /\ pc'[v] = "joined" /\ token' = token
          /\ CommitAll(v) /\ token[v] \in Visits
      BY <1>0, <1>5 DEF JoinCommit, Goto, IInv, TInv, Tokens
    <2>2. /\ session[token[v]].by = v /\ session[token[v]].draft = "LIVE"
          /\ pc[v] = "inserted" => token[v] = v /\ session[v].saved = "ABSENT"
      <3>1. CASE pc[v] = "reused"
        BY <3>1 DEF SlotLocks, Open
      <3>2. CASE pc[v] = "inserted"
        <4>1. session[v] = Write(Clean("ABSENT"), v, "LIVE")
          BY <3>2 DEF IInv, Locks, SessionLocks
        <4>2. token[v] = v
          BY <3>2 DEF IInv, TInv, Tokens
        <4>3. /\ session[v].by = v
              /\ session[v].draft = "LIVE"
              /\ session[v].saved = "ABSENT"
          BY <4>1 DEF Write, Clean
        <4> QED
          BY <4>2, <4>3
      <3> QED
        BY <2>1, <3>1, <3>2
    <2>3. \A s \in Visits : session[s].by = v => s = token[v]
      BY DEF IInv, Locks, SessionLocks
    <2>4. \A s \in Visits :
             session'[s].saved = IF s = token[v] THEN "LIVE" ELSE session[s].saved
      BY <2>1, <2>2, <2>3 DEF CommitAll, Commit, Clean
    <2>5. LiveSessions' = LiveSessions \cup {token[v]}
      BY <2>1, <2>4 DEF LiveSessions
    <2>6. SeatedKnown'
      BY <1>0, <1>1, <2>1, <2>4 DEF Orderly, SeatedKnown
    <2>7. LiveAreSeated'
      <3>1. "joined" \in Seated
        BY DEF Seated
      <3>2. ASSUME NEW s \in LiveSessions
            PROVE  \E w \in Visits : token[w] = s /\ pc'[w] \in Seated
        BY <1>1, <3>1, <2>1 DEF Orderly, LiveAreSeated
      <3> QED
        BY <2>1, <2>5, <3>1, <3>2 DEF LiveAreSeated
    <2>8. NoSlotLost'
      <3>1. CASE pc[v] = "inserted"
        <4> DEFINE Held == LiveSessions \ Freed
        <4>1. room'.saved.count = room.saved.count + 1
          BY <2>1, <3>1 DEF CommitAll, Commit, Clean, IInv, Locks, RoomLock
        <4>2. v \notin LiveSessions
          BY <2>2, <3>1 DEF LiveSessions
        <4>3. v \notin Freed
          BY <1>1, <3>1 DEF Freed, IInv, Borrowed
        <4>4. Held \cup {v} \subseteq LiveSessions' \ Freed'
          BY <1>3, <2>2, <2>5, <3>1, <4>3
        <4>5. Held \subseteq Visits /\ LiveSessions' \ Freed' \subseteq Visits
          BY DEF LiveSessions
        <4>6. /\ IsFiniteSet(Held) /\ Cardinality(Held) \in Nat
              /\ IsFiniteSet(LiveSessions' \ Freed') /\ Cardinality(LiveSessions' \ Freed') \in Nat
          BY <4>5, MembersAssumption, FS_Subset, FS_CardinalityType
        <4>7. Cardinality(Held \cup {v}) = Cardinality(Held) + 1
          BY <4>2, <4>6, FS_AddElement
        <4>8. Cardinality(Held \cup {v}) <= Cardinality(LiveSessions' \ Freed')
          BY <4>4, <4>6, FS_Subset
        <4>9. room.saved.count <= Cardinality(Held)
          BY DEF Orderly, NoSlotLost
        <4> HIDE DEF Held
        <4> QED
          BY <1>3, <4>1, <4>6, <4>7, <4>8, <4>9 DEF NoSlotLost
      <3>2. CASE pc[v] = "reused"
        <4>1. room' = room
          BY <2>1, <3>2 DEF CommitAll, Commit, IInv, Locks, RoomLock
        <4> QED
          BY <1>3, <2>5, <4>1, SlotsHeld DEF Orderly
      <3> QED
        BY <2>1, <3>1, <3>2
    <2>9. \A u \in Visits : pc'[u] # "doomed"
      BY <1>1, <2>1 DEF Orderly
    <2> QED
      BY <1>1, <1>2, <2>6, <2>7, <2>8, <2>9 DEF Orderly, SocketsServed
  <1> QED
    BY <1>4, <1>5

\* The handler of a socket while its page is there.
LEMMA SocketOrderly ==
    ASSUME IInv, Orderly, room.saved.status = "ACTIVE", NEW v \in Visits, Socket(v)
    PROVE  Orderly'
  <1>0. /\ v \in Txs /\ pc \in [Txs -> VisitPC \cup CleanerPC]
        /\ \A u \in Visits : u \in Txs
        /\ \A u \in Visits : pc[u] \in Seated => token[u] \in Visits
        /\ sockets \subseteq Visits /\ room.saved.count \in Nat
    BY MembersAssumption DEF IInv, TInv, TypeOK, Tokens, Txs, Row
  <1>1. Freed' \subseteq Freed \/ room.saved.count = 0
    BY <1>0, FreedKept DEF StepOf
  <1>2. CASE Deliver(v)
    <2>1. UNCHANGED <<room, session, token, sockets, pc>>
      BY <1>2 DEF Deliver, rows
    <2> QED
      BY <1>0, <1>1, <2>1, OrderlyKept DEF Orderly, SocketsServed
  <1>3. CASE ~Deliver(v)
    <2>1. ~PostFails(v)
      <3>1. Receiving(v) => pc[v] \in Seated
        BY DEF Receiving, Seated, SocketPC
      <3> QED
        BY <3>1 DEF PostFails, Orderly, SeatedKnown
    <2>2. /\ pc[v] \in Seated \ Locking
          /\ token' = token
          /\ \A u \in Visits : u # v => pc'[u] = pc[u]
          /\ \/ AuthRefused(v) /\ pc[v] = "joined" /\ sockets' = sockets /\ pc'[v] = "ended"
             \/ Auth(v) /\ pc[v] = "joined" /\ sockets' = sockets /\ pc'[v] = "authed"
             \/ pc'[v] \in SocketPC /\ sockets' \subseteq sockets \cup {v}
      BY <1>0, <1>3, <2>1
      DEF Socket, Auth, AuthRefused, Connect, ListSessions, ListMessages, SendState,
          AnnounceJoin, Post, PostCommit, Publish, Receiving, Goto, Seated, SocketPC, Locking
    <2>3. UNCHANGED <<room, session>>
      <3>1. CASE PostCommit(v)
        BY <2>2, <3>1, NothingLocked DEF PostCommit
      <3> QED
        BY <1>3, <2>1, <3>1
        DEF Socket, Auth, AuthRefused, Connect, ListSessions, ListMessages, SendState,
            AnnounceJoin, Post, Publish, rows
    <2>4. /\ pc'[v] \in Seated \/ session[token[v]].saved # "LIVE"
          /\ pc'[v] # "doomed"
      BY <2>2 DEF AuthRefused, Seated, SocketPC
    <2>5. \A u \in sockets' : pc'[u] \in SocketPC
      <3>1. v \in sockets => pc[v] # "joined"
        BY DEF Orderly, SocketsServed, SocketPC
      <3> QED
        BY <1>0, <2>2, <3>1 DEF Orderly, SocketsServed
    <2>6. \A u \in Visits : pc'[u] \in Seated => pc[u] \in Seated /\ pc'[u] # "doomed"
      BY <2>2, <2>4 DEF Orderly
    <2>7. \A u \in Visits : pc[u] \in Seated =>
              \/ session[token[u]].saved # "LIVE"
              \/ \E w \in Visits : /\ token[w] = token[u] /\ pc[w] \in Seated
                                   /\ pc'[w] \in Seated
      BY <2>2, <2>4
    <2> QED
      BY <1>0, <1>1, <2>2, <2>3, <2>5, <2>6, <2>7, OrderlyKept
  <1> QED
    BY <1>2, <1>3

\* The end of a socket's handler without a fault.
LEMMA LeaveOrderly ==
    ASSUME IInv, SlotLocks, Orderly, NEW v \in Visits, Leave(v), ~ReadFails(v)
    PROVE  Orderly'
  <1>0. /\ v \in Txs /\ pc \in [Txs -> VisitPC \cup CleanerPC]
        /\ \A u \in Visits : u \in Txs
        /\ \A u \in Visits : pc[u] \in Seated => token[u] \in Visits
        /\ sockets \subseteq Visits
        /\ session \in [Visits -> SessionRow] /\ room \in RoomRow
        /\ room.saved.count \in Nat
    BY MembersAssumption DEF IInv, TInv, TypeOK, Tokens, SessionRow, RoomRow, Txs, Row
  <1>1. ~UncountFails(v)
    BY DEF UncountFails, Orderly
  <1>2. \/ Freed' \subseteq Freed
        \/ Uncount(v) /\ room.saved.count = 0
    BY <1>0, FreedKept DEF StepOf
  <1>3. CASE Close(v)
    <2>1. /\ pc[v] \in Seated
          /\ UNCHANGED <<room, session, token>> /\ sockets' = sockets \ {v}
          /\ \A u \in Visits : u # v => pc'[u] = pc[u]
          /\ \/ pc'[v] = "leaving"
             \/ pc'[v] = "ended" /\ token[v] \in {token[u] : u \in sockets \ {v}}
      BY <1>0, <1>3 DEF Close, Disconnect, Receiving, Goto, Seated, SocketPC, rows
    <2>2. \A u \in sockets' : pc'[u] \in SocketPC
      BY <1>0, <2>1 DEF Orderly, SocketsServed
    <2>3. \A u \in Visits : pc'[u] \in Seated => pc[u] \in Seated /\ pc'[u] # "doomed"
      BY <2>1 DEF Orderly
    <2>4. \E w \in Visits : token[w] = token[v] /\ pc[w] \in Seated /\ pc'[w] \in Seated
      <3>1. CASE pc'[v] = "leaving"
        BY <2>1, <3>1 DEF Seated, LeavePC
      <3>2. CASE token[v] \in {token[u] : u \in sockets \ {v}}
        <4>1. PICK w \in sockets \ {v} : token[w] = token[v]
          BY <3>2
        <4>2. w \in Visits /\ pc[w] \in Seated /\ pc'[w] = pc[w]
          BY <1>0, <2>1, <4>1 DEF Orderly, SocketsServed, Seated
        <4> QED
          BY <4>1, <4>2
      <3> QED
        BY <2>1, <3>1, <3>2
    <2>5. \A u \in Visits : pc[u] \in Seated =>
              \/ session[token[u]].saved # "LIVE"
              \/ \E w \in Visits : /\ token[w] = token[u] /\ pc[w] \in Seated
                                   /\ pc'[w] \in Seated
      BY <2>1, <2>4
    <2> QED
      BY <1>0, <1>2, <2>1, <2>2, <2>3, <2>5, OrderlyKept
  <1>4. ASSUME pc[v] \in LeavePC PROVE v \notin sockets
    BY <1>4 DEF Orderly, SocketsServed, SocketPC, LeavePC
  <1>5. CASE Uncount(v) \/ ExpireSession(v)
    <2>1. /\ pc[v] \in LeavePC /\ UNCHANGED <<token, sockets>>
          /\ \A u \in Visits : u # v => pc'[u] = pc[u]
          /\ pc'[v] \in {"uncounted", "expired"}
      BY <1>0, <1>5 DEF Uncount, ExpireSession, Goto, LeavePC
    <2>2. room'.saved = room.saved /\ \A s \in Visits : session'[s].saved = session[s].saved
      <3>1. CASE Uncount(v)
        BY <3>1 DEF Uncount, Write
      <3>2. CASE ExpireSession(v)
        <4>1. \/ session' = [session EXCEPT ![token[v]] = session[token[v]]]
              \/ session' = [session EXCEPT ![token[v]] = Write(session[token[v]], v, "EXPIRED")]
          BY <3>2 DEF ExpireSession
        <4> QED
          BY <1>0, <3>2, <4>1 DEF ExpireSession, Write
      <3> QED
        BY <1>5, <3>1, <3>2
    <2>3. \A u \in sockets' : pc'[u] \in SocketPC
      BY <1>0, <1>4, <2>1 DEF Orderly, SocketsServed
    <2>4. pc[v] \in Seated /\ pc'[v] \in Seated /\ pc'[v] # "doomed"
      BY <2>1 DEF Seated, LeavePC
    <2>5. \A u \in Visits : pc'[u] \in Seated => pc[u] \in Seated /\ pc'[u] # "doomed"
      BY <2>1, <2>4 DEF Orderly
    <2>6. \A u \in Visits : pc[u] \in Seated => pc'[u] \in Seated
      BY <2>1, <2>4
    <2> QED
      BY <1>0, <1>2, <2>1, <2>2, <2>3, <2>5, <2>6, OrderlyKept
  <1>6. CASE LeaveCommit(v)
    <2>1. /\ pc[v] = "expired" /\ pc'[v] = "ended" /\ UNCHANGED <<token, sockets>> /\ CommitAll(v)
          /\ \A u \in Visits : u # v => pc'[u] = pc[u]
          /\ pc[v] \in LeavePC /\ pc[v] \in Seated
      BY <1>0, <1>6 DEF LeaveCommit, Goto, LeavePC, Seated
    <2>2. session[token[v]].by = v /\ session[token[v]].draft = "EXPIRED"
      BY <2>1 DEF IInv, Locks, Expiring, Orderly, SeatedKnown
    <2>3. \A s \in Visits : session[s].by = v => s = token[v]
      BY DEF IInv, Locks, SessionLocks
    <2>4. \A s \in Visits :
             session'[s].saved = IF s = token[v] THEN "EXPIRED" ELSE session[s].saved
      BY <2>1, <2>2, <2>3 DEF CommitAll, Commit, Clean
    <2>5. LiveSessions' = LiveSessions \ {token[v]}
      BY <2>4 DEF LiveSessions
    <2>6. SeatedKnown'
      BY <1>0, <2>1, <2>4 DEF Orderly, SeatedKnown, Seated, SocketPC, LeavePC
    <2>7. LiveAreSeated'
      BY <2>1, <2>5 DEF Orderly, LiveAreSeated
    <2>8. NoSlotLost'
      <3>1. Freed' \subseteq Freed
        BY <1>2, <2>1 DEF Uncount
      <3>2. CASE room.by # v
        <4>1. room' = room
          BY <2>1, <3>2 DEF CommitAll, Commit
        <4>2. token[v] \in Freed
          BY <2>1, <3>2 DEF Freed
        <4> QED
          BY <1>0, <2>5, <3>1, <4>1, <4>2, SlotsHeld DEF Orderly
      <3>3. CASE room.by = v
        <4> DEFINE Held == LiveSessions \ Freed
                   Left == LiveSessions' \ Freed'
        <4>1. /\ Held \subseteq Visits /\ Left \subseteq Visits
              /\ Held \ {token[v]} \subseteq Left
          BY <2>5, <3>1 DEF LiveSessions
        <4>2. /\ IsFiniteSet(Held) /\ Cardinality(Held) \in Nat
              /\ IsFiniteSet(Held \ {token[v]}) /\ Cardinality(Held \ {token[v]}) \in Nat
              /\ IsFiniteSet(Left) /\ Cardinality(Left) \in Nat
          BY <4>1, MembersAssumption, FS_Subset, FS_CardinalityType
        <4>3. Cardinality(Held \ {token[v]}) >= Cardinality(Held) - 1
          <5>1. CASE token[v] \in Held
            BY <4>2, <5>1, FS_RemoveElement
          <5>2. CASE token[v] \notin Held
            <6>1. Held \ {token[v]} = Held
              BY <5>2
            <6> QED
              BY <4>2, <6>1
          <5> QED
            BY <5>1, <5>2
        <4>4. Cardinality(Held \ {token[v]}) <= Cardinality(Left)
          BY <4>1, <4>2, FS_Subset
        <4>5. room'.saved.count \in {0, room.saved.count - 1}
          <5>1. room'.saved = room.draft
            BY <2>1, <3>3 DEF CommitAll, Commit, Clean
          <5> QED
            BY <2>1, <3>3, <5>1 DEF SlotLocks, Open
        <4>6. room.saved.count <= Cardinality(Held)
          BY DEF Orderly, NoSlotLost
        <4>7. room'.saved.count <= Cardinality(Left)
          <5> HIDE DEF Held, Left
          <5> QED
            BY <1>0, <4>2, <4>3, <4>4, <4>5, <4>6
        <4> QED
          BY <4>7 DEF NoSlotLost
      <3> QED
        BY <3>2, <3>3
    <2>9. SocketsServed' /\ \A u \in Visits : pc'[u] # "doomed"
      BY <1>0, <1>4, <2>1 DEF Orderly, SocketsServed
    <2> QED
      BY <2>6, <2>7, <2>8, <2>9 DEF Orderly
  <1> QED
    BY <1>1, <1>3, <1>5, <1>6 DEF Leave

\* Every step, as long as there is no fault and the room is not wiped.
LEMMA OrderlyStep ==
    ASSUME FInv, [Next]_vars
    PROVE  Untroubled' => Orderly'
  <1> SUFFICES ASSUME Untroubled' PROVE Orderly'
    OBVIOUS
  <1>1. ~Fault
    BY DEF Fault, Untroubled, FInv, IInv, TInv, TypeOK
  <1>2. IInv /\ SlotLocks /\ room.saved.status = "ACTIVE"
    BY SlotLocksKept DEF FInv, Untroubled
  <1>3. faults' = faults
    BY <1>1
    DEF Next, Join, JoinBegin, JoinRefused, LookupFinds, LookupFindsNone, Reuse, ReuseFails, Claim,
        RoomFull, CreateSession, JoinCommit, Socket, Auth, AuthRefused, Connect, ListSessions,
        ListMessages, SendState, AnnounceJoin, Deliver, Post, PostFails, PostCommit, Publish,
        Leave, Close, Uncount, ExpireSession, LeaveCommit, ReadFails, UncountFails,
        ChatFails, Lapse, Wipe, MarkRoom, DeleteMessages, DeleteSessions, DeleteSession,
        WipeCommit, Fail, Crash, vars
  <1>4. Orderly
    BY <1>2, <1>3 DEF FInv, Untroubled
  <1>5. CASE \E v \in Visits : Join(v) \/ Socket(v) \/ (Leave(v) /\ ~ReadFails(v))
    BY <1>2, <1>4, <1>5, JoinOrderly, SocketOrderly, LeaveOrderly
  <1>6. CASE \E c \in Cleaners : Wipe(c)
    <2>1. PICK c \in Cleaners : Wipe(c)
      BY <1>6
    <2>2. /\ c \in Txs /\ \A u \in Visits : u \in Txs /\ u # c
          /\ pc \in [Txs -> VisitPC \cup CleanerPC]
          /\ session \in [Visits -> SessionRow] /\ room \in RoomRow
          /\ \A u \in Visits : pc[u] \in Seated => token[u] \in Visits
          /\ sockets \subseteq Visits /\ room.saved.count \in Nat
      BY <1>2, MembersAssumption DEF IInv, TInv, TypeOK, Tokens, SessionRow, RoomRow, Txs, Row
    <2>3. ~WipeCommit(c)
      BY <2>2 DEF WipeCommit, Clean, Untroubled, RoomRow, Row
    <2>4. /\ UNCHANGED <<token, sockets>>
          /\ \A u \in Visits : pc'[u] = pc[u]
      BY <2>1, <2>2, <2>3
      DEF Wipe, MarkRoom, DeleteMessages, DeleteSessions, DeleteSession, Goto
    <2>5. /\ room'.saved = room.saved
          /\ \A s \in Visits : session'[s].saved = session[s].saved
      <3>1. CASE MarkRoom(c)
        BY <3>1 DEF MarkRoom, Write
      <3>2. CASE DeleteSession(c)
        BY <2>2, <3>2 DEF DeleteSession, Write
      <3> QED
        BY <2>1, <2>3, <3>1, <3>2 DEF Wipe, DeleteMessages, DeleteSessions, rows
    <2>6. Freed' \subseteq Freed
      BY <1>2, <2>1, <2>2, FreedKept DEF StepOf
    <2> QED
      BY <1>4, <2>2, <2>4, <2>5, <2>6, OrderlyKept DEF Orderly, SocketsServed
  <1>7. CASE UNCHANGED vars
    BY <1>4, <1>7
    DEF vars, rows, Orderly, SeatedKnown, SocketsServed, LiveAreSeated, NoSlotLost, LiveSessions, Freed
  <1>8. /\ \A v \in Visits : ~ReadFails(v) /\ ~ChatFails(v) /\ ~Lapse(v)
        /\ \A p \in Txs : ~Fail(p)
        /\ ~Crash
    BY <1>1 DEF ReadFails, ChatFails, Lapse, Fail, Crash
  <1> QED
    BY <1>5, <1>6, <1>7, <1>8 DEF Next

\* The owner, who has the only slot, is about to open a socket.
LEMMA OrderlyStart == ASSUME Init PROVE FInv
  <1>1. IInv
    BY InitHolds
  <1>2. /\ \A v \in Visits : pc[v] = IF v = Owner THEN "joined" ELSE "idle"
        /\ \A v \in Visits : token[v] = IF v = Owner THEN Owner ELSE NoSession
        /\ \A s \in Visits : session[s].saved = IF s = Owner THEN "LIVE" ELSE "ABSENT"
        /\ Owner \in Visits /\ sockets = {}
        /\ room.by = NoTx /\ room.saved = room.draft /\ room.saved.count = 1
    BY MembersAssumption DEF Init, Clean, Txs
  <1>3. SlotLocks
    BY <1>2 DEF SlotLocks, StatusLock, Open
  <1>4. LiveSessions = {Owner}
    BY <1>2 DEF LiveSessions
  <1>5. "joined" \in Seated /\ "idle" \notin Seated
    BY DEF Seated, SocketPC, LeavePC
  <1>6. NoSlotLost
    <2>1. LiveSessions \ Freed = {Owner}
      BY <1>2, <1>4 DEF Freed
    <2> QED
      BY <1>2, <2>1, FS_Singleton DEF NoSlotLost
  <1>7. SeatedKnown /\ SocketsServed /\ LiveAreSeated
    BY <1>2, <1>4, <1>5 DEF SeatedKnown, SocketsServed, LiveAreSeated
  <1> QED
    BY <1>1, <1>2, <1>3, <1>6, <1>7 DEF FInv, Orderly

LEMMA OrderlyKeeps == FInv /\ [Next]_vars => FInv'
  BY StepKeeps, SlotLocksKept, OrderlyStep DEF FInv

\* Whoever leaves gives the slot back: without a fault or a wipe the count is 0
\* once every visit has ended, for any number of visits, of pages of one session
\* and of orders in which they join, reconnect and leave.
THEOREM LeaversFreeSlots == Spec => []SlotsAreFreed
  <1>1. Init => FInv
    BY OrderlyStart
  <1>2. FInv /\ [Next]_vars => FInv'
    BY OrderlyKeeps
  <1>3. FInv => SlotsAreFreed
    <2> SUFFICES ASSUME FInv, AtRest, faults = 0, room.saved.status = "ACTIVE"
                 PROVE  room.saved.count = 0
      BY DEF SlotsAreFreed
    <2>1. Orderly
      BY DEF FInv, Untroubled
    <2>2. \A v \in Visits : pc[v] \notin Seated
      BY DEF AtRest, Seated, SocketPC, LeavePC
    <2>3. LiveSessions = {}
      BY <2>1, <2>2 DEF Orderly, LiveAreSeated
    <2>4. Cardinality(LiveSessions \ Freed) = 0
      <3>1. LiveSessions \ Freed = {}
        BY <2>3
      <3> QED
        BY <3>1, FS_EmptySet
    <2>5. room.saved.count \in Nat
      BY MembersAssumption DEF FInv, IInv, TInv, TypeOK, Row
    <2> QED
      BY <2>1, <2>4, <2>5 DEF Orderly, NoSlotLost
  <1> QED
    BY <1>1, <1>2, <1>3, PTL DEF Spec

\* A page shows a member only while a handler of the member runs or USER_LEFT is
\* on its way to the page, or a handler of the member has broken off with its
\* socket in the registry; and as long as there is no fault and the room is not
\* wiped, none has: joined-but-left participants never linger (_send_state, and
\* the `finally` of room_ws), and dead peers are cleaned up on disconnect.
THEOREM NobodyLingers == Spec => []NoGhosts
  <1>1. GInv /\ FInv => NoGhosts
    <2> SUFFICES ASSUME GInv, FInv PROVE NoGhosts
      OBVIOUS
    <2>1. Registered \subseteq Connected \cup Abandoned
      <3>1. \A v \in sockets : pc[v] \in SocketPC \cup {"failed"}
        BY DEF GInv, TInv, TypeOK, Tokens
      <3> QED
        BY <3>1 DEF Registered, Connected, Abandoned
    <2>2. Abandoned # {} => faults > 0 \/ room.saved.status # "ACTIVE"
      <3>1. Untroubled => Abandoned = {}
        <4>1. "failed" \notin SocketPC
          BY DEF SocketPC
        <4> QED
          BY <4>1 DEF FInv, Orderly, SocketsServed, Abandoned
      <3>2. faults \in Nat
        BY DEF GInv, TInv, TypeOK
      <3> QED
        BY <3>1, <3>2 DEF Untroubled
    <2> QED
      BY <2>1, <2>2 DEF GInv, ShownAreRegistered, LeftIsDue, NoGhosts
  <1>2. Init => GInv /\ FInv
    BY GhostsKept, OrderlyStart
  <1>3. GInv /\ FInv /\ [Next]_vars => GInv' /\ FInv'
    BY GhostsKept, OrderlyKeeps
  <1> QED
    BY <1>1, <1>2, <1>3, PTL DEF Spec

-----------------------------------------------------------------------------
(***************************************************************************)
(* The wipe and the messages: none is left behind, unless one was being    *)
(* inserted while the wipe was between its DELETE of the messages and its  *)
(* commit.                                                                 *)
(***************************************************************************)
NoPostInWipe == \A c \in Cleaners, v \in Visits :
    pc[c] \in {"cleared", "emptied"} => pc[v] # "posting"

\* What a wipe holds: every message that is committed, and every session but
\* those it has still to delete; and it writes nothing to a message but its end.
Wipers == \A c \in Cleaners :
    /\ pc[c] \in {"cleared", "emptied"} =>
          \A m \in Visits : message[m].saved = "STORED" => message[m].by = c
    /\ pc[c] = "emptied" =>
          \A s \in Visits : session[s].saved # "ABSENT" => s \in todo[c] \/ session[s].by = c
    /\ \A m \in Visits : message[m].by = c =>
          message[m].draft = "ABSENT" /\ pc[c] \in {"cleared", "emptied"}

\* A session that has been deleted is not written again.
GoneForGood == \A s \in Visits :
    pc[s] \notin Early /\ session[s].saved = "ABSENT" => session[s].draft = "ABSENT"

\* A room that is over has no message, nobody who is writing one, and no socket
\* whose session would let a message in.
Aftermath == room.saved.status = "DELETED" => \A v \in Visits :
    /\ message[v].saved = "ABSENT" /\ pc[v] # "posting"
    /\ pc[v] \in SocketPC => session[token[v]].saved = "ABSENT"

WInv == SInv /\ SlotLocks /\ Wipers /\ GoneForGood /\ Aftermath

\* What a step makes of the row of a session.
LEMMA SessionMoves ==
    ASSUME IInv, [Next]_vars, NEW s \in Visits
    PROVE  \/ session'[s] \in {session[s], Clean(session[s].saved)}
           \/ session'[s] = Clean(session[s].draft) /\ session[s].by # NoTx
           \/ session[s] = Clean("LIVE") /\ session'[s] = Clean("EXPIRED")
           \/ /\ session'[s].saved = session[s].saved
              /\ session[s].draft # "ABSENT" \/ session'[s].draft = "ABSENT"
                 \/ (pc[s] = "claimed" /\ pc'[s] = "inserted")
  <1>0. session \in [Visits -> SessionRow] /\ NoTx \notin Txs
    BY MembersAssumption DEF IInv, TInv, TypeOK, SessionRow
  <1> DEFINE Moved ==
        \/ session'[s] \in {session[s], Clean(session[s].saved)}
        \/ session'[s] = Clean(session[s].draft) /\ session[s].by # NoTx
        \/ session[s] = Clean("LIVE") /\ session'[s] = Clean("EXPIRED")
        \/ /\ session'[s].saved = session[s].saved
           /\ session[s].draft # "ABSENT" \/ session'[s].draft = "ABSENT"
                 \/ (pc[s] = "claimed" /\ pc'[s] = "inserted")
  <1>1. CASE \E p \in Txs : CommitAll(p) \/ RollbackAll(p)
    BY <1>0, <1>1 DEF CommitAll, RollbackAll, Commit, Rollback
  <1>2. ASSUME NEW t \in Visits, NEW p, NEW x,
               session' = [session EXCEPT ![t] = Write(session[t], p, x)],
               session[t].draft # "ABSENT" \/ x = "ABSENT" \/ (pc[t] = "claimed" /\ pc'[t] = "inserted")
        PROVE  Moved
    <2>1. session'[s] = IF s = t THEN Write(session[t], p, x) ELSE session[s]
      BY <1>0, <1>2
    <2>2. s = t => session'[s].saved = session[s].saved /\ session'[s].draft = x
      BY <2>1 DEF Write
    <2> QED
      BY <1>2, <2>1, <2>2
  <1>3. ASSUME NEW v \in Visits, Reuse(v) PROVE Moved
    <2>1. token[v] \in Visits
      BY <1>3 DEF Reuse, IInv, TInv, Tokens
    <2> QED
      BY <1>2, <1>3, <2>1 DEF Reuse
  <1>4. ASSUME NEW v \in Visits, CreateSession(v) PROVE Moved
    <2>1. pc'[v] = "inserted"
      BY <1>4, Moves DEF CreateSession, IInv
    <2> QED
      BY <1>2, <1>4, <2>1 DEF CreateSession
  <1>5. ASSUME NEW v \in Visits, ExpireSession(v) PROVE Moved
    <2>1. token[v] \in Visits
      BY <1>5 DEF ExpireSession, IInv, TInv, Tokens, Seated, LeavePC
    <2>2. CASE session[token[v]].draft = "ABSENT"
      BY <1>0, <1>5, <2>1, <2>2 DEF ExpireSession
    <2>3. CASE session[token[v]].draft # "ABSENT"
      <3>1. session' = [session EXCEPT ![token[v]] = Write(session[token[v]], v, "EXPIRED")]
        BY <1>0, <1>5, <2>3 DEF ExpireSession
      <3> QED
        BY <1>2, <2>1, <2>3, <3>1
    <2> QED
      BY <2>2, <2>3
  <1>6. ASSUME NEW v \in Visits, Lapse(v) PROVE Moved
    BY <1>0, <1>6 DEF Lapse
  <1>7. ASSUME NEW c \in Cleaners, DeleteSession(c) PROVE Moved
    <2>1. PICK t \in todo[c] : session' = [session EXCEPT ![t] = Write(session[t], c, "ABSENT")]
      BY <1>7 DEF DeleteSession
    <2>2. t \in Visits
      BY <2>1 DEF IInv, TInv, TypeOK, Txs
    <2> QED
      BY <1>2, <2>1, <2>2
  <1>8. ASSUME NEW c \in Cleaners, WipeCommit(c) PROVE Moved
    <2>1. c # NoTx
      BY <1>0 DEF Txs
    <2> QED
      BY <1>8, <2>1 DEF WipeCommit, Commit
  <1>9. CASE Crash
    BY <1>9 DEF Crash
  <1>10. CASE session' = session
    BY <1>10
  <1>11. ASSUME NEW v \in Visits, Join(v) \/ Socket(v) \/ Leave(v) \/ ChatFails(v)
         PROVE  \/ Reuse(v) \/ CreateSession(v) \/ ExpireSession(v)
                \/ CommitAll(v) \/ RollbackAll(v) \/ session' = session
    BY <1>11
    DEF Join, JoinBegin, JoinRefused, LookupFinds, LookupFindsNone, ReuseFails, Claim,
        RoomFull, JoinCommit, Socket, Auth, AuthRefused, Connect, ListSessions,
        ListMessages, SendState, AnnounceJoin, Deliver, Post, PostFails, PostCommit, Publish,
        Leave, Close, Uncount, LeaveCommit, ReadFails, UncountFails, ChatFails, rows
  <1>12. ASSUME NEW c \in Cleaners, Wipe(c)
         PROVE  DeleteSession(c) \/ WipeCommit(c) \/ session' = session
    BY <1>12 DEF Wipe, MarkRoom, DeleteMessages, DeleteSessions, rows
  <1>13. CASE \E v \in Visits : Join(v) \/ Socket(v) \/ Leave(v) \/ ChatFails(v)
    <2>1. PICK v \in Visits : Join(v) \/ Socket(v) \/ Leave(v) \/ ChatFails(v)
      BY <1>13
    <2>2. v \in Txs
      BY DEF Txs
    <2> QED
      BY <1>1, <1>3, <1>4, <1>5, <1>10, <1>11, <2>1, <2>2
  <1>14. CASE \E v \in Visits : Lapse(v)
    BY <1>6, <1>14
  <1>15. CASE \E c \in Cleaners : Wipe(c)
    BY <1>7, <1>8, <1>10, <1>12, <1>15
  <1>16. CASE \E p \in Txs : Fail(p)
    BY <1>1, <1>16 DEF Fail
  <1>17. CASE UNCHANGED vars
    BY <1>10, <1>17 DEF vars, rows
  <1> QED
    BY <1>9, <1>13, <1>14, <1>15, <1>16, <1>17 DEF Next

\* The step by which a visit commits a session of its own, or gives it up.
LEMMA OwnSessionEnds ==
    ASSUME IInv, [Next]_vars, NEW s \in Visits, pc[s] = "inserted", pc'[s] # "inserted"
    PROVE  session'[s] \in {Clean("ABSENT"), Clean("LIVE")}
  <1>0. /\ session[s] = Write(Clean("ABSENT"), s, "LIVE")
        /\ session[s].by = s /\ session[s].saved = "ABSENT" /\ session[s].draft = "LIVE"
    BY DEF IInv, Locks, SessionLocks, Write, Clean
  <1>1. CASE CommitAll(s) \/ RollbackAll(s)
    BY <1>0, <1>1 DEF CommitAll, RollbackAll, Commit, Rollback
  <1>2. CASE Crash
    BY <1>0, <1>2 DEF Crash
  <1>3. s \in Txs /\ s \notin Cleaners
    BY MembersAssumption DEF Txs
  <1>4. CASE \E p \in Txs : StepOf(p)
    <2>1. PICK p \in Txs : StepOf(p)
      BY <1>4
    <2>2. p = s
      BY <1>3, <2>1, Isolated
    <2>3. Join(s) \/ Fail(s)
      BY <1>3, <2>1, <2>2
      DEF StepOf, Socket, Auth, AuthRefused, Connect, ListSessions, ListMessages, SendState,
          AnnounceJoin, Deliver, Post, PostFails, PostCommit, Publish, Receiving, Leave, Close,
          Uncount, ExpireSession, LeaveCommit, ReadFails, UncountFails, ChatFails
    <2>4. JoinCommit(s) \/ Fail(s)
      BY <2>3 DEF Join, JoinBegin, JoinRefused, LookupFinds, LookupFindsNone, Reuse, ReuseFails, Claim,
                  RoomFull, CreateSession
    <2> QED
      BY <1>1, <2>4 DEF JoinCommit, Fail
  <1>5. CASE (\E v \in Visits : Lapse(v)) \/ UNCHANGED vars
    BY <1>5 DEF Lapse, vars
  <1> QED
    BY <1>2, <1>4, <1>5, <1>3 DEF Next, StepOf, Txs

LEMMA GoneKept ==
    ASSUME IInv, GoneForGood, [Next]_vars
    PROVE  /\ GoneForGood'
           /\ \A s \in Visits : pc[s] \notin Early /\ session[s].saved = "ABSENT" =>
                 session'[s].saved = "ABSENT"
  <1>1. ASSUME NEW s \in Visits, pc[s] \notin Early
        PROVE  /\ session'[s].saved = "ABSENT" => session'[s].draft = "ABSENT"
               /\ session[s].saved = "ABSENT" => session'[s].saved = "ABSENT"
    <2>1. pc[s] # "claimed"
      BY <1>1 DEF Early, JoinPC
    <2>2. session[s].saved = "ABSENT" => session[s].draft = "ABSENT"
      BY <1>1 DEF GoneForGood
    <2>3. session[s].by = NoTx => session[s].draft = session[s].saved
      BY DEF IInv, Locks, SessionLocks
    <2>4. \A x : Clean(x).saved = x /\ Clean(x).draft = x
      BY DEF Clean
    <2> QED
      BY <2>1, <2>2, <2>3, <2>4, SessionMoves
  <1>2. ASSUME NEW s \in Visits, pc[s] \in Early, pc'[s] \notin Early
        PROVE  session'[s].saved = "ABSENT" => session'[s].draft = "ABSENT"
    <2>1. CASE pc[s] = "inserted"
      <3>1. pc'[s] # "inserted"
        BY <1>2 DEF Early, JoinPC
      <3> QED
        BY <2>1, <3>1, OwnSessionEnds DEF Clean
    <2>2. CASE pc[s] # "inserted"
      <3>1. session[s] = Clean("ABSENT") /\ pc'[s] # "inserted"
        BY <1>2, <2>2 DEF IInv, Locks, SessionLocks, Early, JoinPC
      <3>2. \A x : Clean(x).saved = x /\ Clean(x).draft = x /\ Clean(x).by = NoTx
        BY DEF Clean
      <3> QED
        BY <3>1, <3>2, SessionMoves
    <2> QED
      BY <2>1, <2>2
  <1> QED
    BY <1>1, <1>2 DEF GoneForGood

\* What a visit's step makes of messages: it writes and ends its own only.
LEMMA MessageMoves ==
    ASSUME IInv, MessageLocks, NEW v \in Visits, StepOf(v), NEW m \in Visits
    PROVE  \/ message'[m] = message[m]
           \/ m = v /\ Post(v) /\ message'[m] = Write(message[m], v, "STORED")
           \/ m = v /\ pc[v] = "posting"
  <1>0. message \in [Visits -> MessageRow] /\ v \notin Cleaners
    BY MembersAssumption DEF IInv, TInv, TypeOK, MessageRow
  <1>1. CASE CommitAll(v) \/ RollbackAll(v)
    <2>1. message[m].by = v => m = v /\ pc[v] = "posting"
      BY DEF MessageLocks
    <2> QED
      BY <1>0, <1>1, <2>1 DEF CommitAll, RollbackAll, Commit, Rollback
  <1>2. CASE Post(v)
    BY <1>0, <1>2 DEF Post
  <1>3. CASE message' = message
    BY <1>3
  <1> QED
    BY <1>0, <1>1, <1>2, <1>3
    DEF StepOf, Join, JoinBegin, JoinRefused, LookupFinds, LookupFindsNone, Reuse, ReuseFails, Claim,
        RoomFull, CreateSession, JoinCommit, Socket, Auth, AuthRefused, Connect, ListSessions,
        ListMessages, SendState, AnnounceJoin, Deliver, PostFails, PostCommit, Publish,
        Leave, Close, Uncount, ExpireSession, LeaveCommit, ReadFails, UncountFails,
        ChatFails, Fail, rows

\* While a cleaner holds the room's row no session is committed that was not there.
LEMMA NoNewSessions ==
    ASSUME IInv, GoneForGood, [Next]_vars, NEW c \in Cleaners, pc[c] # "idle", NEW s \in Visits,
           session[s].saved = "ABSENT"
    PROVE  session'[s].saved = "ABSENT"
  <1>1. CASE pc[s] \notin Early
    BY <1>1, GoneKept
  <1>2. CASE pc[s] \in Early
    <2>1. room.by = c /\ c # s
      BY MembersAssumption DEF IInv, Locks, RoomLock
    <2>2. pc[s] # "inserted"
      BY <2>1 DEF IInv, Locks, RoomLock
    <2>3. session[s].by = NoTx /\ session[s].draft = "ABSENT"
      BY <1>2, <2>2 DEF IInv, Locks, SessionLocks, Clean
    <2>4. \A x : Clean(x).saved = x
      BY DEF Clean
    <2> QED
      BY <2>3, <2>4, SessionMoves
  <1> QED
    BY <1>1, <1>2

\* Only one cleaner is at work at a time.
LEMMA OneWiper ==
    ASSUME IInv, NEW c \in Cleaners, Wipe(c) \/ pc[c] # "idle", NEW d \in Cleaners, d # c
    PROVE  pc[d] = "idle"
  <1>1. room.by \in {NoTx, c}
    BY DEF Wipe, MarkRoom, DeleteMessages, DeleteSessions, DeleteSession, WipeCommit, Lockable,
           IInv, Locks, RoomLock
  <1>2. d # NoTx
    BY MembersAssumption DEF Txs
  <1> QED
    BY <1>1, <1>2 DEF IInv, Locks, RoomLock

LEMMA VisitsKeepWipers ==
    ASSUME IInv, MessageLocks, GoneForGood, Wipers, NoPostInWipe, [Next]_vars,
           NEW v \in Visits, StepOf(v)
    PROVE  Wipers'
  <1> SUFFICES ASSUME NEW c \in Cleaners
               PROVE  /\ pc[c] \in {"cleared", "emptied"} =>
                            \A m \in Visits : message'[m].saved = "STORED" => message'[m].by = c
                      /\ pc[c] = "emptied" =>
                            \A s \in Visits : session'[s].saved # "ABSENT" => s \in todo[c] \/ session'[s].by = c
                      /\ \A m \in Visits : message'[m].by = c =>
                            message'[m].draft = "ABSENT" /\ pc[c] \in {"cleared", "emptied"}
    <2>1. \A c \in Cleaners : pc'[c] = pc[c] /\ todo'[c] = todo[c]
      BY Isolated, MembersAssumption DEF Txs
    <2> QED
      BY <2>1 DEF Wipers
  <1>0. c \in Txs /\ v \in Txs /\ c # v /\ c # NoTx /\ v \notin Cleaners
    BY MembersAssumption DEF Txs
  <1>1. ASSUME NEW m \in Visits, message'[m] # message[m]
        PROVE  /\ message'[m].by # c
               /\ pc[c] \in {"cleared", "emptied"} => message'[m].saved = "ABSENT"
    <2>1. CASE Post(v) /\ message'[m] = Write(message[m], v, "STORED") /\ m = v
      <3>1. message[m].saved = "ABSENT"
        BY <2>1 DEF MessageLocks, Post, Unposted
      <3> QED
        BY <1>0, <2>1, <3>1 DEF Write
    <2>2. CASE m = v /\ pc[v] = "posting"
      <3>1. message[m].by = v
        BY <2>2 DEF MessageLocks
      <3>2. PostCommit(v) \/ ChatFails(v)
        <4>1. CASE Join(v)
          BY <2>2, <4>1 DEF Join, JoinBegin, JoinRefused, LookupFinds, LookupFindsNone, Reuse, ReuseFails,
                            Claim, RoomFull, CreateSession, JoinCommit
        <4>2. CASE Socket(v)
          BY <1>1, <2>2, <4>2 DEF Socket, Auth, AuthRefused, Connect, ListSessions, ListMessages,
                                  SendState, AnnounceJoin, Deliver, Post, PostFails, Publish, Receiving, rows
        <4>3. CASE Leave(v) \/ Fail(v)
          BY <1>0, <2>2, <4>3 DEF Leave, Close, Uncount, ExpireSession, LeaveCommit, ReadFails,
                                  UncountFails, Receiving, Fail, JoinPC
        <4> QED
          BY <1>0, <4>1, <4>2, <4>3 DEF StepOf
      <3>3. message'[m] \in {Clean(message[m].draft), Clean(message[m].saved)}
        BY <3>1, <3>2 DEF PostCommit, ChatFails, CommitAll, RollbackAll, Commit, Rollback
      <3> QED
        BY <1>0, <2>2, <3>3 DEF Clean, NoPostInWipe
    <2> QED
      BY <1>1, <2>1, <2>2, MessageMoves
  <1>2. \A s \in Visits : session[s].by = c => session'[s] = session[s]
    BY <1>0, Isolated
  <1>3. pc[c] = "emptied" => \A s \in Visits : session'[s].saved # "ABSENT" => session[s].saved # "ABSENT"
    BY NoNewSessions
  <1> QED
    BY <1>1, <1>2, <1>3 DEF Wipers

LEMMA CleanersKeepWipers ==
    ASSUME IInv, MessageLocks, GoneForGood, Wipers, NEW c \in Cleaners, Wipe(c), [Next]_vars
    PROVE  Wipers'
  <1>0. /\ c \in Txs /\ c # NoTx /\ message \in [Visits -> MessageRow]
        /\ session \in [Visits -> SessionRow]
        /\ todo \in [Txs -> SUBSET Visits]
        /\ pc \in [Txs -> VisitPC \cup CleanerPC]
        /\ Cleaners \subseteq Txs
    BY MembersAssumption DEF IInv, TInv, TypeOK, MessageRow, SessionRow, Txs
  <1>1. ASSUME NEW d \in Cleaners, d # c PROVE pc[d] = "idle" /\ pc'[d] = "idle"
    <2>1. pc[d] = "idle"
      BY <1>1, OneWiper
    <2> QED
      BY <1>0, <1>1, <2>1 DEF Wipe, MarkRoom, DeleteMessages, DeleteSessions, DeleteSession, WipeCommit, Goto
  <1>2. \A d \in Cleaners, m \in Visits : d # c => message[m].by # d /\ d # NoTx
    BY <1>1, MembersAssumption DEF Wipers, Txs
  <1> DEFINE Mine ==
        /\ pc'[c] \in {"cleared", "emptied"} =>
              \A m \in Visits : message'[m].saved = "STORED" => message'[m].by = c
        /\ pc'[c] = "emptied" =>
              \A s \in Visits : session'[s].saved # "ABSENT" => s \in todo'[c] \/ session'[s].by = c
        /\ \A m \in Visits : message'[m].by = c =>
              message'[m].draft = "ABSENT" /\ pc'[c] \in {"cleared", "emptied"}
        /\ \A m \in Visits : message'[m].by \in {message[m].by, c, NoTx}
  <1>3. ASSUME MarkRoom(c) PROVE Mine
    <2>1. pc[c] = "idle" /\ pc'[c] = "wiping" /\ message' = message
      BY <1>0, <1>3 DEF MarkRoom, Goto
    <2> QED
      BY <2>1 DEF Wipers
  <1>4. ASSUME DeleteMessages(c) PROVE Mine
    <2>1. /\ pc[c] = "wiping" /\ pc'[c] = "cleared"
          /\ \A m \in Visits : message'[m] = IF message[m].saved = "STORED"
                                               THEN Write(message[m], c, "ABSENT") ELSE message[m]
      BY <1>0, <1>4 DEF DeleteMessages, Goto
    <2>2. \A m \in Visits : message[m].by # c
      BY <2>1 DEF Wipers
    <2>3. ASSUME NEW m \in Visits
          PROVE  \/ message'[m] = message[m] /\ message[m].saved # "STORED"
                 \/ message'[m].by = c /\ message'[m].draft = "ABSENT"
      <3>1. message[m].saved = "STORED" => message'[m] = Write(message[m], c, "ABSENT")
        BY <2>1
      <3>2. Write(message[m], c, "ABSENT").by = c /\ Write(message[m], c, "ABSENT").draft = "ABSENT"
        BY DEF Write
      <3> QED
        BY <2>1, <3>1, <3>2
    <2> QED
      BY <2>1, <2>2, <2>3
  <1>5. ASSUME DeleteSessions(c) PROVE Mine
    <2>1. /\ pc[c] = "cleared" /\ pc'[c] = "emptied" /\ message' = message /\ session' = session
          /\ todo'[c] = {s \in Visits : session[s].saved # "ABSENT"}
      BY <1>0, <1>5 DEF DeleteSessions, Goto, rows
    <2> QED
      BY <2>1 DEF Wipers
  <1>6. ASSUME DeleteSession(c) PROVE Mine
    <2>1. PICK t \in todo[c] :
             /\ pc[c] = "emptied" /\ UNCHANGED <<pc, message>>
             /\ session' = [session EXCEPT ![t] = Write(session[t], c, "ABSENT")]
             /\ todo' = [todo EXCEPT ![c] = todo[c] \ {t}]
      BY <1>6 DEF DeleteSession
    <2>2. t \in Visits /\ todo'[c] = todo[c] \ {t}
      BY <1>0, <2>1
    <2>3. session'[t] = Write(session[t], c, "ABSENT") /\ \A s \in Visits : s # t => session'[s] = session[s]
      BY <1>0, <2>1, <2>2
    <2>4. session'[t].by = c
      BY <2>3 DEF Write
    <2> QED
      BY <2>1, <2>2, <2>3, <2>4 DEF Wipers
  <1>7. ASSUME WipeCommit(c) PROVE Mine
    <2>1. pc'[c] = "idle" /\ \A m \in Visits : message'[m] = Commit(message[m], c)
      BY <1>0, <1>7 DEF WipeCommit, Goto
    <2>2. \A m \in Visits : message'[m].by # c /\ message'[m].by \in {message[m].by, NoTx}
      <3>1. \A x : Clean(x).by = NoTx
        BY DEF Clean
      <3> QED
        BY <1>0, <2>1, <3>1 DEF Commit
    <2> QED
      BY <2>1, <2>2
  <1>8. Mine
    BY <1>3, <1>4, <1>5, <1>6, <1>7 DEF Wipe
  <1> QED
    BY <1>1, <1>2, <1>8 DEF Wipers

LEMMA WipersKept ==
    ASSUME IInv, MessageLocks, GoneForGood, Wipers, NoPostInWipe, [Next]_vars
    PROVE  Wipers'
  <1>0. \A c \in Cleaners : c # NoTx
    BY MembersAssumption DEF Txs
  <1>1. CASE Crash
    <2>1. /\ \A m \in Visits : message'[m].by = NoTx
          /\ \A c \in Cleaners : pc'[c] = "idle"
      BY <1>1 DEF Crash, Clean, Txs
    <2> QED
      BY <1>0, <2>1 DEF Wipers
  <1>2. ASSUME NEW s \in Visits, Lapse(s) PROVE Wipers'
    <2>1. /\ UNCHANGED <<pc, todo, message>>
          /\ session[s].by = NoTx /\ session[s].saved = "LIVE"
          /\ \A x \in Visits : x # s => session'[x] = session[x]
      BY <1>2 DEF Lapse, Clean, IInv, TInv, TypeOK
    <2> QED
      BY <1>0, <2>1 DEF Wipers
  <1>3. ASSUME NEW c \in Cleaners, Fail(c) PROVE Wipers'
    <2>1. /\ pc'[c] = "idle" /\ pc[c] # "idle"
          /\ \A m \in Visits : message'[m] = Rollback(message[m], c)
          /\ \A d \in Cleaners : d # c => pc'[d] = pc[d]
      BY <1>3, MembersAssumption DEF Fail, RollbackAll, Goto, IInv, TInv, TypeOK, Txs
    <2>2. \A d \in Cleaners : d # c => pc[d] = "idle"
      BY <2>1, OneWiper
    <2>3. \A m \in Visits : message'[m].by # c /\ message'[m].by \in {message[m].by, NoTx}
      <3>1. \A x : Clean(x).by = NoTx
        BY DEF Clean
      <3> QED
        BY <1>0, <2>1, <3>1 DEF Rollback
    <2> QED
      BY <1>0, <2>1, <2>2, <2>3 DEF Wipers
  <1>4. CASE UNCHANGED vars
    BY <1>4 DEF vars, rows, Wipers
  <1>5. CASE \E c \in Cleaners : Wipe(c)
    BY <1>5, CleanersKeepWipers
  <1>6. CASE \E v \in Visits : StepOf(v)
    BY <1>6, VisitsKeepWipers
  <1> QED
    BY <1>1, <1>2, <1>3, <1>4, <1>5, <1>6 DEF Next, StepOf, Txs

\* Only the commit of a wipe makes a room DELETED.
LEMMA OnlyWipesEndRooms ==
    ASSUME IInv, StatusLock, [Next]_vars,
           room'.saved.status = "DELETED", room.saved.status # "DELETED"
    PROVE  \E c \in Cleaners : WipeCommit(c)
  <1>1. ASSUME NEW v \in Visits, CommitAll(v) PROVE room'.saved.status = room.saved.status
    <2>1. v \notin Cleaners
      BY MembersAssumption
    <2> QED
      BY <1>1, <2>1 DEF CommitAll, Commit, Clean, StatusLock
  <1>2. ASSUME NEW p, RollbackAll(p) PROVE room'.saved = room.saved
    BY <1>2 DEF RollbackAll, Rollback, Clean
  <1>3. ASSUME NEW p, NEW x, room' = Write(room, p, x) PROVE room'.saved = room.saved
    BY <1>3 DEF Write
  <1>4. CASE Crash
    BY <1>4 DEF Crash, Clean
  <1>5. ASSUME NEW v \in Visits, Join(v) \/ Socket(v) \/ Leave(v) \/ ChatFails(v) \/ Lapse(v)
        PROVE  \/ room' = room \/ CommitAll(v) \/ RollbackAll(v)
               \/ \E x : room' = Write(room, v, x)
    BY <1>5
    DEF Join, JoinBegin, JoinRefused, LookupFinds, LookupFindsNone, Reuse, ReuseFails, Claim,
        RoomFull, CreateSession, JoinCommit, Socket, Auth, AuthRefused, Connect, ListSessions,
        ListMessages, SendState, AnnounceJoin, Deliver, Post, PostFails, PostCommit, Publish,
        Leave, Close, Uncount, ExpireSession, LeaveCommit, ReadFails, UncountFails,
        ChatFails, Lapse, rows
  <1>6. ASSUME NEW c \in Cleaners, Wipe(c), ~WipeCommit(c)
        PROVE  room' = room \/ \E x : room' = Write(room, c, x)
    BY <1>6 DEF Wipe, MarkRoom, DeleteMessages, DeleteSessions, DeleteSession, rows
  <1>7. CASE \E v \in Visits : Join(v) \/ Socket(v) \/ Leave(v) \/ ChatFails(v) \/ Lapse(v)
    BY <1>1, <1>2, <1>3, <1>5, <1>7
  <1>8. CASE \E c \in Cleaners : Wipe(c)
    BY <1>3, <1>6, <1>8
  <1>9. CASE \E p \in Txs : Fail(p)
    BY <1>2, <1>9 DEF Fail
  <1>10. CASE UNCHANGED vars
    BY <1>10 DEF vars, rows
  <1> QED
    BY <1>4, <1>7, <1>8, <1>9, <1>10 DEF Next

\* How a visit comes by a socket, and by a message.
LEMMA Arrivals ==
    ASSUME TInv, NEW v \in Visits, StepOf(v)
    PROVE  /\ pc'[v] \in SocketPC => pc[v] \in SocketPC \/ Auth(v)
           /\ pc'[v] = "posting" => pc[v] = "posting" \/ Post(v)
           /\ pc[v] \in SocketPC => token'[v] = token[v]
  <1>0. v \in Txs /\ v \notin Cleaners /\ pc \in [Txs -> VisitPC \cup CleanerPC]
    BY MembersAssumption DEF Txs, TInv, TypeOK
  <1>1. CASE Join(v)
    BY <1>0, <1>1
    DEF Join, JoinBegin, JoinRefused, LookupFinds, LookupFindsNone, Reuse, ReuseFails, Claim,
        RoomFull, CreateSession, JoinCommit, Goto, SocketPC
  <1>2. CASE Socket(v)
    BY <1>0, <1>2
    DEF Socket, AuthRefused, Connect, ListSessions, ListMessages, SendState, AnnounceJoin, Auth,
        Deliver, Post, PostFails, PostCommit, Publish, Receiving, Goto, SocketPC
  <1>3. CASE Leave(v) \/ ChatFails(v)
    BY <1>0, <1>3
    DEF Leave, Close, Uncount, ExpireSession, LeaveCommit, ReadFails, UncountFails, Disconnect,
        ChatFails, Goto, SocketPC
  <1>4. CASE Fail(v)
    BY <1>0, <1>4 DEF Fail, Goto, SocketPC
  <1> QED
    BY <1>0, <1>1, <1>2, <1>3, <1>4 DEF StepOf

\* A session that a socket came with stays deleted.
LEMMA DeadSessions ==
    ASSUME IInv, GoneForGood, [Next]_vars, NEW v \in Visits, pc[v] \in SocketPC,
           session[token[v]].saved = "ABSENT"
    PROVE  session'[token[v]].saved = "ABSENT"
  <1>1. token[v] \in Visits /\ pc[v] \notin Early
    BY DEF IInv, TInv, Tokens, Seated, Early, JoinPC, SocketPC
  <1>2. pc[token[v]] \notin Early
    BY <1>1 DEF IInv, Borrowed
  <1> QED
    BY <1>1, <1>2, GoneKept

LEMMA WipeLeavesNothing ==
    ASSUME IInv, Wipers, NoPostInWipe, NEW c \in Cleaners, WipeCommit(c)
    PROVE  Aftermath'
  <1>0. /\ pc[c] = "emptied" /\ todo[c] = {} /\ UNCHANGED token
        /\ \A s \in Visits : session'[s] = Commit(session[s], c)
        /\ \A m \in Visits : message'[m] = Commit(message[m], c)
        /\ Goto(c, "idle")
    BY DEF WipeCommit
  <1>1. \A v \in Visits : pc'[v] = pc[v]
    BY <1>0, CleanerMoves DEF IInv
  <1>2. \A x : Clean(x).saved = x
    BY DEF Clean
  <1>3. ASSUME NEW m \in Visits PROVE message'[m].saved = "ABSENT"
    <2>1. message[m].saved \in {"ABSENT", "STORED"}
      BY DEF IInv, TInv, TypeOK, Row, MessageValue
    <2> QED
      BY <1>0, <1>2, <2>1 DEF Wipers, Commit
  <1>4. ASSUME NEW s \in Visits PROVE session'[s].saved = "ABSENT"
    <2>1. session[s].saved # "ABSENT" => session[s].by = c
      BY <1>0 DEF Wipers
    <2>2. session[s].by = c => session[s].draft = "ABSENT"
      BY DEF IInv, Locks, SessionLocks
    <2> QED
      BY <1>0, <1>2, <2>1, <2>2 DEF Commit
  <1>5. \A v \in Visits : pc[v] \in SocketPC => token[v] \in Visits
    BY DEF IInv, TInv, Tokens, Seated
  <1> QED
    BY <1>0, <1>1, <1>3, <1>4, <1>5 DEF Aftermath, NoPostInWipe

\* A room that is over: nobody is let in, and no message is.
LEMMA StaysSilent ==
    ASSUME IInv, OverForGood, MessageLocks, GoneForGood, Aftermath, [Next]_vars,
           room.saved.status = "DELETED"
    PROVE  Aftermath'
  <1> SUFFICES ASSUME NEW v \in Visits
               PROVE  /\ message'[v].saved = "ABSENT" /\ pc'[v] # "posting"
                      /\ pc'[v] \in SocketPC => session'[token'[v]].saved = "ABSENT"
    BY DEF Aftermath
  <1>0. /\ message[v].saved = "ABSENT" /\ pc[v] # "posting"
        /\ pc[v] \in SocketPC => session[token[v]].saved = "ABSENT"
        /\ v \in Txs
    BY DEF Aftermath, Txs
  <1>1. \A c \in Cleaners : pc[c] = "idle" /\ room.draft.status = "DELETED"
    BY DEF OverForGood
  <1>2. ~Auth(v) /\ ~Post(v)
    BY <1>0 DEF Auth, Post, SocketPC
  <1>3. pc[v] \in SocketPC => session'[token[v]].saved = "ABSENT"
    BY <1>0, DeadSessions
  <1>4. CASE StepOf(v)
    <2>1. message'[v] = message[v]
      BY <1>0, <1>2, <1>4, MessageMoves
    <2> QED
      BY <1>0, <1>2, <1>3, <1>4, <2>1, Arrivals DEF IInv
  <1>5. ASSUME NEW p \in Visits, p # v, StepOf(p)
        PROVE  message'[v] = message[v] /\ pc'[v] = pc[v] /\ token'[v] = token[v]
    BY <1>0, <1>5, MessageMoves, Isolated DEF Txs
  <1>6. ASSUME NEW c \in Cleaners PROVE ~Wipe(c) /\ ~Fail(c)
    <2>1. c \notin Visits
      BY MembersAssumption
    <2> QED
      BY <1>1, <2>1
      DEF Wipe, MarkRoom, DeleteMessages, DeleteSessions, DeleteSession, WipeCommit, Fail
  <1>7. CASE Crash
    <2>1. message'[v].saved = "ABSENT" /\ pc'[v] \in {"idle", "joined", "ended", "failed"}
      BY <1>0, <1>7, MembersAssumption DEF Crash, Clean
    <2> QED
      BY <2>1 DEF SocketPC
  <1>8. ASSUME (\E s \in Visits : Lapse(s)) \/ UNCHANGED vars
        PROVE  message'[v] = message[v] /\ pc'[v] = pc[v] /\ token'[v] = token[v]
    BY <1>8 DEF Lapse, vars, rows
  <1>9. CASE message'[v] = message[v] /\ pc'[v] = pc[v] /\ token'[v] = token[v]
    BY <1>0, <1>3, <1>9
  <1>10. \/ \E p \in Visits : StepOf(p)
         \/ \E c \in Cleaners : Wipe(c) \/ Fail(c)
         \/ Crash
         \/ (\E s \in Visits : Lapse(s)) \/ UNCHANGED vars
    BY DEF Next, StepOf, Txs
  <1> QED
    BY <1>4, <1>5, <1>6, <1>7, <1>8, <1>9, <1>10

\* Messages die with their room unless one is being inserted between the wipe's
\* DELETE and its commit: for any number of people, joins, reconnects, wipes,
\* lapsed sessions and crashes, that is the only way a message survives.
THEOREM OnlyLatePostsSurvive == Spec /\ []NoPostInWipe => []MessagesDieWithRoom
  <1>1. Init => WInv
    <2> SUFFICES ASSUME Init PROVE WInv
      OBVIOUS
    <2>1. SInv
      BY SInvStarts
    <2>2. SlotLocks
      BY OrderlyStart DEF FInv
    <2>3. \A c \in Cleaners : pc[c] = "idle" /\ c # NoTx
      BY MembersAssumption DEF Init, Txs
    <2>4. /\ \A m \in Visits : message[m].by = NoTx
          /\ \A s \in Visits : session[s].draft = session[s].saved
          /\ room.saved.status = "ACTIVE"
      BY DEF Init, Clean
    <2> QED
      BY <2>1, <2>2, <2>3, <2>4 DEF WInv, Wipers, GoneForGood, Aftermath
  <1>2. WInv /\ NoPostInWipe /\ [Next]_vars => WInv'
    <2> SUFFICES ASSUME WInv, NoPostInWipe, [Next]_vars PROVE WInv'
      OBVIOUS
    <2>1. SInv' /\ SlotLocks' /\ GoneForGood' /\ Wipers'
      BY SInvKept, SlotLocksKept, GoneKept, WipersKept DEF WInv, SInv
    <2>2. CASE room.saved.status = "DELETED"
      BY <2>1, <2>2, StaysSilent DEF WInv, SInv
    <2>3. CASE room'.saved.status = "DELETED" /\ room.saved.status # "DELETED"
      BY <2>1, <2>3, OnlyWipesEndRooms, WipeLeavesNothing DEF WInv, SInv, SlotLocks
    <2>4. CASE room'.saved.status # "DELETED"
      BY <2>1, <2>4 DEF WInv, Aftermath
    <2> QED
      BY <2>2, <2>3, <2>4
  <1>3. WInv => MessagesDieWithRoom
    BY DEF WInv, Aftermath, MessagesDieWithRoom
  <1> QED
    BY <1>1, <1>2, <1>3, PTL DEF Spec
=============================================================================
