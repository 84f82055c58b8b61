----------------------------- MODULE RoomMembers -----------------------------
(***************************************************************************)
(* The people of one room: joins, the websocket every page opens with the  *)
(* answer to its join, what the page is told of members and chat, and the  *)
(* wipe of the room, as they meet in the rows of PostgreSQL, in the        *)
(* connection registry of the server process and on the pages.             *)
(*                                                                         *)
(* A visit is a page, or one reconnect of a page: one join request, then   *)
(* one socket.  Visits of one browser share its session cookie.  A visit   *)
(* runs one database transaction at a time, and between two awaits of its  *)
(* handler any other visit may run.  What a socket is sent reaches its     *)
(* page in the order it was sent, so that sending an event also applies it.*)
(***************************************************************************)
EXTENDS ReadCommitted, Integers, FiniteSets

CONSTANTS
    Visits,         \* each is also the name of the session its join may create
    Owner,          \* the visit whose session POST /rooms creates with the room
    Browsers,
    Browser,        \* Browser[v]: where visit v happens
    Talkers,        \* the visits that post a chat message, one each
    Cleaners,       \* ROOM_CLEANUP jobs and requests DELETE /rooms/{token}
    MaxUsers,       \* max_users of the room
    MaxFaults,      \* bound: how many faults (see Faults) happen
    NoSession       \* no session token

Txs == Visits \cup Cleaners

ASSUME MembersAssumption ==
    /\ IsFiniteSet(Visits)
    /\ Owner \in Visits
    /\ Talkers \subseteq Visits
    /\ Browser \in [Visits -> Browsers]
    /\ NoSession \notin Visits
    /\ Visits \cap Cleaners = {}
    /\ NoTx \notin Txs
    /\ MaxUsers \in Nat \ {0}
    /\ MaxFaults \in Nat

VARIABLES
    room,           \* the row of `rooms`: status and user_count
    session,        \* session[s]: the row of `sessions` that visit s creates
    message,        \* message[v]: the row of `messages` that visit v posts
    cookie,         \* cookie[b]: the session token in browser b's cookie
    token,          \* token[v]: the session visit v asked for or was given
    sockets,        \* the registry: the visits whose socket is in it
    pc,             \* pc[p]: where the handler of visit or cleaner p stands
    todo,           \* todo[p]: sessions p has still to send its event to, or,
                    \* for a cleaner, to delete
    listed,         \* listed[v]: the members and messages read for ROOM_STATE
    page,           \* page[v]: what the page shows of this connection, from ROOM_STATE on
    faults          \* how many faults have happened

rows == <<room, session, message>>
vars == <<room, session, message, cookie, token, sockets, pc, todo, listed, page, faults>>

RoomValue == [status : {"ACTIVE", "DELETING", "DELETED"}, count : Int]
SessionValue == {"ABSENT", "LIVE", "EXPIRED"}      \* EXPIRED: expires_at has passed
MessageValue == {"ABSENT", "STORED"}
Shown == [members : SUBSET Visits, messages : SUBSET Visits]
Nothing == [members |-> {}, messages |-> {}]

JoinPC   == {"lookup", "late", "reuse", "reused", "claim", "claimed", "inserted"}
SocketPC == {"authed", "registered", "listed", "ready", "stated", "open",
             "posting", "posted", "published"}
LeavePC  == {"leaving", "doomed", "uncounted", "expired"}   \* doomed: see ReadFails
VisitPC  == {"idle", "joined", "ended", "failed"} \cup JoinPC \cup SocketPC \cup LeavePC
CleanerPC == {"idle", "wiping", "cleared", "emptied"}

\* The registry by session, as is_session_connected and broadcast use it.
Registered == {token[v] : v \in sockets}

\* Of those, the sessions with a handler that runs, and those with a socket whose
\* handler broke off before manager.disconnect (PostFails, ChatFails).
Connected == {token[v] : v \in {u \in sockets : pc[u] \in SocketPC}}
Abandoned == {token[v] : v \in {u \in sockets : pc[u] = "failed"}}

CommitAll(t) ==
    /\ room' = Commit(room, t)
    /\ session' = [s \in Visits |-> Commit(session[s], t)]
    /\ message' = [v \in Visits |-> Commit(message[v], t)]

RollbackAll(t) ==
    /\ room' = Rollback(room, t)
    /\ session' = [s \in Visits |-> Rollback(session[s], t)]
    /\ message' = [v \in Visits |-> Rollback(message[v], t)]

Goto(p, l) == pc' = [pc EXCEPT ![p] = l]

-----------------------------------------------------------------------------
(***************************************************************************)
(* POST /rooms/{token}/join and POST /rooms/join-by-code                   *)
(***************************************************************************)
\* The room is loaded, and not read again.  A browser with a session cookie has
\* the session looked up first ("late": the room was over when it was loaded);
\* whoever has none needs a room that was loaded ACTIVE.
JoinBegin(v) ==
    /\ pc[v] = "idle"
    /\ token' = [token EXCEPT ![v] = cookie[Browser[v]]]
    /\ \/ /\ cookie[Browser[v]] # NoSession
          /\ Goto(v, IF room.saved.status = "ACTIVE" THEN "lookup" ELSE "late")
       \/ cookie[Browser[v]] = NoSession /\ room.saved.status = "ACTIVE" /\ Goto(v, "claim")
    /\ UNCHANGED <<rows, cookie, sockets, todo, listed, page, faults>>

\* The room is over or has expired, the password is wrong or the limiter says
\* no, but not to a browser whose session is found: nothing has been written.
JoinRefused(v) ==
    /\ \/ pc[v] \in {"idle", "claim"}
       \/ pc[v] \in {"lookup", "late"} /\ session[token[v]].saved # "LIVE"
    /\ Goto(v, "ended")
    /\ UNCHANGED <<rows, cookie, token, sockets, todo, listed, page, faults>>

LookupFinds(v) ==
    /\ pc[v] \in {"lookup", "late"}
    /\ session[token[v]].saved = "LIVE"
    /\ Goto(v, "reuse")
    /\ UNCHANGED <<rows, cookie, token, sockets, todo, listed, page, faults>>

\* No live session of that token; the room was ACTIVE.
LookupFindsNone(v) ==
    /\ pc[v] = "lookup"
    /\ session[token[v]].saved # "LIVE"
    /\ token' = [token EXCEPT ![v] = NoSession]
    /\ Goto(v, "claim")
    /\ UNCHANGED <<rows, cookie, sockets, todo, listed, page, faults>>

\* The lookup's answer is used: expires_at is set by primary key, whatever has
\* become of the session meanwhile, as long as its row is there.
Reuse(v) ==
    LET s == token[v] IN
    /\ pc[v] = "reuse"
    /\ Lockable(session[s], v)
    /\ session[s].draft # "ABSENT"
    /\ session' = [session EXCEPT ![s] = Write(@, v, "LIVE")]
    /\ Goto(v, "reused")
    /\ UNCHANGED <<room, message, cookie, token, sockets, todo, listed, page, faults>>

\* The row is gone: the flush matches no row and raises.
ReuseFails(v) ==
    /\ pc[v] = "reuse"
    /\ session[token[v]].saved = "ABSENT"
    /\ Goto(v, "failed")
    /\ UNCHANGED <<rows, cookie, token, sockets, todo, listed, page, faults>>

\* Variant: <= where the limit needs <.
HasRoomOneTooMany(r) == r.count <= MaxUsers

\* The WHERE clause of increment_user_count_atomic.
HasRoom(r) == r.count < MaxUsers

Claim(v) ==
    /\ pc[v] = "claim"
    /\ Lockable(room, v)
    /\ HasRoom(room.draft)
    /\ room' = Write(room, v, [room.draft EXCEPT !.count = @ + 1])
    /\ Goto(v, "claimed")
    /\ UNCHANGED <<session, message, cookie, token, sockets, todo, listed, page, faults>>

RoomFull(v) ==
    /\ pc[v] = "claim"
    /\ ~HasRoom(room.saved)
    /\ Goto(v, "ended")
    /\ UNCHANGED <<rows, cookie, token, sockets, todo, listed, page, faults>>

CreateSession(v) ==
    /\ pc[v] = "claimed"
    /\ session' = [session EXCEPT ![v] = Write(@, v, "LIVE")]
    /\ token' = [token EXCEPT ![v] = v]
    /\ Goto(v, "inserted")
    /\ UNCHANGED <<room, message, cookie, sockets, todo, listed, page, faults>>

\* The commit and the answer, which sets the cookie to a session it created.
JoinCommit(v) ==
    /\ pc[v] \in {"reused", "inserted"}
    /\ CommitAll(v)
    /\ cookie' = [cookie EXCEPT ![Browser[v]] = IF token[v] = v THEN v ELSE @]
    /\ Goto(v, "joined")
    /\ UNCHANGED <<token, sockets, todo, listed, page, faults>>

-----------------------------------------------------------------------------
(***************************************************************************)
(* room_ws: the handshake, ROOM_STATE and USER_JOINED                      *)
(***************************************************************************)
\* _ws_auth: the session is live and its room ACTIVE, and neither is read
\* again.
Auth(v) ==
    /\ pc[v] = "joined"
    /\ session[token[v]].saved = "LIVE"
    /\ room.saved.status = "ACTIVE"
    /\ Goto(v, "authed")
    /\ UNCHANGED <<rows, cookie, token, sockets, todo, listed, page, faults>>

\* Closed with code 4401.
AuthRefused(v) ==
    /\ pc[v] = "joined"
    /\ \/ session[token[v]].saved # "LIVE"
       \/ room.saved.status # "ACTIVE"
    /\ Goto(v, "ended")
    /\ UNCHANGED <<rows, cookie, token, sockets, todo, listed, page, faults>>

\* manager.connect, once the socket is accepted.
Connect(v) ==
    /\ pc[v] = "authed"
    /\ sockets' = sockets \cup {v}
    /\ Goto(v, "registered")
    /\ UNCHANGED <<rows, cookie, token, todo, listed, page, faults>>

\* _send_state reads the live sessions, and then the messages.
ListSessions(v) ==
    /\ pc[v] = "registered"
    /\ listed' = [listed EXCEPT ![v].members = {s \in Visits : session[s].saved = "LIVE"}]
    /\ Goto(v, "listed")
    /\ UNCHANGED <<rows, cookie, token, sockets, todo, page, faults>>

ListMessages(v) ==
    /\ pc[v] = "listed"
    /\ listed' = [listed EXCEPT ![v].messages = {m \in Visits : message[m].saved = "STORED"}]
    /\ Goto(v, "ready")
    /\ UNCHANGED <<rows, cookie, token, sockets, todo, page, faults>>

\* Variant: everybody who was listed, registered or not.
PresentListed(members) == members

\* Those of the sessions read who are registered when ROOM_STATE is sent.
Present(members) == members \cap Registered

SendState(v) ==
    /\ pc[v] = "ready"
    /\ page' = [page EXCEPT ![v] = [listed[v] EXCEPT !.members = Present(@)]]
    /\ listed' = [listed EXCEPT ![v] = Nothing]
    /\ Goto(v, "stated")
    /\ UNCHANGED <<rows, cookie, token, sockets, todo, faults>>

\* USER_JOINED is about to be sent to the sessions registered now.
AnnounceJoin(v) ==
    /\ pc[v] = "stated"
    /\ todo' = [todo EXCEPT ![v] = Registered \ {token[v]}]
    /\ Goto(v, "open")
    /\ UNCHANGED <<rows, cookie, token, sockets, listed, page, faults>>

-----------------------------------------------------------------------------
(***************************************************************************)
(* manager.broadcast, event by event, and what a page makes of it          *)
(***************************************************************************)
\* handleWsEvent on the page c of an event that handler v sends in its present
\* state.
Handled(v, c) ==
    CASE pc[v] = "open"      -> [page[c] EXCEPT !.members = @ \cup {token[v]}]
      [] pc[v] = "published" -> [page[c] EXCEPT !.messages = @ \cup {v}]
      [] OTHER               -> [page[c] EXCEPT !.members = @ \ {token[v]}]

\* The pages that have had their ROOM_STATE; the others drop every event.
HasState(c) == pc[c] \in {"stated", "open", "posting", "posted", "published"}

\* The event goes to every socket of one more session.
Deliver(v) == \E s \in todo[v] :
    /\ page' = [c \in Visits |->
                   IF c \in sockets /\ token[c] = s /\ HasState(c)
                     THEN Handled(v, c) ELSE page[c]]
    /\ todo' = [todo EXCEPT ![v] = @ \ {s}]
    /\ UNCHANGED <<rows, cookie, token, sockets, pc, listed, faults>>

-----------------------------------------------------------------------------
(***************************************************************************)
(* CHAT_SEND                                                               *)
(***************************************************************************)
\* The handler waits in receive_json.
Receiving(v) == pc[v] \in {"open", "published"} /\ todo[v] = {}

\* The insert's foreign key locks the sender's session (FOR KEY SHARE): it
\* waits for a wipe that has deleted the row, not for a change of expires_at.
Post(v) ==
    /\ Receiving(v) /\ pc[v] = "open"
    /\ v \in Talkers
    /\ session[token[v]].saved # "ABSENT" /\ session[token[v]].draft # "ABSENT"
    /\ message' = [message EXCEPT ![v] = Write(@, v, "STORED")]
    /\ Goto(v, "posting")
    /\ UNCHANGED <<room, session, cookie, token, sockets, todo, listed, page, faults>>

\* The session is gone and the flush raises.  It rolls the ORM session back,
\* which expires `room` and `session`: the handler's `finally` raises on its
\* first use of them, and the socket stays registered.
PostFails(v) ==
    /\ Receiving(v) /\ pc[v] = "open"
    /\ v \in Talkers
    /\ session[token[v]].saved = "ABSENT"
    /\ Goto(v, "failed")
    /\ page' = [page EXCEPT ![v] = Nothing]
    /\ UNCHANGED <<rows, cookie, token, sockets, todo, listed, faults>>

\* Variant: CHAT_MESSAGE_SENT is sent before the commit.
PostCommitLater(v) ==
    /\ pc[v] = "posting"
    /\ Goto(v, "posted")
    /\ UNCHANGED <<rows, cookie, token, sockets, todo, listed, page, faults>>

PostCommit(v) ==
    /\ pc[v] = "posting"
    /\ CommitAll(v)
    /\ Goto(v, "posted")
    /\ UNCHANGED <<cookie, token, sockets, todo, listed, page, faults>>

\* The audit event is committed too; the message goes to all, its sender
\* included.
Publish(v) ==
    /\ pc[v] = "posted"
    /\ todo' = [todo EXCEPT ![v] = Registered]
    /\ Goto(v, "published")
    /\ UNCHANGED <<rows, cookie, token, sockets, listed, page, faults>>

-----------------------------------------------------------------------------
(***************************************************************************)
(* The `finally` of room_ws                                                *)
(***************************************************************************)
\* Variant: the session is looked up before the socket leaves the registry.
DisconnectLate(v, l) ==
    LET remaining == {token[u] : u \in sockets} IN
    /\ sockets' = sockets \ {v}
    /\ page' = [page EXCEPT ![v] = Nothing]
    /\ listed' = [listed EXCEPT ![v] = Nothing]
    /\ IF token[v] \in remaining
         THEN Goto(v, "ended") /\ UNCHANGED todo
         ELSE Goto(v, l) /\ todo' = [todo EXCEPT ![v] = remaining]
    /\ UNCHANGED <<cookie, token>>

\* manager.disconnect and, if that was the session's last socket, the start
\* of USER_LEFT in state l: one step, for there is no await between them.
Disconnect(v, l) ==
    LET remaining == {token[u] : u \in sockets \ {v}} IN
    /\ sockets' = sockets \ {v}
    /\ page' = [page EXCEPT ![v] = Nothing]
    /\ listed' = [listed EXCEPT ![v] = Nothing]
    /\ IF token[v] \in remaining
         THEN Goto(v, "ended") /\ UNCHANGED todo
         ELSE Goto(v, l) /\ todo' = [todo EXCEPT ![v] = remaining]
    /\ UNCHANGED <<cookie, token>>

\* The peer is gone, which accept, the send of ROOM_STATE or receive_json
\* reports; broadcast swallows it.
Close(v) ==
    /\ pc[v] \in {"authed", "ready"} \/ Receiving(v)
    /\ Disconnect(v, "leaving")
    /\ UNCHANGED <<rows, faults>>

\* Variant: the slot is given back in a transaction of its own.
UncountAtOnce(v) ==
    /\ pc[v] = "leaving" /\ todo[v] = {}
    /\ \/ Sees(room, v).count = 0 /\ UNCHANGED room
       \/ /\ Lockable(room, v) /\ room.draft.count > 0
          /\ room' = Clean([room.draft EXCEPT !.count = @ - 1])
    /\ Goto(v, "uncounted")
    /\ UNCHANGED <<session, message, cookie, token, sockets, todo, listed, page, faults>>

\* decrement_user_count: a count of 0 is not matched, and then nothing waits.
Uncount(v) ==
    /\ pc[v] = "leaving" /\ todo[v] = {}
    /\ \/ Sees(room, v).count = 0 /\ UNCHANGED room
       \/ /\ Lockable(room, v) /\ room.draft.count > 0
          /\ room' = Write(room, v, [room.draft EXCEPT !.count = @ - 1])
    /\ Goto(v, "uncounted")
    /\ UNCHANGED <<session, message, cookie, token, sockets, todo, listed, page, faults>>

\* expire_session, which finds no row once the room is wiped.
ExpireSession(v) ==
    LET s == token[v] IN
    /\ pc[v] = "uncounted"
    /\ Lockable(session[s], v)
    /\ session' = [session EXCEPT ![s] = IF @.draft = "ABSENT" THEN @ ELSE Write(@, v, "EXPIRED")]
    /\ Goto(v, "expired")
    /\ UNCHANGED <<room, message, cookie, token, sockets, todo, listed, page, faults>>

LeaveCommit(v) ==
    /\ pc[v] = "expired"
    /\ CommitAll(v)
    /\ Goto(v, "ended")
    /\ UNCHANGED <<cookie, token, sockets, todo, listed, page, faults>>

-----------------------------------------------------------------------------
(***************************************************************************)
(* cleanup_room, as far as it meets the people of the room                 *)
(***************************************************************************)
MarkRoom(c) ==
    /\ pc[c] = "idle"
    /\ Lockable(room, c)
    /\ room.draft.status = "ACTIVE"
    /\ room' = Write(room, c, [room.draft EXCEPT !.status = "DELETING"])
    /\ Goto(c, "wiping")
    /\ UNCHANGED <<session, message, cookie, token, sockets, todo, listed, page, faults>>

\* delete_messages_by_room: those that are committed.
DeleteMessages(c) ==
    /\ pc[c] = "wiping"
    /\ message' = [m \in Visits |-> IF message[m].saved = "STORED"
                                      THEN Write(message[m], c, "ABSENT") ELSE message[m]]
    /\ Goto(c, "cleared")
    /\ UNCHANGED <<room, session, cookie, token, sockets, todo, listed, page, faults>>

\* delete_by_room: the rows that are there when the statement starts, ...
DeleteSessions(c) ==
    /\ pc[c] = "cleared"
    /\ todo' = [todo EXCEPT ![c] = {s \in Visits : session[s].saved # "ABSENT"}]
    /\ Goto(c, "emptied")
    /\ UNCHANGED <<rows, cookie, token, sockets, listed, page, faults>>

\* ... each once no other transaction holds it, by an update or by the foreign
\* key of a message that is being inserted.
DeleteSession(c) == \E s \in todo[c] :
    /\ pc[c] = "emptied"
    /\ Lockable(session[s], c)
    /\ \A v \in Visits : pc[v] = "posting" => token[v] # s
    /\ session' = [session EXCEPT ![s] = Write(@, c, "ABSENT")]
    /\ todo' = [todo EXCEPT ![c] = @ \ {s}]
    /\ UNCHANGED <<room, message, cookie, token, sockets, pc, listed, page, faults>>

WipeCommit(c) ==
    /\ pc[c] = "emptied" /\ todo[c] = {}
    /\ room' = Clean([room.draft EXCEPT !.status = "DELETED"])
    /\ session' = [s \in Visits |-> Commit(session[s], c)]
    /\ message' = [m \in Visits |-> Commit(message[m], c)]
    /\ Goto(c, "idle")
    /\ UNCHANGED <<cookie, token, sockets, todo, listed, page, faults>>

-----------------------------------------------------------------------------
(***************************************************************************)
(* Faults                                                                  *)
(***************************************************************************)
Fault == faults < MaxFaults /\ faults' = faults + 1

\* A statement or a commit raises in a join, in the end of a socket's handler
\* or in a wipe; or the page goes away between its join and its socket.
Fail(p) ==
    /\ Fault
    /\ \/ p \in Visits /\ pc[p] \in JoinPC \cup {"joined", "uncounted", "expired"}
       \/ p \in Visits /\ pc[p] = "leaving" /\ todo[p] = {}
       \/ p \in Cleaners /\ pc[p] # "idle"
    /\ RollbackAll(p)
    /\ todo' = [todo EXCEPT ![p] = {}]
    /\ Goto(p, IF p \in Cleaners THEN "idle" ELSE "failed")
    /\ UNCHANGED <<cookie, token, sockets, listed, page>>

\* A read for ROOM_STATE raises.  PostgreSQL refuses every later statement of
\* the transaction, so that what the `finally` writes after USER_LEFT raises too.
ReadFails(v) ==
    /\ Fault
    /\ pc[v] \in {"registered", "listed"}
    /\ Disconnect(v, "doomed")
    /\ UNCHANGED rows

UncountFails(v) ==
    /\ pc[v] = "doomed" /\ todo[v] = {}
    /\ Goto(v, "failed")
    /\ UNCHANGED <<rows, cookie, token, sockets, todo, listed, page, faults>>

\* The insert or the commit of a message raises: see PostFails.
ChatFails(v) ==
    /\ Fault
    /\ pc[v] \in {"posting", "posted"}
    /\ RollbackAll(v)
    /\ page' = [page EXCEPT ![v] = Nothing]
    /\ Goto(v, "failed")
    /\ UNCHANGED <<cookie, token, sockets, todo, listed>>

\* expires_at of a session passes (session_ttl_seconds is half of the longest
\* life of a room), whether it is connected or not.
Lapse(s) ==
    /\ Fault
    /\ session[s] = Clean("LIVE")
    /\ session' = [session EXCEPT ![s] = Clean("EXPIRED")]
    /\ UNCHANGED <<room, message, cookie, token, sockets, pc, todo, listed, page>>

\* The server process stops: transactions are rolled back and the registry is
\* lost.  The pages come back as new visits.
Crash ==
    /\ Fault
    /\ room' = Clean(room.saved)
    /\ session' = [s \in Visits |-> Clean(session[s].saved)]
    /\ message' = [m \in Visits |-> Clean(message[m].saved)]
    /\ sockets' = {}
    /\ pc' = [p \in Txs |-> IF p \in Cleaners THEN "idle"
                             ELSE IF pc[p] \in {"idle", "joined", "ended"} THEN pc[p]
                             ELSE "failed"]
    /\ todo' = [p \in Txs |-> {}]
    /\ listed' = [v \in Visits |-> Nothing]
    /\ page' = [v \in Visits |-> Nothing]
    /\ UNCHANGED <<cookie, token>>

-----------------------------------------------------------------------------
\* POST /rooms has committed the room, its owner's session and the slot, and
\* the owner's page has had the answer.
Init ==
    /\ room = Clean([status |-> "ACTIVE", count |-> 1])
    /\ session = [s \in Visits |-> Clean(IF s = Owner THEN "LIVE" ELSE "ABSENT")]
    /\ message = [v \in Visits |-> Clean("ABSENT")]
    /\ cookie = [b \in Browsers |-> IF b = Browser[Owner] THEN Owner ELSE NoSession]
    /\ token = [v \in Visits |-> IF v = Owner THEN Owner ELSE NoSession]
    /\ sockets = {}
    /\ pc = [p \in Txs |-> IF p = Owner THEN "joined" ELSE "idle"]
    /\ todo = [p \in Txs |-> {}]
    /\ listed = [v \in Visits |-> Nothing]
    /\ page = [v \in Visits |-> Nothing]
    /\ faults = 0

Join(v) ==
    \/ JoinBegin(v) \/ JoinRefused(v) \/ LookupFinds(v) \/ LookupFindsNone(v)
    \/ Reuse(v) \/ ReuseFails(v) \/ Claim(v) \/ RoomFull(v)
    \/ CreateSession(v) \/ JoinCommit(v)

Socket(v) ==
    \/ Auth(v) \/ AuthRefused(v) \/ Connect(v) \/ ListSessions(v) \/ ListMessages(v)
    \/ SendState(v) \/ AnnounceJoin(v) \/ Deliver(v)
    \/ Post(v) \/ PostFails(v) \/ PostCommit(v) \/ Publish(v)

Leave(v) ==
    \/ Close(v) \/ Uncount(v) \/ ExpireSession(v) \/ LeaveCommit(v)
    \/ ReadFails(v) \/ UncountFails(v)

Wipe(c) ==
    \/ MarkRoom(c) \/ DeleteMessages(c) \/ DeleteSessions(c) \/ DeleteSession(c)
    \/ WipeCommit(c)

Next ==
    \/ \E v \in Visits : Join(v) \/ Socket(v) \/ Leave(v) \/ ChatFails(v) \/ Lapse(v)
    \/ \E c \in Cleaners : Wipe(c)
    \/ \E p \in Txs : Fail(p)
    \/ Crash

Spec == Init /\ [][Next]_vars

-----------------------------------------------------------------------------
(***************************************************************************)
(* Properties                                                              *)
(***************************************************************************)
\* The state is well typed, and user_count is between 0 and max_users in the
\* row and in the open transaction.
TypeOK ==
    /\ room \in Row([status : {"ACTIVE", "DELETING", "DELETED"}, count : 0..MaxUsers], Txs)
    /\ session \in [Visits -> Row(SessionValue, Txs)]
    /\ message \in [Visits -> Row(MessageValue, Txs)]
    /\ cookie \in [Browsers -> Visits \cup {NoSession}]
    /\ token \in [Visits -> Visits \cup {NoSession}]
    /\ sockets \subseteq Visits
    /\ pc \in [Txs -> VisitPC \cup CleanerPC]
    /\ todo \in [Txs -> SUBSET Visits]
    /\ listed \in [Visits -> Shown]
    /\ page \in [Visits -> Shown]
    /\ faults \in 0..MaxFaults

\* No session has been handed out a second time: a join that has a token from
\* its cookie is still looking the session up.
NoReuse == \A v \in Visits : token[v] \in {v, NoSession} \/ pc[v] \in {"lookup", "late", "reuse"}
LiveSessions == {s \in Visits : session[s].saved = "LIVE"}

\* Everybody with a live session has a slot, as long as no browser has been
\* given the session of its cookie again: joins, leaves and wipes change the
\* count and the session in one transaction each (_establish_session, room_ws).
EveryoneCounted == NoReuse => Cardinality(LiveSessions) <= room.saved.count

\* Whoever is gone leaves the slot behind: in a room that is not wiped and has
\* seen no fault, the count is 0 once every visit has ended.
AtRest == \A v \in Visits : pc[v] \in {"idle", "ended", "failed"}
SlotsAreFreed ==
    AtRest /\ faults = 0 /\ room.saved.status = "ACTIVE" => room.saved.count = 0

\* "joined but left never linger" (_send_state): a page shows a member only while
\* a handler of the member runs or USER_LEFT is on its way to the page.  The one
\* exception is a handler that broke off with its socket registered, and that
\* takes a fault or a wiped room, although a dead peer is to be "cleaned up on
\* disconnect" (broadcast).
NoGhosts ==
    /\ \A c \in Visits : \A s \in page[c].members :
          \/ s \in Connected \cup Abandoned
          \/ \E v \in Visits : /\ pc[v] \in {"leaving", "doomed"} /\ token[v] = s
                               /\ token[c] \in todo[v]
    /\ Abandoned # {} => faults > 0 \/ room.saved.status # "ACTIVE"

\* A page shows no message that is not in the database, unless the room is
\* wiped (CHAT_SEND commits before it broadcasts).
ShownIsStored == \A c \in Visits : \A m \in page[c].messages :
    message[m].saved = "STORED" \/ room.saved.status = "DELETED"

-----------------------------------------------------------------------------
(***************************************************************************)
(* What the documents say and the code does not keep                       *)
(***************************************************************************)
\* "Maximum of 10 people per room" (Plan.md): the people connected are no
\* more than max_users.
PeopleWithinCapacity == Cardinality(Connected) <= MaxUsers

\* "messages live and die with the room" (Plan.md).
MessagesDieWithRoom ==
    room.saved.status = "DELETED" => \A m \in Visits : message[m].saved = "ABSENT"
=============================================================================
