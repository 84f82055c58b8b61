---------------------------- MODULE UploadClient ----------------------------
(***************************************************************************)
(* The page that uploads a file (uploadInChunks) beside the server of      *)
(* ChunkedUpload.  It sends one chunk after the other, asks to complete    *)
(* when the last one is answered, and on any error asks, without waiting,  *)
(* to abort.  An answer may be lost: then the page sees an error while the *)
(* request goes on or has been served.                                     *)
(***************************************************************************)
EXTENDS ChunkedUpload

CONSTANT MaxTroubles    \* bound: how many answers are lost or requests break off

\* The page sends every chunk once and makes one request of each other kind.
ASSUME ClientAssumption ==
    /\ \A s, t \in Senders : ChunkOf[s] = ChunkOf[t] => s = t
    /\ {ChunkOf[s] : s \in Senders} = Indices
    /\ \E c \in Completers : Completers = {c}
    /\ \E a \in Aborters : Aborters = {a}
    /\ MaxTroubles \in Nat

VARIABLES
    page,           \* "uploading", "aborting" or "over"
    answered,       \* the requests whose answer the page has
    lost            \* how many answers were lost

client == <<page, answered, lost>>

\* Variant: the chunks are sent all at once.
AskChunkAtOnce(s) ==
    /\ page = "uploading"
    /\ ChunkBegin(s)
    /\ UNCHANGED client

\* The chunks before this one are answered.
AskChunk(s) ==
    /\ page = "uploading"
    /\ {t \in Senders : ChunkOf[t] < ChunkOf[s]} \subseteq answered
    /\ ChunkBegin(s)
    /\ UNCHANGED client

AskComplete(c) ==
    /\ page = "uploading"
    /\ Senders \subseteq answered
    /\ CompleteBegin(c)
    /\ UNCHANGED client

Hear(r) ==
    /\ page = "uploading"
    /\ pc[r] = "done"
    /\ answered' = answered \cup {r}
    /\ page' = IF r \in Completers THEN "over" ELSE page
    /\ UNCHANGED <<vars, lost>>

\* An error is answered.
Catch(r) ==
    /\ page = "uploading"
    /\ pc[r] = "failed"
    /\ page' = "aborting"
    /\ UNCHANGED <<vars, answered, lost>>

\* The connection breaks before the answer arrives.
LoseAnswer(r) ==
    /\ page = "uploading"
    /\ lost + faults < MaxTroubles
    /\ pc[r] # "idle"
    /\ r \notin answered
    /\ page' = "aborting"
    /\ lost' = lost + 1
    /\ UNCHANGED <<vars, answered>>

AskAbort(a) ==
    /\ page = "aborting"
    /\ AbortBegin(a)
    /\ page' = "over"
    /\ UNCHANGED <<answered, lost>>

ClientInit == Init /\ page = "uploading" /\ answered = {} /\ lost = 0

ClientNext ==
    \/ \E s \in Senders : AskChunk(s)
    \/ \E c \in Completers : AskComplete(c)
    \/ \E r \in Senders \cup Completers : Hear(r) \/ Catch(r) \/ LoseAnswer(r)
    \/ \E a \in Aborters : AskAbort(a)
    \/ Serve /\ UNCHANGED client /\ lost + faults' <= MaxTroubles

ClientSpec == ClientInit /\ [][ClientNext]_<<vars, client>>

(***************************************************************************)
(* Fairness.  As in RoomFiles the server runs what can run and grants row  *)
(* locks in turn, so that a request whose lock is free again and again has *)
(* it in the end: strong fairness of its steps as a whole.  Scans and the  *)
(* jobs they enqueue are repeated for ever; time passes.  The page may be  *)
(* closed at any moment and the room be deleted or not: nothing is assumed *)
(* of the one, nor of the beginning of the other.  That a broken-off job   *)
(* is retried needs no more than a scan.                                   *)
(***************************************************************************)
Fairness ==
    /\ \A s \in Senders : SF_vars(SendStep(s))
    /\ \A c \in Completers : SF_vars(CompleteStep(c))
    /\ \A r \in Aborters \cup Expirers : SF_vars(AbandonStep(r))
    /\ \A k \in Cleaners : SF_vars(CleanStep(k))
    /\ \A e \in Expirers : WF_vars(ExpireBegin(e))
    /\ \A w \in Sweepers : WF_vars(SweepStep(w))
    /\ WF_vars(Day)

FairSpec == ClientSpec /\ Fairness

-----------------------------------------------------------------------------
(***************************************************************************)
(* Properties                                                              *)
(***************************************************************************)
\* While chunks arrive, size_bytes (what the progress bar shows and a resuming
\* client is told) is the number of chunks that were stored, and the confirmed
\* size is the announced one, although every request writes a size computed
\* from the row it loaded.
SizeIsWhatArrived ==
    upload.saved.size =
        CASE upload.saved.status = "PENDING" -> Cardinality({s \in Senders : pc[s] = "done"})
          [] upload.saved.status = "CONFIRMED" -> N
          [] OTHER -> 0

\* As long as the page hears every answer it ends its upload as UploadContract
\* says, its aborts included, because it aborts only what has failed; and it
\* does so whatever the order in which requests, jobs and the sweep run.
PageKeepsContract ==
    /\ UC!Init
    /\ [][lost = 0 => UC!Next \/ UNCHANGED contract]_<<vars, client>>

\* Nothing is left of an upload that was given up, by the page or because the
\* page was closed: row, parts and merged object go, whatever broke off.
LeftoversAreRemoved ==
    <>[](/\ upload.saved.status # "PENDING"
         /\ parts = {}
         /\ upload.saved.status = "CONFIRMED" \/ object = "none")

\* The room is charged for the files it has: an upload whose row is deleted
\* is not charged any more.
ChargesMatchUpload ==
    room.saved.open =>
        room.saved.mine = IF upload.saved.status = "CONFIRMED" THEN 1 ELSE 0

\* While an upload is under way the chunks it has sent stay, so that a client
\* that loses its connection sends only the rest.
ChunksSurvive ==
    /\ upload.saved.status = "PENDING" /\ ~stale /\ room.saved.open
    /\ \A r \in Completers \cup Aborters : pc[r] = "idle"
    => {ChunkOf[s] : s \in {t \in Senders : pc[t] = "done"}} \subseteq parts
=============================================================================
