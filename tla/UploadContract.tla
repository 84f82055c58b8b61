--------------------------- MODULE UploadContract ---------------------------
(***************************************************************************)
(* What an upload session promises, without chunks, requests or storage:   *)
(* the file it creates appears once, whole and charged once, or the        *)
(* session goes without a charge.  Two things spoil a file that is shown:  *)
(* a teardown of its room that has begun, for it may break off with the    *)
(* row restored and the object gone, and the job for stale sessions when   *)
(* it has run beside the completion.                                       *)
(***************************************************************************)
EXTENDS Naturals

VARIABLES
    status,     \* "PENDING", "CONFIRMED" or "ABSENT"
    content,    \* what a download of the file returns
    charged,    \* how often the room's quota holds the file
    doomed,     \* whether a teardown of the room has begun
    crossed     \* whether the job for stale sessions ran beside a completion

Spoilt == doomed \/ crossed

Init ==
    /\ status = "PENDING" /\ content = "none" /\ charged = 0
    /\ ~doomed /\ ~crossed

\* Never a part of the file: the whole, or nothing where it may be spoilt.
Confirm ==
    /\ status = "PENDING"
    /\ status' = "CONFIRMED"
    /\ content' = "whole" \/ (Spoilt /\ content' = "none")
    /\ charged' = 1
    /\ UNCHANGED <<doomed, crossed>>

GiveUp ==
    /\ status = "PENDING"
    /\ status' = "ABSENT"
    /\ UNCHANGED <<content, charged, doomed, crossed>>

\* A teardown begins.
Doom == doomed' = TRUE /\ UNCHANGED <<status, content, charged, crossed>>

\* The session is deleted with everything in the room.
Wipe ==
    /\ doomed
    /\ status' = "ABSENT" /\ content' = "none" /\ charged' = 0
    /\ UNCHANGED <<doomed, crossed>>

\* The job and a completion meet; a file that is shown they meet no more.
Cross ==
    /\ status = "PENDING"
    /\ crossed' = TRUE
    /\ UNCHANGED <<status, content, charged, doomed>>

Lose ==
    /\ Spoilt /\ status = "CONFIRMED"
    /\ content' = "none"
    /\ UNCHANGED <<status, charged, doomed, crossed>>

\* The job deletes the row of a file that was confirmed meanwhile: its charge
\* stays until the room goes.
Forget ==
    /\ crossed /\ status = "CONFIRMED"
    /\ status' = "ABSENT" /\ content' = "none"
    /\ UNCHANGED <<charged, doomed, crossed>>

Next == Confirm \/ GiveUp \/ Doom \/ Wipe \/ Cross \/ Lose \/ Forget

Spec == Init /\ [][Next]_<<status, content, charged, doomed, crossed>>
=============================================================================
