---------------------------- MODULE RoomContract ----------------------------
(***************************************************************************)
(* What DropRoom promises about the files of a room, without requests,     *)
(* transactions or storage: an open room holds files within its limits,    *)
(* each file is added and removed in one step, and the room closes once,   *)
(* with everything it holds.                                               *)
(***************************************************************************)
EXTENDS Integers, FiniteSets

CONSTANTS Files, Size, MaxFiles, MaxStorage

VARIABLES open, held

\* The bytes of a set of files, each named by its file and its place in it.
Contents(S) == UNION {{f} \X (1 .. Size[f]) : f \in S}

Bytes(S) == Cardinality(Contents(S))

Fits(S) == Cardinality(S) <= MaxFiles /\ Bytes(S) <= MaxStorage

Init == open = TRUE /\ held = {}

Add(f) ==
    /\ open
    /\ f \notin held
    /\ Fits(held \cup {f})
    /\ held' = held \cup {f}
    /\ UNCHANGED open

Remove(f) ==
    /\ f \in held
    /\ held' = held \ {f}
    /\ UNCHANGED open

Close ==
    /\ open
    /\ open' = FALSE
    /\ held' = {}

Next == Close \/ \E f \in Files : Add(f) \/ Remove(f)

Spec == Init /\ [][Next]_<<open, held>>
=============================================================================
