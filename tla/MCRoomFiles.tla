---------------------------- MODULE MCRoomFiles ----------------------------
(***************************************************************************)
(* Small instances of RoomFiles: file f2 alone fills a room of MaxStorage  *)
(* 3, so the limit on bytes and the limit on files bind in different       *)
(* states.                                                                 *)
(***************************************************************************)
EXTENDS RoomFiles, TLC

CONSTANTS f1, f2

MCSize == [f \in Files |-> IF f = f2 THEN 3 ELSE 1]

\* Deleters, workers and owners of a kind are interchangeable; so are files of
\* one size.
Interchangeable ==
    Permutations(Deleters) \cup Permutations(Workers) \cup Permutations(Files \ {f2})
=============================================================================
