--------------------------- MODULE MCUploadClient ---------------------------
(***************************************************************************)
(* A small instance of UploadClient: a file of two chunks.                 *)
(***************************************************************************)
EXTENDS UploadClient

CONSTANTS s1, s2

MCChunkOf == [s \in Senders |-> IF s = s1 THEN 1 ELSE 2]
=============================================================================
