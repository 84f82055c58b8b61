-------------------------- MODULE MCChunkedUpload --------------------------
(***************************************************************************)
(* A small instance of ChunkedUpload: a file of one chunk, which every     *)
(* sender carries, so it is sent again.  Files of more chunks are          *)
(* MCUploadClient's.                                                       *)
(***************************************************************************)
EXTENDS ChunkedUpload, TLC

MCChunkOf == [s \in Senders |-> 1]

Interchangeable == Permutations(Senders)
=============================================================================
