--------------------------- MODULE MCRoomMembers ---------------------------
(***************************************************************************)
(* Small instances of RoomMembers: the owner o in a browser of its own and *)
(* two visits that are either one browser's or of two browsers.            *)
(***************************************************************************)
EXTENDS RoomMembers

CONSTANTS o, a, b1, b2

\* Every visit but the owner's happens in browser b2.
MCBrowser == [v \in Visits |-> IF v = o THEN b1 ELSE b2]

\* Every visit but that of a happens in the owner's browser.
MCOwnersBrowser == [v \in Visits |-> IF v = a THEN b2 ELSE b1]
=============================================================================
