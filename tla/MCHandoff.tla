----------------------------- MODULE MCHandoff ------------------------------
(* Three links, two concurrent submissions, room for one tombstone: the     *)
(* FIFO overflows, and a link can be forgotten while a request still holds  *)
(* it.                                                                      *)
EXTENDS Handoff
=============================================================================
