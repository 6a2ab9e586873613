---------------------------- MODULE MCLiveEvents ----------------------------
(* Two writers and three pages, of which a poll serves two cursors, one event *)
(* at a time, and a page buffers one.                                         *)
EXTENDS LiveEvents
=============================================================================
