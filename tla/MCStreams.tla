----------------------------- MODULE MCStreams -----------------------------
(* More assignments than slots. *)
EXTENDS Streams

CONSTANTS A1, A2, A3, A4
MCAssignments == {A1, A2, A3, A4}
=============================================================================
