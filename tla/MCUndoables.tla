---------------------------- MODULE MCUndoables ----------------------------
(* Small instances of Undoables. *)
EXTENDS Undoables, TLC

CONSTANTS h1, h2, a1, n1

Symmetry == Permutations(Handlers)
=============================================================================
