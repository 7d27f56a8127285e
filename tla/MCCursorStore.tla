--------------------------- MODULE MCCursorStore ---------------------------
(***************************************************************************)
(* CursorStore on a small instance.                                        *)
(***************************************************************************)
EXTENDS CursorStore
============================================================================
