--------------------------- MODULE MCListStorage ---------------------------
(***************************************************************************)
(* Ids for TLC: o has a row when the program starts first; m and c are     *)
(* added while it runs.                                                    *)
(***************************************************************************)
EXTENDS ListStorage
CONSTANTS o, m, c
=============================================================================
