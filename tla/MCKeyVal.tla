------------------------------ MODULE MCKeyVal ------------------------------
(***************************************************************************)
(* KeyVal for TLC: states that differ in the last answer only are taken    *)
(* for one.  No action reads the last answer, no invariant mentions it,    *)
(* and the refinement is checked at every step that gives one.             *)
(***************************************************************************)
EXTENDS KeyVal

MCView == <<db, filter, cache, pairs, file, tmp, pc, left>>
=============================================================================
