---------------------------- MODULE MCTableWalk -----------------------------
(***************************************************************************)
(* The walk over every table that up to three insertions can build.        *)
(***************************************************************************)
EXTENDS TableWalk

MCHashValues == {0, 1, 2, 3, 5}
=============================================================================
