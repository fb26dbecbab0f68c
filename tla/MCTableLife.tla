---------------------------- MODULE MCTableLife ----------------------------
(***************************************************************************)
(* Two slots at first, at most eight, two keys and every hash function     *)
(* into a few values - among them those that give two keys the same value, *)
(* which no table size tells apart.                                        *)
(***************************************************************************)
EXTENDS TableLife

MCHashValues == {0, 1, 2, 4, 6}
=============================================================================
