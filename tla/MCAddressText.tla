---------------------------- MODULE MCAddressText ----------------------------
(***************************************************************************)
(* All addresses over three words and over seven bytes: numbers of every   *)
(* width, zeros inside a number, and every arrangement of zero words.      *)
(***************************************************************************)
EXTENDS AddressText

MCWords == {0, 258, 65535}
MCBytes == {0, 9, 10, 99, 100, 105, 255}
MCPorts == {0, 80, 65535}
=============================================================================
