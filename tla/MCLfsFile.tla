------------------------------ MODULE MCLfsFile ------------------------------
(***************************************************************************)
(* Files of LittleFS on a chip with a block that no longer programs.       *)
(***************************************************************************)
EXTENDS LfsFile

LfsFileSpec == LfsFileInit /\ [][LfsFileNext]_lfsFileVars
=============================================================================
