---------------------------- MODULE MCHiddenSync ----------------------------
(***************************************************************************)
(* Two instances of wiremix and three inodes: the one the file names, and  *)
(* one for each instance to have open, whichever of them renames first.    *)
(***************************************************************************)
EXTENDS HiddenSync
=============================================================================
