---------------------------- MODULE MCFileLoading ----------------------------
(* FileLoading for TLC: its constants are numbers, given in the cfg files. *)
EXTENDS FileLoading
=============================================================================
