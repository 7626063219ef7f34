---------------------------- MODULE MCLogsStream ----------------------------
(* LogsStream for TLC: its constants are numbers, given in the cfg files.  *)
EXTENDS LogsStreamProofs
=============================================================================
