----------------------------- MODULE MCExecShell -----------------------------
(* Instances of ExecShell for TLC.                                         *)
EXTENDS ExecShellProofs

CONSTANTS stdout, stderr
=============================================================================
