------------------------- MODULE MCStartupHandshake -------------------------
(* StartupHandshake for TLC: its constants are numbers, given in the cfgs. *)
EXTENDS StartupHandshakeProofs
=============================================================================
