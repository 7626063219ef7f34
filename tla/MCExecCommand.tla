---------------------------- MODULE MCExecCommand ----------------------------
(* Instances of ExecCommand for TLC.                                       *)
EXTENDS ExecCommand

CONSTANTS c1, c2

MCSettings == {<<"none", "plain", "absent">>, <<"some", "noisy", "present">>}
=============================================================================
