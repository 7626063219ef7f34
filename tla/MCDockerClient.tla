---------------------------- MODULE MCDockerClient ----------------------------
(* Instances of DockerClient for TLC.                                      *)
EXTENDS DockerClientProofs

CONSTANTS t1, t2, t3, c1, c2, c3
=============================================================================
