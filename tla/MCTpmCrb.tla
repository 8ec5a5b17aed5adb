------------------------------ MODULE MCTpmCrb ------------------------------
(* Values for model-checking TpmCrb. Lengths are scaled down.              *)
EXTENDS TpmCrb

\* Two extensions that fit the buffer, one that does not, and another.
MCCmdLen == <<4, 5, 7, 4>>
=============================================================================
