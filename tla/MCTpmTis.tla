------------------------------ MODULE MCTpmTis ------------------------------
(* Values for model-checking TpmTis. Lengths are scaled down.              *)
EXTENDS TpmTis

MCFamilies == {TPM12, TPM20}
\* One digest per command for TPM 1.2; SHA-1, then SHA-256 for TPM 2.0.
MCCmdLen == [TPM12 |-> <<4, 4>>, TPM20 |-> <<4, 5>>]
\* A header only; two proper lengths; and more than the buffer can hold.
MCRspLens == {2, 3, 5, 7}
MCReliability == BOOLEAN
=============================================================================
