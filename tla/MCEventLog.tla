----------------------------- MODULE MCEventLog -----------------------------
(* Values for model-checking EventLog: the structures' real sizes, in an   *)
(* address space scaled down to 2048 bytes with a 256-byte SLB in it.      *)
EXTENDS EventLog

MCIdSize == [TPM12 |-> 73, TPM20 |-> 57]
MCEvSize == [TPM12 |-> 32, TPM20 |-> 72]
MCFirstOff == [TPM12 |-> 48, TPM20 |-> 89]
MCOffBase == [TPM12 |-> 57, TPM20 |-> 0]

\* Below the SLB, ending at it, in it, starting at its end, above it, and
\* close enough to the top of memory for the limit to wrap around.
MCAddrs == {0, 600, 790, 791, 855, 1100, 1280, 1281, 1700}
\* Around the minimum of either family, and room for a few events.
MCSizes == {168, 169, 232, 233, 330}
\* An empty module command line, SKL's own descriptions, a long command line.
MCTexts == {0, 6, 34, 90}
=============================================================================
