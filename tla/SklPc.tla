-------------------------------- MODULE SklPc --------------------------------
(* What head.S and the parts of main.c have in common: where the one thread *)
(* of execution is, and the one flag they leave for each other.            *)

VARIABLES
  pc,       \* what is done next, by whichever module has an action for it
  protocol  \* boot_protocol

Goto(from, to) == pc = from /\ pc' = to

\* What is known of memory, once h was read at a.
Learn(known, a, h) == [b \in DOMAIN known \cup {a} |-> IF b = a THEN h ELSE known[b]]
=============================================================================
