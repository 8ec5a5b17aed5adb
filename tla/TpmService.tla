----------------------------- MODULE TpmService -----------------------------
(* What SKL relies on when it extends PCRs: the TPM carries out a command  *)
(* only after it was given, at most once, and in the order commands are    *)
(* given in. A command may be lost; none is repeated or overtakes another. *)
EXTENDS Integers, Sequences

VARIABLES
  given,  \* number of commands given to the TPM so far
  done    \* the commands it carried out, by number

Init == given = 0 /\ done = <<>>

Give == given' = given + 1 /\ UNCHANGED done

CarryOut ==
  /\ \E c \in 1 .. given :
       /\ \A i \in DOMAIN done : done[i] < c
       /\ done' = Append(done, c)
  /\ UNCHANGED given

Next == Give \/ CarryOut

Spec == Init /\ [][Next]_<<given, done>>
=============================================================================
