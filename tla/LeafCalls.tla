------------------------------- MODULE LeafCalls -----------------------------
(* The functions that run from call to return with nothing in between, each *)
(* called alone: iommu_setup()'s accesses to configuration space, and a sum *)
(* of a message. What one of them does not use stays as it is.             *)
EXTENDS PciConfig, Sha

VARIABLE call  \* the function that was called

vars == <<call, pcivars, shavars>>

AnyMachine == CHOOSE m \in Machines : TRUE
AnyLength == CHOOSE n \in Lengths : TRUE
AnyAlg == CHOOSE a \in Algs : TRUE

Init ==
  \/ /\ call = "iommu_setup" /\ alg = AnyAlg /\ len = AnyLength
     /\ PciStartAt("init") /\ ShaInit
  \/ /\ call = "sum" /\ machine = AnyMachine
     /\ PciStartAt("end") /\ ShaInit

Next ==
  \/ call = "iommu_setup" /\ PciNext /\ UNCHANGED <<call, shavars>>
  \/ call = "sum" /\ ShaNext /\ UNCHANGED <<call, pcivars>>

\* Neither function waits for anything.
Spec == Init /\ [][Next]_vars /\ WF_vars(Next)
=============================================================================
