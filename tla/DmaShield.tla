----------------------------- MODULE DmaShield ------------------------------
(* What iommu_setup() promises about DMA: two guards can keep devices out  *)
(* of the SLB, the protection SKINIT switched on ("DEV") and the IOMMU.    *)
(* The launch starts under DEV; DEV goes away at most once, and only when  *)
(* the IOMMU has taken over, after which the IOMMU never steps down.       *)
VARIABLE guards

Init == guards = {"DEV"}

\* While DEV is on, SKL may switch the IOMMU on and off as it needs to.
Prepare == "DEV" \in guards /\ guards' \in {{"DEV"}, {"DEV", "IOMMU"}}

HandOver == guards = {"DEV", "IOMMU"} /\ guards' = {"IOMMU"}

Next == Prepare \/ HandOver

Spec == Init /\ [][Next]_guards
=============================================================================
