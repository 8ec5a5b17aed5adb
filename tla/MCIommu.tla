------------------------------- MODULE MCIommu ------------------------------
(* Machines for model-checking Iommu. *)
EXTENDS Iommu

\* Every machine, with command_buf[] at the start and in the middle of a page.
MCPlatforms ==
  {[cap |-> c, enabled |-> n, iasup |-> i, used |-> u, devcap |-> d, eager |-> e,
    off |-> o] : c, n, i, u, d, e \in BOOLEAN, o \in {0, 2}}
=============================================================================
