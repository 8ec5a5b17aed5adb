------------------------------ MODULE MCLeafCalls ----------------------------
EXTENDS LeafCalls, TLC

\* Capability lists of length n: each block of its own, DEV's (or the IOMMU's)
\* and others in any order.
Positions == {64, 80, 96}
CapLists(n) ==
  {s \in [1 .. n -> [at : Positions, id : {DevId, 1}]] :
     \A j, k \in 1 .. n : j # k => s[j].at # s[k].at}
DevLists == UNION {CapLists(n) : n \in 0 .. 3}
IommuLists == {s \in UNION {CapLists(n) : n \in 0 .. 2} :
                 s # <<>> => s[Len(s)].id = DevId /\ s[Len(s)].at = 80}

MCMachines ==
  {[mmio |-> m, ext |-> e, loop |-> l, bits |-> b, caps |-> (DevFn :> d @@ IommuFn :> c)] :
     m \in {"off", "low", "high"}, e \in BOOLEAN, l \in BOOLEAN, b \in {0, 3},
     d \in DevLists, c \in IommuLists}

\* Every way a message's end can fall into its last block, twice.
MCLengths == 0 .. 130
=============================================================================
