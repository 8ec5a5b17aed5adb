--------------------------- MODULE LeafCallsProofs ---------------------------
(* What TLC checks of some machines and of the messages of a few lengths    *)
(* holds for every machine whose capabilities do not overlap, and for a     *)
(* message of any length.                                                  *)
EXTENDS LeafCalls, SequenceTheorems, TLAPS

-----------------------------------------------------------------------------
(* The protection, access by access. *)

Caps == machine.caps[DevFn]
Pointer(k) == Caps[k].at + machine.bits
Location == IF HasDev(machine) THEN DevCap + machine.bits ELSE 0

Before == {"init", "head", "walk", "iommu"}
Lifting == {"lift", "dev_read", "dev_select", "write"}

MachineInv ==
  /\ machine \in Machines
  /\ pc \in Before \cup Lifting \cup {"end"}
  /\ fn \in {DevFn, IommuFn} /\ (pc = "iommu" => fn = IommuFn) /\ (pc \in Lifting => fn = DevFn)
  /\ DOMAIN cap = {DevFn, IommuFn}
  /\ pc \in {"init", "end"} \/ method = IF machine.mmio = "off" THEN "conf1" ELSE "mmio"

(* pci_locate() is on a block of DEV's list, and on none behind DEV's.      *)
WalkInv ==
  pc = "walk" /\ fn = DevFn =>
    \/ ptr = 0 /\ ~HasDev(machine)
    \/ \E k \in DOMAIN Caps : ptr = Pointer(k) /\ \A j \in DOMAIN Caps : j < k => Caps[j].id # DevId

(* Nothing is written but DEV_OP until the value to write has been read.    *)
LiftInv ==
  /\ pc # "end" => cfg = Space(machine) /\ dev = 33
  /\ pc \in Before => op # DevCr
  /\ pc \in Lifting => cap[DevFn] = Location /\ (HasDev(machine) => DevCap \in CapPlaces)
  /\ pc \in {"dev_read", "dev_select"} => HasDev(machine) /\ op = DevCr
  /\ pc = "dev_select" => val = 33
  /\ pc = "write" => IF HasDev(machine) THEN val = 33 /\ op = DevCr ELSE val = 7
  /\ pc = "end" =>
       \/ fn = IommuFn /\ cfg = Space(machine) /\ dev = 33
       \/ fn = DevFn /\ HasDev(machine) /\ cfg = Space(machine) /\ dev = 33 - SlDevEn
       \/ fn = DevFn /\ ~HasDev(machine) /\ dev = 33
          /\ cfg = [Space(machine) EXCEPT ![<<MchFn, MemprotCr>>] = 6]

PciInv == MachineInv /\ (Reachable => WalkInv /\ LiftInv)

(* A list of capabilities.                                                 *)
Cap == [at : CapPlaces, id : 0 .. 255]
IsCaps(s) ==
  /\ s \in Seq(Cap)
  /\ \A k \in DOMAIN s : s[k].at \in 64 .. 244 /\ s[k].at % 4 = 0 /\ s[k].id \in 0 .. 255
  /\ \A j, k \in DOMAIN s : s[j].at = s[k].at => j = k

(* What a machine is, for the two functions that have capabilities.         *)
LEMMA MachineIs ==
  ASSUME NEW m \in Machines
  PROVE  /\ m.mmio \in {"off", "low", "high"} /\ m.ext \in BOOLEAN /\ m.bits \in 0 .. 3
         /\ \A f \in {DevFn, IommuFn} : IsCaps(m.caps[f])
<1>1. m \in Machine
  BY MachineAssumption
<1>2. ASSUME NEW f \in {DevFn, IommuFn} PROVE IsCaps(m.caps[f])
  <2> DEFINE s == m.caps[f]
  <2>1. s \in Seq(Cap) /\ \A j, k \in DOMAIN s : j # k => s[j].at # s[k].at
    BY <1>1, MachineAssumption DEF Machine, Cap
  <2> HIDE DEF s
  <2>2. Len(s) \in Nat /\ DOMAIN s = 1 .. Len(s)
    BY <2>1
  <2>3. ASSUME NEW k \in DOMAIN s
        PROVE  s[k].at \in 64 .. 244 /\ s[k].at % 4 = 0 /\ s[k].id \in 0 .. 255
    <3>1. s[k] \in Cap
      BY <2>1, <2>2, ElementOfSeq
    <3> QED
      BY <3>1 DEF Cap, CapPlaces
  <2>4. IsCaps(s)
    BY <2>1, <2>2, <2>3 DEF IsCaps
  <2> QED
    BY <2>4 DEF s
<1> QED
  BY <1>1, <1>2 DEF Machine

(* Either method reaches the dword a register number below 256 is in.       *)
LEMMA TargetIs ==
  ASSUME method \in {"conf1", "mmio"}, NEW f \in {DevFn, IommuFn, MchFn}, NEW num \in 0 .. 255
  PROVE  Target(f, num) = <<f, num - (num % 4)>>
<1>1. f \in 0 .. 255 /\ num % 4 \in 0 .. 3 /\ num % 256 = num /\ num \div 256 = 0
  BY DEF DevFn, IommuFn, MchFn
<1> DEFINE low == num - (num % 4)
<1>2. low \in 0 .. 255
  BY <1>1
<1>3. CASE method = "conf1"
  <2>1. Conf1Address(f, num) = f * 256 + low
    BY <1>1 DEF Conf1Address, Bit24
  <2> HIDE DEF low
  <2>2. /\ ((f * 256 + low) \div 256) % 256 = f /\ (f * 256 + low) % 256 = low
        /\ ((f * 256 + low) \div Bit24) % 16 = 0
    BY <1>1, <1>2 DEF Bit24
  <2>3. Conf1Target(f * 256 + low) = <<f, low>>
    BY <1>2, <2>2 DEF Conf1Target
  <2> QED
    BY <1>3, <2>1, <2>3 DEF Target, low
<1>4. CASE method = "mmio"
  <2>1. (f * 4096 + num) \div 4096 = f /\ f % 256 = f
    <3>1. f \in {195, 2, 192}
      BY DEF DevFn, IommuFn, MchFn
    <3>2. (195 * 4096 + num) \div 4096 = 195 /\ (2 * 4096 + num) \div 4096 = 2
          /\ (192 * 4096 + num) \div 4096 = 192
      OBVIOUS
    <3> QED
      BY <1>1, <3>1, <3>2
  <2>3. (f * 4096 + num) % 4096 = num
    BY <1>1
  <2>2. (f * 4096 + num) % 4 = num % 4
    BY <1>1
  <2> QED
    BY <1>4, <2>1, <2>2, <2>3 DEF Target, MmioAddress, MmioTarget
<1> QED
  BY <1>3, <1>4

(* And MEMPROT_CR, where the method has extended registers at all.          *)
LEMMA MemprotIs ==
  ASSUME method = "mmio" \/ (method = "conf1" /\ machine.ext)
  PROVE  Target(MchFn, MemprotCr) = <<MchFn, MemprotCr>>
  BY DEF Target, Conf1Address, Conf1Target, MmioAddress, MmioTarget, MchFn, MemprotCr, Bit24

(* A pointer with reserved bits still fits in a byte.                       *)
LEMMA PointerIs ==
  ASSUME NEW a \in 64 .. 244, NEW b \in 0 .. 3
  PROVE  a + b \in 64 .. 247 /\ a + b \in 0 .. 247 /\ a + b >= 64
  OBVIOUS

(* A pointer fits in a byte, and is 0 only where a list ends.               *)
LEMMA LinkIs ==
  ASSUME NEW m, m.bits \in 0 .. 3, NEW s, IsCaps(s), NEW k \in 1 .. Len(s) + 1
  PROVE  /\ Link(m, s, k) \in 0 .. 247
         /\ k <= Len(s) => Link(m, s, k) = s[k].at + m.bits /\ Link(m, s, k) >= 64
         /\ k = Len(s) + 1 => Link(m, s, k) = 0 \/ (1 \in DOMAIN s /\ Link(m, s, k) = s[1].at + m.bits)
<1>1. s # <<>> => 1 \in DOMAIN s
  BY EmptySeq DEF IsCaps
<1>2. CASE k <= Len(s)
  <2>1. k \in DOMAIN s /\ k # Len(s) + 1
    BY <1>2 DEF IsCaps
  <2>2. s[k].at \in 64 .. 244
    BY <2>1 DEF IsCaps
  <2>3. Link(m, s, k) = s[k].at + m.bits
    BY <1>2 DEF Link
  <2>4. s[k].at + m.bits \in 0 .. 247 /\ s[k].at + m.bits >= 64
    BY <2>2, PointerIs
  <2> QED
    BY <2>1, <2>3, <2>4
<1>3. CASE k = Len(s) + 1
  <2>1. ~(k <= Len(s))
    BY <1>3 DEF IsCaps
  <2>2. 1 \in DOMAIN s => s[1].at \in 64 .. 244
    BY DEF IsCaps
  <2>3. Link(m, s, k) = 0 \/ (1 \in DOMAIN s /\ Link(m, s, k) = s[1].at + m.bits)
    BY <1>1, <2>1 DEF Link
  <2>4. 1 \in DOMAIN s => s[1].at + m.bits \in 0 .. 247
    BY <2>2, PointerIs
  <2>5. Link(m, s, k) \in 0 .. 247
    BY <2>3, <2>4
  <2> QED
    BY <2>1, <2>3, <2>5
<1>4. Len(s) \in Nat
  BY DEF IsCaps
<1>5. k <= Len(s) \/ k = Len(s) + 1
  BY <1>4
<1> QED
  BY <1>2, <1>3, <1>5

(* What SKL finds in configuration space before it writes to it.            *)
LEMMA SpaceIs ==
  ASSUME NEW m \in Machines
  PROVE  /\ <<MchFn, MemprotCr>> \in DOMAIN Space(m) /\ Space(m)[<<MchFn, MemprotCr>>] = 7
         /\ \A f \in {DevFn, IommuFn} :
              /\ <<f, PciCapabilityList>> \in DOMAIN Space(m)
              /\ Space(m)[<<f, PciCapabilityList>>] = Link(m, m.caps[f], 1)
              /\ \A k \in DOMAIN m.caps[f] :
                   LET r == <<f, m.caps[f][k].at>>
                   IN  /\ r \in DOMAIN Space(m)
                       /\ Space(m)[r] = m.caps[f][k].id + 256 * Link(m, m.caps[f], k + 1)
<1> DEFINE Dom == {<<MchFn, MemprotCr>>, <<MchFn, MemprotCr % 256>>}
                  \cup {<<f, PciCapabilityList>> : f \in {DevFn, IommuFn}}
                  \cup UNION {{<<f, m.caps[f][k].at>> : k \in DOMAIN m.caps[f]} : f \in {DevFn, IommuFn}}
<1>1. DOMAIN Space(m) = Dom /\ \A r \in Dom : Space(m)[r] = Held(m, r[1], r[2])
  BY DEF Space
<1>2. MchFn \notin {DevFn, IommuFn}
  BY DEF MchFn, DevFn, IommuFn
<1>3. ASSUME NEW f \in {DevFn, IommuFn}, NEW k \in DOMAIN m.caps[f]
      PROVE  /\ <<f, m.caps[f][k].at>> \in Dom
             /\ Held(m, f, m.caps[f][k].at) = m.caps[f][k].id + 256 * Link(m, m.caps[f], k + 1)
  <2> DEFINE s == m.caps[f]
  <2>1. IsCaps(s) /\ k \in DOMAIN s
    BY MachineIs
  <2> HIDE DEF s
  <2>2. s[k].at # PciCapabilityList
    <3>1. s[k].at \in 64 .. 244
      BY <2>1 DEF IsCaps
    <3> QED
      BY <3>1 DEF PciCapabilityList
  <2>4. f # MchFn
    BY <1>2
  <2>3. (CHOOSE j \in DOMAIN s : s[j].at = s[k].at) = k
    BY <2>1 DEF IsCaps
  <2>5. Held(m, f, s[k].at) = s[k].id + 256 * Link(m, s, k + 1)
    BY <2>2, <2>3, <2>4 DEF Held, s
  <2>6. <<f, s[k].at>> \in {<<f, m.caps[f][j].at>> : j \in DOMAIN m.caps[f]}
    BY DEF s
  <2> QED
    BY <2>5, <2>6 DEF s
<1>4. ASSUME NEW f \in {DevFn, IommuFn}
      PROVE  <<f, PciCapabilityList>> \in Dom /\ Held(m, f, PciCapabilityList) = Link(m, m.caps[f], 1)
  BY <1>2 DEF Held
<1>5. <<MchFn, MemprotCr>> \in Dom /\ Held(m, MchFn, MemprotCr) = 7
  BY DEF Held
<1> HIDE DEF Dom
<1>6. \A f \in {DevFn, IommuFn} :
        /\ <<f, PciCapabilityList>> \in DOMAIN Space(m)
        /\ Space(m)[<<f, PciCapabilityList>>] = Link(m, m.caps[f], 1)
  BY <1>1, <1>4
<1>7. \A f \in {DevFn, IommuFn} : \A k \in DOMAIN m.caps[f] :
        /\ <<f, m.caps[f][k].at>> \in DOMAIN Space(m)
        /\ Space(m)[<<f, m.caps[f][k].at>>] = m.caps[f][k].id + 256 * Link(m, m.caps[f], k + 1)
  BY <1>1, <1>3
<1> QED
  BY <1>1, <1>5, <1>6, <1>7
-----------------------------------------------------------------------------
(* pci_locate() while DEV_OP does not select DEV_CR: it reads what is there.*)
LEMMA ReadIs ==
  ASSUME ~Astray, op # DevCr, method \in {"conf1", "mmio"}, NEW num \in 0 .. 255, NEW at,
         at = num - (num % 4), <<DevFn, at>> \in DOMAIN cfg
  PROVE  ReadDword(DevFn, num) = {cfg[<<DevFn, at>>]}
<1>1. Target(DevFn, num) = <<DevFn, at>>
  BY TargetIs
<1>2. DevFn # IommuFn
  BY DEF DevFn, IommuFn
<1> QED
  BY <1>1, <1>2 DEF ReadDword

(* The pointer to DEV's list, and what a capability's pointer leads to.     *)
LEMMA HeadIs ==
  ASSUME machine \in Machines, ~Astray, op # DevCr, method \in {"conf1", "mmio"}, cfg = Space(machine)
  PROVE  ReadDword(DevFn, PciCapabilityList) = {Link(machine, Caps, 1)}
<1>1. /\ <<DevFn, PciCapabilityList>> \in DOMAIN cfg
      /\ cfg[<<DevFn, PciCapabilityList>>] = Link(machine, Caps, 1)
  BY SpaceIs DEF Caps
<1>2. PciCapabilityList \in 0 .. 255 /\ PciCapabilityList - (PciCapabilityList % 4) = PciCapabilityList
  BY DEF PciCapabilityList
<1> QED
  BY <1>1, <1>2, ReadIs

(* What a capability's header reads as: its number, and the next's place.   *)
LEMMA CapabilityIs ==
  ASSUME machine \in Machines, ~Astray, op # DevCr, method \in {"conf1", "mmio"}, cfg = Space(machine),
         NEW k \in DOMAIN Caps
  PROVE  ReadDword(DevFn, Pointer(k)) = {Caps[k].id + 256 * Link(machine, Caps, k + 1)}
<1>1. IsCaps(Caps) /\ machine.bits \in 0 .. 3
  BY MachineIs DEF Caps
<1>2. Caps[k].at \in 64 .. 244 /\ Caps[k].at % 4 = 0
  BY <1>1 DEF IsCaps
<1> DEFINE at == Caps[k].at
<1>3. /\ <<DevFn, at>> \in DOMAIN cfg
      /\ cfg[<<DevFn, at>>] = Caps[k].id + 256 * Link(machine, Caps, k + 1)
  BY SpaceIs DEF Caps
<1>4. \A a \in 64 .. 244, b \in 0 .. 3 : a % 4 = 0 => a + b \in 0 .. 255 /\ a = (a + b) - ((a + b) % 4)
  OBVIOUS
<1>5. Pointer(k) \in 0 .. 255 /\ at = Pointer(k) - (Pointer(k) % 4)
  BY <1>1, <1>2, <1>4 DEF Pointer
<1> QED
  BY <1>3, <1>5, ReadIs, ZenonT(30)

(* A capability with DEV's number, and none before it: DEV's block.         *)
LEMMA DevCapIs ==
  ASSUME machine \in Machines, NEW k \in DOMAIN Caps, IsDevCap(Caps, k)
  PROVE  HasDev(machine) /\ DevCap = Caps[k].at /\ DevCap \in CapPlaces /\ Location = Pointer(k)
<1>1. IsCaps(Caps)
  BY MachineIs DEF Caps
<1>2. HasDev(machine)
  BY DEF HasDev, IsDevCap, Caps
<1>3. \A j \in DOMAIN Caps : j \in Int
  BY <1>1 DEF IsCaps
<1>4. \A j \in DOMAIN Caps : IsDevCap(Caps, j) => j = k
  BY <1>3 DEF IsDevCap
<1>5. (CHOOSE j \in DOMAIN Caps : IsDevCap(Caps, j)) = k
  BY <1>4
<1>6. DevCap = Caps[k].at
  BY <1>5 DEF DevCap, Caps
<1>7. Caps[k].at \in 64 .. 244 /\ Caps[k].at % 4 = 0
  BY <1>1 DEF IsCaps
<1> QED
  BY <1>2, <1>6, <1>7 DEF Location, Pointer, CapPlaces

(* Where iommu_setup() is, and how it reads and writes registers.           *)
LEMMA NextMachine == MachineInv /\ [PciNext]_pcivars => MachineInv'
<1> SUFFICES ASSUME MachineInv, [PciNext]_pcivars PROVE MachineInv'
  OBVIOUS
<1> USE DEF MachineInv, Before, Lifting
<1>0. DevFn # IommuFn
  BY DEF DevFn, IommuFn
<1>1. CASE PciInit
  BY <1>1 DEF PciInit
<1>2. CASE ReadHead
  BY <1>2 DEF ReadHead, Locate
<1>3. CASE Walk
  BY <1>3 DEF Walk, Locate
<1>4. CASE UseIommu
  BY <1>0, <1>4 DEF UseIommu
<1>5. CASE SelectForRead
  BY <1>5 DEF SelectForRead, Select
<1>6. CASE ReadProtection
  BY <1>6 DEF ReadProtection
<1>7. CASE SelectForWrite
  BY <1>7 DEF SelectForWrite, Select
<1>8. CASE WriteProtection
  BY <1>8 DEF WriteProtection
<1>9. CASE UNCHANGED pcivars
  BY <1>9 DEF pcivars
<1> QED
  BY <1>1, <1>2, <1>3, <1>4, <1>5, <1>6, <1>7, <1>8, <1>9 DEF PciNext

(* A step does not change the machine, nor what follows from it.            *)
LEMMA MachineStays ==
  ASSUME [PciNext]_pcivars
  PROVE  /\ machine' = machine /\ Caps' = Caps /\ Location' = Location /\ DevCap' = DevCap
         /\ Reachable' <=> Reachable
         /\ \A k : Pointer(k)' = Pointer(k)
<1>1. machine' = machine
  BY DEF PciNext, PciInit, ReadHead, Walk, UseIommu, SelectForRead, Select, ReadProtection,
         SelectForWrite, WriteProtection, pcivars
<1> QED
  BY <1>1 DEF Caps, Location, DevCap, Reachable, Pointer

(* Where registers can be reached, every access goes where it is meant to.  *)
LEMMA ReachableIs ==
  ASSUME MachineInv, Reachable, pc \notin {"init", "end"}
  PROVE  /\ method \in {"conf1", "mmio"} /\ ~Astray
         /\ HasDev(machine) \/ method = "mmio" \/ (method = "conf1" /\ machine.ext)
  BY DEF MachineInv, Reachable, Astray

(* Looking for DEV's capability: the walk ends on the first one that is     *)
(* DEV's, or behind a list that has none.                                  *)
LEMMA StepWalk ==
  ASSUME PciInv, Reachable, ReadHead \/ Walk
  PROVE  (WalkInv /\ LiftInv)'
<1>0. /\ machine \in Machines /\ DevFn # IommuFn /\ fn \in {DevFn, IommuFn}
      /\ DOMAIN cap = {DevFn, IommuFn}
      /\ pc \in {"head", "walk"} /\ WalkInv /\ cfg = Space(machine) /\ dev = 33 /\ op # DevCr
  BY DEF PciInv, MachineInv, LiftInv, ReadHead, Walk, Before, DevFn, IommuFn
<1>1. method \in {"conf1", "mmio"} /\ ~Astray
  BY <1>0, ReachableIs DEF PciInv
<1>2. /\ machine' = machine /\ Caps' = Caps /\ Location' = Location /\ DevCap' = DevCap
      /\ \A k : Pointer(k)' = Pointer(k)
  BY MachineStays DEF PciNext
<1>3. UNCHANGED <<machine, cfg, dev, op, fn, method>>
  BY DEF ReadHead, Walk
<1>4. IsCaps(Caps) /\ machine.bits \in 0 .. 3 /\ Len(Caps) \in Nat /\ DOMAIN Caps = 1 .. Len(Caps)
  <2>1. IsCaps(Caps) /\ machine.bits \in 0 .. 3
    BY <1>0, MachineIs DEF Caps
  <2>2. Caps \in Seq(Cap)
    BY <2>1 DEF IsCaps
  <2> QED
    BY <2>1, <2>2
<1>5. CASE fn = IommuFn
  <2>1. pc' \in {"walk", "iommu"}
    BY <1>5 DEF ReadHead, Walk, Locate
  <2> QED
    BY <1>0, <1>3, <1>5, <2>1 DEF WalkInv, LiftInv, Before, Lifting
<1>6. ASSUME fn = DevFn, Locate(Location), HasDev(machine) => DevCap \in CapPlaces
      PROVE  (WalkInv /\ LiftInv)'
  <2>1. pc' = "lift" /\ cap'[DevFn] = Location
    BY <1>0, <1>6 DEF Locate
  <2> QED
    BY <1>0, <1>2, <1>3, <2>1, <1>6 DEF WalkInv, LiftInv, Before, Lifting
<1>7. ASSUME fn = DevFn, pc' = "walk",
             \/ ptr' = 0 /\ ~HasDev(machine)
             \/ \E k \in DOMAIN Caps : ptr' = Pointer(k) /\ \A j \in DOMAIN Caps : j < k => Caps[j].id # DevId
      PROVE  (WalkInv /\ LiftInv)'
  <2>1. WalkInv'
    BY <1>2, <1>7 DEF WalkInv
  <2> QED
    BY <1>0, <1>3, <1>7, <2>1 DEF LiftInv, Before, Lifting
<1>8. CASE fn = DevFn /\ ReadHead
  <2>1. Link(machine, Caps, 1) \in 0 .. 247
        /\ (1 \in DOMAIN Caps => Link(machine, Caps, 1) = Pointer(1) /\ Link(machine, Caps, 1) >= 64)
        /\ (1 \notin DOMAIN Caps => Link(machine, Caps, 1) = 0)
    <3>1. 1 \in 1 .. Len(Caps) + 1
      BY <1>4
    <3> QED
      BY <1>4, <3>1, LinkIs DEF Pointer
  <2>2. ReadDword(DevFn, PciCapabilityList) = {Link(machine, Caps, 1)}
    BY <1>0, <1>1, HeadIs
  <2>3. CASE 1 \in DOMAIN Caps
    <3>1. ~InvalidCap(Link(machine, Caps, 1)) /\ Link(machine, Caps, 1) % 256 = Pointer(1)
      BY <2>1, <2>3 DEF InvalidCap, Ones
    <3>2. pc' = "walk" /\ ptr' = Pointer(1)
      BY <1>8, <2>2, <3>1 DEF ReadHead
    <3>3. \A j \in DOMAIN Caps : ~(j < 1)
      BY <1>4
    <3> QED
      BY <1>7, <1>8, <2>3, <3>2, <3>3
  <2>4. CASE 1 \notin DOMAIN Caps
    <3>1. Locate(0)
      BY <1>8, <2>1, <2>2, <2>4 DEF ReadHead, InvalidCap
    <3>2. ~HasDev(machine)
      BY <1>4, <2>4 DEF HasDev, Caps
    <3> QED
      BY <1>6, <1>8, <3>1, <3>2 DEF Location
  <2> QED
    BY <2>3, <2>4
<1>9. CASE fn = DevFn /\ Walk /\ ptr = 0
  <2>1. ~HasDev(machine)
    <3>1. pc = "walk"
      BY <1>9 DEF Walk
    <3>2. \A k \in DOMAIN Caps : Pointer(k) # 0
      <4>1. IsCaps(Caps) /\ machine.bits \in 0 .. 3
        BY <1>4
      <4>2. \A k \in DOMAIN Caps : Caps[k].at \in 64 .. 244
        BY <4>1 DEF IsCaps
      <4> QED
        BY <4>1, <4>2, PointerIs DEF Pointer
    <3> QED
      BY <1>0, <1>9, <3>1, <3>2 DEF WalkInv
  <2>2. Locate(0)
    BY <1>9 DEF Walk
  <2> QED
    BY <1>6, <1>9, <2>1, <2>2 DEF Location
<1>10. CASE fn = DevFn /\ Walk /\ ptr # 0
  <2>1. PICK k \in DOMAIN Caps : ptr = Pointer(k) /\ \A j \in DOMAIN Caps : j < k => Caps[j].id # DevId
    BY <1>0, <1>10 DEF WalkInv, Walk
  <2> DEFINE next == Link(machine, Caps, k + 1)
             v == Caps[k].id + 256 * next
  <2>2. Caps[k].id \in 0 .. 255 /\ next \in 0 .. 247 /\ Pointer(k) \in 64 .. 247
    <3>1. Caps[k].id \in 0 .. 255 /\ Caps[k].at \in 64 .. 244
      BY <1>4 DEF IsCaps
    <3>2. k + 1 \in 1 .. Len(Caps) + 1
      BY <1>4
    <3>3. next \in 0 .. 247
      BY <1>4, <3>2, LinkIs
    <3> QED
      BY <1>4, <3>1, <3>3, PointerIs DEF Pointer
  <2>3. ReadDword(DevFn, ptr) = {v}
    BY <1>0, <1>1, <2>1, CapabilityIs
  <2>4. v % 256 = Caps[k].id /\ (v \div 256) % 256 = next
    <3>1. \A a \in 0 .. 255, b \in 0 .. 247 : (a + 256 * b) % 256 = a /\ (a + 256 * b) \div 256 = b /\ b % 256 = b
      OBVIOUS
    <3> DEFINE id == Caps[k].id
    <3>2. id \in 0 .. 255 /\ next \in 0 .. 247
      BY <2>2
    <3> HIDE DEF id, next
    <3>3. (id + 256 * next) % 256 = id /\ ((id + 256 * next) \div 256) % 256 = next
      BY <3>1, <3>2
    <3> QED
      BY <3>3 DEF id
  <2> HIDE DEF v, next
  <2>5. CASE Caps[k].id = DevId
    <3>1. Locate(ptr)
      <4>1. ~InvalidCap(ptr)
        BY <2>1, <2>2 DEF InvalidCap, Ones
      <4> QED
        BY <1>10, <2>3, <2>4, <2>5, <4>1 DEF Walk
    <3>2. HasDev(machine) /\ DevCap \in CapPlaces /\ Location = ptr
      BY <1>0, <2>1, <2>5, DevCapIs DEF IsDevCap
    <3> QED
      BY <1>6, <1>10, <3>1, <3>2
  <2>6. CASE Caps[k].id # DevId
    <3>1. pc' = "walk" /\ ptr' = next
      BY <1>10, <2>3, <2>4, <2>6 DEF Walk
    <3>2. \A j \in DOMAIN Caps : j < k + 1 => Caps[j].id # DevId
      BY <1>4, <2>1, <2>6
    <3>3. CASE k < Len(Caps)
      <4>1. k + 1 \in DOMAIN Caps /\ k + 1 \in 1 .. Len(Caps) + 1 /\ k + 1 <= Len(Caps)
        BY <1>4, <3>3
      <4>2. next = Pointer(k + 1)
        BY <1>4, <4>1, LinkIs DEF Pointer, next
      <4> QED
        BY <1>7, <1>10, <3>1, <3>2, <4>1, <4>2
    <3>4. CASE k = Len(Caps)
      <4>1. \A j \in DOMAIN Caps : j < k + 1
        BY <1>4, <3>4
      <4>2. ~HasDev(machine)
        BY <3>2, <4>1 DEF HasDev, Caps
      <4>3. k + 1 \in 1 .. Len(Caps) + 1 /\ k + 1 = Len(Caps) + 1
        BY <1>4, <3>4
      <4>4. next = 0 \/ (1 \in DOMAIN Caps /\ next = Pointer(1))
        BY <1>4, <4>3, LinkIs DEF Pointer, next
      <4>5. \A j \in DOMAIN Caps : Caps[j].id # DevId
        BY <3>2, <4>1
      <4> QED
        BY <1>7, <1>10, <3>1, <4>2, <4>4, <4>5
    <3> QED
      BY <1>4, <3>3, <3>4
  <2> QED
    BY <2>5, <2>6
<1> QED
  BY <1>0, <1>5, <1>8, <1>9, <1>10

(* The registers of DEV, by way of its capability.                          *)
LEMMA DevRegisters ==
  ASSUME method \in {"conf1", "mmio"}, machine.bits \in 0 .. 3, HasDev(machine), DevCap \in CapPlaces
  PROVE  /\ Target(DevFn, Location + 4) = <<DevFn, DevCap + 4>>
         /\ Target(DevFn, Location + 8) = <<DevFn, DevCap + 8>>
         /\ Location # 0
<1>1. DevCap \in 64 .. 244 /\ DevCap % 4 = 0 /\ Location = DevCap + machine.bits
  BY DEF CapPlaces, Location
<1>2. ASSUME NEW a \in 64 .. 244, a % 4 = 0, NEW b \in 0 .. 3, NEW d \in {4, 8}
      PROVE  /\ a + b + d \in 0 .. 255 /\ (a + b + d) - ((a + b + d) % 4) = a + d
             /\ a + b # 0
  BY <1>2
<1>3. /\ Location + 4 \in 0 .. 255 /\ (Location + 4) - ((Location + 4) % 4) = DevCap + 4
      /\ Location + 8 \in 0 .. 255 /\ (Location + 8) - ((Location + 8) % 4) = DevCap + 8
      /\ Location # 0
  BY <1>1, <1>2, ZenonT(30)
<1> QED
  BY <1>3, TargetIs

(* Lifting the protection: DEV_OP is written, DEV_CR or MEMPROT_CR is read  *)
(* and written back without its bit.                                       *)
LEMMA StepLift ==
  ASSUME PciInv, Reachable,
         PciInit \/ UseIommu \/ SelectForRead \/ ReadProtection \/ SelectForWrite \/ WriteProtection
  PROVE  (WalkInv /\ LiftInv)'
<1>0. machine \in Machines /\ DevFn # IommuFn /\ fn \in {DevFn, IommuFn} /\ LiftInv
      /\ (pc = "iommu" => fn = IommuFn)
  BY DEF PciInv, MachineInv, DevFn, IommuFn
<1>1. /\ machine' = machine /\ Location' = Location /\ DevCap' = DevCap
  BY MachineStays DEF PciNext
<1>2. machine.bits \in 0 .. 3
  BY <1>0, MachineIs
<1>3. pc \in Lifting =>
        /\ fn = DevFn /\ cfg = Space(machine) /\ dev = 33 /\ cap[DevFn] = Location
        /\ HasDev(machine) => DevCap \in CapPlaces
        /\ method \in {"conf1", "mmio"} /\ ~Astray
        /\ HasDev(machine) \/ method = "mmio" \/ (method = "conf1" /\ machine.ext)
  BY <1>0, ReachableIs DEF PciInv, MachineInv, LiftInv, Lifting
<1>10. HasDev(machine) /\ pc \in Lifting => <<DevFn, DevCap + 8>> # <<DevFn, DevCap + 4>>
  <2>1. DevCap \in 64 .. 244 => DevCap + 8 # DevCap + 4
    OBVIOUS
  <2> QED
    BY <1>3, <2>1 DEF CapPlaces
<1>4. CASE PciInit \/ UseIommu
  BY <1>0, <1>4 DEF PciInit, UseIommu, WalkInv, LiftInv, Before, Lifting
<1>5. CASE SelectForRead \/ SelectForWrite
  <2>1. /\ pc \in {"lift", "dev_select"} /\ pc' = (IF pc = "lift" THEN "dev_read" ELSE "write")
        /\ cap[DevFn] # 0 /\ WriteDword(DevFn, cap[DevFn] + 4, DevCr)
        /\ UNCHANGED <<machine, fn, cap, val>>
    BY <1>5 DEF SelectForRead, SelectForWrite, Select
  <2>2. HasDev(machine) /\ Target(DevFn, cap[DevFn] + 4) = <<DevFn, DevCap + 4>>
    BY <1>2, <1>3, <2>1, DevRegisters DEF Lifting, Location
  <2>3. op' = DevCr /\ UNCHANGED <<cfg, dev>>
    BY <1>3, <1>10, <2>1, <2>2 DEF WriteDword, Lifting
  <2> QED
    BY <1>0, <1>1, <1>3, <2>1, <2>2, <2>3 DEF WalkInv, LiftInv, Before, Lifting
<1>6. CASE ReadProtection /\ pc = "dev_read"
  <2>1. HasDev(machine) /\ op = DevCr
    BY <1>0, <1>6 DEF LiftInv
  <2>2. Target(DevFn, cap[DevFn] + 8) = <<DevFn, DevCap + 8>>
    BY <1>2, <1>3, <1>6, <2>1, DevRegisters DEF Lifting
  <2>3. ReadDword(DevFn, cap[DevFn] + 8) = {33}
    BY <1>0, <1>3, <1>6, <2>1, <2>2 DEF ReadDword, Lifting
  <2>4. val' = 33 /\ pc' = "dev_select" /\ UNCHANGED <<machine, cfg, dev, op, fn, cap>>
    BY <1>6, <2>3 DEF ReadProtection
  <2> QED
    BY <1>0, <1>1, <1>3, <1>6, <2>1, <2>4 DEF WalkInv, LiftInv, Before, Lifting
<1>7. CASE ReadProtection /\ pc = "lift"
  <2>1. ~HasDev(machine)
    BY <1>2, <1>3, <1>7, DevRegisters DEF ReadProtection, Lifting
  <2>2. Target(MchFn, MemprotCr) = <<MchFn, MemprotCr>>
    BY <1>3, <1>7, <2>1, MemprotIs DEF Lifting
  <2>3. MchFn # IommuFn /\ <<MchFn, MemprotCr>> \in DOMAIN Space(machine)
        /\ Space(machine)[<<MchFn, MemprotCr>>] = 7
    BY <1>0, SpaceIs DEF MchFn, IommuFn
  <2>4. ReadDword(MchFn, MemprotCr) = {7}
    BY <1>3, <1>7, <2>1, <2>2, <2>3 DEF ReadDword, Lifting
  <2>5. val' = 7 /\ pc' = "write" /\ UNCHANGED <<machine, cfg, dev, op, fn, cap>>
    BY <1>7, <2>4 DEF ReadProtection
  <2> QED
    BY <1>0, <1>1, <1>3, <1>7, <2>1, <2>5 DEF WalkInv, LiftInv, Before, Lifting
<1>8. CASE WriteProtection /\ HasDev(machine)
  <2>1. pc = "write" /\ pc' = "end" /\ val = 33 /\ op = DevCr /\ UNCHANGED <<machine, fn>>
    BY <1>0, <1>8 DEF WriteProtection, LiftInv
  <2>2. Target(DevFn, cap[DevFn] + 8) = <<DevFn, DevCap + 8>> /\ cap[DevFn] # 0
    BY <1>2, <1>3, <1>8, <2>1, DevRegisters DEF Lifting
  <2>4. val - SlDevEn * ((val \div SlDevEn) % 2) = 33 - SlDevEn
    BY <2>1 DEF SlDevEn
  <2>5. dev' = 33 - SlDevEn /\ cfg' = cfg
    BY <1>3, <1>8, <1>10, <2>1, <2>2, <2>4 DEF WriteProtection, WriteDword, Lifting
  <2> QED
    BY <1>3, <1>8, <2>1, <2>5 DEF WalkInv, LiftInv, Before, Lifting
<1>9. CASE WriteProtection /\ ~HasDev(machine)
  <2>1. pc = "write" /\ pc' = "end" /\ val = 7 /\ UNCHANGED <<machine, fn>>
    BY <1>0, <1>9 DEF WriteProtection, LiftInv
  <2>2. Target(MchFn, MemprotCr) = <<MchFn, MemprotCr>>
    BY <1>3, <1>9, <2>1, MemprotIs DEF Lifting
  <2>3. WriteDword(MchFn, MemprotCr, 6)
    <3>1. cap[DevFn] = 0 /\ val - (val % 2) = 6
      BY <1>3, <1>9, <2>1 DEF Location, Lifting
    <3> QED
      BY <1>9, <3>1 DEF WriteProtection
  <2> DEFINE r == <<MchFn, MemprotCr>>
  <2>4. cfg' = [x \in DOMAIN cfg \cup {r} |-> IF x = r THEN 6 ELSE cfg[x]] /\ dev' = dev
    BY <1>3, <1>9, <2>1, <2>2, <2>3 DEF WriteDword, Lifting
  <2>5. r \in DOMAIN cfg /\ cfg = Space(machine)
    BY <1>0, <1>3, <2>1, SpaceIs DEF Lifting
  <2> HIDE DEF r
  <2>6. cfg' = [Space(machine) EXCEPT ![r] = 6]
    <3>1. DOMAIN cfg \cup {r} = DOMAIN cfg /\ cfg = [x \in DOMAIN cfg |-> cfg[x]]
      BY <2>5 DEF Space
    <3> QED
      BY <2>4, <2>5, <3>1
  <2> QED
    BY <1>3, <1>9, <2>1, <2>4, <2>6 DEF WalkInv, LiftInv, Before, Lifting, r
<1> QED
  BY <1>4, <1>5, <1>6, <1>7, <1>8, <1>9 DEF ReadProtection

(* iommu_setup() has touched nothing when it is called.                     *)
LEMMA InitPci == ASSUME Init PROVE PciInv
<1>1. /\ machine \in Machines /\ cfg = Space(machine) /\ dev = 33 /\ op = 0
      /\ pc \in {"init", "end"} /\ fn = IommuFn /\ DOMAIN cap = {DevFn, IommuFn}
  BY DEF Init, PciStartAt
<1>2. op # DevCr
  BY <1>1 DEF DevCr
<1> QED
  BY <1>1, <1>2 DEF PciInv, MachineInv, WalkInv, LiftInv, Before, Lifting

(* Every access of iommu_setup() finds its register, and writes to none but *)
(* those of the protection.                                                *)
LEMMA NextPci == PciInv /\ [PciNext]_pcivars => PciInv'
<1> SUFFICES ASSUME PciInv, [PciNext]_pcivars PROVE PciInv'
  OBVIOUS
<1>1. MachineInv'
  BY NextMachine DEF PciInv
<1>2. ASSUME Reachable' PROVE (WalkInv /\ LiftInv)'
  <2>1. Reachable
    BY <1>2, MachineStays
  <2>2. CASE PciNext
    BY <2>1, <2>2, StepWalk, StepLift DEF PciNext
  <2>3. CASE UNCHANGED pcivars
    <3>1. (WalkInv /\ LiftInv)' <=> WalkInv /\ LiftInv
      BY <2>3 DEF pcivars, WalkInv, LiftInv, Caps, Pointer, Location, DevCap
    <3> QED
      BY <2>1, <3>1 DEF PciInv
  <2> QED
    BY <2>2, <2>3
<1> QED
  BY <1>1, <1>2 DEF PciInv

(* The calls do not share any state.                                       *)
LEMMA LeafSteps == [Next]_vars => [PciNext]_pcivars /\ [ShaNext]_shavars
  BY DEF Next, vars

(* The invariant of iommu_setup(), for every machine.                       *)
THEOREM PciInvariance == Spec => []PciInv
<1>1. PciInv /\ [Next]_vars => PciInv'
  BY NextPci, LeafSteps
<1> QED
  BY InitPci, <1>1, PTL DEF Spec

(* On every machine whose registers SKL can reach, with any capabilities in *)
(* any order, iommu_setup() changes the protection's bit and nothing else,  *)
(* and has cleared it when it is done (dev.c:58-94).                       *)
THEOREM PciLiftsOnlyProtection == Spec => []LiftsOnlyProtection
<1>1. PciInv => LiftsOnlyProtection
  <2> SUFFICES ASSUME PciInv, Reachable
               PROVE  /\ \A r \in DOMAIN cfg :
                           \/ r \in DOMAIN Space(machine) /\ cfg[r] = Space(machine)[r]
                           \/ r = <<MchFn, MemprotCr>> /\ cfg[r] = 6 /\ ~HasDev(machine)
                      /\ dev = 33 \/ dev = 33 - SlDevEn
                      /\ pc = "end" /\ fn = DevFn =>
                           IF HasDev(machine) THEN dev = 33 - SlDevEn ELSE cfg[<<MchFn, MemprotCr>>] = 6
    BY DEF LiftsOnlyProtection
  <2>1. LiftInv /\ machine \in Machines /\ DevFn # IommuFn
    BY DEF PciInv, MachineInv, DevFn, IommuFn
  <2>2. CASE cfg = Space(machine) /\ (pc = "end" /\ fn = DevFn => HasDev(machine))
    BY <2>1, <2>2 DEF LiftInv
  <2>3. CASE ~HasDev(machine) /\ dev = 33 /\ cfg = [Space(machine) EXCEPT ![<<MchFn, MemprotCr>>] = 6]
    <3>1. <<MchFn, MemprotCr>> \in DOMAIN Space(machine)
      BY <2>1, SpaceIs
    <3>2. cfg[<<MchFn, MemprotCr>>] = 6 /\ DOMAIN cfg = DOMAIN Space(machine)
      BY <2>3, <3>1
    <3>3. \A r \in DOMAIN cfg : r = <<MchFn, MemprotCr>> \/ cfg[r] = Space(machine)[r]
      BY <2>3, <3>2
    <3> QED
      BY <2>3, <3>2, <3>3
  <2> QED
    BY <2>1, <2>2, <2>3 DEF LiftInv
<1> QED
  BY <1>1, PciInvariance, PTL
-----------------------------------------------------------------------------
(* The rounds. *)

Registers(a) == IF a = "SHA1" THEN 0 .. 4 ELSE 0 .. 7

(* The ring holds the last 16 words of the schedule, or the block's own, and *)
(* every register what the standard's holds at the start of round n.        *)
Ring(w, n) ==
  /\ DOMAIN w = 0 .. 15
  /\ \A t \in 0 .. 79 : (t < 16 \/ t < n) /\ t >= n - 16 => w[t % 16] = t

Values(a, r, n) ==
  /\ r \in [Registers(a) -> Int]
  /\ \A p \in Registers(a) : r[Role(a, p, n)] = Standard(a, n)[p]

RoundInv ==
  step = "rounds" =>
    /\ i \in 0 .. Rounds[alg]
    /\ Ring(W, i)
    /\ Values(alg, reg, i)

(* The blocks. What has gone into the state, the block in the rounds        *)
(* included, and where the code is, or returns to.                          *)
Sofar == IF step = "rounds" THEN hashed \o block ELSE hashed
Where == IF step = "rounds" THEN back ELSE step

\* What the bytes of a padded message of length l are taken from.
Byte(l) == Int \cup {BigEndian(l * 8)[k] : k \in 1 .. 8}
Total(l) == l + 9 + ((55 - l) % BlockSize)

\* s is the first n bytes of the padded message.
First(l, s, n) ==
  /\ s \in Seq(Byte(l)) /\ Len(s) = n
  /\ \A k \in 1 .. n : s[k] = Padded(l)[k]

\* A block of the padded message that comes after its first n bytes.
NextBlock(l, b, n) ==
  /\ b \in Seq(Byte(l)) /\ Len(b) = BlockSize
  /\ \A k \in 1 .. BlockSize : b[k] = Padded(l)[n + k]

\* What is in the first p bytes of the buffer comes after the first n bytes.
Buffered(l, b, p, n) == \A k \in 1 .. p : b[k] = Padded(l)[n + k]

PaddingInv ==
  /\ Where \in {"once", "final", "extra", "count", "done"}
  /\ off \in Nat /\ off <= len /\ off % BlockSize = 0
  /\ buf = [k \in 1 .. BlockSize |-> buf[k]] /\ partial \in 0 .. BlockSize
  /\ Where \in {"once", "final", "extra"} => First(len, Sofar, off)
  /\ Where # "once" => len - off < BlockSize
  /\ Where = "final" => \A k \in 1 .. len - off : buf[k] = Data(off + k)
  /\ Where = "extra" => partial = len - off + 1 /\ Buffered(len, buf, partial, off)
  /\ Where = "count" =>
       /\ IF partial > 0 THEN partial = len - off + 1 /\ len - off <= 55 ELSE len - off > 55
       /\ First(len, Sofar, Total(len) - BlockSize)
       /\ Buffered(len, buf, partial, Total(len) - BlockSize)
  /\ Where = "done" => First(len, Sofar, Total(len))

ShaInv ==
  /\ alg \in {"SHA1", "SHA256"} /\ len \in Nat
  /\ step \in {"once", "final", "extra", "count", "rounds", "done"}
  /\ RoundInv /\ PaddingInv

(* One register further in each line of the unrolled loops: where the next  *)
(* round's registers are in this one, and that no two are in one place.     *)
LEMMA RolesSha1 ==
  ASSUME NEW n \in Nat
  PROVE  /\ \A p \in 0 .. 4 : Role("SHA1", p, n) \in 0 .. 4
         /\ Role("SHA1", 0, n + 1) = Role("SHA1", 4, n)
         /\ \A p \in 1 .. 4 : Role("SHA1", p, n + 1) = Role("SHA1", p - 1, n)
         /\ \A p, q \in 0 .. 4 : Role("SHA1", p, n) = Role("SHA1", q, n) => p = q
         /\ \A p \in 0 .. 4 : Role("SHA1", p, 0) = p /\ Role("SHA1", p, 80) = p
<1> DEFINE R(p, m) == (p - m) % 5
<1>1. \A p \in Int, m \in Int : Role("SHA1", p, m) = R(p, m)
  BY DEF Role
<1>2. \A p \in 0 .. 4 : R(p, n) \in 0 .. 4
  OBVIOUS
<1>3. R(0, n + 1) = R(4, n)
  OBVIOUS
<1>4. \A p \in 1 .. 4 : R(p, n + 1) = R(p - 1, n)
  OBVIOUS
<1>5. \A p, q \in 0 .. 4 : R(p, n) = R(q, n) => p = q
  OBVIOUS
<1>6. \A p \in 0 .. 4 : R(p, 0) = p /\ R(p, 80) = p
  OBVIOUS
<1> HIDE DEF R
<1> QED
  BY <1>1, <1>2, <1>3, <1>4, <1>5, <1>6

(* The same for the eight registers of SHA-256.                             *)
LEMMA RolesSha256 ==
  ASSUME NEW n \in Nat
  PROVE  /\ \A p \in 0 .. 7 : Role("SHA256", p, n) \in 0 .. 7
         /\ Role("SHA256", 0, n + 1) = Role("SHA256", 7, n)
         /\ \A p \in 1 .. 7 : Role("SHA256", p, n + 1) = Role("SHA256", p - 1, n)
         /\ \A p, q \in 0 .. 7 : Role("SHA256", p, n) = Role("SHA256", q, n) => p = q
         /\ \A p \in 0 .. 7 : Role("SHA256", p, 0) = p /\ Role("SHA256", p, 64) = p
<1> DEFINE R(p, m) == (p - m) % 8
<1>1. \A p \in Int, m \in Int : Role("SHA256", p, m) = R(p, m)
  BY DEF Role
<1>2. \A p \in 0 .. 7 : R(p, n) \in 0 .. 7
  OBVIOUS
<1>3. R(0, n + 1) = R(7, n)
  OBVIOUS
<1>4. \A p \in 1 .. 7 : R(p, n + 1) = R(p - 1, n)
  OBVIOUS
<1>5. \A p, q \in 0 .. 7 : R(p, n) = R(q, n) => p = q
  OBVIOUS
<1>6. \A p \in 0 .. 7 : R(p, 0) = p /\ R(p, 64) = p
  OBVIOUS
<1> HIDE DEF R
<1> QED
  BY <1>1, <1>2, <1>3, <1>4, <1>5, <1>6

(* A schedule word goes into the slot of the one 16 before it, and the words *)
(* it is computed from are still there.                                    *)
LEMMA RingStep ==
  ASSUME NEW n \in 0 .. 79, NEW w, Ring(w, n), NEW a \in {"SHA1", "SHA256"}
  PROVE  /\ n < 16 => w[n] = n
         /\ n >= 16 => Blend(a, w, n) = n
         /\ Ring([w EXCEPT ![n % 16] = n], n + 1)
<1> DEFINE w2 == [w EXCEPT ![n % 16] = n]
<1>0. /\ DOMAIN w = 0 .. 15
      /\ \A t \in 0 .. 79 : (t < 16 \/ t < n) /\ t >= n - 16 => w[t % 16] = t
  BY DEF Ring
<1>1. n < 16 => n % 16 = n
  OBVIOUS
<1>2. n < 16 => w[n] = n
  <2>1. n < 16 => w[n % 16] = n
    BY <1>0
  <2> QED
    BY <1>1, <2>1
<1>3. n >= 16 => Blend(a, w, n) = n
  <2> SUFFICES ASSUME n >= 16 PROVE \A d \in Taps(a) : w[(n - d) % 16] = n - d
    BY DEF Blend
  <2>1. \A d \in Taps(a) : d \in 1 .. 16
    BY DEF Taps
  <2>2. \A d \in 1 .. 16 : n - d \in 0 .. 79 /\ n - d < n /\ n - d >= n - 16
    OBVIOUS
  <2> QED
    BY <1>0, <2>1, <2>2
<1>4. n % 16 \in 0 .. 15 /\ DOMAIN w2 = 0 .. 15 /\ w2[n % 16] = n
  BY <1>0
<1>5. ASSUME NEW t \in 0 .. 79, t < 16 \/ t < n + 1, t >= n + 1 - 16
      PROVE  w2[t % 16] = t
  <2>1. CASE t = n
    BY <1>4, <2>1
  <2>2. CASE t # n
    <3>1. t % 16 # n % 16
      BY <1>5, <2>2
    <3>2. t % 16 \in 0 .. 15 /\ w[t % 16] = t
      BY <1>0, <1>5, <2>2
    <3> QED
      BY <1>0, <3>1, <3>2
  <2> QED
    BY <2>1, <2>2
<1>6. Ring(w2, n + 1)
  BY <1>4, <1>5 DEF Ring
<1> QED
  BY <1>2, <1>3, <1>6

(* One line of the unrolled loops does a round of FIPS 180-4, with the      *)
(* registers one place further than in the line before.                    *)
LEMMA LineSha1 ==
  ASSUME NEW n \in Nat, NEW r, Values("SHA1", r, n)
  PROVE  Values("SHA1", RoundLine("SHA1", r, n, n), n + 1)
<1> DEFINE r2 == RoundLine("SHA1", r, n, n)
<1>0. r \in [0 .. 4 -> Int] /\ \A p \in 0 .. 4 : r[Role("SHA1", p, n)] = Standard("SHA1", n)[p]
  BY DEF Values, Registers
<1> DEFINE R(p) == Role("SHA1", p, n)
           S(p) == n - 1 - p + (IF p > 1 THEN Turned ELSE 0)
           T(p) == n + 1 - 1 - p + (IF p > 1 THEN Turned ELSE 0)
<1>1. /\ \A p \in 0 .. 4 : Standard("SHA1", n)[p] = S(p)
      /\ \A p \in 0 .. 4 : Standard("SHA1", n + 1)[p] = T(p)
  BY DEF Standard
<1>2. \A p \in 0 .. 4 : r[R(p)] = S(p)
  BY <1>0, <1>1
<1>3. r2 = [r EXCEPT ![R(4)] = n, ![R(1)] = @ + Turned]
  BY <1>0 DEF RoundLine
<1>4. \A p \in 0 .. 4 : R(p) \in 0 .. 4
  BY RolesSha1
<1>5. /\ R(1) # R(4) /\ R(0) # R(4) /\ R(0) # R(1) /\ R(2) # R(4) /\ R(2) # R(1)
      /\ R(3) # R(4) /\ R(3) # R(1)
  BY RolesSha1
<1>6. /\ Role("SHA1", 0, n + 1) = R(4) /\ Role("SHA1", 1, n + 1) = R(0)
      /\ Role("SHA1", 2, n + 1) = R(1) /\ Role("SHA1", 3, n + 1) = R(2)
      /\ Role("SHA1", 4, n + 1) = R(3)
  BY RolesSha1
<1> HIDE DEF R, r2
<1>11. Turned \in Int
  BY DEF Turned
<1>7. /\ r2 \in [0 .. 4 -> Int] /\ r2[R(4)] = n /\ r2[R(1)] = r[R(1)] + Turned
      /\ r2[R(0)] = r[R(0)] /\ r2[R(2)] = r[R(2)] /\ r2[R(3)] = r[R(3)]
  BY <1>0, <1>3, <1>4, <1>5, <1>11
<1>8. /\ T(0) = n /\ T(1) = S(0) /\ T(2) = S(1) + Turned /\ T(3) = S(2) /\ T(4) = S(3)
  BY DEF Turned
<1> HIDE DEF S, T
<1>9. \A p \in 0 .. 4 : r2[Role("SHA1", p, n + 1)] = T(p)
  <2>1. \A p \in 0 .. 4 : p \in {0, 1, 2, 3, 4}
    OBVIOUS
  <2> QED
    BY <1>2, <1>6, <1>7, <1>8, <2>1
<1>10. r2 \in [Registers("SHA1") -> Int]
       /\ \A p \in Registers("SHA1") : r2[Role("SHA1", p, n + 1)] = Standard("SHA1", n + 1)[p]
  BY <1>1, <1>7, <1>9 DEF Registers
<1> QED
  BY <1>10 DEF Values, r2

(* One line of SHA-256's rounds computes the standard's registers.          *)
LEMMA LineSha256 ==
  ASSUME NEW n \in Nat, NEW r, Values("SHA256", r, n)
  PROVE  Values("SHA256", RoundLine("SHA256", r, n, n), n + 1)
<1> DEFINE r2 == RoundLine("SHA256", r, n, n)
<1>0. r \in [0 .. 7 -> Int] /\ \A p \in 0 .. 7 : r[Role("SHA256", p, n)] = Standard("SHA256", n)[p]
  BY DEF Values, Registers
<1> DEFINE R(p) == Role("SHA256", p, n)
           S(p) == IF p < 4 THEN n - 1 - p ELSE n + 3 - p + Second
           T(p) == IF p < 4 THEN n + 1 - 1 - p ELSE n + 1 + 3 - p + Second
<1>1. /\ \A p \in 0 .. 7 : Standard("SHA256", n)[p] = S(p)
      /\ \A p \in 0 .. 7 : Standard("SHA256", n + 1)[p] = T(p)
  BY DEF Standard
<1>2. \A p \in 0 .. 7 : r[R(p)] = S(p)
  BY <1>0, <1>1
<1>3. r2 = [r EXCEPT ![R(3)] = n + Second, ![R(7)] = n]
  <2>1. \A p \in {0, 1, 2, 3, 4, 5, 6, 7} : p \in 0 .. 7
    OBVIOUS
  <2> QED
    BY <1>0, <2>1 DEF RoundLine
<1>4. \A p \in 0 .. 7 : R(p) \in 0 .. 7
  BY RolesSha256
<1>5. R(3) # R(7) /\ \A p \in {0, 1, 2, 4, 5, 6} : R(p) # R(3) /\ R(p) # R(7)
  BY RolesSha256
<1>6. Role("SHA256", 0, n + 1) = R(7) /\ \A p \in 1 .. 7 : Role("SHA256", p, n + 1) = R(p - 1)
  BY RolesSha256
<1> HIDE DEF R, r2
<1>11. Second \in Int
  BY DEF Second
<1>7. /\ r2 \in [0 .. 7 -> Int] /\ r2[R(3)] = n + Second /\ r2[R(7)] = n
      /\ \A p \in {0, 1, 2, 4, 5, 6} : r2[R(p)] = r[R(p)]
  <2>1. \A p \in {0, 1, 2, 4, 5, 6} : p \in 0 .. 7
    OBVIOUS
  <2> QED
    BY <1>0, <1>3, <1>4, <1>5, <2>1, <1>11
<1>8. T(0) = n /\ T(4) = n + Second /\ \A p \in {1, 2, 3, 5, 6, 7} : T(p) = S(p - 1)
  BY DEF Second
<1> HIDE DEF S, T
<1>9. \A p \in 0 .. 7 : r2[Role("SHA256", p, n + 1)] = T(p)
  <2>1. \A p \in 0 .. 7 : p = 0 \/ p = 4 \/ (p \in {1, 2, 3, 5, 6, 7} /\ p \in 1 .. 7 /\ p - 1 \in {0, 1, 2, 4, 5, 6} /\ p - 1 \in 0 .. 7)
    OBVIOUS
  <2>2. Role("SHA256", 4, n + 1) = R(3)
    BY <1>6
  <2> QED
    BY <1>2, <1>6, <1>7, <1>8, <2>1, <2>2
<1>10. r2 \in [Registers("SHA256") -> Int]
       /\ \A p \in Registers("SHA256") : r2[Role("SHA256", p, n + 1)] = Standard("SHA256", n + 1)[p]
  BY <1>1, <1>7, <1>9 DEF Registers
<1> QED
  BY <1>10 DEF Values, r2

(* A transform starts with the chaining values in its registers.            *)
LEMMA TransformIs ==
  ASSUME alg \in {"SHA1", "SHA256"}, alg' = alg, NEW from, NEW b, NEW ret, Transform(from, b, ret)
  PROVE  RoundInv'
<1>1. /\ i' = 0 /\ W' = [k \in 0 .. 15 |-> k] /\ reg' = Standard(alg, 0)
  BY DEF Transform
<1>2. Rounds[alg] \in {80, 64}
  BY DEF Rounds
<1>3. \A t \in 0 .. 79 : (t < 16 \/ t < i') /\ t >= i' - 16 => W'[t % 16] = t
  <2>1. \A t \in 0 .. 79 : t < 16 => t % 16 = t /\ t \in 0 .. 15
    OBVIOUS
  <2> QED
    BY <1>1, <2>1
<1>4. Values(alg, reg', 0)
  <2>1. CASE alg = "SHA1"
    <3>1. \A p \in 0 .. 4 : Role("SHA1", p, 0) = p
      BY RolesSha1
    <3>2. Standard("SHA1", 0) \in [0 .. 4 -> Int]
      BY DEF Standard, Turned
    <3> QED
      BY <1>1, <2>1, <3>1, <3>2 DEF Registers, Values
  <2>2. CASE alg = "SHA256"
    <3>1. \A p \in 0 .. 7 : Role("SHA256", p, 0) = p
      BY RolesSha256
    <3>2. Standard("SHA256", 0) \in [0 .. 7 -> Int]
      BY DEF Standard, Second
    <3> QED
      BY <1>1, <2>2, <3>1, <3>2 DEF Registers, Values
  <2> QED
    BY <2>1, <2>2
<1>5. Ring(W', 0)
  BY <1>1, <1>3 DEF Ring
<1> QED
  BY <1>1, <1>2, <1>4, <1>5 DEF RoundInv

(* Every round has its word and does what the standard says.               *)
LEMMA RoundIs ==
  ASSUME alg \in {"SHA1", "SHA256"}, RoundInv, Round
  PROVE  RoundInv'
<1>1. /\ step = "rounds" /\ i \in 0 .. Rounds[alg] /\ i < Rounds[alg] /\ i' = i + 1 /\ alg' = alg
      /\ Ring(W, i) /\ Values(alg, reg, i)
  BY DEF Round, RoundInv, once
<1>2. Rounds[alg] \in {80, 64}
  BY DEF Rounds
<1>3. i \in 0 .. 79 /\ i \in Nat /\ i' \in 0 .. Rounds[alg]
  BY <1>1, <1>2
<1>4. W' = [W EXCEPT ![i % 16] = i] /\ reg' = RoundLine(alg, reg, i, i)
  <2> DEFINE w == IF i < 16 THEN W[i] ELSE Blend(alg, W, i)
  <2>1. W' = [W EXCEPT ![i % 16] = w] /\ reg' = RoundLine(alg, reg, w, i)
    BY DEF Round
  <2>2. (i < 16 => W[i] = i) /\ (i >= 16 => Blend(alg, W, i) = i)
    BY <1>1, <1>3, RingStep
  <2>3. w = i
    BY <1>3, <2>2
  <2> HIDE DEF w
  <2> QED
    BY <2>1, <2>3
<1>5. Ring(W', i')
  BY <1>1, <1>3, <1>4, RingStep
<1>6. Values(alg, reg', i')
  <2>1. CASE alg = "SHA1"
    BY <1>1, <1>3, <1>4, <2>1, LineSha1
  <2>2. CASE alg = "SHA256"
    BY <1>1, <1>3, <1>4, <2>2, LineSha256
  <2> QED
    BY <2>1, <2>2
<1> QED
  BY <1>1, <1>3, <1>5, <1>6 DEF RoundInv

(* After the last round every register is in its own place again.           *)
LEMMA LastRound ==
  ASSUME alg \in {"SHA1", "SHA256"}, RoundInv, step = "rounds", i = Rounds[alg]
  PROVE  reg = Standard(alg, i)
<1>1. reg \in [Registers(alg) -> Int]
      /\ \A p \in Registers(alg) : reg[Role(alg, p, i)] = Standard(alg, i)[p]
  BY DEF RoundInv, Values
<1>2. CASE alg = "SHA1"
  <2>1. i = 80 /\ \A p \in 0 .. 4 : Role("SHA1", p, 80) = p
    BY <1>2, RolesSha1 DEF Rounds
  <2>3. reg \in [0 .. 4 -> Int] /\ \A p \in 0 .. 4 : reg[p] = Standard("SHA1", i)[p]
    BY <1>1, <1>2, <2>1 DEF Registers
  <2> QED
    BY <1>2, <2>3 DEF Standard
<1>3. CASE alg = "SHA256"
  <2>1. i = 64 /\ \A p \in 0 .. 7 : Role("SHA256", p, 64) = p
    BY <1>3, RolesSha256 DEF Rounds
  <2>3. reg \in [0 .. 7 -> Int] /\ \A p \in 0 .. 7 : reg[p] = Standard("SHA256", i)[p]
    BY <1>1, <1>3, <2>1 DEF Registers
  <2> QED
    BY <1>3, <2>3 DEF Standard
<1> QED
  BY <1>2, <1>3
-----------------------------------------------------------------------------
(* The padding. *)

(* The elements of a concatenation.                                        *)
LEMMA ConcatIs ==
  ASSUME NEW S, NEW s \in Seq(S), NEW t \in Seq(S)
  PROVE  /\ s \o t \in Seq(S) /\ Len(s \o t) = Len(s) + Len(t)
         /\ \A k \in 1 .. Len(s) : (s \o t)[k] = s[k]
         /\ \A k \in 1 .. Len(t) : (s \o t)[Len(s) + k] = t[k]
<1>1. /\ s \o t \in Seq(S) /\ Len(s \o t) = Len(s) + Len(t) /\ Len(s) \in Nat /\ Len(t) \in Nat
      /\ \A k \in 1 .. Len(s) + Len(t) : (s \o t)[k] = IF k <= Len(s) THEN s[k] ELSE t[k - Len(s)]
  BY ConcatProperties
<1>2. \A k \in 1 .. Len(s) : k \in 1 .. Len(s) + Len(t) /\ k <= Len(s)
  BY <1>1
<1>3. \A k \in 1 .. Len(t) :
        Len(s) + k \in 1 .. Len(s) + Len(t) /\ ~(Len(s) + k <= Len(s)) /\ (Len(s) + k) - Len(s) = k
  BY <1>1
<1> QED
  BY <1>1, <1>2, <1>3

(* The padded message, byte by byte.                                       *)
LEMMA PaddedIs ==
  ASSUME NEW l \in Nat
  PROVE  /\ Padded(l) \in Seq(Byte(l)) /\ Len(Padded(l)) = Total(l)
         /\ \A k \in 1 .. l : Padded(l)[k] = Data(k)
         /\ Padded(l)[l + 1] = 128
         /\ \A k \in l + 2 .. Total(l) - 8 : Padded(l)[k] = 0
         /\ \A k \in 1 .. 8 : Padded(l)[Total(l) - 8 + k] = BigEndian(l * 8)[k]
<1> DEFINE z == (55 - l) % BlockSize
           a == [k \in 1 .. l |-> Data(k)]
           b == <<128>>
           c == [k \in 1 .. z |-> 0]
           d == BigEndian(l * 8)
<1>1. z \in Nat /\ Total(l) = l + 1 + z + 8
  BY DEF BlockSize, Total
<1>2. /\ a \in Seq(Byte(l)) /\ Len(a) = l /\ \A k \in 1 .. l : a[k] = Data(k)
  BY DEF Byte, Data
<1>3. b \in Seq(Byte(l)) /\ Len(b) = 1 /\ b[1] = 128
  BY DEF Byte
<1>4. c \in Seq(Byte(l)) /\ Len(c) = z /\ \A k \in 1 .. z : c[k] = 0
  BY <1>1 DEF Byte
<1>5. d \in Seq(Byte(l)) /\ Len(d) = 8
  <2>1. \A k \in 1 .. 8 : d[k] \in Byte(l)
    BY DEF Byte
  <2>2. d = [k \in 1 .. 8 |-> d[k]]
    BY DEF BigEndian
  <2> HIDE DEF d
  <2> QED
    BY <2>1, <2>2
<1>6. Padded(l) = a \o b \o c \o d
  BY DEF Padded
<1> HIDE DEF z, a, b, c, d
<1> DEFINE ab == a \o b
           abc == ab \o c
<1>7. ab \in Seq(Byte(l)) /\ Len(ab) = l + 1 /\ (\A k \in 1 .. l : ab[k] = a[k]) /\ ab[l + 1] = b[1]
  <2> HIDE DEF ab
  <2>1. ab = a \o b
    BY DEF ab
  <2>2. /\ a \o b \in Seq(Byte(l)) /\ Len(a \o b) = Len(a) + Len(b)
        /\ \A k \in 1 .. Len(a) : (a \o b)[k] = a[k]
        /\ \A k \in 1 .. Len(b) : (a \o b)[Len(a) + k] = b[k]
    <3>1. a \in Seq(Byte(l)) /\ b \in Seq(Byte(l))
      BY <1>2, <1>3
    <3> QED
      BY <3>1, ConcatIs
  <2>3. 1 \in 1 .. 1
    OBVIOUS
  <2> QED
    BY <1>2, <1>3, <2>1, <2>2, <2>3
<1> HIDE DEF ab
<1>8. /\ abc \in Seq(Byte(l)) /\ Len(abc) = l + 1 + z
      /\ (\A k \in 1 .. l + 1 : abc[k] = ab[k]) /\ \A k \in 1 .. z : abc[l + 1 + k] = c[k]
  <2> HIDE DEF abc
  <2>1. abc = ab \o c
    BY DEF abc
  <2>2. /\ ab \o c \in Seq(Byte(l)) /\ Len(ab \o c) = Len(ab) + Len(c)
        /\ \A k \in 1 .. Len(ab) : (ab \o c)[k] = ab[k]
        /\ \A k \in 1 .. Len(c) : (ab \o c)[Len(ab) + k] = c[k]
    <3>1. ab \in Seq(Byte(l)) /\ c \in Seq(Byte(l))
      BY <1>4, <1>7
    <3> QED
      BY <3>1, ConcatIs
  <2> QED
    BY <1>4, <1>7, <2>1, <2>2
<1> HIDE DEF abc
<1>9. /\ abc \o d \in Seq(Byte(l)) /\ Len(abc \o d) = l + 1 + z + 8
      /\ (\A k \in 1 .. l + 1 + z : (abc \o d)[k] = abc[k])
      /\ \A k \in 1 .. 8 : (abc \o d)[l + 1 + z + k] = d[k]
  <2>2. /\ abc \o d \in Seq(Byte(l)) /\ Len(abc \o d) = Len(abc) + Len(d)
        /\ \A k \in 1 .. Len(abc) : (abc \o d)[k] = abc[k]
        /\ \A k \in 1 .. Len(d) : (abc \o d)[Len(abc) + k] = d[k]
    <3>1. abc \in Seq(Byte(l)) /\ d \in Seq(Byte(l))
      BY <1>5, <1>8
    <3> QED
      BY <3>1, ConcatIs
  <2> QED
    BY <1>5, <1>8, <2>2
<1>10. Padded(l) = abc \o d
  BY <1>6 DEF abc, ab
<1>11. \A k \in l + 2 .. Total(l) - 8 : Padded(l)[k] = 0
  <2> TAKE k \in l + 2 .. Total(l) - 8
  <2> DEFINE j == k - (l + 1)
  <2>1. j \in 1 .. z /\ k = l + 1 + j /\ k \in 1 .. l + 1 + z
    BY <1>1
  <2> QED
    BY <1>4, <1>8, <1>9, <1>10, <2>1
<1>12. \A k \in 1 .. 8 : Padded(l)[Total(l) - 8 + k] = d[k]
  <2>1. Total(l) - 8 = l + 1 + z
    BY <1>1
  <2> QED
    BY <1>9, <1>10, <2>1
<1>13. l + 1 \in 1 .. l + 1 /\ l + 1 \in 1 .. l + 1 + z /\ \A k \in 1 .. l : k \in 1 .. l + 1 /\ k \in 1 .. l + 1 + z
  BY <1>1
<1>14. (\A k \in 1 .. l : Padded(l)[k] = Data(k)) /\ Padded(l)[l + 1] = 128
  BY <1>2, <1>3, <1>7, <1>8, <1>9, <1>10, <1>13
<1> QED
  BY <1>1, <1>9, <1>10, <1>11, <1>12, <1>14 DEF d

(* How many blocks that is: the message's own, and one or two more.         *)
LEMMA TotalIs ==
  ASSUME NEW n \in Nat, NEW o \in Nat, o <= n, o % BlockSize = 0, n - o < BlockSize
  PROVE  /\ n % BlockSize = n - o
         /\ n - o <= 55 => Total(n) = o + BlockSize
         /\ n - o > 55 => Total(n) = o + BlockSize + BlockSize
<1> DEFINE u == n - o
<1>1. u \in 0 .. 63 /\ o % 64 = 0 /\ n = o + u
  BY DEF BlockSize
<1>2. \A x \in Nat, y \in 0 .. 63 : x % 64 = 0 => (x + y) % 64 = y
  OBVIOUS
<1>3. \A x \in Nat, y \in 0 .. 63 : x % 64 = 0 =>
        (55 - (x + y)) % 64 = IF y <= 55 THEN 55 - y ELSE 119 - y
  OBVIOUS
<1> HIDE DEF u
<1>4. n % 64 = u /\ (55 - n) % 64 = IF u <= 55 THEN 55 - u ELSE 119 - u
  BY <1>1, <1>2, <1>3, ZenonT(30)
<1> QED
  BY <1>1, <1>4 DEF Total, BlockSize, u

(* A block that continues the padded message.                              *)
LEMMA FirstGrows ==
  ASSUME NEW l \in Nat, NEW n \in Nat, NEW s, First(l, s, n), NEW b, NextBlock(l, b, n)
  PROVE  First(l, s \o b, n + BlockSize)
<1>1. s \in Seq(Byte(l)) /\ Len(s) = n /\ \A k \in 1 .. n : s[k] = Padded(l)[k]
  BY DEF First
<1>2. s \in Seq(Byte(l)) /\ b \in Seq(Byte(l))
  BY DEF First, NextBlock
<1>6. Len(b) = BlockSize /\ \A k \in 1 .. BlockSize : b[k] = Padded(l)[n + k]
  BY DEF NextBlock
<1>3. /\ s \o b \in Seq(Byte(l)) /\ Len(s \o b) = Len(s) + Len(b)
      /\ \A k \in 1 .. Len(s) : (s \o b)[k] = s[k]
      /\ \A k \in 1 .. Len(b) : (s \o b)[Len(s) + k] = b[k]
  BY <1>2, ConcatIs
<1>4. BlockSize \in Nat
  BY DEF BlockSize
<1>5. ASSUME NEW k \in 1 .. n + BlockSize PROVE (s \o b)[k] = Padded(l)[k]
  <2>1. CASE k \in 1 .. n
    BY <1>1, <1>3, <2>1
  <2>2. CASE k \notin 1 .. n
    <3> DEFINE j == k - n
    <3>1. j \in 1 .. BlockSize /\ n + j = k
      BY <1>4, <2>2
    <3> HIDE DEF j
    <3>2. (s \o b)[n + j] = b[j]
      BY <1>1, <1>3, <1>6, <3>1
    <3> QED
      BY <1>6, <3>1, <3>2
  <2> QED
    BY <2>1, <2>2
<1> QED
  BY <1>1, <1>3, <1>5, <1>6 DEF First

(* A buffer that has what comes next is such a block.                       *)
LEMMA BlockIs ==
  ASSUME NEW l \in Nat, NEW n \in Nat, n + BlockSize <= Total(l), NEW b,
         b = [k \in 1 .. BlockSize |-> b[k]], \A k \in 1 .. BlockSize : b[k] = Padded(l)[n + k]
  PROVE  NextBlock(l, b, n)
<1>1. BlockSize \in Nat
  BY DEF BlockSize
<1>2. Padded(l) \in Seq(Byte(l)) /\ Len(Padded(l)) = Total(l)
  BY PaddedIs
<1>3. \A k \in 1 .. BlockSize : Padded(l)[n + k] \in Byte(l)
  <2>1. \A k \in 1 .. BlockSize : n + k \in 1 .. Total(l)
    BY <1>1, <1>2
  <2> QED
    BY <1>2, <2>1, ElementOfSeq
<1>4. \A k \in 1 .. BlockSize : b[k] \in Byte(l)
  BY <1>3
<1>5. b \in Seq(Byte(l)) /\ Len(b) = BlockSize
  BY <1>1, <1>4
<1> QED
  BY <1>5 DEF NextBlock

(* Every function of the sum leaves the blocks so far the beginning of the  *)
(* padded message, and the buffer what comes next.                         *)
LEMMA NextPadding ==
  ASSUME ShaInv, [ShaNext]_shavars
  PROVE  PaddingInv'
<1>0. /\ len \in Nat /\ off \in Nat /\ off <= len /\ off % BlockSize = 0 /\ BlockSize = 64
      /\ Where \in {"once", "final", "extra", "count", "done"}
      /\ buf = [k \in 1 .. BlockSize |-> buf[k]] /\ partial \in 0 .. BlockSize
      /\ (Where # "once" => len - off < BlockSize)
      /\ alg \in {"SHA1", "SHA256"} /\ RoundInv
  BY DEF ShaInv, PaddingInv, BlockSize
<1>1. /\ \A k \in 1 .. len : Padded(len)[k] = Data(k)
      /\ Padded(len)[len + 1] = 128
      /\ \A k \in len + 2 .. Total(len) - 8 : Padded(len)[k] = 0
      /\ \A k \in 1 .. 8 : Padded(len)[Total(len) - 8 + k] = BigEndian(len * 8)[k]
      /\ Total(len) \in Nat /\ len + 9 <= Total(len)
  <2>1. Total(len) \in Nat /\ len + 9 <= Total(len)
    <3> DEFINE z == (55 - len) % 64
    <3>1. len \in Int /\ BlockSize = 64
      BY <1>0
    <3>2. z \in Nat
      BY <3>1
    <3>3. Total(len) = len + 9 + z
      BY <3>1 DEF Total
    <3> HIDE DEF z
    <3>4. len \in Nat
      BY <1>0
    <3> QED
      BY <3>2, <3>3, <3>4
  <2> QED
    BY <1>0, <2>1, PaddedIs, ZenonT(30)
<1>2. Where # "once" =>
        /\ len % BlockSize = len - off
        /\ len - off <= 55 => Total(len) = off + BlockSize
        /\ len - off > 55 => Total(len) = off + BlockSize + BlockSize
  BY <1>0, TotalIs
<1>3. ASSUME NEW from \in {"once", "extra", "count"}, NEW b, NEW ret, Transform(from, b, ret)
      PROVE  /\ Where = from /\ Sofar = hashed
             /\ (hashed' = hashed => Where' = ret /\ Sofar' = hashed \o b)
  BY <1>3 DEF Transform, Where, Sofar
<1>4. CASE OnceBlock
  <2> DEFINE b == [k \in 1 .. BlockSize |-> Data(off + k)]
  <2>1. /\ len - off >= BlockSize /\ Transform("once", b, "once")
        /\ off' = off + BlockSize /\ UNCHANGED <<len, buf, partial, hashed>>
    BY <1>4 DEF OnceBlock
  <2>2. Where = "once" /\ Sofar = hashed /\ Where' = "once" /\ Sofar' = hashed \o b
    BY <1>3, <2>1
  <2>3. NextBlock(len, b, off)
    <3>1. \A k \in 1 .. BlockSize : off + k \in 1 .. len /\ b[k] = Data(off + k)
      BY <1>0, <2>1
    <3>2. b = [k \in 1 .. BlockSize |-> b[k]] /\ off + BlockSize <= Total(len)
      BY <1>0, <1>1, <2>1
    <3> HIDE DEF b
    <3>3. \A k \in 1 .. BlockSize : b[k] = Padded(len)[off + k]
      BY <1>1, <3>1
    <3> QED
      BY <1>0, <3>2, <3>3, BlockIs
  <2> HIDE DEF b
  <2>4. First(len, Sofar', off')
    BY <1>0, <2>1, <2>2, <2>3, FirstGrows DEF ShaInv, PaddingInv
  <2>5. off' \in Nat /\ off' <= len /\ off' % BlockSize = 0
    BY <1>0, <2>1
  <2> QED
    BY <1>0, <2>1, <2>2, <2>4, <2>5 DEF PaddingInv
<1>5. CASE OnceRest
  <2>1. /\ step = "once" /\ step' = "final" /\ len - off < BlockSize
        /\ buf' = [k \in 1 .. BlockSize |-> IF k <= len - off THEN Data(off + k) ELSE buf[k]]
        /\ UNCHANGED <<len, off, partial, hashed>>
    BY <1>5 DEF OnceRest
  <2>2. Where = "once" /\ Sofar = hashed /\ Where' = "final" /\ Sofar' = hashed
    BY <2>1 DEF Where, Sofar
  <2>3. buf' = [k \in 1 .. BlockSize |-> buf'[k]] /\ \A k \in 1 .. len - off : buf'[k] = Data(off + k)
    BY <1>0, <2>1 DEF Data
  <2>4. First(len, Sofar, off)
    BY <2>2 DEF ShaInv, PaddingInv
  <2> QED
    BY <1>0, <2>1, <2>2, <2>3, <2>4 DEF PaddingInv
<1>6. CASE StartPadding
  <2>1. /\ step = "final" /\ step' = "extra"
        /\ buf' = [buf EXCEPT ![(len % BlockSize) + 1] = 128] /\ partial' = (len % BlockSize) + 1
        /\ UNCHANGED <<len, off, hashed>>
    BY <1>6 DEF StartPadding
  <2>2. Where = "final" /\ Sofar = hashed /\ Where' = "extra" /\ Sofar' = hashed
    BY <2>1 DEF Where, Sofar
  <2>3. First(len, Sofar, off) /\ \A k \in 1 .. len - off : buf[k] = Data(off + k)
    BY <2>2 DEF ShaInv, PaddingInv
  <2>4. len % BlockSize = len - off /\ len - off \in 0 .. 63
    BY <1>0, <1>2, <2>2
  <2>5. partial' = len - off + 1 /\ partial' \in 0 .. BlockSize /\ buf' = [k \in 1 .. BlockSize |-> buf'[k]]
        /\ buf'[len - off + 1] = 128 /\ \A k \in 1 .. len - off : buf'[k] = buf[k]
    <3> DEFINE u == len - off
    <3>1. u \in 0 .. 63 /\ u + 1 \in 1 .. BlockSize /\ u + 1 \in 0 .. BlockSize
          /\ \A k \in 1 .. u : k \in 1 .. BlockSize /\ k # u + 1
      BY <1>0, <2>4
    <3>2. partial' = u + 1 /\ buf' = [buf EXCEPT ![u + 1] = 128]
      BY <2>1, <2>4
    <3> HIDE DEF u
    <3>3. /\ buf' = [k \in 1 .. BlockSize |-> buf'[k]] /\ buf'[u + 1] = 128
          /\ \A k \in 1 .. u : buf'[k] = buf[k]
      BY <1>0, <3>1, <3>2, ZenonT(30)
    <3> QED
      BY <3>1, <3>2, <3>3 DEF u
  <2>6. Buffered(len, buf', partial', off)
    <3>1. \A k \in 1 .. partial' : k = len - off + 1 \/ k \in 1 .. len - off
      BY <1>0, <2>4, <2>5
    <3>2. off + (len - off + 1) = len + 1 /\ \A k \in 1 .. len - off : off + k \in 1 .. len
      BY <1>0
    <3>3. \A k \in 1 .. len - off : buf'[k] = Padded(len)[off + k]
      BY <1>1, <2>3, <2>5, <3>2, SMTT(30)
    <3>4. buf'[len - off + 1] = Padded(len)[off + (len - off + 1)]
      BY <1>1, <2>5, <3>2
    <3> QED
      BY <3>1, <3>3, <3>4 DEF Buffered
  <2> QED
    BY <1>0, <2>1, <2>2, <2>3, <2>5, <2>6 DEF PaddingInv
<1>7. CASE ExtraBlock /\ partial > 56
  <2>1. /\ buf' = Zero(BlockSize) /\ partial' = 0 /\ Transform("extra", buf', "count")
        /\ UNCHANGED <<len, off, hashed>>
    BY <1>0, <1>7 DEF ExtraBlock
  <2>2. Where = "extra" /\ Sofar = hashed /\ Where' = "count" /\ Sofar' = hashed \o buf'
    BY <1>3, <2>1
  <2>3. First(len, Sofar, off) /\ partial = len - off + 1 /\ Buffered(len, buf, partial, off)
    BY <2>2 DEF ShaInv, PaddingInv
  <2>4. Total(len) - BlockSize = off + BlockSize /\ len - off > 55 /\ Total(len) = off + 128
    <3>1. partial > 56 /\ partial = len - off + 1
      BY <1>7, <2>3
    <3>2. len - off > 55
      BY <1>0, <3>1
    <3>3. Total(len) = off + BlockSize + BlockSize
      BY <1>2, <2>2, <3>2
    <3> QED
      BY <1>0, <3>2, <3>3
  <2>5. buf' = [k \in 1 .. BlockSize |-> buf'[k]]
        /\ \A k \in 1 .. BlockSize : buf'[k] = IF k > partial /\ k <= BlockSize THEN 0 ELSE buf[k]
    BY <1>0, <2>1 DEF Zero
  <2>6. NextBlock(len, buf', off)
    <3>1. ASSUME NEW k \in 1 .. BlockSize PROVE buf'[k] = Padded(len)[off + k]
      <4>1. CASE k <= partial
        <5>1. k \in 1 .. partial /\ buf'[k] = buf[k]
          BY <1>0, <2>5, <4>1
        <5> QED
          BY <2>3, <5>1 DEF Buffered
      <4>2. CASE k > partial
        <5>1. off + k \in len + 2 .. Total(len) - 8 /\ buf'[k] = 0
          BY <1>0, <2>3, <2>4, <2>5, <4>2
        <5> QED
          BY <1>1, <5>1
      <4> QED
        BY <1>0, <4>1, <4>2
    <3>2. buf' = [k \in 1 .. BlockSize |-> buf'[k]] /\ off + BlockSize <= Total(len)
      BY <1>0, <2>4, <2>5
    <3> QED
      BY <1>0, <3>1, <3>2, BlockIs
  <2>7. First(len, Sofar', Total(len) - BlockSize)
    <3>1. First(len, hashed, off)
      BY <2>2, <2>3
    <3>2. First(len, hashed \o buf', off + BlockSize)
      BY <1>0, <2>6, <3>1, FirstGrows
    <3> QED
      BY <2>2, <2>4, <3>2
  <2>8. Buffered(len, buf', partial', Total(len) - BlockSize)
    BY <2>1 DEF Buffered
  <2> QED
    BY <1>0, <2>1, <2>2, <2>4, <2>5, <2>7, <2>8 DEF PaddingInv
<1>8. CASE ExtraBlock /\ partial <= 56
  <2>1. step = "extra" /\ step' = "count" /\ UNCHANGED <<len, off, buf, partial, hashed>>
    BY <1>0, <1>8 DEF ExtraBlock, once
  <2>2. Where = "extra" /\ Sofar = hashed /\ Where' = "count" /\ Sofar' = hashed
    BY <2>1 DEF Where, Sofar
  <2>3. First(len, Sofar, off) /\ partial = len - off + 1 /\ Buffered(len, buf, partial, off)
    BY <2>2 DEF ShaInv, PaddingInv
  <2>4. len - off <= 55 /\ partial > 0 /\ Total(len) - BlockSize = off
    BY <1>0, <1>2, <1>8, <2>2, <2>3
  <2> QED
    BY <1>0, <2>1, <2>2, <2>3, <2>4 DEF PaddingInv
<1>9. CASE AppendCount
  <2> DEFINE n == Total(len) - BlockSize
  <2>1. /\ buf' = [k \in 1 .. BlockSize |-> IF k <= 56 THEN Zero(56)[k] ELSE BigEndian(len * 8)[k - 56]]
        /\ Transform("count", buf', "done") /\ UNCHANGED <<len, off, partial, hashed>>
    BY <1>9 DEF AppendCount
  <2>2. Where = "count" /\ Sofar = hashed /\ Where' = "done" /\ Sofar' = hashed \o buf'
    BY <1>3, <2>1
  <2>3. /\ IF partial > 0 THEN partial = len - off + 1 /\ len - off <= 55 ELSE len - off > 55
        /\ First(len, Sofar, n) /\ Buffered(len, buf, partial, n)
    BY <2>2 DEF ShaInv, PaddingInv
  <2>4. n \in Nat /\ n + BlockSize = Total(len) /\ len + 1 <= n + partial
    <3>1. CASE len - off <= 55
      <4>1. partial = len - off + 1 /\ Total(len) = off + BlockSize
        <5>1. Total(len) = off + BlockSize
          BY <1>2, <2>2, <3>1
        <5>2. partial = len - off + 1
          BY <1>0, <2>3, <3>1
        <5> QED
          BY <5>1, <5>2
      <4> QED
        BY <1>0, <4>1
    <3>2. CASE len - off > 55
      <4>1. partial \in Nat /\ Total(len) = off + BlockSize + BlockSize /\ len - off < BlockSize
        <5>1. Total(len) = off + BlockSize + BlockSize
          BY <1>2, <2>2, <3>2
        <5>2. partial \in 0 .. 64
          BY <1>0
        <5>3. len - off < BlockSize
          BY <1>0, <2>2
        <5> QED
          BY <5>1, <5>2, <5>3
      <4> QED
        BY <1>0, <4>1
    <3> QED
      BY <1>0, <3>1, <3>2
  <2>5. \A k \in 1 .. BlockSize : Zero(56)[k] = IF k > partial /\ k <= 56 THEN 0 ELSE buf[k]
    BY DEF Zero
  <2> HIDE DEF n
  <2>6. ASSUME NEW k \in 1 .. BlockSize PROVE buf'[k] = Padded(len)[n + k]
    <3>1. CASE k <= partial
      <4>1. k \in 1 .. partial /\ k <= 56 /\ buf'[k] = buf[k]
        BY <1>0, <2>1, <2>3, <2>5, <3>1
      <4> QED
        BY <2>3, <4>1 DEF Buffered
    <3>2. CASE k > partial /\ k <= 56
      <4>1. n + k \in len + 2 .. Total(len) - 8 /\ buf'[k] = 0
        BY <1>0, <1>1, <2>1, <2>4, <2>5, <3>2
      <4> QED
        BY <1>1, <4>1
    <3>3. CASE k > 56
      <4> DEFINE j == k - 56
      <4>1. j \in 1 .. 8 /\ n + k = Total(len) - 8 + j /\ buf'[k] = BigEndian(len * 8)[j]
        BY <1>0, <1>1, <2>1, <2>4, <3>3
      <4> HIDE DEF j
      <4> QED
        BY <1>1, <4>1
    <3> QED
      BY <1>0, <3>1, <3>2, <3>3
  <2>7. NextBlock(len, buf', n)
    <3>1. buf' = [k \in 1 .. BlockSize |-> buf'[k]] /\ n + BlockSize <= Total(len)
      BY <1>1, <2>1, <2>4
    <3> QED
      BY <1>0, <2>4, <2>6, <3>1, BlockIs
  <2>8. First(len, Sofar', Total(len))
    BY <1>0, <2>2, <2>3, <2>4, <2>7, FirstGrows
  <2>9. buf' = [k \in 1 .. BlockSize |-> buf'[k]]
    BY <2>1
  <2> QED
    BY <1>0, <2>1, <2>2, <2>8, <2>9 DEF PaddingInv
<1>10. CASE Round
  <2>1. UNCHANGED <<step, back, block, hashed, len, off, buf, partial>>
    BY <1>10 DEF Round, once
  <2> QED
    BY <2>1 DEF ShaInv, PaddingInv, Where, Sofar
<1>11. CASE AddToState
  <2>1. /\ step = "rounds" /\ i = Rounds[alg] /\ step' = back
        /\ hashed' = hashed \o (IF reg = Standard(alg, i) THEN block ELSE <<Wrong>>)
        /\ UNCHANGED <<len, off, buf, partial, back>>
    BY <1>11 DEF AddToState, once, transform
  <2>2. reg = Standard(alg, i)
    BY <1>0, <2>1, LastRound
  <2>3. Where' = Where /\ Sofar' = Sofar
    BY <1>0, <2>1, <2>2 DEF Where, Sofar
  <2> QED
    BY <2>1, <2>3 DEF ShaInv, PaddingInv
<1>12. CASE UNCHANGED shavars
  BY <1>12 DEF ShaInv, PaddingInv, Where, Sofar, shavars, once, transform
<1> QED
  BY <1>0, <1>4, <1>5, <1>6, <1>7, <1>8, <1>9, <1>10, <1>11, <1>12 DEF ShaNext

(* Nothing is hashed when sha1_init() or sha256_init() returns.             *)
LEMMA InitSha == ASSUME Init PROVE ShaInv
<1>1. /\ alg \in Algs /\ len \in Lengths /\ step = "once" /\ off = 0 /\ hashed = <<>>
      /\ buf = [k \in 1 .. BlockSize |-> 0] /\ partial = 0
  BY DEF Init, ShaInit
<1>2. alg \in {"SHA1", "SHA256"} /\ len \in Nat
  BY <1>1, ShaAssumption
<1>3. First(len, hashed, off)
  <2>1. <<>> \in Seq(Byte(len)) /\ Len(<<>>) = 0 /\ \A k \in 1 .. 0 : FALSE
    OBVIOUS
  <2> QED
    BY <1>1, <2>1 DEF First
<1>4. off \in Nat /\ off <= len /\ off % BlockSize = 0 /\ partial \in 0 .. BlockSize
  BY <1>1, <1>2 DEF BlockSize
<1>5. RoundInv /\ Where = "once" /\ Sofar = hashed
  BY <1>1 DEF RoundInv, Where, Sofar
<1>6. PaddingInv
  BY <1>1, <1>3, <1>4, <1>5 DEF PaddingInv
<1> QED
  BY <1>1, <1>2, <1>5, <1>6 DEF ShaInv

(* Every function of a sum keeps the rounds and the blocks as they should   *)
(* be.                                                                     *)
LEMMA NextSha == ShaInv /\ [ShaNext]_shavars => ShaInv'
<1> SUFFICES ASSUME ShaInv, [ShaNext]_shavars PROVE ShaInv'
  OBVIOUS
<1>1. PaddingInv'
  BY NextPadding
<1>2. /\ alg \in {"SHA1", "SHA256"} /\ len \in Nat /\ RoundInv
      /\ step \in {"once", "final", "extra", "count", "rounds", "done"}
      /\ Where \in {"once", "final", "extra", "count", "done"}
  BY DEF ShaInv, PaddingInv
<1>3. CASE OnceBlock \/ (ExtraBlock /\ partial > 56) \/ AppendCount
  <2>1. alg' = alg /\ len' = len
    BY <1>3 DEF OnceBlock, ExtraBlock, AppendCount, once
  <2>2. ASSUME NEW from, NEW b, NEW ret, Transform(from, b, ret)
        PROVE  RoundInv' /\ step' = "rounds"
    BY <1>2, <2>1, <2>2, TransformIs DEF Transform
  <2>3. RoundInv' /\ step' = "rounds"
    <3>1. CASE OnceBlock
      BY <2>2, <3>1 DEF OnceBlock
    <3>2. CASE ExtraBlock /\ partial > 56
      <4>1. partial \in 0 .. BlockSize /\ BlockSize = 64
        BY DEF ShaInv, PaddingInv, BlockSize
      <4>2. \E b, ret : Transform("extra", b, ret)
        BY <3>2, <4>1 DEF ExtraBlock
      <4> QED
        BY <2>2, <4>2
    <3>3. CASE AppendCount
      BY <2>2, <3>3 DEF AppendCount
    <3> QED
      BY <1>3, <3>1, <3>2, <3>3
  <2> QED
    BY <1>1, <1>2, <2>1, <2>3 DEF ShaInv
<1>4. CASE OnceRest \/ StartPadding \/ (ExtraBlock /\ ~(partial > 56))
  <2>1. alg' = alg /\ len' = len /\ step' \in {"final", "extra", "count"}
    BY <1>4 DEF OnceRest, StartPadding, ExtraBlock, once
  <2>2. RoundInv'
    BY <2>1 DEF RoundInv
  <2> QED
    BY <1>1, <1>2, <2>1, <2>2 DEF ShaInv
<1>5. CASE Round
  <2>1. alg' = alg /\ len' = len /\ step' = step
    BY <1>5 DEF Round, once
  <2> QED
    BY <1>1, <1>2, <1>5, <2>1, RoundIs DEF ShaInv
<1>6. CASE AddToState
  <2>1. alg' = alg /\ len' = len /\ step = "rounds" /\ step' = back
    BY <1>6 DEF AddToState, once
  <2>2. step' \in {"once", "final", "extra", "count", "done"}
    BY <1>2, <2>1 DEF Where
  <2>3. RoundInv'
    BY <2>2 DEF RoundInv
  <2> QED
    BY <1>1, <1>2, <2>1, <2>2, <2>3 DEF ShaInv
<1>7. CASE UNCHANGED shavars
  <2>1. UNCHANGED <<alg, len, step, i, W, reg>>
    BY <1>7 DEF shavars, once, transform
  <2>2. RoundInv'
    BY <1>2, <2>1 DEF RoundInv
  <2> QED
    BY <1>1, <1>2, <2>1, <2>2 DEF ShaInv
<1> QED
  BY <1>3, <1>4, <1>5, <1>6, <1>7 DEF ShaNext

(* The invariant of a sum, for every length and both functions: the rounds  *)
(* compute the standard's values, and the blocks so far are the beginning   *)
(* of the padded message.                                                  *)
THEOREM ShaInvariance == Spec => []ShaInv
<1>1. ShaInv /\ [Next]_vars => ShaInv'
  BY NextSha, LeafSteps
<1> QED
  BY InitSha, <1>1, PTL DEF Spec

(* What sha1sum() and sha256sum() hash is the standard's padding of the     *)
(* message, whatever its length, the lengths around a block's end included  *)
(* (sha1sum.c:176-210, sha256.c:164-200).                                  *)
THEOREM ShaHashesPadded == Spec => []HashesPadded
<1>1. ShaInv => HashesPadded
  <2> SUFFICES ASSUME ShaInv, step = "done" PROVE hashed = Padded(len)
    BY DEF HashesPadded
  <2>1. len \in Nat /\ First(len, hashed, Total(len))
    BY DEF ShaInv, PaddingInv, Where, Sofar
  <2>2. /\ hashed \in Seq(Byte(len)) /\ Len(hashed) = Total(len)
        /\ \A k \in 1 .. Total(len) : hashed[k] = Padded(len)[k]
    BY <2>1 DEF First
  <2>3. Padded(len) \in Seq(Byte(len)) /\ Len(Padded(len)) = Total(len)
    BY <2>1, PaddedIs
  <2> QED
    BY <2>2, <2>3, SeqEqual
<1> QED
  BY <1>1, ShaInvariance, PTL
=============================================================================
