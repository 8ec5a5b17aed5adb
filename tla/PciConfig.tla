------------------------------ MODULE PciConfig -----------------------------
(* pci.c and dev.c: how SKL reaches a register of PCI configuration space,  *)
(* finds the capability block of the IOMMU and of DEV, and lifts the SLB   *)
(* protection. Module Iommu has the last as a single step; here it is the  *)
(* accesses it is made of.                                                 *)
(*                                                                         *)
(* Registers are dwords, as in every access SKL makes; their values are    *)
(* signed, -1 being what a read returns where nothing answers. All of it   *)
(* is on bus 0. No interrupt or SMI comes in between: SKINIT clears GIF.   *)
EXTENDS Integers, Sequences

CONSTANT Machines  \* the machines to consider, as described by Machine

DevFn == 195    \* PCI_DEVFN(DEV_PCI_DEVICE, DEV_PCI_FUNCTION)
MchFn == 192    \* PCI_DEVFN(MCH_PCI_DEVICE, MCH_PCI_FUNCTION)
IommuFn == 2    \* PCI_DEVFN(IOMMU_PCI_DEVICE, IOMMU_PCI_FUNCTION)

PciCapabilityList == 52  \* PCI_CAPABILITY_LIST
DevId == 15              \* PCI_CAPABILITIES_POINTER_ID_DEV, the IOMMU's too
MemprotCr == 900         \* MEMPROT_CR: an extended register
DevCr == 1024            \* what selects DEV_CR, function 4, index 0
SlDevEn == 32            \* DEV_CR_SL_DEV_EN_MASK
Ones == -1

\* Where a capability can begin: behind the header, on a dword, with room for
\* the two registers that follow DEV's.
CapPlaces == {a \in 64 .. 244 : a % 4 = 0}

Machine == [
  mmio : {"off", "low", "high"},  \* MMIO access; its base is below 4 GiB or not
  ext : BOOLEAN,       \* extended registers can be reached through port CF8
  caps : [{DevFn, IommuFn} -> Seq([at : CapPlaces, id : 0 .. 255])],  \* in list order
  loop : BOOLEAN,      \* the last capability links to the first
  bits : 0 .. 3]       \* the reserved bits of the pointers

\* No two capabilities of a function begin at the same place.
ASSUME MachineAssumption ==
  Machines \subseteq {m \in Machine :
     \A f \in {DevFn, IommuFn} : \A j, k \in DOMAIN m.caps[f] :
        j # k => m.caps[f][j].at # m.caps[f][k].at}

VARIABLES
  machine,
  cfg,      \* the configuration registers that are not 0
  dev,      \* DEV_CR
  op,       \* DEV_OP
  pc,       \* where iommu_setup() is
  method,   \* pci_read, pci_write: "none", "conf1" or "mmio"
  fn,       \* pci_locate()'s argument
  ptr,      \* its pci_cap_ptr
  cap,      \* what it returned, for either function
  val       \* the register's value, in between read and write

pcivars == <<machine, cfg, dev, op, pc, method, fn, ptr, cap, val>>

-----------------------------------------------------------------------------
(* The hardware. *)

HasDev(m) == \E k \in DOMAIN m.caps[DevFn] : m.caps[DevFn][k].id = DevId

\* A pointer to capability k of list s, 0 after the last one.
Link(m, s, k) ==
  IF k <= Len(s) THEN s[k].at + m.bits
  ELSE IF m.loop /\ s # <<>> THEN s[1].at + m.bits ELSE 0

\* What is in the dword at reg of a function: a capability's header, or the
\* pointer to the first one. The other device has MEMPROT_CR, and another
\* register whose number has the same low byte.
Held(m, f, reg) ==
  IF f = MchFn THEN 7
  ELSE IF reg = PciCapabilityList THEN Link(m, m.caps[f], 1)
  ELSE LET s == m.caps[f]
           k == CHOOSE j \in DOMAIN s : s[j].at = reg
       IN  s[k].id + 256 * Link(m, s, k + 1)

Space(m) ==
  [r \in {<<MchFn, MemprotCr>>, <<MchFn, MemprotCr % 256>>}
         \cup {<<f, PciCapabilityList>> : f \in {DevFn, IommuFn}}
         \cup UNION {{<<f, m.caps[f][k].at>> : k \in DOMAIN m.caps[f]} : f \in {DevFn, IommuFn}}
     |-> Held(m, r[1], r[2])]

\* The block of DEV is the first one on the list.
IsDevCap(s, k) == s[k].id = DevId /\ \A j \in DOMAIN s : j < k => s[j].id # DevId
DevCap == LET s == machine.caps[DevFn]
          IN  s[CHOOSE k \in DOMAIN s : IsDevCap(s, k)].at

-----------------------------------------------------------------------------
(* Accesses: the address SKL makes up for a register, and the register     *)
(* that is reached.                                                        *)

Bit24 == 16777216

\* PCI_CONF1_ADDRESS, without its enable bit, and what the host bridge makes
\* of it.
Conf1Address(f, reg) == (reg \div 256) * Bit24 + f * 256 + ((reg % 256) - (reg % 4))
Conf1Target(a) ==
  <<(a \div 256) % 256,
    (a % 256) + (IF machine.ext THEN 256 * ((a \div Bit24) % 16) ELSE 0)>>

\* PCI_MMIO_ADDRESS, from the base.
MmioAddress(f, reg) == f * 4096 + reg
MmioTarget(a) == <<(a \div 4096) % 256, (a % 4096) - (a % 4)>>

\* Variant: the register's upper bits are left out.
TargetLow(f, reg) ==
  IF method = "conf1" THEN Conf1Target(Conf1Address(f, reg % 256))
  ELSE MmioTarget(MmioAddress(f, reg % 256))

(* pci_conf1_read(), pci_mmio_read() and their write counterparts.         *)
Target(f, reg) ==
  IF method = "conf1" THEN Conf1Target(Conf1Address(f, reg))
  ELSE MmioTarget(MmioAddress(f, reg))

\* pci_init() ignores the upper half of the base (edx): what is read is not
\* configuration space, but anything.
Astray == method = "mmio" /\ machine.mmio = "high"
Junk == {Ones, 0, DevId + 256 * 64}

ReadDword(f, reg) ==
  LET r == Target(f, reg)
  IN  IF Astray THEN Junk
      ELSE IF r[1] = IommuFn /\ machine.caps[IommuFn] = <<>> THEN {Ones}
      ELSE IF HasDev(machine) /\ r = <<DevFn, DevCap + 8>> /\ op = DevCr THEN {dev}
      ELSE IF r \in DOMAIN cfg THEN {cfg[r]} ELSE {0}

WriteDword(f, reg, v) ==
  LET r == Target(f, reg)
  IN  CASE Astray -> UNCHANGED <<cfg, dev, op>>
        [] ~Astray /\ HasDev(machine) /\ r = <<DevFn, DevCap + 4>> ->
             op' = v /\ UNCHANGED <<cfg, dev>>
        [] ~Astray /\ HasDev(machine) /\ r = <<DevFn, DevCap + 8>> ->
             dev' = (IF op = DevCr THEN v ELSE dev) /\ UNCHANGED <<cfg, op>>
        [] OTHER -> cfg' = [x \in DOMAIN cfg \cup {r} |-> IF x = r THEN v ELSE cfg[x]]
                    /\ UNCHANGED <<dev, op>>

-----------------------------------------------------------------------------
(* pci_init() *)
PciInit ==
  /\ pc = "init" /\ pc' = "head"
  /\ method' = IF machine.mmio = "off" THEN "conf1" ELSE "mmio"
  /\ UNCHANGED <<machine, cfg, dev, op, fn, ptr, cap, val>>

(* pci_locate() *)

InvalidCap(c) == c \in {0, Ones, 255}

Locate(c) ==
  /\ cap' = [cap EXCEPT ![fn] = c]
  /\ pc' = IF fn = IommuFn THEN "iommu" ELSE "lift"

ReadHead ==
  /\ pc = "head"
  /\ \E v \in ReadDword(fn, PciCapabilityList) :
       IF InvalidCap(v)
       THEN Locate(0) /\ UNCHANGED ptr
       ELSE /\ pc' = "walk"
            /\ ptr' = v % 256
            /\ UNCHANGED cap
  /\ UNCHANGED <<machine, cfg, dev, op, method, fn, val>>

\* Variant: the loop runs until it finds what it looks for.
WalkOn ==
  /\ pc = "walk"
  /\ \E v \in ReadDword(fn, ptr) :
       IF v % 256 = DevId
       THEN Locate(IF InvalidCap(ptr) THEN 0 ELSE ptr) /\ UNCHANGED ptr
       ELSE ptr' = (v \div 256) % 256 /\ UNCHANGED <<pc, cap>>
  /\ UNCHANGED <<machine, cfg, dev, op, method, fn, val>>

Walk ==
  /\ pc = "walk"
  /\ \/ /\ ptr = 0
        /\ Locate(0)
        /\ UNCHANGED ptr
     \/ /\ ptr # 0
        /\ \E v \in ReadDword(fn, ptr) :
             IF v % 256 = DevId
             THEN Locate(IF InvalidCap(ptr) THEN 0 ELSE ptr) /\ UNCHANGED ptr
             ELSE ptr' = (v \div 256) % 256 /\ UNCHANGED <<pc, cap>>
  /\ UNCHANGED <<machine, cfg, dev, op, method, fn, val>>

(* iommu_setup() goes on to disable_memory_protection() only with an IOMMU *)
(* that firmware enabled: module Iommu has the rest of it.                 *)
UseIommu ==
  /\ pc = "iommu"
  /\ \/ cap[IommuFn] # 0 /\ pc' = "head" /\ fn' = DevFn
     \/ pc' = "end" /\ UNCHANGED fn
  /\ UNCHANGED <<machine, cfg, dev, op, method, ptr, cap, val>>

(* disable_memory_protection(), with dev_disable_sl() for older families:  *)
(* dev_read() and dev_write() select the register first.                   *)

Select(from, to) ==
  /\ pc = from /\ pc' = to
  /\ cap[DevFn] # 0
  /\ WriteDword(DevFn, cap[DevFn] + 4, DevCr)
  /\ UNCHANGED <<machine, method, fn, ptr, cap, val>>

ReadProtection ==
  /\ \/ /\ pc = "dev_read"
        /\ val' \in ReadDword(DevFn, cap[DevFn] + 8)
     \/ /\ pc = "lift" /\ cap[DevFn] = 0
        /\ val' \in ReadDword(MchFn, MemprotCr)
  /\ pc' = IF pc = "lift" THEN "write" ELSE "dev_select"
  /\ UNCHANGED <<machine, cfg, dev, op, method, fn, ptr, cap>>

SelectForRead == Select("lift", "dev_read")
SelectForWrite == Select("dev_select", "write")

WriteProtection ==
  /\ pc = "write" /\ pc' = "end"
  /\ IF cap[DevFn] # 0
     THEN WriteDword(DevFn, cap[DevFn] + 8, val - SlDevEn * ((val \div SlDevEn) % 2))
     ELSE WriteDword(MchFn, MemprotCr, val - (val % 2))
  /\ UNCHANGED <<machine, method, fn, ptr, cap, val>>

PciStartAt(start) ==
  /\ machine \in Machines
  /\ cfg = Space(machine) /\ dev = 33 /\ op = 0
  /\ pc = start /\ method = "none" /\ fn = IommuFn
  /\ ptr = 0 /\ cap = [f \in {DevFn, IommuFn} |-> 0] /\ val = 0

PciNext ==
  \/ PciInit \/ ReadHead \/ Walk \/ UseIommu
  \/ SelectForRead \/ ReadProtection \/ SelectForWrite \/ WriteProtection

-----------------------------------------------------------------------------
\* Every register SKL uses can be reached by the method it chooses.
Reachable == \/ machine.mmio = "low"
             \/ machine.mmio = "off" /\ (machine.ext \/ HasDev(machine))

(* Lifting the protection clears the one bit it is about, in whichever      *)
(* register the machine has it, and nothing else in configuration space    *)
(* changes but DEV_OP (dev.c:58-94); the bit is cleared when it is done.   *)
LiftsOnlyProtection ==
  Reachable =>
    /\ \A r \in DOMAIN cfg :
         \/ r \in DOMAIN Space(machine) /\ cfg[r] = Space(machine)[r]
         \/ r = <<MchFn, MemprotCr>> /\ cfg[r] = 6 /\ ~HasDev(machine)
    /\ dev = 33 \/ dev = 33 - SlDevEn
    /\ pc = "end" /\ fn = DevFn =>
         IF HasDev(machine) THEN dev = 33 - SlDevEn ELSE cfg[<<MchFn, MemprotCr>>] = 6

(* The search for a capability ends: the list ends, or the capability is   *)
(* on it (pci.c:170-183). Nothing in the code ends it otherwise.           *)
LocateEnds ==
  Reachable /\ (machine.loop =>
        \A f \in {DevFn, IommuFn} :
          machine.caps[f] = <<>> \/ \E k \in DOMAIN machine.caps[f] :
                                       machine.caps[f][k].id = DevId)
  => <>(pc = "end")
=============================================================================
