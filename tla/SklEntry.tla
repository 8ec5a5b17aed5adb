------------------------------- MODULE SklEntry ------------------------------
(* head.S: from the state SKINIT leaves the CPU in, into 64-bit mode for    *)
(* skl_main(), and back to the protected mode the kernel is entered in.    *)
(* One action is one instruction, or a group of the same kind. The build is *)
(* the 64-bit one.                                                         *)
EXTENDS SklPc

VARIABLE cpu  \* the registers below

\* What has to be relocated before it is used: the GDT's base, the far jump's
\* offset and the entries of the page tables that point to another table.
Relocations == {"gdtr", "Ljump64", "l4_identmap", "l3_identmap", "l2_identmap"}
Tables == {"l4_identmap", "l3_identmap", "l2_identmap"}

\* SKINIT's: EAX is the SLB's address, CS and SS are flat, paging is off.
SkinitState ==
  [ax |-> "base", bx |-> "other", dx |-> "family", si |-> "other", bp |-> "other",
   sp |-> "slb_end", idt |-> "ivt", gdt |-> "skinit", cs |-> "cs32", ds |-> "unusable",
   a20 |-> "masked", flags |-> "skinit", pae |-> FALSE, cr3 |-> "none", lme |-> FALSE, pg |-> FALSE,
   relocated |-> {}]

\* IA-32e mode is active.
Lma(c) == c.pg /\ c.lme

Step(from, to, c) == Goto(from, to) /\ cpu' = c /\ UNCHANGED protocol

(* _entry *)
SetStack == Step("entry", "lidt", [cpu EXCEPT !.bp = cpu.ax, !.sp = "skl_stack"])

\* An IDT without entries: whatever would vector resets the machine.
ClobberIdt == Step("lidt", "vm_cr", [cpu EXCEPT !.idt = "empty"])
ClearA20 == Step("vm_cr", "relocate", [cpu EXCEPT !.a20 = "normal", !.ax = "other"])
Relocate == Step("relocate", "lgdt", [cpu EXCEPT !.relocated = Relocations])
LoadGdt == Step("lgdt", "segments", [cpu EXCEPT !.gdt = "skl"])
LoadSegments == Step("segments", "cr4", [cpu EXCEPT !.ds = "flat"])
EnablePae == Step("cr4", "cr3", [cpu EXCEPT !.pae = TRUE])
LoadCr3 == Step("cr3", "efer", [cpu EXCEPT !.cr3 = "l4_identmap"])
EnableLongMode == Step("efer", "cr0", [cpu EXCEPT !.lme = TRUE])
EnablePaging == Step("cr0", "ljump", [cpu EXCEPT !.pg = TRUE])
JumpTo64 == Step("ljump", "skl_main", [cpu EXCEPT !.cs = "cs64"])

(* After skl_main() has returned. *)
StashResult == Step("returned", "lret", [cpu EXCEPT !.bx = cpu.ax, !.si = cpu.dx])

\* Variant: the teardown starts in 64-bit mode.
StayIn64 == Step("lret", "unpage", cpu)

ReturnTo32 == Step("lret", "unpage", [cpu EXCEPT !.cs = "cs32"])
DisablePaging == Step("unpage", "unlong", [cpu EXCEPT !.pg = FALSE, !.ax = "other"])
DisableLongMode ==
  Step("unlong", "unpae", [cpu EXCEPT !.lme = FALSE, !.ax = "other", !.dx = "other"])
DisablePae == Step("unpae", "popf", [cpu EXCEPT !.pae = FALSE, !.ax = "other"])
ClearFlags == Step("popf", "jump", [cpu EXCEPT !.flags = "clear"])

(* To EBX for Linux, to ESI after an exchange for multiboot2_kernel.       *)
Jump ==
  \/ protocol # "MULTIBOOT2" /\ Step("jump", "kernel", [cpu EXCEPT !.dx = cpu.bp])
  \/ /\ protocol = "MULTIBOOT2"
     /\ Step("jump", "kernel",
             [cpu EXCEPT !.ax = "magic", !.bx = cpu.si, !.si = cpu.bx])

EntryInit == pc = "entry" /\ cpu = SkinitState /\ protocol = "LINUX_BOOT"

EntryNext ==
  \/ SetStack \/ ClobberIdt \/ ClearA20 \/ Relocate \/ LoadGdt \/ LoadSegments
  \/ EnablePae \/ LoadCr3 \/ EnableLongMode \/ EnablePaging \/ JumpTo64
  \/ StashResult \/ ReturnTo32 \/ DisablePaging \/ DisableLongMode \/ DisablePae
  \/ ClearFlags \/ Jump

-----------------------------------------------------------------------------
(* The architecture's rules for changing modes: a step against them faults, *)
(* and a fault resets the machine. Paging is turned on with PAE, LME and a  *)
(* relocated hierarchy in CR3, never switched in 64-bit code; LME changes   *)
(* only without paging, PAE is kept while in IA-32e mode; 64-bit code is    *)
(* entered in that mode, through the relocated GDT and jump.                *)
LegalStep(c, d) ==
  /\ d.pg # c.pg => c.cs = "cs32"
  /\ d.pg /\ ~c.pg => c.pae /\ c.cr3 = "l4_identmap" /\ Tables \subseteq c.relocated
  /\ d.lme # c.lme => ~c.pg
  /\ Lma(c) => d.pae
  /\ d.gdt # c.gdt => "gdtr" \in c.relocated
  /\ d.cs = "cs64" /\ c.cs # "cs64" =>
       Lma(c) /\ c.gdt = "skl" /\ "Ljump64" \in c.relocated
  /\ d.idt # c.idt => c.sp = "skl_stack"

(* Every step of the way in and out is one the CPU accepts, and the IDT     *)
(* stays empty, so that nothing vectors into unmeasured code               *)
(* (head.S:73-80, 108-130, 154-178).                                       *)
LegalSwitches == [][LegalStep(cpu, cpu') /\ (cpu.idt = "empty" => cpu'.idt = "empty")]_cpu
=============================================================================
