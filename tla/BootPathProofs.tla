--------------------------- MODULE BootPathProofs ---------------------------
(* Proofs about the way from SKINIT to the kernel: for any size of the data *)
(* and any tags in it, any zero page of a Linux kernel and any multiboot    *)
(* information, words of any width included.                               *)
EXTENDS BootPath, KernelImageProofs, SequenceTheorems

(* head.S, before and after skl_main(); the checks of the tags and the      *)
(* walks after them; the ways of the two protocols.                        *)
Entering == {"entry", "lidt", "vm_cr", "relocate", "lgdt", "segments", "cr4", "cr3", "efer",
             "cr0", "ljump"}
Leaving == {"returned", "lret", "unpage", "unlong", "unpae", "popf", "jump", "kernel"}
Finding == {"event_log", "log_tag", "log_tags", "hash_tag", "measure", "boot_tag", "boot_tags"}
Linux == {"skl_linux", "mle_header", "sl_stub_entry", "measure_linux"}
Multi == {"skl_multiboot2", "find_kernel", "modules"}
InC == {"skl_main", "end_tag", "walk", "lost", "reboot", "dump", "canary"}
       \cup Finding \cup Linux \cup Multi
In64 == InC \cup {"returned", "lret"}

PcInv ==
  /\ pc \in Entering \cup InC \cup Leaving
  /\ back \in {"end_tag", "canary"} \cup Finding
  /\ protocol \in {"LINUX_BOOT", "MULTIBOOT2"}

\* The kernel was found, and measured.
Found == pc \in {"dump", "canary"} \cup Leaving \/ (pc = "walk" /\ back = "canary")

Values == {"base", "family", "entry", "mbi", "zero_page", "magic", "other"}

(* How far the switches of mode are.                                        *)
CpuInv ==
  /\ cpu \in [ax : Values, bx : Values, dx : Values, si : Values, bp : Values,
              sp : {"slb_end", "skl_stack"}, idt : {"ivt", "empty"}, gdt : {"skinit", "skl"},
              cs : {"cs32", "cs64"}, ds : {"unusable", "flat"}, a20 : {"masked", "normal"},
              flags : {"skinit", "clear"}, pae : BOOLEAN, cr3 : {"none", "l4_identmap"},
              lme : BOOLEAN, pg : BOOLEAN, relocated : {{}, Relocations}]
  /\ cpu.pg <=> pc \in In64 \cup {"ljump", "unpage"}
  /\ cpu.lme <=> pc \in In64 \cup {"cr0", "ljump", "unpage", "unlong"}
  /\ cpu.pae <=> pc \in In64 \cup {"cr3", "efer", "cr0", "ljump", "unpage", "unlong", "unpae"}
  /\ cpu.cs = IF pc \in In64 THEN "cs64" ELSE "cs32"
  /\ IF pc = "entry" THEN cpu.ax = "base" ELSE cpu.sp = "skl_stack" /\ cpu.bp = "base"
  /\ pc \notin {"entry", "lidt"} => cpu.idt = "empty"
  /\ pc \notin {"entry", "lidt", "vm_cr", "relocate"} => cpu.relocated = Relocations
  /\ pc \notin {"entry", "lidt", "vm_cr", "relocate", "lgdt"} => cpu.gdt = "skl"
  /\ pc \notin Entering \ {"cr4", "cr3", "efer", "cr0", "ljump"} => cpu.ds = "flat"
  /\ pc \notin Entering \ {"efer", "cr0", "ljump"} => cpu.cr3 = "l4_identmap"
  /\ pc \in {"jump", "kernel"} => cpu.flags = "clear"

(* What skl_main() returned, on its way into the kernel's registers.        *)
Info == IF protocol = "MULTIBOOT2" THEN "mbi" ELSE "zero_page"

ResultInv ==
  /\ pc = "returned" => cpu.ax = "entry" /\ cpu.dx = Info
  /\ pc \in {"lret", "unpage", "unlong", "unpae", "popf", "jump"} => cpu.bx = "entry" /\ cpu.si = Info
  /\ pc = "kernel" =>
       IF protocol = "MULTIBOOT2" THEN cpu.ax = "magic" /\ cpu.bx = "mbi" /\ cpu.si = "entry"
       ELSE cpu.bx = "entry" /\ cpu.si = "zero_page" /\ cpu.dx = "base"

(* The kernel that is entered is the one that was found and measured.       *)
ImageInv ==
  /\ pc \in {"mle_header", "sl_stub_entry", "measure_linux"} => bp \in Images
  /\ pc = "measure_linux" => mle_entry \in Nat /\ IsInKernel(bp, mle_entry)
  /\ protocol = "LINUX_BOOT" /\ Found => Inside(mle_entry, kernel.from, kernel.len)
  /\ protocol = "MULTIBOOT2" => Found \/ pc \in {"reboot", "lost"}
  /\ pc = "modules" \/ protocol = "MULTIBOOT2" => kernel_entry = measured.from

(* The tags that were read are a list: each but the last has a successor    *)
(* that was read too. All walks find these again, and leave nothing else.   *)
Linked(a) ==
  /\ tags[a].type # "END"
  /\ a + tags[a].len < EndOfTags /\ a + tags[a].len \in DOMAIN tags

\* While the checks walk the list the tag they are at is the last.
Partial ==
  t # NULL =>
    /\ EndOfTags <= SlbEnd
    /\ t >= Data /\ (t \in DOMAIN tags \/ (pc = "walk" /\ SlbEnd <= t))
    /\ pc = "end_tag" => tags[t].type = "END"
    /\ \A a \in DOMAIN tags : a = t \/ Linked(a)
    /\ Data \in DOMAIN tags \/ SlbEnd <= Data

Complete ==
  /\ Data \in DOMAIN tags
  /\ \A a \in DOMAIN tags : Linked(a) \/ (tags[a].type = "END" /\ a + tags[a].len = EndOfTags)
  /\ pc # "lost" /\ acted \subseteq DOMAIN tags
  /\ t \in DOMAIN tags \cup {NULL} /\ (pc = "walk" => t # NULL)
  /\ pc = "boot_tags" \/ (pc = "walk" /\ back = "boot_tags") => boot \in DOMAIN tags

Unchecked == Entering \cup {"skl_main"}

ChainInv ==
  /\ size \in Nat /\ t \in Nat /\ valid \in BOOLEAN
  /\ tags \in [DOMAIN tags -> Header] /\ DOMAIN tags \subseteq Data .. SlbEnd - 1
  /\ pc \in Unchecked => DOMAIN tags = {} /\ ~valid
  /\ pc = "end_tag" => ~valid
  /\ ~valid => /\ pc \in Unchecked \cup {"walk", "end_tag", "lost", "reboot"} /\ acted = {}
               /\ pc = "walk" => t # NULL /\ goal = "END" /\ back = "end_tag"
               /\ pc \in {"walk", "end_tag"} => Partial
  /\ valid => Complete /\ (pc = "walk" => back # "end_tag")

(* Of the MBI's tags those that were read are a list as well, upwards in    *)
(* memory, of which only the last may be the end or its own successor.      *)
Next8(u) == NextMbiTag(u, mbi[u])

Last(u) == u \in DOMAIN mbi /\ \A v \in DOMAIN mbi : v <= u

AtEnd ==
  \/ DOMAIN mbi = {} /\ tag = 1
  \/ \E u \in DOMAIN mbi : Last(u) /\ mbi[u].type # "END" /\ Next8(u) = tag

Upwards ==
  /\ mbi \in [DOMAIN mbi -> [type : {"END", "MODULE", "LOAD_BASE_ADDR", "ELF_SECTIONS"}, size : Nat]]
  /\ DOMAIN mbi \subseteq Nat \ {0} /\ (DOMAIN mbi # {} => 1 \in DOMAIN mbi)
  /\ \A u \in DOMAIN mbi : mbi[u].type # "END" => u <= MbiTop
  /\ \A u, v \in DOMAIN mbi : u < v => mbi[u].type # "END" /\ Next8(u) <= v
  /\ \A u \in DOMAIN mbi : mbi[u].type # "END" => Next8(u) \in DOMAIN mbi \/ Last(u)

(* All of it belongs to the list, which is walked twice.                    *)
MbiInv ==
  /\ Upwards /\ mods \in Seq(Nat) /\ mbi_len \in Nat
  /\ pc \in {"find_kernel", "modules"} \/ protocol = "MULTIBOOT2" =>
       /\ tag \in Nat \ {0}
       /\ \A S \in SUBSET Nat : IsClosed(S) => DOMAIN mbi \cup {tag} \subseteq S
  /\ pc = "find_kernel" => AtEnd
  /\ pc = "modules" => 1 \in DOMAIN mbi /\ (tag \in DOMAIN mbi \/ AtEnd)
  /\ pc \notin {"find_kernel", "modules", "reboot", "lost"} /\ ~Found => DOMAIN mbi = {}
  /\ pc \notin {"modules", "reboot", "lost"} /\ ~Found => mods = <<>>

(* The modules up to the tag that is looked at are measured, if the walk    *)
(* has not run into a tag that is its own successor.                        *)
ModsInv ==
  /\ pc = "modules" /\ ~(tag \in DOMAIN mbi /\ mbi[tag].type # "END" /\ Next8(tag) = tag) =>
       /\ Len(mods) < tag
       /\ \A i, j \in DOMAIN mods : i < j => mods[i] < mods[j]
       /\ {mods[i] : i \in DOMAIN mods} = {u \in DOMAIN mbi : u < tag /\ mbi[u].type = "MODULE"}
  /\ ModulesOnce
-----------------------------------------------------------------------------
(* Where each part of a step is, and where it leads to: head.S, ...         *)
LEMMA EntrySteps ==
  ASSUME EntryNext
  PROVE  /\ UNCHANGED protocol
         /\ \/ pc \in Entering /\ pc' \in (Entering \ {"entry"}) \cup {"skl_main"}
            \/ pc \in Leaving \ {"kernel"} /\ pc' \in Leaving \ {"returned"}
  BY DEF EntryNext, SetStack, ClobberIdt, ClearA20, Relocate, LoadGdt, LoadSegments, EnablePae,
         LoadCr3, EnableLongMode, EnablePaging, JumpTo64, StashResult, ReturnTo32, DisablePaging,
         DisableLongMode, DisablePae, ClearFlags, Jump, Step, Goto, Entering, Leaving

(* ... the checks and walks of the tags, ...                                *)
LEMMA TagsSteps ==
  ASSUME PcInv, TagsNext
  PROVE  /\ pc \in {"skl_main", "end_tag", "walk", "dump"} \cup Finding
         /\ pc' \in {"walk", "lost", "reboot", "end_tag", "canary", "skl_linux", "skl_multiboot2"}
                    \cup Finding
         /\ back' \in {"end_tag", "canary"} \cup Finding
         /\ Found' <=> Found /\ pc' # "lost"
<1> USE DEF Goto, Find, walking
<1>1. CASE Walk
  <2>1. pc = "walk" /\ back' = back /\ pc' \in {back, "lost", "walk"}
    BY <1>1 DEF Walk
  <2> QED
    BY <2>1 DEF PcInv, Found, Finding, Leaving
<1>2. CASE CheckStart \/ CheckEnd \/ FindLog \/ FindOtherLog \/ FindHash \/ UseHash
           \/ MeasureAndFindBoot \/ FindOtherBoot
  <2>1. /\ pc \in {"skl_main", "end_tag"} \cup Finding
        /\ \/ pc' = "walk" /\ back' \in {"end_tag"} \cup Finding
           \/ pc' \in {"reboot", "event_log", "measure"} /\ back' = back
    BY <1>2 DEF CheckStart, CheckEnd, FindLog, FindOtherLog, FindHash, UseHash,
                MeasureAndFindBoot, FindOtherBoot, Finding
  <2> QED
    BY <2>1 DEF PcInv, Found, Finding, Leaving
<1>3. CASE Dispatch
  <2>1. /\ pc = "boot_tags" /\ back' = back
        /\ pc' \in {"reboot", "skl_linux", "skl_multiboot2"}
    BY <1>3 DEF Dispatch
  <2> QED
    BY <2>1 DEF PcInv, Found, Finding, Leaving
<1>4. CASE FindLogAgain
  BY <1>4 DEF FindLogAgain, Found, Finding, Leaving
<1> QED
  BY <1>1, <1>2, <1>3, <1>4 DEF TagsNext

(* ... and the two ways to find the kernel.                                 *)
LEMMA KernelSteps ==
  ASSUME ImageNext \/ MbiNext
  PROVE  /\ pc \in Linux \cup Multi
         /\ pc' \in (Linux \ {"skl_linux"}) \cup (Multi \ {"skl_multiboot2"}) \cup {"dump", "reboot"}
         /\ protocol' = protocol \/ (pc = "modules" /\ pc' = "dump" /\ protocol' = "MULTIBOOT2")
  BY DEF ImageNext, MbiNext, GetKernelInfo, GetMleHeader, GetKernelEntry, MeasureImage, Follow,
         MeasureMbi, FindKernel, MeasureKernel, MeasureModule, CheckMbi, Goto, Linux, Multi

(* A step is one of one part, which leaves alone what the others have.      *)
LEMMA Kinds ==
  ASSUME [Next]_vars
  PROVE  \/ UNCHANGED vars
         \/ EntryNext /\ UNCHANGED <<tagvars, imagevars, mbivars>>
         \/ TagsNext /\ UNCHANGED <<protocol, cpu, imagevars, mbivars>>
         \/ ImageNext /\ UNCHANGED <<protocol, cpu, tagvars, mbivars>>
         \/ MbiNext /\ UNCHANGED <<cpu, tagvars, imagevars>>
         \/ CheckCanary
  BY DEF Next, ImageNext

(* There is always a next instruction, and one of the known ones.           *)
LEMMA NextPc ==
  ASSUME PcInv, [Next]_vars
  PROVE  PcInv'
<1>1. CASE UNCHANGED vars
  BY <1>1 DEF vars, tagvars, walking, PcInv
<1>2. CASE EntryNext /\ UNCHANGED <<tagvars, imagevars, mbivars>>
  BY <1>2, EntrySteps DEF PcInv, tagvars, walking, InC
<1>3. CASE TagsNext /\ UNCHANGED <<protocol, cpu, imagevars, mbivars>>
  BY <1>3, TagsSteps DEF PcInv, InC, Linux, Multi
<1>4. CASE (ImageNext \/ MbiNext) /\ UNCHANGED tagvars
  BY <1>4, KernelSteps DEF PcInv, InC, tagvars, walking
<1>5. CASE CheckCanary
  BY <1>5 DEF CheckCanary, Goto, PcInv, InC, Leaving, tagvars, walking
<1> QED
  BY <1>1, <1>2, <1>3, <1>4, <1>5, Kinds

-----------------------------------------------------------------------------
(* An instruction of head.S does what the CPU's state allows.               *)
LEMMA EntryCpu ==
  ASSUME CpuInv, EntryNext
  PROVE  CpuInv' /\ LegalStep(cpu, cpu') /\ (cpu.idt = "empty" => cpu'.idt = "empty")
<1> USE DEF Step, Goto, CpuInv, LegalStep, Lma, Entering, In64, InC, Finding, Linux, Multi,
            Relocations, Tables
<1>0. "base" \in Values /\ "other" \in Values /\ "magic" \in Values
  BY DEF Values
<1>1. CASE SetStack
  BY <1>1, <1>0 DEF SetStack
<1>2. CASE ClobberIdt
  BY <1>2 DEF ClobberIdt
<1>3. CASE ClearA20
  BY <1>3, <1>0 DEF ClearA20
<1>4. CASE Relocate
  BY <1>4 DEF Relocate
<1>5. CASE LoadGdt
  BY <1>5 DEF LoadGdt
<1>6. CASE LoadSegments
  BY <1>6 DEF LoadSegments
<1>7. CASE EnablePae
  BY <1>7 DEF EnablePae
<1>8. CASE LoadCr3
  BY <1>8 DEF LoadCr3
<1>9. CASE EnableLongMode
  BY <1>9 DEF EnableLongMode
<1>10. CASE EnablePaging
  BY <1>10 DEF EnablePaging
<1>11. CASE JumpTo64
  BY <1>11 DEF JumpTo64
<1>12. CASE StashResult
  BY <1>12, <1>0 DEF StashResult
<1>13. CASE ReturnTo32
  BY <1>13 DEF ReturnTo32
<1>14. CASE DisablePaging
  BY <1>14, <1>0 DEF DisablePaging
<1>15. CASE DisableLongMode
  BY <1>15, <1>0 DEF DisableLongMode
<1>16. CASE DisablePae
  BY <1>16, <1>0 DEF DisablePae
<1>17. CASE ClearFlags
  BY <1>17 DEF ClearFlags
<1>18. CASE Jump
  <2>1. CASE cpu' = [cpu EXCEPT !.dx = cpu.bp]
    BY <1>18, <2>1, <1>0 DEF Jump
  <2>2. CASE cpu' = [cpu EXCEPT !.ax = "magic", !.bx = cpu.si, !.si = cpu.bx]
    BY <1>18, <2>2, <1>0 DEF Jump
  <2> QED
    BY <1>18, <2>1, <2>2 DEF Jump
<1> QED
  BY <1>1, <1>2, <1>3, <1>4, <1>5, <1>6, <1>7, <1>8, <1>9, <1>10, <1>11, <1>12, <1>13, <1>14,
     <1>15, <1>16, <1>17, <1>18 DEF EntryNext

(* C code changes no mode, and returns in 64-bit mode.                      *)
LEMMA NextCpu ==
  ASSUME PcInv, CpuInv, [Next]_vars
  PROVE  /\ CpuInv'
         /\ cpu' # cpu => LegalStep(cpu, cpu') /\ (cpu.idt = "empty" => cpu'.idt = "empty")
<1>1. ASSUME UNCHANGED cpu, pc \in InC, pc' \in InC
      PROVE  CpuInv'
  <2>1. pc \notin Entering /\ pc' \notin Entering /\ pc \in In64 /\ pc' \in In64
        /\ pc # "jump" /\ pc # "kernel" /\ pc' # "jump" /\ pc' # "kernel"
    BY <1>1 DEF InC, In64, Entering, Finding, Linux, Multi
  <2> QED
    BY <1>1, <2>1 DEF CpuInv, Entering
<1>2. CASE UNCHANGED vars
  BY <1>2 DEF vars, CpuInv
<1>3. CASE EntryNext /\ UNCHANGED <<tagvars, imagevars, mbivars>>
  BY <1>3, EntryCpu
<1>4. CASE TagsNext /\ UNCHANGED <<protocol, cpu, imagevars, mbivars>>
  <2>1. pc \in InC /\ pc' \in InC
    BY <1>4, TagsSteps DEF InC, Linux, Multi
  <2> QED
    BY <1>1, <1>4, <2>1
<1>5. CASE (ImageNext \/ MbiNext) /\ UNCHANGED cpu
  BY <1>1, <1>5, KernelSteps DEF InC
<1>6. CASE CheckCanary
  <2>1. CASE pc' = "reboot"
    BY <1>1, <1>6, <2>1 DEF CheckCanary, Goto, InC
  <2>2. CASE pc' = "returned"
    <3>0. "entry" \in Values /\ "mbi" \in Values /\ "zero_page" \in Values
      BY DEF Values
    <3>1. PICK dx \in {"mbi", "zero_page"} :
            pc = "canary" /\ cpu' = [cpu EXCEPT !.ax = "entry", !.dx = dx]
      BY <1>6, <2>2 DEF CheckCanary, Goto
    <3>2. pc \notin Entering /\ pc' \notin Entering /\ pc \in In64 /\ pc' \in In64
      BY <2>2, <3>1 DEF InC, In64, Entering
    <3>3. dx \in Values
      BY <3>0
    <3>4. CpuInv'
      BY <3>0, <3>1, <3>2, <3>3, <2>2 DEF CpuInv, Entering
    <3>5. LegalStep(cpu, cpu') /\ (cpu.idt = "empty" => cpu'.idt = "empty")
      BY <3>1, <3>2 DEF CpuInv, LegalStep, Lma
    <3> QED
      BY <3>4, <3>5
  <2> QED
    BY <1>6, <2>1, <2>2 DEF CheckCanary, Goto
<1> QED
  BY <1>2, <1>3, <1>4, <1>5, <1>6, Kinds

(* What skl_main() returns gets to where the kernel expects it.             *)
LEMMA NextResult ==
  ASSUME PcInv, CpuInv, ResultInv, [Next]_vars
  PROVE  ResultInv'
<1> USE DEF Goto, Step
<1>1. CASE UNCHANGED vars
  BY <1>1 DEF vars, ResultInv, Info
<1>2. CASE EntryNext
  <2>1. CASE SetStack \/ ClobberIdt \/ ClearA20 \/ Relocate \/ LoadGdt \/ LoadSegments \/ EnablePae
             \/ LoadCr3 \/ EnableLongMode \/ EnablePaging \/ JumpTo64
    <3>1. pc' \notin Leaving
      BY <2>1 DEF SetStack, ClobberIdt, ClearA20, Relocate, LoadGdt, LoadSegments, EnablePae,
                  LoadCr3, EnableLongMode, EnablePaging, JumpTo64, Leaving
    <3> QED
      BY <3>1 DEF ResultInv, Leaving
  <2>2. CASE StashResult
    BY <2>2 DEF StashResult, ResultInv, CpuInv, Info
  <2>3. CASE ReturnTo32 \/ DisablePaging \/ DisableLongMode \/ DisablePae \/ ClearFlags
    <3>1. /\ pc \in {"lret", "unpage", "unlong", "unpae", "popf"} /\ protocol' = protocol
          /\ pc' \in {"unpage", "unlong", "unpae", "popf", "jump"}
      BY <2>3 DEF ReturnTo32, DisablePaging, DisableLongMode, DisablePae, ClearFlags
    <3>2. cpu'.bx = cpu.bx /\ cpu'.si = cpu.si
      BY <2>3 DEF ReturnTo32, DisablePaging, DisableLongMode, DisablePae, ClearFlags, CpuInv
    <3> QED
      BY <3>1, <3>2 DEF ResultInv, Info
  <2>4. CASE Jump
    <3>1. /\ pc = "jump" /\ pc' = "kernel" /\ protocol' = protocol /\ cpu.bp = "base"
          /\ cpu.bx = "entry" /\ cpu.si = Info
      BY <2>4 DEF Jump, ResultInv, CpuInv
    <3>2. CASE protocol = "MULTIBOOT2"
      <4>1. cpu' = [cpu EXCEPT !.ax = "magic", !.bx = cpu.si, !.si = cpu.bx]
        BY <2>4, <3>2 DEF Jump
      <4>2. cpu'.ax = "magic" /\ cpu'.bx = cpu.si /\ cpu'.si = cpu.bx
        BY <4>1 DEF CpuInv
      <4> QED
        BY <3>1, <3>2, <4>2 DEF ResultInv, Info
    <3>3. CASE protocol # "MULTIBOOT2"
      <4>1. cpu' = [cpu EXCEPT !.dx = cpu.bp]
        BY <2>4, <3>3 DEF Jump
      <4>2. cpu'.dx = cpu.bp /\ cpu'.bx = cpu.bx /\ cpu'.si = cpu.si
        BY <4>1 DEF CpuInv
      <4> QED
        BY <3>1, <3>3, <4>2 DEF ResultInv, Info
    <3> QED
      BY <3>2, <3>3
  <2> QED
    BY <1>2, <2>1, <2>2, <2>3, <2>4 DEF EntryNext
<1>3. CASE TagsNext \/ ImageNext \/ MbiNext
  <2>1. pc' \notin Leaving
    BY <1>3, TagsSteps, KernelSteps DEF Leaving, Finding, Linux, Multi
  <2> QED
    BY <2>1 DEF ResultInv, Leaving
<1>4. CASE CheckCanary
  <2>1. CASE pc' = "reboot"
    BY <2>1 DEF ResultInv
  <2>2. CASE pc' = "returned"
    <3>1. protocol' = protocol /\ cpu' = [cpu EXCEPT !.ax = "entry", !.dx = Info]
      BY <1>4, <2>2 DEF CheckCanary, Info
    <3>2. cpu'.ax = "entry" /\ cpu'.dx = Info
      BY <3>1 DEF CpuInv
    <3> QED
      BY <2>2, <3>1, <3>2 DEF ResultInv, Info
  <2> QED
    BY <1>4, <2>1, <2>2 DEF CheckCanary
<1> QED
  BY <1>1, <1>2, <1>3, <1>4, Kinds
-----------------------------------------------------------------------------
(* The entry that is_in_kernel() accepted is still the one, and still in    *)
(* what was measured, when the kernel is entered.                           *)
LEMMA NextImage ==
  ASSUME PcInv, ImageInv, [Next]_vars
  PROVE  ImageInv'
<1> USE DEF Goto
<1>1. ASSUME UNCHANGED <<protocol, imagevars, mbivars>>,
             pc' \notin Linux \ {"skl_linux"}, pc' # "modules",
             Found' => Found, Found => Found' \/ pc' \in {"reboot", "lost"},
             pc \in {"reboot", "lost"} => pc' = pc
      PROVE  ImageInv'
  BY <1>1 DEF ImageInv, imagevars, mbivars, Linux, Inside, U32, SizeOf
<1>2. CASE UNCHANGED vars
  BY <1>2 DEF vars, tagvars, walking, imagevars, mbivars, ImageInv, Found, Inside, IsInKernel,
              U32, SizeOf
<1>3. CASE EntryNext /\ UNCHANGED <<tagvars, imagevars, mbivars>>
  BY <1>1, <1>3, EntrySteps DEF Found, Entering, Leaving, Linux
<1>4. CASE TagsNext /\ UNCHANGED <<protocol, cpu, imagevars, mbivars>>
  <2>1. /\ pc \notin {"reboot", "lost"}
        /\ pc' \notin Linux \ {"skl_linux"} /\ pc' # "modules"
        /\ (Found' => Found) /\ (Found => Found' \/ pc' \in {"reboot", "lost"})
    BY <1>4, TagsSteps DEF Finding, Linux
  <2> QED
    BY <1>1, <1>4, <2>1
<1>5. CASE CheckCanary
  BY <1>1, <1>5 DEF CheckCanary, Found, Leaving, Linux
<1>6. CASE MbiNext /\ UNCHANGED <<cpu, tagvars, imagevars>>
  <2>1. pc \in Multi /\ ~Found
    BY <1>6, KernelSteps DEF MbiNext, MeasureMbi, FindKernel, MeasureKernel, MeasureModule, CheckMbi,
                             Multi, Found, Leaving
  <2>2. protocol = "LINUX_BOOT"
    BY <2>1 DEF PcInv, ImageInv, Multi
  <2>3. pc' \in (Multi \ {"skl_multiboot2"}) \cup {"dump", "reboot"}
    BY <1>6 DEF MbiNext, MeasureMbi, FindKernel, MeasureKernel, MeasureModule, CheckMbi, Multi
  <2>4. CASE pc' = "dump"
    <3>1. pc = "modules" /\ protocol' = "MULTIBOOT2" /\ UNCHANGED <<kernel_entry, measured>>
      BY <1>6, <2>4 DEF MbiNext, MeasureMbi, FindKernel, MeasureKernel, MeasureModule, CheckMbi
    <3> QED
      BY <2>4, <3>1 DEF ImageInv, Found
  <2>5. CASE pc' = "modules"
    <3>1. /\ protocol' = protocol
          /\ \/ pc = "modules" /\ UNCHANGED <<kernel_entry, measured>>
             \/ measured' = [from |-> kernel_entry, len |-> kernel_size]
                /\ kernel_entry' = kernel_entry
      BY <1>6, <2>5 DEF MbiNext, MeasureMbi, FindKernel, MeasureKernel, MeasureModule, CheckMbi
    <3> QED
      BY <2>2, <2>5, <3>1 DEF ImageInv, Found, Leaving
  <2>6. CASE pc' \in {"find_kernel", "reboot"}
    <3>1. protocol' = protocol
      BY <1>6, <2>6 DEF MbiNext, MeasureMbi, FindKernel, MeasureKernel, MeasureModule, CheckMbi
    <3> QED
      BY <2>2, <2>6, <3>1 DEF ImageInv, Found, Leaving
  <2> QED
    BY <2>3, <2>4, <2>5, <2>6 DEF Multi
<1>7. CASE ImageNext /\ UNCHANGED <<protocol, cpu, tagvars, mbivars>>
  <2>0. pc \in Linux /\ ~Found
    BY <1>7 DEF ImageNext, GetKernelInfo, GetMleHeader, GetKernelEntry, MeasureImage, Follow,
                Linux, Found, Leaving
  <2>1. protocol = "LINUX_BOOT" /\ protocol' = "LINUX_BOOT"
    BY <1>7, <2>0 DEF PcInv, ImageInv, Linux
  <2>2. CASE GetKernelInfo
    <3>1. bp' \in Images /\ pc' \in {"mle_header", "reboot"}
      BY <2>2 DEF GetKernelInfo, Follow
    <3> QED
      BY <2>1, <3>1 DEF ImageInv, Found, Leaving
  <2>3. CASE GetMleHeader
    <3>1. pc = "mle_header" /\ pc' \in {"sl_stub_entry", "reboot"} /\ UNCHANGED imagevars
      BY <2>3 DEF GetMleHeader, Follow
    <3> QED
      BY <2>1, <3>1 DEF ImageInv, Found, Leaving, imagevars
  <2>4. CASE GetKernelEntry
    <3>1. pc = "sl_stub_entry" /\ bp \in Images /\ bp' = bp
      BY <2>4 DEF GetKernelEntry, ImageInv
    <3>2. PICK offset \in Offsets :
            LET p == U32(bp.code32_start + offset)
            IN  /\ IF IsInKernel(bp, p) THEN Goto("sl_stub_entry", "measure_linux")
                   ELSE Goto("sl_stub_entry", "reboot")
                /\ mle_entry' = p
      BY <2>4 DEF GetKernelEntry
    <3>3. mle_entry' \in Nat
      BY <3>1, <3>2, OffsetIsAddress
    <3>4. pc' = "measure_linux" => IsInKernel(bp, mle_entry')
      BY <3>2
    <3>5. IsInKernel(bp, mle_entry') = IsInKernel(bp, mle_entry)'
      BY <3>1 DEF IsInKernel, U32, SizeOf
    <3>6. pc' \in {"measure_linux", "reboot"}
      BY <3>2
    <3> QED
      BY <2>1, <3>1, <3>3, <3>4, <3>5, <3>6 DEF ImageInv, Found, Leaving
  <2>5. CASE MeasureImage
    <3>1. pc = "measure_linux" /\ pc' = "dump" /\ UNCHANGED <<bp, mle_entry>>
          /\ kernel' = [from |-> bp.code32_start, len |-> SizeOf(bp)]
      BY <2>5 DEF MeasureImage
    <3>2. Inside(mle_entry, bp.code32_start, SizeOf(bp))
      BY <3>1, InKernelIsInside DEF ImageInv
    <3> QED
      BY <2>1, <3>1, <3>2 DEF ImageInv, Inside
  <2> QED
    BY <1>7, <2>2, <2>3, <2>4, <2>5 DEF ImageNext
<1> QED
  BY <1>2, <1>3, <1>4, <1>5, <1>6, <1>7, Kinds
-----------------------------------------------------------------------------
(* Reading again what is known tells nothing new.                           *)
LEMMA LearnKnown ==
  ASSUME NEW S, NEW k, k \in [DOMAIN k -> S], NEW a \in DOMAIN k
  PROVE  Learn(k, a, k[a]) = k
<1>1. DOMAIN k \cup {a} = DOMAIN k
  OBVIOUS
<1>2. Learn(k, a, k[a]) = [b \in DOMAIN k |-> k[b]]
  BY <1>1 DEF Learn
<1> QED
  BY <1>2

(* What reading an address the first time adds.                             *)
LEMMA LearnMore ==
  ASSUME NEW k, NEW a, NEW h
  PROVE  /\ DOMAIN Learn(k, a, h) = DOMAIN k \cup {a} /\ Learn(k, a, h)[a] = h
         /\ \A b \in DOMAIN k : b # a => Learn(k, a, h)[b] = k[b]
         /\ Learn(k, a, h) = [b \in DOMAIN Learn(k, a, h) |-> Learn(k, a, h)[b]]
  BY DEF Learn

(* A walk reads the tags it is at as they were read before.                 *)
LEMMA KnownTag ==
  ASSUME ChainInv, NEW a \in DOMAIN tags, NEW h \in Read(a)
  PROVE  h = tags[a] /\ h \in Header /\ Keep(tags, a, h) = tags
<1>1. h = tags[a] /\ h \in Header
  BY DEF Read, ChainInv
<1>2. Learn(tags, a, tags[a]) = tags
  BY LearnKnown DEF ChainInv
<1> QED
  BY <1>1, <1>2 DEF Keep

(* A tag in the SLB that is read the first time is noted.                   *)
LEMMA NewTag ==
  ASSUME ChainInv, NEW a, a \notin DOMAIN tags, NEW h \in Read(a)
  PROVE  /\ h \in Header /\ Keep(tags, a, h) \in [DOMAIN Keep(tags, a, h) -> Header]
         /\ IF a \in Data .. SlbEnd - 1
            THEN /\ DOMAIN Keep(tags, a, h) = DOMAIN tags \cup {a} /\ Keep(tags, a, h)[a] = h
                 /\ \A b \in DOMAIN tags : Keep(tags, a, h)[b] = tags[b]
            ELSE Keep(tags, a, h) = tags
<1>1. h \in Header
  BY DEF Read
<1>2. CASE a \notin Data .. SlbEnd - 1
  BY <1>1, <1>2 DEF Keep, ChainInv
<1>3. CASE a \in Data .. SlbEnd - 1
  <2> DEFINE k == Learn(tags, a, h)
  <2>1. Keep(tags, a, h) = k
    BY <1>3 DEF Keep
  <2>2. /\ DOMAIN k = DOMAIN tags \cup {a} /\ k[a] = h /\ k = [b \in DOMAIN k |-> k[b]]
        /\ \A b \in DOMAIN tags : b # a => k[b] = tags[b]
    BY DEF Learn
  <2>3. \A b \in DOMAIN k : k[b] \in Header
    BY <1>1, <2>2 DEF ChainInv
  <2> HIDE DEF k
  <2>4. k \in [DOMAIN k -> Header]
    BY <2>2, <2>3
  <2> QED
    BY <1>1, <1>3, <2>1, <2>2, <2>4
<1> QED
  BY <1>2, <1>3

(* Lengths and bounds are natural numbers.                                  *)
LEMMA TagNumbers ==
  ASSUME ChainInv, NEW h \in Header
  PROVE  h.len \in Nat /\ Data \in Nat \ {0} /\ SlbEnd \in Nat /\ EndOfTags \in Nat /\ NULL = 0
  BY TagsAssumption DEF ChainInv, Header, EndOfTags, NULL

(* Once the list is known, a step that keeps to it leaves it as it is.      *)
LEMMA SameChain ==
  ASSUME ChainInv, valid, UNCHANGED <<size, tags, valid>>,
         acted' \subseteq DOMAIN tags, t' \in DOMAIN tags \cup {NULL},
         pc' \notin Unchecked \cup {"end_tag", "lost"},
         pc' = "walk" => t' # NULL /\ back' # "end_tag",
         pc' = "boot_tags" \/ (pc' = "walk" /\ back' = "boot_tags") => boot' \in DOMAIN tags
  PROVE  ChainInv'
<1>1. Complete'
  BY DEF ChainInv, Complete, Linked, EndOfTags
<1>2. t' \in Nat
  <2>1. DOMAIN tags \subseteq Nat
    BY TagsAssumption DEF ChainInv
  <2> QED
    BY <2>1 DEF NULL
<1> QED
  BY <1>1, <1>2 DEF ChainInv

(* No walk leaves the list that was checked.                                *)
LEMMA WalkOn ==
  ASSUME PcInv, ChainInv, Walk, valid
  PROVE  ChainInv'
<1>1. pc = "walk" /\ UNCHANGED <<size, goal, back, boot, acted, valid>>
  BY DEF Walk
<1>2. Complete /\ back # "end_tag" /\ t \in DOMAIN tags
  BY <1>1 DEF ChainInv, Complete
<1>3. PICK h \in Read(t) :
        LET n == NextTag(t, h) IN
        \/ /\ h.type = "END" /\ tags' = Keep(tags, t, h) /\ t' = NULL /\ pc' = back
        \/ /\ h.type # "END" /\ n = NULL
        \/ /\ h.type # "END" /\ n # NULL
           /\ \E g \in (IF n = t THEN {h} ELSE Read(n)) :
                /\ tags' = Keep(Keep(tags, t, h), n, g) /\ t' = n /\ pc' \in {back, "walk"}
  BY DEF Walk
<1>4. h = tags[t] /\ h \in Header /\ Keep(tags, t, h) = tags
  BY <1>2, KnownTag
<1>5. h.len \in Nat /\ t \in Nat /\ t >= Data /\ Data \in Nat \ {0} /\ EndOfTags \in Nat
  BY <1>2, <1>4, TagNumbers DEF ChainInv
<1>6. back \in {"canary"} \cup Finding
  BY <1>2 DEF PcInv
<1>7. pc' = back => pc' \notin Unchecked \cup {"end_tag", "lost", "walk"}
  BY <1>6 DEF Unchecked, Entering, Finding
<1>8. CASE tags' = tags /\ t' \in DOMAIN tags \cup {NULL} /\ pc' = back
  <2>1. acted' \subseteq DOMAIN tags /\ (pc' = "boot_tags" => boot' \in DOMAIN tags)
    BY <1>1, <1>2, <1>8 DEF Complete
  <2> QED
    BY <1>1, <1>7, <1>8, <2>1, SameChain
<1>9. CASE tags' = tags /\ t' \in DOMAIN tags /\ pc' = "walk"
  <2>1. acted' \subseteq DOMAIN tags /\ (back' = "boot_tags" => boot' \in DOMAIN tags)
    BY <1>1, <1>2, <1>9 DEF Complete
  <2>2. t' # NULL /\ back' # "end_tag"
    BY <1>1, <1>2, <1>9, TagsAssumption DEF ChainInv, NULL
  <2>3. pc' \notin Unchecked \cup {"end_tag", "lost", "boot_tags"}
    BY <1>9 DEF Unchecked, Entering
  <2> QED
    BY <1>1, <1>9, <2>1, <2>2, <2>3, SameChain
<1>10. CASE h.type = "END"
  BY <1>3, <1>4, <1>8, <1>10
<1>11. CASE h.type # "END"
  <2>1. Linked(t)
    BY <1>2, <1>4, <1>11 DEF Complete
  <2> DEFINE n == t + h.len
  <2>2. NextTag(t, h) = n /\ n \in DOMAIN tags /\ n # NULL
    <3>1. t + h.len < EndOfTags /\ t + h.len \in DOMAIN tags
      BY <2>1, <1>4 DEF Linked
    <3>2. t + h.len # 0
      BY <1>5
    <3> QED
      BY <3>1, <3>2 DEF NextTag, NULL
  <2>3. PICK g \in (IF n = t THEN {h} ELSE Read(n)) :
          tags' = Keep(Keep(tags, t, h), n, g) /\ t' = n /\ pc' \in {back, "walk"}
    BY <1>3, <1>11, <2>2
  <2> HIDE DEF n
  <2>4. g \in Read(n)
    BY <1>3, <2>3
  <2>5. tags' = tags
    BY <1>4, <2>2, <2>3, <2>4, KnownTag
  <2> QED
    BY <1>8, <1>9, <2>2, <2>3, <2>5
<1> QED
  BY <1>10, <1>11

(* The walk of the checks adds the next tag, or has left the SLB behind.    *)
LEMMA WalkFirst ==
  ASSUME PcInv, ChainInv, Walk, ~valid
  PROVE  ChainInv'
<1>1. /\ pc = "walk" /\ back = "end_tag" /\ goal = "END" /\ Partial /\ acted = {} /\ t # NULL
      /\ UNCHANGED <<size, goal, back, boot, acted, valid>>
  BY DEF Walk, ChainInv
<1>2. PICK h \in Read(t) :
        LET n == NextTag(t, h) IN
        \/ /\ h.type = "END" /\ tags' = Keep(tags, t, h) /\ t' = NULL /\ pc' = back
        \/ /\ h.type # "END" /\ n = NULL /\ tags' = Keep(tags, t, h) /\ t' = NULL /\ pc' = "lost"
        \/ /\ h.type # "END" /\ n # NULL
           /\ \E g \in (IF n = t THEN {h} ELSE Read(n)) :
                /\ tags' = Keep(Keep(tags, t, h), n, g) /\ t' = n
                /\ pc' = IF g.type = "END" THEN back ELSE "walk"
  BY <1>1 DEF Walk, Matches
<1>3. /\ h \in Header /\ Keep(tags, t, h) = tags
      /\ t \in DOMAIN tags => h = tags[t]
  <2>1. CASE t \in DOMAIN tags
    BY <2>1, KnownTag
  <2>2. CASE t \notin DOMAIN tags
    <3>1. t \notin Data .. SlbEnd - 1
      BY <1>1, <2>2, TagsAssumption DEF Partial, ChainInv
    <3> QED
      BY <2>2, <3>1, NewTag
  <2> QED
    BY <2>1, <2>2
<1>4. /\ h.len \in Nat /\ t \in Nat /\ t >= Data /\ Data \in Nat \ {0} /\ EndOfTags \in Nat
      /\ SlbEnd \in Nat /\ EndOfTags <= SlbEnd
  BY <1>1, <1>3, TagNumbers DEF ChainInv, Partial
<1>5. CASE tags' = tags /\ t' = NULL /\ pc' \in {"end_tag", "lost"}
  <2>1. Partial'
    BY <1>5 DEF Partial
  <2> QED
    BY <1>1, <1>5, <2>1 DEF ChainInv, Unchecked, Entering, NULL
<1>6. CASE h.type # "END" /\ NextTag(t, h) # NULL
  <2> DEFINE n == t + h.len
  <2>1. NextTag(t, h) = n /\ n < EndOfTags /\ n \in Data .. SlbEnd - 1 /\ n # NULL
    <3>1. n < EndOfTags /\ NextTag(t, h) = n
      BY <1>6 DEF NextTag
    <3> QED
      BY <1>4, <3>1 DEF NULL
  <2>2. t \in DOMAIN tags
    BY <1>1, <1>4, <2>1 DEF Partial
  <2>3. PICK g \in (IF n = t THEN {h} ELSE Read(n)) :
          /\ tags' = Keep(Keep(tags, t, h), n, g) /\ t' = n
          /\ pc' = IF g.type = "END" THEN "end_tag" ELSE "walk"
    BY <1>1, <1>2, <1>6, <2>1
  <2>0. n = t + tags[t].len /\ tags[t].type # "END"
    BY <1>3, <1>6, <2>2
  <2> HIDE DEF n
  <2>4. g \in Read(n) /\ tags' = Keep(tags, n, g)
    BY <1>2, <1>3, <2>3
  <2>5. /\ tags' \in [DOMAIN tags' -> Header] /\ DOMAIN tags' = DOMAIN tags \cup {n}
        /\ tags'[n] = g /\ \A a \in DOMAIN tags : tags'[a] = tags[a]
    <3>1. CASE n \in DOMAIN tags
      <4>1. tags' = tags /\ g = tags[n]
        BY <2>4, <3>1, KnownTag
      <4> QED
        BY <3>1, <4>1 DEF ChainInv
    <3>2. CASE n \notin DOMAIN tags
      BY <2>1, <2>4, <3>2, NewTag
    <3> QED
      BY <3>1, <3>2
  <2>6. \A a \in DOMAIN tags' : a = t' \/ Linked(a)'
    <3>1. SUFFICES ASSUME NEW a \in DOMAIN tags, a # n PROVE Linked(a)'
      BY <2>3, <2>5
    <3>2. a = t \/ Linked(a)
      BY <1>1 DEF Partial
    <3>3. EndOfTags' = EndOfTags
      BY <1>1 DEF EndOfTags
    <3>4. tags[a].type # "END" /\ a + tags[a].len < EndOfTags /\ a + tags[a].len \in DOMAIN tags'
      BY <2>0, <2>1, <2>5, <3>2 DEF Linked
    <3> QED
      BY <2>5, <3>3, <3>4 DEF Linked
  <2>7. Partial'
    BY <1>1, <1>4, <2>1, <2>3, <2>5, <2>6 DEF Partial, EndOfTags
  <2>8. t' \in Nat /\ DOMAIN tags' \subseteq Data .. SlbEnd - 1
    BY <1>4, <2>1, <2>3, <2>5 DEF ChainInv
  <2> QED
    BY <1>1, <2>1, <2>3, <2>5, <2>7, <2>8 DEF ChainInv, Unchecked, Entering
<1> QED
  BY <1>1, <1>2, <1>3, <1>5, <1>6

(* The checks start with an empty list, and end with a complete one.        *)
LEMMA ChecksChain ==
  ASSUME PcInv, ChainInv, CheckStart \/ CheckEnd
  PROVE  ChainInv'
<1>0. /\ Data \in Nat \ {0} /\ SlbEnd \in Nat /\ NULL = 0 /\ size \in Nat
      /\ EndOfTags \in Nat
  BY TagsAssumption DEF ChainInv, NULL, EndOfTags
<1>1. CASE CheckStart
  <2>1. PICK h \in Read(Data) :
          /\ tags' = Keep(tags, Data, h)
          /\ IF h.type = "TAGS_SIZE" /\ h.len = TagsSizeLen /\ EndOfTags <= SlbEnd
             THEN Find(Data, "END", "skl_main", "end_tag")
             ELSE Goto("skl_main", "reboot") /\ UNCHANGED walking
          /\ UNCHANGED <<size, boot, acted, valid>>
    BY <1>1 DEF CheckStart
  <2>2. pc = "skl_main" /\ DOMAIN tags = {} /\ ~valid /\ acted = {}
    BY <2>1 DEF Find, Goto, ChainInv, Unchecked, Entering
  <2>3. /\ tags' \in [DOMAIN tags' -> Header]
        /\ DOMAIN tags' = IF Data < SlbEnd THEN {Data} ELSE {}
    <3>1. Data \in Data .. SlbEnd - 1 <=> Data < SlbEnd
      BY <1>0
    <3> QED
      BY <2>1, <2>2, <3>1, NewTag
  <2>4. DOMAIN tags' \subseteq Data .. SlbEnd - 1
    BY <1>0, <2>3
  <2>5. CASE pc' = "reboot" /\ t' = t
    BY <1>0, <2>1, <2>2, <2>3, <2>4, <2>5 DEF ChainInv, Unchecked, Entering
  <2>6. CASE EndOfTags <= SlbEnd /\ Find(Data, "END", "skl_main", "end_tag")
    <3>1. pc' = "walk" /\ t' = Data /\ goal' = "END" /\ back' = "end_tag"
      BY <2>6 DEF Find, Goto
    <3>2. Partial'
      BY <1>0, <2>1, <2>3, <2>6, <3>1 DEF Partial, EndOfTags
    <3> QED
      BY <1>0, <2>1, <2>2, <2>3, <2>4, <3>1, <3>2 DEF ChainInv, Unchecked, Entering
  <2> QED
    BY <2>1, <2>5, <2>6 DEF Goto, walking
<1>2. CASE CheckEnd
  <2>1. PICK h \in Read(t) : tags' = Keep(tags, t, h) /\ valid' = (t # NULL /\ t + h.len = EndOfTags)
    BY <1>2 DEF CheckEnd
  <2>2. /\ pc = "end_tag" /\ pc' = (IF valid' THEN "event_log" ELSE "reboot")
        /\ UNCHANGED <<size, walking, boot, acted>>
    BY <1>2 DEF CheckEnd
  <2>3. ~valid /\ acted = {} /\ Partial
    BY <2>2 DEF ChainInv
  <2>4. CASE t = NULL
    <3>1. t \notin DOMAIN tags /\ t \notin Data .. SlbEnd - 1
      BY <1>0, <2>4 DEF ChainInv
    <3>2. tags' = tags /\ valid' = FALSE
      BY <2>1, <2>4, <3>1, NewTag
    <3> QED
      BY <2>2, <2>3, <3>2 DEF ChainInv, walking, Unchecked, Entering
  <2>5. CASE t # NULL
    <3>1. t \in DOMAIN tags /\ tags[t].type = "END"
      BY <2>2, <2>3, <2>5 DEF Partial
    <3>2. tags' = tags /\ h = tags[t]
      BY <2>1, <3>1, KnownTag
    <3>3. CASE t + tags[t].len = EndOfTags
      <4>1. valid' = TRUE /\ pc' = "event_log"
        BY <2>1, <2>2, <2>5, <3>2, <3>3
      <4>2. Data \in DOMAIN tags
        BY <1>0, <2>3, <2>5, <3>1 DEF Partial, ChainInv
      <4>3. Complete'
        BY <2>2, <2>3, <2>5, <3>1, <3>2, <3>3, <4>1, <4>2
           DEF Partial, Complete, Linked, EndOfTags, walking
      <4> QED
        BY <2>2, <3>2, <4>1, <4>3 DEF ChainInv, walking, Unchecked, Entering
    <3>4. CASE t + tags[t].len # EndOfTags
      <4>1. valid' = FALSE /\ pc' = "reboot"
        BY <2>1, <2>2, <3>2, <3>4
      <4> QED
        BY <2>2, <2>3, <3>2, <4>1 DEF ChainInv, walking, Unchecked, Entering
    <3> QED
      BY <3>3, <3>4
  <2> QED
    BY <2>4, <2>5
<1> QED
  BY <1>1, <1>2

(* After the checks SKL starts its walks from tags of the list, and acts on *)
(* tags that walks have found there.                                        *)
LEMMA FindingChain ==
  ASSUME PcInv, ChainInv,
         FindLog \/ FindOtherLog \/ FindHash \/ UseHash \/ MeasureAndFindBoot \/ FindOtherBoot
         \/ Dispatch \/ FindLogAgain
  PROVE  ChainInv'
<1> USE DEF Goto, Find, walking
<1>1. pc \in Finding \cup {"dump"} /\ UNCHANGED <<size, valid>>
  BY DEF FindLog, FindOtherLog, FindHash, UseHash, MeasureAndFindBoot, FindOtherBoot, Dispatch,
         FindLogAgain, Finding
<1>2. valid /\ Complete
  BY <1>1 DEF ChainInv, Unchecked, Entering, Finding
<1>3. Data \in DOMAIN tags /\ acted \subseteq DOMAIN tags /\ t \in DOMAIN tags \cup {NULL}
      /\ NULL \notin DOMAIN tags
  BY <1>2, TagsAssumption DEF Complete, ChainInv, NULL
<1>4. CASE FindLog \/ MeasureAndFindBoot \/ FindLogAgain
  <2>1. /\ pc' = "walk" /\ t' = Data /\ back' \in {"log_tag", "boot_tag", "canary"}
        /\ UNCHANGED <<tags, acted>>
    BY <1>4 DEF FindLog, MeasureAndFindBoot, FindLogAgain
  <2> QED
    BY <1>1, <1>2, <1>3, <2>1, SameChain DEF Unchecked, Entering
<1>5. CASE FindOtherLog \/ FindHash \/ UseHash
  <2>1. /\ tags' = tags /\ acted' \subseteq DOMAIN tags
        /\ \/ pc' = "measure" /\ t' = t
           \/ pc' = "walk" /\ t' \in DOMAIN tags /\ back' \in {"log_tags", "hash_tag"}
    BY <1>3, <1>5 DEF FindOtherLog, FindHash, UseHash
  <2> QED
    BY <1>1, <1>2, <1>3, <2>1, SameChain DEF Unchecked, Entering
<1>6. CASE FindOtherBoot
  <2>1. /\ tags' = tags /\ acted' \subseteq DOMAIN tags
        /\ \/ pc' = "reboot" /\ t' = t
           \/ pc' = "walk" /\ t' \in DOMAIN tags /\ back' = "boot_tags" /\ boot' \in DOMAIN tags
    BY <1>3, <1>6 DEF FindOtherBoot
  <2> QED
    BY <1>1, <1>2, <1>3, <2>1, SameChain DEF Unchecked, Entering
<1>7. CASE Dispatch
  <2>1. pc = "boot_tags" /\ UNCHANGED <<t, acted, boot>>
        /\ pc' \in {"reboot", "skl_linux", "skl_multiboot2"}
    BY <1>7 DEF Dispatch
  <2>2. boot \in DOMAIN tags
    BY <1>2, <2>1 DEF Complete
  <2>3. tags' = tags
    <3>1. PICK h \in Read(boot) : tags' = Keep(tags, boot, h)
      BY <1>7 DEF Dispatch
    <3> QED
      BY <2>2, <3>1, KnownTag
  <2> QED
    BY <1>1, <1>2, <1>3, <2>1, <2>3, SameChain DEF Unchecked, Entering
<1> QED
  BY <1>4, <1>5, <1>6, <1>7

(* The list stays what it is, whoever else is at work.                      *)
LEMMA NextChain ==
  ASSUME PcInv, ChainInv, [Next]_vars
  PROVE  ChainInv'
<1>1. CASE UNCHANGED vars
  BY <1>1 DEF vars, tagvars, walking, ChainInv, Complete, Partial, Linked, EndOfTags
<1>2. ASSUME UNCHANGED tagvars, valid,
             pc' \notin Unchecked \cup {"walk", "end_tag", "lost", "boot_tags"}
      PROVE  ChainInv'
  BY <1>2, SameChain DEF tagvars, walking, ChainInv, Complete
<1>3. CASE EntryNext /\ UNCHANGED <<tagvars, imagevars, mbivars>>
  <2>1. CASE pc \in Entering
    <3>1. pc' \in Unchecked /\ pc' # "walk" /\ pc' # "end_tag" /\ pc \in Unchecked
      BY <1>3, <2>1, EntrySteps DEF Unchecked, Entering, Leaving
    <3> QED
      BY <1>3, <3>1 DEF ChainInv, tagvars, walking
  <2>2. CASE pc \notin Entering
    <3>1. pc \in Leaving /\ pc' \in Leaving
      BY <1>3, <2>2, EntrySteps
    <3>2. valid /\ pc' \notin Unchecked \cup {"walk", "end_tag", "lost", "boot_tags"}
      BY <3>1 DEF ChainInv, Unchecked, Entering, Leaving
    <3> QED
      BY <1>2, <1>3, <3>2
  <2> QED
    BY <2>1, <2>2
<1>4. CASE TagsNext /\ UNCHANGED <<protocol, cpu, imagevars, mbivars>>
  BY <1>4, WalkOn, WalkFirst, ChecksChain, FindingChain DEF TagsNext, ChainInv
<1>5. CASE (ImageNext \/ MbiNext) /\ UNCHANGED tagvars
  <2>1. pc \in Linux \cup Multi /\ pc' \notin Unchecked \cup {"walk", "end_tag", "lost", "boot_tags"}
    BY <1>5, KernelSteps DEF Unchecked, Entering, Linux, Multi
  <2>2. valid
    BY <2>1 DEF ChainInv, Unchecked, Entering, Linux, Multi
  <2> QED
    BY <1>2, <1>5, <2>1, <2>2
<1>6. CASE CheckCanary
  <2>1. pc = "canary" /\ pc' \in {"returned", "reboot"} /\ UNCHANGED tagvars
    BY <1>6 DEF CheckCanary, Goto
  <2>2. valid /\ pc' \notin Unchecked \cup {"walk", "end_tag", "lost", "boot_tags"}
    BY <2>1 DEF ChainInv, Unchecked, Entering
  <2> QED
    BY <1>2, <2>1, <2>2
<1> QED
  BY <1>1, <1>3, <1>4, <1>5, <1>6, Kinds
-----------------------------------------------------------------------------
(* multiboot_next_tag() never leads downwards.                              *)
LEMMA NextIsUp ==
  ASSUME NEW u \in Nat, NEW g, g.size \in Nat
  PROVE  NextMbiTag(u, g) \in Nat /\ NextMbiTag(u, g) >= u
<1> DEFINE n == (g.size + 7) % Limit
<1>1. g.size + 7 \in Nat /\ Limit \in Nat \ {0}
  BY MultibootAssumption
<1>2. n \in Nat
  BY <1>1, RemainderBound
<1> HIDE DEF n
<1>3. n \div 8 \in Nat
  BY <1>2
<1>4. NextMbiTag(u, g) = u + n \div 8
  BY DEF NextMbiTag, n
<1> QED
  BY <1>3, <1>4

(* The tag that is looked at next was read before, or is behind all that    *)
(* were.                                                                    *)
LEMMA ReadsOn ==
  ASSUME Upwards, tag \in Nat \ {0}, tag \in DOMAIN mbi \/ AtEnd, NEW g, Reads(tag, g)
  PROVE  /\ Upwards'
         /\ DOMAIN mbi' = DOMAIN mbi \cup {tag} /\ mbi'[tag] = g
         /\ \A u \in DOMAIN mbi : mbi'[u] = mbi[u]
         /\ tag \in DOMAIN mbi \/ \A u \in DOMAIN mbi' : u <= tag
<1>0. mbi' = Learn(mbi, tag, g) /\ g \in Tags(tag)
  BY DEF Reads
<1>1. CASE tag \in DOMAIN mbi
  <2>1. g = mbi[tag]
    BY <1>0, <1>1 DEF Tags
  <2>2. mbi' = mbi
    BY <1>0, <1>1, <2>1, LearnKnown DEF Upwards
  <2>3. Upwards'
    BY <2>2 DEF Upwards, Next8, Last
  <2> QED
    BY <1>1, <2>1, <2>2, <2>3
<1>2. CASE tag \notin DOMAIN mbi
  <2>1. /\ g \in [type : {"END", "MODULE", "LOAD_BASE_ADDR", "ELF_SECTIONS"}, size : Nat]
        /\ g.type # "END" => tag <= MbiTop
    <3>1. g \in (IF tag > MbiTop THEN {END} ELSE MbiTag)
      BY <1>0, <1>2 DEF Tags
    <3>2. TagSizes \subseteq Nat /\ MbiTop \in Nat
      BY MultibootAssumption
    <3>3. CASE tag > MbiTop /\ g = END
      BY <3>3 DEF END
    <3>4. CASE tag <= MbiTop /\ g \in MbiTag
      BY <3>2, <3>4 DEF MbiTag
    <3> QED
      BY <3>1, <3>2, <3>3, <3>4
  <2>2. /\ DOMAIN mbi' = DOMAIN mbi \cup {tag} /\ mbi'[tag] = g
        /\ \A u \in DOMAIN mbi : mbi'[u] = mbi[u]
        /\ mbi' = [u \in DOMAIN mbi' |-> mbi'[u]]
    BY <1>0, <1>2 DEF Learn
  <2>3. mbi' \in [DOMAIN mbi' -> [type : {"END", "MODULE", "LOAD_BASE_ADDR", "ELF_SECTIONS"}, size : Nat]]
    BY <2>1, <2>2 DEF Upwards
  <2>4. \A u \in DOMAIN mbi : u \in Nat /\ Next8(u) \in Nat /\ Next8(u) >= u /\ Next8(u)' = Next8(u)
    BY <2>2, NextIsUp DEF Upwards, Next8
  <2>5. \A u \in DOMAIN mbi : /\ u < tag /\ mbi[u].type # "END" /\ Next8(u) <= tag
                              /\ Next8(u) \in DOMAIN mbi \/ Next8(u) = tag
    <3>1. SUFFICES ASSUME NEW u \in DOMAIN mbi
                   PROVE  /\ u < tag /\ mbi[u].type # "END" /\ Next8(u) <= tag
                          /\ Next8(u) \in DOMAIN mbi \/ Next8(u) = tag
      OBVIOUS
    <3>2. PICK w \in DOMAIN mbi : Last(w) /\ mbi[w].type # "END" /\ Next8(w) = tag
      BY <1>2, <3>1 DEF AtEnd
    <3>3. u <= w /\ w < tag
      <4>1. w # tag
        BY <1>2, <3>2
      <4> QED
        BY <2>4, <3>2, <4>1 DEF Last
    <3>4. CASE u = w
      BY <2>4, <3>2, <3>3, <3>4
    <3>5. CASE u # w
      <4>1. u < w
        BY <2>4, <3>3, <3>5
      <4>2. mbi[u].type # "END" /\ Next8(u) <= w
        BY <4>1 DEF Upwards
      <4>3. ~Last(u)
        BY <2>4, <4>1 DEF Last
      <4>4. Next8(u) \in DOMAIN mbi
        BY <4>2, <4>3 DEF Upwards
      <4> QED
        BY <2>4, <3>3, <4>1, <4>2, <4>4
    <3> QED
      BY <3>4, <3>5
  <2>6. 1 \in DOMAIN mbi'
    BY <1>2, <2>2 DEF AtEnd, Upwards
  <2>7. \A u \in DOMAIN mbi' : u <= tag
    BY <2>2, <2>4, <2>5
  <2>8. \A u \in DOMAIN mbi' : mbi'[u].type # "END" => u <= MbiTop
    BY <2>1, <2>2 DEF Upwards
  <2>9. \A u, v \in DOMAIN mbi' : u < v => mbi'[u].type # "END" /\ Next8(u)' <= v
    <3>1. SUFFICES ASSUME NEW u \in DOMAIN mbi', NEW v \in DOMAIN mbi', u < v
                   PROVE  mbi'[u].type # "END" /\ Next8(u)' <= v
      OBVIOUS
    <3>2. u # tag /\ u \in DOMAIN mbi
      BY <2>2, <2>4, <2>7, <3>1
    <3>3. CASE v = tag
      BY <2>2, <2>4, <2>5, <3>2, <3>3
    <3>4. CASE v \in DOMAIN mbi
      BY <2>2, <2>4, <3>1, <3>2, <3>4 DEF Upwards
    <3> QED
      BY <2>2, <3>3, <3>4
  <2>10. \A u \in DOMAIN mbi' : mbi'[u].type # "END" => Next8(u)' \in DOMAIN mbi' \/ Last(u)'
    <3>1. \A u \in DOMAIN mbi' : u = tag => Last(u)'
      BY <2>2, <2>7 DEF Last
    <3> QED
      BY <2>2, <2>4, <2>5, <3>1
  <2>11. DOMAIN mbi' \subseteq Nat \ {0}
    BY <2>2 DEF Upwards
  <2>12. Upwards'
    BY <2>3, <2>6, <2>8, <2>9, <2>10, <2>11 DEF Upwards
  <2> QED
    BY <2>2, <2>7, <2>12
<1> QED
  BY <1>1, <1>2

(* A tag that is read is one of the list.                                   *)
LEMMA ReadsClosed ==
  ASSUME Upwards, tag \in Nat \ {0}, tag \in DOMAIN mbi \/ AtEnd, NEW g, Reads(tag, g),
         \A S \in SUBSET Nat : IsClosed(S) => DOMAIN mbi \cup {tag} \subseteq S,
         \/ tag' = tag \/ tag' = 1
         \/ g.type # "END" /\ tag' = NextMbiTag(tag, g)
  PROVE  \A S \in SUBSET Nat : IsClosed(S)' => DOMAIN mbi' \cup {tag'} \subseteq S
<1>1. SUFFICES ASSUME NEW S \in SUBSET Nat, IsClosed(S)'
               PROVE  DOMAIN mbi' \cup {tag'} \subseteq S
  OBVIOUS
<1>2. /\ DOMAIN mbi' = DOMAIN mbi \cup {tag} /\ mbi'[tag] = g
      /\ \A u \in DOMAIN mbi : mbi'[u] = mbi[u]
  BY ReadsOn
<1>3. 1 \in S /\ \A u \in S \cap DOMAIN mbi' : mbi'[u].type # "END" => NextMbiTag(u, mbi'[u]) \in S
  BY <1>1 DEF IsClosed
<1>4. IsClosed(S)
  BY <1>2, <1>3 DEF IsClosed
<1>5. DOMAIN mbi' \subseteq S /\ tag \in S
  BY <1>2, <1>4
<1> QED
  BY <1>2, <1>3, <1>5

(* The walks of skl_multiboot2() read a list, which grows at its end.       *)
LEMMA MbiSteps ==
  ASSUME PcInv, ImageInv, MbiInv, MbiNext
  PROVE  MbiInv'
<1> USE DEF Goto
<1>0. /\ Upwards /\ mods \in Seq(Nat) /\ mbi_len \in Nat /\ ~Found /\ protocol = "LINUX_BOOT"
      /\ pc \in Multi
  <2>1. pc \in Multi
    BY DEF MbiNext, MeasureMbi, FindKernel, MeasureKernel, MeasureModule, CheckMbi, Multi
  <2>2. ~Found
    BY <2>1 DEF Found, Multi, Leaving
  <2>3. protocol = "LINUX_BOOT"
    BY <2>1, <2>2 DEF ImageInv, PcInv, Multi
  <2> QED
    BY <2>1, <2>2, <2>3 DEF MbiInv
<1>1. CASE MeasureMbi
  <2>1. /\ pc = "skl_multiboot2" /\ pc' = "find_kernel" /\ tag' = 1 /\ UNCHANGED <<mbi, mods, protocol>>
        /\ mbi_len' \in Nat
    BY <1>1, MultibootAssumption DEF MeasureMbi
  <2>2. DOMAIN mbi = {} /\ mods = <<>>
    BY <1>0, <2>1 DEF MbiInv
  <2>3. Upwards' /\ AtEnd'
    BY <1>0, <2>1, <2>2 DEF Upwards, AtEnd
  <2>4. \A S \in SUBSET Nat : IsClosed(S)' => DOMAIN mbi' \cup {tag'} \subseteq S
    BY <2>1, <2>2 DEF IsClosed
  <2> QED
    BY <1>0, <2>1, <2>2, <2>3, <2>4 DEF MbiInv
<1>2. ASSUME NEW g, Reads(tag, g), pc \in {"find_kernel", "modules"}
      PROVE  /\ Upwards' /\ tag \in Nat \ {0}
             /\ DOMAIN mbi' = DOMAIN mbi \cup {tag} /\ mbi'[tag] = g /\ g.size \in Nat
             /\ \A u \in DOMAIN mbi : mbi'[u] = mbi[u]
             /\ tag \in DOMAIN mbi \/ AtEnd
             /\ tag \in DOMAIN mbi \/ \A u \in DOMAIN mbi' : u <= tag
             /\ \A S \in SUBSET Nat : IsClosed(S) => DOMAIN mbi \cup {tag} \subseteq S
  <2>1. /\ tag \in Nat \ {0} /\ (tag \in DOMAIN mbi \/ AtEnd)
        /\ \A S \in SUBSET Nat : IsClosed(S) => DOMAIN mbi \cup {tag} \subseteq S
    BY <1>2 DEF MbiInv
  <2>2. /\ Upwards' /\ DOMAIN mbi' = DOMAIN mbi \cup {tag} /\ mbi'[tag] = g
        /\ \A u \in DOMAIN mbi : mbi'[u] = mbi[u]
        /\ tag \in DOMAIN mbi \/ \A u \in DOMAIN mbi' : u <= tag
    BY <1>0, <1>2, <2>1, ReadsOn
  <2>3. g.size \in Nat
    BY <2>2 DEF Upwards
  <2> QED
    BY <2>1, <2>2, <2>3
<1>3. CASE FindKernel
  <2>1. PICK g : /\ g.type # "END" /\ Reads(tag, g) /\ tag' = NextMbiTag(tag, g)
    BY <1>3 DEF FindKernel
  <2>2. /\ pc = "find_kernel" /\ pc' = "find_kernel" /\ UNCHANGED <<mods, mbi_len, protocol>>
        /\ mods = <<>>
    BY <1>0, <1>3 DEF FindKernel, MbiInv
  <2>3. AtEnd'
    <3>1. ASSUME NEW u \in DOMAIN mbi', u = tag PROVE Last(u)'
      <4>1. CASE \A v \in DOMAIN mbi' : v <= tag
        BY <3>1, <4>1 DEF Last
      <4>2. CASE tag \in DOMAIN mbi
        <5>1. AtEnd /\ \A v \in DOMAIN mbi : v \in Nat /\ mbi[v].size \in Nat
          BY <1>0, <2>2 DEF MbiInv, Upwards
        <5>2. PICK w \in DOMAIN mbi : Last(w) /\ Next8(w) = tag
          BY <4>2, <5>1 DEF AtEnd
        <5>3. w <= tag /\ tag <= w /\ w \in Nat /\ tag \in Nat
          BY <4>2, <5>1, <5>2, NextIsUp DEF Next8, Last
        <5>4. w = tag
          BY <5>3
        <5>5. DOMAIN mbi' = DOMAIN mbi
          BY <1>2, <2>1, <2>2, <4>2
        <5> QED
          BY <3>1, <5>2, <5>4, <5>5 DEF Last
      <4> QED
        BY <1>2, <2>1, <2>2, <4>1, <4>2
    <3>2. tag \in DOMAIN mbi' /\ mbi'[tag] = g
      BY <1>2, <2>1, <2>2
    <3>3. \A u : u = tag => Next8(u)' = tag'
      BY <2>1, <3>2 DEF Next8
    <3>4. \E u \in DOMAIN mbi' : Last(u)' /\ mbi'[u].type # "END" /\ Next8(u)' = tag'
      BY <2>1, <3>1, <3>2, <3>3
    <3> QED
      BY <3>4 DEF AtEnd
  <2>4. tag' \in Nat \ {0}
    <3>1. tag \in Nat \ {0} /\ g.size \in Nat
      BY <1>2, <2>1, <2>2
    <3>2. tag' \in Nat /\ tag' >= tag
      BY <2>1, <3>1, NextIsUp
    <3> QED
      BY <3>1, <3>2
  <2>5. \A S \in SUBSET Nat : IsClosed(S)' => DOMAIN mbi' \cup {tag'} \subseteq S
    BY <1>0, <1>2, <2>1, <2>2, ReadsClosed
  <2>6. Upwards'
    BY <1>2, <2>1, <2>2
  <2> QED
    BY <1>0, <2>2, <2>3, <2>4, <2>5, <2>6 DEF MbiInv
<1>4. CASE MeasureKernel
  <2>1. PICK g : Reads(tag, g)
    BY <1>4 DEF MeasureKernel, EndsFirstLoop
  <2>2. /\ pc = "find_kernel" /\ pc' = "modules" /\ tag' = 1
        /\ UNCHANGED <<mods, mbi_len, protocol>>
    BY <1>4 DEF MeasureKernel
  <2>3. Upwards' /\ 1 \in DOMAIN mbi'
    <3>1. Upwards' /\ DOMAIN mbi' # {}
      BY <1>2, <2>1, <2>2
    <3> QED
      BY <3>1 DEF Upwards
  <2>4. \A S \in SUBSET Nat : IsClosed(S)' => DOMAIN mbi' \cup {tag'} \subseteq S
    BY <1>0, <1>2, <2>1, <2>2, ReadsClosed
  <2> QED
    BY <1>0, <2>2, <2>3, <2>4 DEF MbiInv
<1>5. CASE MeasureModule
  <2>1. PICK g : /\ g.type # "END" /\ Reads(tag, g) /\ tag' = NextMbiTag(tag, g)
                 /\ mods' = IF g.type = "MODULE" /\ Len(mods) <= MbiTop THEN Append(mods, tag) ELSE mods
    BY <1>5 DEF MeasureModule
  <2>2. /\ pc = "modules" /\ pc' = "modules" /\ UNCHANGED <<mbi_len, protocol>>
        /\ 1 \in DOMAIN mbi
    BY <1>5 DEF MeasureModule, MbiInv
  <2>3. Upwards' /\ 1 \in DOMAIN mbi' /\ tag \in Nat \ {0} /\ g.size \in Nat
        /\ tag \in DOMAIN mbi' /\ mbi'[tag] = g
    BY <1>2, <2>1, <2>2
  <2>4. tag' \in Nat \ {0}
    <3>1. tag' \in Nat /\ tag' >= tag
      BY <2>1, <2>3, NextIsUp
    <3> QED
      BY <2>3, <3>1
  <2>5. tag' \in DOMAIN mbi' \/ AtEnd'
    <3>1. \A u : u = tag => Next8(u)' = tag'
      BY <2>1, <2>3 DEF Next8
    <3>2. \A u \in DOMAIN mbi' : mbi'[u].type # "END" => Next8(u)' \in DOMAIN mbi' \/ Last(u)'
      BY <2>3 DEF Upwards
    <3>3. ASSUME NEW u \in DOMAIN mbi', u = tag
          PROVE  tag' \in DOMAIN mbi' \/ AtEnd'
      <4>1. Next8(u)' = tag' /\ mbi'[u].type # "END"
        BY <2>1, <2>3, <3>1, <3>3
      <4>2. tag' \in DOMAIN mbi' \/ Last(u)'
        BY <3>2, <4>1
      <4> QED
        BY <4>1, <4>2 DEF AtEnd
    <3> QED
      BY <2>3, <3>3
  <2>6. \A S \in SUBSET Nat : IsClosed(S)' => DOMAIN mbi' \cup {tag'} \subseteq S
    BY <1>0, <1>2, <2>1, <2>2, ReadsClosed
  <2>7. mods' \in Seq(Nat)
    BY <1>0, <2>1, <2>3
  <2> QED
    BY <1>0, <2>2, <2>3, <2>4, <2>5, <2>6, <2>7 DEF MbiInv
<1>6. CASE CheckMbi
  <2>1. PICK g : Reads(tag, g)
    BY <1>6 DEF CheckMbi
  <2>2. /\ pc = "modules" /\ UNCHANGED <<tag, mods, mbi_len>>
        /\ \/ pc' = "dump" /\ protocol' = "MULTIBOOT2"
           \/ pc' = "reboot" /\ protocol' = protocol
    BY <1>6 DEF CheckMbi
  <2>3. Upwards' /\ tag' \in Nat \ {0}
    BY <1>2, <2>1, <2>2
  <2>4. \A S \in SUBSET Nat : IsClosed(S)' => DOMAIN mbi' \cup {tag'} \subseteq S
    BY <1>0, <1>2, <2>1, <2>2, ReadsClosed
  <2> QED
    BY <1>0, <2>2, <2>3, <2>4 DEF MbiInv, Found
<1> QED
  BY <1>1, <1>3, <1>4, <1>5, <1>6 DEF MbiNext

(* Nobody else touches the list.                                            *)
LEMMA NextMbi ==
  ASSUME PcInv, ImageInv, MbiInv, [Next]_vars
  PROVE  MbiInv'
<1>1. ASSUME UNCHANGED <<protocol, mbivars>>, pc' \notin {"find_kernel", "modules"},
             Found => Found' \/ pc' = "lost" \/ pc' = "reboot",
             pc \notin {"find_kernel", "modules", "reboot", "lost"} \/ pc' = pc
      PROVE  MbiInv'
  <2>1. UNCHANGED <<mbi, tag, mbi_len, mods, protocol>>
    BY <1>1 DEF mbivars
  <2>2. Upwards' /\ \A S \in SUBSET Nat : IsClosed(S)' = IsClosed(S)
    BY <2>1 DEF MbiInv, Upwards, Next8, Last, IsClosed
  <2> QED
    BY <1>1, <2>1, <2>2 DEF MbiInv
<1>2. CASE UNCHANGED vars
  <2>1. UNCHANGED <<pc, back, mbi, tag, mbi_len, mods, protocol>>
    BY <1>2 DEF vars, mbivars, tagvars, walking
  <2> QED
    BY <2>1 DEF MbiInv, Upwards, Next8, Last, IsClosed, AtEnd, Found
<1>3. CASE EntryNext /\ UNCHANGED <<tagvars, imagevars, mbivars>>
  BY <1>1, <1>3, EntrySteps DEF Found, Entering, Leaving
<1>4. CASE TagsNext /\ UNCHANGED <<protocol, cpu, imagevars, mbivars>>
  <2>1. /\ pc \notin {"find_kernel", "modules", "reboot", "lost"}
        /\ pc' \notin {"find_kernel", "modules"} /\ (Found => Found' \/ pc' = "lost" \/ pc' = "reboot")
    BY <1>4, TagsSteps DEF Finding
  <2> QED
    BY <1>1, <1>4, <2>1
<1>5. CASE ImageNext /\ UNCHANGED <<protocol, cpu, tagvars, mbivars>>
  <2>1. /\ pc \in Linux /\ pc' \in (Linux \ {"skl_linux"}) \cup {"dump", "reboot"}
    BY <1>5 DEF ImageNext, GetKernelInfo, GetMleHeader, GetKernelEntry, MeasureImage, Follow, Goto,
                Linux
  <2>2. ~Found
    BY <2>1 DEF Found, Linux, Leaving
  <2> QED
    BY <1>1, <1>5, <2>1, <2>2 DEF Linux
<1>6. CASE CheckCanary
  BY <1>1, <1>6 DEF CheckCanary, Goto, Found, Leaving
<1> QED
  BY <1>2, <1>3, <1>4, <1>5, <1>6, MbiSteps, Kinds

-----------------------------------------------------------------------------
(* What appending does to a sequence, element by element.                   *)
LEMMA Appended ==
  ASSUME NEW S, NEW s \in Seq(S), NEW e \in S
  PROVE  /\ Append(s, e) \in Seq(S) /\ Len(Append(s, e)) = Len(s) + 1 /\ Len(s) \in Nat
         /\ DOMAIN s = 1 .. Len(s) /\ DOMAIN Append(s, e) = 1 .. Len(s) + 1
         /\ \A i \in DOMAIN s : Append(s, e)[i] = s[i]
         /\ Append(s, e)[Len(s) + 1] = e
  OBVIOUS

\* The walk has run into a tag that is its own successor.
Stuck8 == tag \in DOMAIN mbi /\ mbi[tag].type # "END" /\ Next8(tag) = tag

(* The modules before the tag that is looked at are the ones measured.      *)
Pass ==
  /\ Len(mods) < tag
  /\ \A i, j \in DOMAIN mods : i < j => mods[i] < mods[j]
  /\ {mods[i] : i \in DOMAIN mods} = {u \in DOMAIN mbi : u < tag /\ mbi[u].type = "MODULE"}

(* One more module is measured, if the tag is one.                          *)
LEMMA PassOn ==
  ASSUME PcInv, ImageInv, MbiInv, MbiInv', MeasureModule, ~Stuck8, Pass
  PROVE  Stuck8' \/ Pass'
<1>1. PICK g : /\ g.type # "END" /\ Reads(tag, g) /\ tag' = NextMbiTag(tag, g)
               /\ mods' = IF g.type = "MODULE" /\ Len(mods) <= MbiTop THEN Append(mods, tag) ELSE mods
  BY DEF MeasureModule
<1>2. pc = "modules"
  BY DEF MeasureModule, Goto
<1>3. Upwards /\ Upwards' /\ mods \in Seq(Nat) /\ tag \in Nat \ {0} /\ MbiTop \in Nat
  BY <1>2, MultibootAssumption DEF MbiInv
<1>4. /\ DOMAIN mbi' = DOMAIN mbi \cup {tag} /\ mbi'[tag] = g
      /\ \A u \in DOMAIN mbi : mbi'[u] = mbi[u]
  BY <1>1, <1>2, <1>3, ReadsOn DEF MbiInv
<1>5. tag' \in Nat /\ tag' >= tag
  <2>1. g.size \in Nat
    BY <1>3, <1>4 DEF Upwards
  <2> QED
    BY <1>1, <1>3, <2>1, NextIsUp
<1>6. CASE tag' = tag
  <2>1. \A u : u = tag => Next8(u)' = tag'
    BY <1>1, <1>4 DEF Next8
  <2>2. Stuck8'
    BY <1>1, <1>4, <1>6, <2>1 DEF Stuck8
  <2> QED
    BY <2>2
<1>7. CASE tag' # tag
  <2>1. tag < tag'
    BY <1>3, <1>5, <1>7
  <2>2. \A u \in DOMAIN mbi' : u < tag' <=> u <= tag
    <3>0. \A u \in DOMAIN mbi' : u \in Nat
      BY <1>3 DEF Upwards
    <3>1. SUFFICES ASSUME NEW u \in DOMAIN mbi', tag < u PROVE tag' <= u
      BY <1>3, <1>5, <2>1, <3>0
    <3>2. \A v \in DOMAIN mbi' : v < u => Next8(v)' <= u
      BY <1>3 DEF Upwards
    <3>3. \A v : v = tag => Next8(v)' = tag'
      BY <1>1, <1>4 DEF Next8
    <3> QED
      BY <1>4, <3>1, <3>2, <3>3
  <2>3. {u \in DOMAIN mbi' : u < tag' /\ mbi'[u].type = "MODULE"}
        = {u \in DOMAIN mbi : u < tag /\ mbi[u].type = "MODULE"}
          \cup (IF g.type = "MODULE" THEN {tag} ELSE {})
    <3>1. ASSUME NEW u \in DOMAIN mbi'
          PROVE  u < tag' <=> u = tag \/ (u \in DOMAIN mbi /\ u < tag)
      <4>1. u \in Nat
        BY <1>3 DEF Upwards
      <4> QED
        BY <1>3, <1>4, <2>2, <4>1
    <3> QED
      BY <1>3, <1>4, <3>1
  <2>4. \A i \in DOMAIN mods : mods[i] < tag /\ mods[i] \in Nat
    BY <1>3 DEF Pass, Upwards
  <2>5. CASE g.type = "MODULE"
    <3>1. tag <= MbiTop
      BY <1>3, <1>4, <2>5 DEF Upwards
    <3>2. mods' = Append(mods, tag)
      BY <1>1, <1>3, <2>5, <3>1 DEF Pass
    <3>3. /\ Len(mods') = Len(mods) + 1 /\ Len(mods) \in Nat
          /\ DOMAIN mods = 1 .. Len(mods) /\ DOMAIN mods' = 1 .. Len(mods) + 1
          /\ \A i \in DOMAIN mods : mods'[i] = mods[i]
          /\ mods'[Len(mods) + 1] = tag
      BY <1>3, <3>2, Appended
    <3>4. Len(mods') < tag'
      BY <1>3, <1>5, <2>1, <3>3 DEF Pass
    <3>5. \A i, j \in DOMAIN mods' : i < j => mods'[i] < mods'[j]
      <4>1. SUFFICES ASSUME NEW i \in DOMAIN mods', NEW j \in DOMAIN mods', i < j
                     PROVE  mods'[i] < mods'[j]
        OBVIOUS
      <4>2. i \in DOMAIN mods
        BY <3>3, <4>1
      <4>3. CASE j \in DOMAIN mods
        BY <3>3, <4>1, <4>2, <4>3 DEF Pass
      <4>4. CASE j = Len(mods) + 1
        BY <2>4, <3>3, <4>2, <4>4
      <4> QED
        BY <3>3, <4>3, <4>4
    <3>6. {mods'[i] : i \in DOMAIN mods'} = {mods[i] : i \in DOMAIN mods} \cup {tag}
      <4>1. DOMAIN mods' = DOMAIN mods \cup {Len(mods) + 1}
        BY <3>3
      <4> QED
        BY <3>3, <4>1
    <3> QED
      BY <2>3, <2>5, <3>4, <3>5, <3>6 DEF Pass
  <2>6. CASE g.type # "MODULE"
    <3>1. mods' = mods
      BY <1>1, <2>6
    <3>2. Len(mods') < tag'
      BY <1>3, <1>5, <2>1, <3>1 DEF Pass
    <3> QED
      BY <2>3, <2>6, <3>1, <3>2 DEF Pass
  <2> QED
    BY <2>5, <2>6
<1> QED
  BY <1>6, <1>7

(* The end of the second walk is the end of the list, so that none of its   *)
(* modules is left out.                                                     *)
LEMMA PassDone ==
  ASSUME PcInv, ImageInv, MbiInv, MbiInv', CheckMbi, Stuck8 \/ Pass
  PROVE  ModulesOnce'
<1>1. PICK g : /\ g.type = "END" /\ Reads(tag, g)
               /\ IF g.size = 8 /\ 8 * NextMbiTag(tag, g) <= mbi_len
                  THEN Goto("modules", "dump") /\ protocol' = "MULTIBOOT2"
                  ELSE Goto("modules", "reboot") /\ UNCHANGED protocol
  BY DEF CheckMbi
<1>2. pc = "modules" /\ UNCHANGED <<tag, mods, mbi_len>>
  BY DEF CheckMbi, Goto
<1>3. SUFFICES ASSUME protocol' = "MULTIBOOT2"
               PROVE  /\ {mods[i] : i \in DOMAIN mods} = {u \in List' : mbi'[u].type = "MODULE"}
                      /\ \A i, j \in DOMAIN mods : i < j => mods[i] < mods[j]
                      /\ \A u \in List' : 8 * NextMbiTag(u, mbi'[u]) <= mbi_len
  BY <1>2 DEF ModulesOnce
<1>4. 8 * NextMbiTag(tag, g) <= mbi_len
  <2>1. protocol = "LINUX_BOOT"
    BY <1>2 DEF ImageInv, PcInv, Found, Leaving
  <2> QED
    BY <1>1, <1>3, <2>1
<1>5. Upwards /\ Upwards' /\ tag \in Nat \ {0} /\ mbi_len \in Nat
  BY <1>2 DEF MbiInv
<1>6. /\ DOMAIN mbi' = DOMAIN mbi \cup {tag} /\ mbi'[tag] = g
      /\ \A u \in DOMAIN mbi : mbi'[u] = mbi[u]
  BY <1>1, <1>2, <1>5, ReadsOn DEF MbiInv
<1>7. List' = DOMAIN mbi'
  <2>1. DOMAIN mbi' \cup {tag'} \subseteq Nat
    BY <1>2, <1>5 DEF Upwards
  <2>2. \A S \in SUBSET Nat : IsClosed(S)' => DOMAIN mbi' \cup {tag'} \subseteq S
    BY <1>3 DEF MbiInv
  <2>3. \A S \in SUBSET (DOMAIN mbi' \cup {tag'}) : S \in SUBSET Nat
    BY <2>1
  <2> QED
    BY <2>2, <2>3 DEF List
<1>8. Pass
  <2>1. ~Stuck8
    BY <1>1, <1>6 DEF Stuck8
  <2> QED
    BY <2>1
<1>9. \A u \in DOMAIN mbi' : u \in Nat /\ u <= tag
  <2>1. \A u \in DOMAIN mbi' : u \in Nat
    BY <1>5 DEF Upwards
  <2>2. \A u \in DOMAIN mbi' : ~(tag < u)
    BY <1>1, <1>5, <1>6 DEF Upwards
  <2> QED
    BY <1>5, <2>1, <2>2
<1>10. {u \in DOMAIN mbi' : mbi'[u].type = "MODULE"}
       = {u \in DOMAIN mbi : u < tag /\ mbi[u].type = "MODULE"}
  <2>1. ASSUME NEW u \in DOMAIN mbi'
        PROVE  u = tag \/ (u \in DOMAIN mbi /\ u < tag)
    BY <1>5, <1>6, <1>9
  <2>2. \A u \in DOMAIN mbi : u < tag => u # tag
    BY <1>5
  <2> QED
    BY <1>1, <1>6, <2>1, <2>2
<1>11. \A u \in DOMAIN mbi' : 8 * NextMbiTag(u, mbi'[u]) <= mbi_len
  <2>1. SUFFICES ASSUME NEW u \in DOMAIN mbi' PROVE 8 * NextMbiTag(u, mbi'[u]) <= mbi_len
    OBVIOUS
  <2>2. CASE u = tag
    BY <1>4, <1>6, <2>2
  <2>3. CASE u # tag
    <3>1. u < tag
      BY <1>5, <1>9, <2>3
    <3>2. Next8(u)' <= tag
      BY <1>5, <1>6, <3>1 DEF Upwards
    <3>3. /\ NextMbiTag(u, mbi'[u]) \in Nat /\ NextMbiTag(u, mbi'[u]) <= tag
          /\ NextMbiTag(tag, g) \in Nat /\ NextMbiTag(tag, g) >= tag
      BY <1>5, <1>6, <1>9, <3>2, NextIsUp DEF Upwards, Next8
    <3> QED
      BY <1>4, <1>5, <3>3
  <2> QED
    BY <2>2, <2>3
<1> QED
  BY <1>7, <1>8, <1>10, <1>11 DEF Pass

(* The modules that are measured, through every step.                       *)
LEMMA NextMods ==
  ASSUME PcInv, ImageInv, MbiInv, ModsInv, [Next]_vars
  PROVE  ModsInv'
<1>0. MbiInv'
  BY NextMbi
<1>1. ModulesOnce /\ (pc = "modules" => Stuck8 \/ Pass)
  BY DEF ModsInv, Stuck8, Pass
<1>2. SUFFICES ModulesOnce' /\ (pc' = "modules" => Stuck8' \/ Pass')
  BY DEF ModsInv, Stuck8, Pass
<1>3. CASE UNCHANGED <<pc, protocol, mbivars>>
  BY <1>1, <1>3 DEF mbivars, ModulesOnce, List, IsClosed, Stuck8, Pass, Next8
<1>4. ASSUME UNCHANGED <<protocol, mbivars>>, pc' # "modules"
      PROVE  ModulesOnce' /\ (pc' = "modules" => Stuck8' \/ Pass')
  BY <1>1, <1>4 DEF mbivars, ModulesOnce, List, IsClosed
<1>5. CASE MeasureModule
  <2>1. pc = "modules" /\ UNCHANGED protocol
    BY <1>5 DEF MeasureModule, Goto
  <2>2. ModulesOnce'
    <3>1. protocol = "LINUX_BOOT"
      BY <2>1 DEF ImageInv, PcInv, Found, Leaving
    <3> QED
      BY <2>1, <3>1 DEF ModulesOnce
  <2>3. CASE ~Stuck8
    BY <1>0, <1>1, <1>5, <2>1, <2>2, <2>3, PassOn
  <2>4. CASE Stuck8
    <3>1. PICK g : /\ g.type # "END" /\ Reads(tag, g) /\ tag' = NextMbiTag(tag, g)
      BY <1>5 DEF MeasureModule
    <3>2. g = mbi[tag] /\ tag' = tag
      BY <2>4, <3>1 DEF Reads, Tags, Stuck8, Next8
    <3>3. DOMAIN mbi' = DOMAIN mbi \cup {tag} /\ mbi'[tag] = g
      BY <3>1 DEF Reads, Learn
    <3> QED
      BY <2>2, <3>1, <3>2, <3>3 DEF Stuck8, Next8
  <2> QED
    BY <2>3, <2>4
<1>6. CASE CheckMbi
  <2>1. pc = "modules" /\ pc' # "modules"
    BY <1>6 DEF CheckMbi, Goto
  <2> QED
    BY <1>0, <1>1, <1>6, <2>1, PassDone
<1>7. CASE MeasureMbi \/ FindKernel \/ MeasureKernel
  <2>1. pc \in {"skl_multiboot2", "find_kernel"} /\ protocol' = protocol
    BY <1>7 DEF MeasureMbi, FindKernel, MeasureKernel, Goto
  <2>2. ModulesOnce'
    <3>1. protocol = "LINUX_BOOT"
      BY <2>1 DEF ImageInv, PcInv, Found, Leaving
    <3> QED
      BY <2>1, <3>1 DEF ModulesOnce
  <2>3. pc' = "modules" => Pass'
    <3>1. SUFFICES ASSUME MeasureKernel PROVE Pass'
      BY <1>7 DEF MeasureMbi, FindKernel, Goto
    <3>2. mods = <<>> /\ mods' = mods /\ tag' = 1
      BY <2>1, <3>1 DEF MeasureKernel, MbiInv, Found, Leaving, Goto
    <3>3. \A u \in DOMAIN mbi' : ~(u < 1)
      BY <1>0 DEF MbiInv, Upwards
    <3> QED
      BY <3>2, <3>3 DEF Pass
  <2> QED
    BY <2>2, <2>3
<1>8. CASE (EntryNext \/ TagsNext \/ ImageNext \/ CheckCanary) /\ UNCHANGED <<protocol, mbivars>>
  <2>1. pc' # "modules"
    BY <1>8, EntrySteps, TagsSteps
       DEF Entering, Leaving, Finding, ImageNext, GetKernelInfo, GetMleHeader, GetKernelEntry,
           MeasureImage, Follow, CheckCanary, Goto
  <2> QED
    BY <1>4, <1>8, <2>1
<1> QED
  BY <1>3, <1>5, <1>6, <1>7, <1>8, Kinds, EntrySteps DEF MbiNext, vars, CheckCanary
-----------------------------------------------------------------------------
(* SKINIT leaves everything at its start.                                   *)
LEMMA InitBoot == Init => PcInv /\ CpuInv /\ ResultInv /\ ImageInv /\ ChainInv /\ MbiInv /\ ModsInv
<1> SUFFICES ASSUME Init
             PROVE  PcInv /\ CpuInv /\ ResultInv /\ ImageInv /\ ChainInv /\ MbiInv /\ ModsInv
  OBVIOUS
<1> USE DEF Init, EntryInit, TagsInit, ImageInit, MbiInit
<1>1. pc = "entry" /\ protocol = "LINUX_BOOT" /\ ~Found
  BY DEF Found, Leaving
<1>2. PcInv
  BY <1>1 DEF PcInv, Entering
<1>3. CpuInv
  BY DEF CpuInv, SkinitState, Values, Entering, In64, InC, Finding, Linux, Multi
<1>4. ResultInv
  BY <1>1 DEF ResultInv
<1>5. ImageInv
  BY <1>1 DEF ImageInv
<1>6. ChainInv
  <2>1. DOMAIN tags = {} /\ tags \in [DOMAIN tags -> Header]
    OBVIOUS
  <2>2. size \in Nat /\ t \in Nat /\ ~valid /\ valid \in BOOLEAN
    BY TagsAssumption DEF NULL
  <2> QED
    BY <1>1, <2>1, <2>2 DEF ChainInv, Unchecked, Entering
<1>7. MbiInv
  BY <1>1 DEF MbiInv, Upwards
<1>8. ModsInv
  BY <1>1 DEF ModsInv, ModulesOnce
<1> QED
  BY <1>2, <1>3, <1>4, <1>5, <1>6, <1>7, <1>8

(* All of it holds all the way, on whichever way is taken.                  *)
THEOREM BootInvariance ==
  Spec => [](PcInv /\ CpuInv /\ ResultInv /\ ImageInv /\ ChainInv /\ MbiInv /\ ModsInv)
<1>1. PcInv /\ CpuInv /\ ResultInv /\ ImageInv /\ ChainInv /\ MbiInv /\ ModsInv /\ [Next]_vars
      => (PcInv /\ CpuInv /\ ResultInv /\ ImageInv /\ ChainInv /\ MbiInv /\ ModsInv)'
  BY NextPc, NextCpu, NextResult, NextImage, NextChain, NextMbi, NextMods
<1> QED
  BY <1>1, InitBoot, PTL DEF Spec

(* No instruction of head.S is one that the CPU faults on, on the way in    *)
(* and out, whatever happened in between.                                   *)
THEOREM SwitchesAreLegal == Spec => LegalSwitches
<1>1. PcInv /\ CpuInv /\ [Next]_vars
      => [LegalStep(cpu, cpu') /\ (cpu.idt = "empty" => cpu'.idt = "empty")]_cpu
  BY NextCpu
<1> QED
  BY <1>1, BootInvariance, PTL DEF Spec, LegalSwitches

(* The kernel is entered as its protocol asks for, at an address in what    *)
(* was measured: for every zero page, with sums of any width.               *)
THEOREM KernelIsEntered == Spec => []KernelEntered
<1>1. PcInv /\ CpuInv /\ ResultInv /\ ImageInv => KernelEntered
  <2>1. SUFFICES ASSUME PcInv, CpuInv, ResultInv, ImageInv, pc = "kernel"
                 PROVE  KernelEntered
    BY DEF KernelEntered
  <2>2. /\ ~cpu.pg /\ ~cpu.pae /\ ~cpu.lme /\ cpu.cs = "cs32" /\ cpu.ds = "flat"
        /\ cpu.idt = "empty" /\ cpu.flags = "clear"
    BY <2>1 DEF CpuInv, Entering, In64, InC, Finding, Linux, Multi
  <2>3. protocol = "LINUX_BOOT" =>
          /\ cpu.bx = "entry" /\ cpu.si = "zero_page" /\ cpu.dx = "base"
          /\ mle_entry >= kernel.from /\ mle_entry < kernel.from + kernel.len
    BY <2>1 DEF ResultInv, ImageInv, Found, Leaving, Inside
  <2>4. protocol = "MULTIBOOT2" =>
          /\ cpu.si = "entry" /\ cpu.bx = "mbi" /\ cpu.ax = "magic"
          /\ kernel_entry = measured.from
    BY <2>1 DEF ResultInv, ImageInv
  <2> QED
    BY <2>2, <2>3, <2>4 DEF KernelEntered
<1> QED
  BY <1>1, BootInvariance, PTL

(* After skl_main()'s checks no walk leaves the list, and every tag that is *)
(* acted upon lies in the measured data: for data of any size, and lists of *)
(* any tags of any length, zero included.                                   *)
THEOREM TagsAreMeasured == Spec => []ActsOnMeasured
<1>1. ChainInv => ActsOnMeasured
  <2>1. SUFFICES ASSUME ChainInv PROVE ActsOnMeasured
    OBVIOUS
  <2>2. CASE ~valid
    BY <2>1, <2>2 DEF ChainInv, ActsOnMeasured
  <2>3. CASE valid
    <3>1. Complete
      BY <2>1, <2>3 DEF ChainInv
    <3>2. \A a \in DOMAIN tags : a >= Data /\ a + tags[a].len <= EndOfTags
      <4>1. SUFFICES ASSUME NEW a \in DOMAIN tags
                     PROVE  a >= Data /\ a + tags[a].len <= EndOfTags
        OBVIOUS
      <4>2. tags[a] \in Header /\ a \in Data .. SlbEnd - 1
        BY <2>1 DEF ChainInv
      <4>3. tags[a].len \in Nat /\ Data \in Nat /\ SlbEnd \in Nat /\ EndOfTags \in Nat
        BY <2>1, <4>2, TagNumbers
      <4> QED
        BY <3>1, <4>2, <4>3 DEF Complete, Linked
    <3> QED
      BY <2>3, <3>1, <3>2 DEF Complete, ActsOnMeasured
  <2> QED
    BY <2>2, <2>3
<1> QED
  BY <1>1, BootInvariance, PTL

(* The kernel is handed an MBI all of whose modules were measured, once and *)
(* in order, whatever lists of whatever tags the bootloader made.           *)
THEOREM ModulesAreMeasuredOnce == Spec => []ModulesOnce
<1>1. ModsInv => ModulesOnce
  BY DEF ModsInv
<1> QED
  BY <1>1, BootInvariance, PTL
=============================================================================
