------------------------------ MODULE SklMain -------------------------------
(* The launch sequence of main.c, from skl_main() to the jump to the       *)
(* kernel: what is measured, in which order, into which PCR and the event  *)
(* log, and which checks end in a reboot.                                  *)
(*                                                                         *)
(* Three parties act. The CPU runs SKL. The TPM carries out commands, or   *)
(* fails to, and grants the localities it was asked for when it pleases:   *)
(* TpmTis and TpmCrb have the drivers' accesses, here a request and the    *)
(* look at its result are one step. Devices write to memory outside the    *)
(* SLB until the IOMMU stops them. The event log is module EventLog, extended here; iommu_setup() is *)
(* one step here, whose two outcomes module Iommu works out.               *)
EXTENDS EventLog, FiniteSets

CONSTANTS
  Boots,   \* bootloader data to consider, as records described by Boot, and
  MBIs,    \* multiboot information, as described by MBI: both for a TPM that
           \* is reliable and for one that is not
  ModText  \* length of a module's command line

Boot == [
  tags : BOOLEAN,  \* the tag list passes skl_main()'s sanity checks
  kind : {"linux", "mb2", "other", "none", "several"},  \* its boot-class tags
  entry : BOOLEAN,  \* SKL_TAG_BOOT_MB2 holds the kernel's entry point
  size : BOOLEAN]   \* and the kernel's size

MBI == [
  mods : Nat,      \* number of module tags
  base : BOOLEAN,  \* there is a load base address tag
  elf : BOOLEAN,   \* there is an ELF sections tag with a PROGBITS section
  safe : BOOLEAN]  \* the list ends in a proper end tag, within its size

\* What the kernel's memory may hold: kernels that pass the MLE checks, and
\* images without an MLE header or with an entry point outside of them.
GoodKernels == {"kernel", "other_kernel"}
Kernels == GoodKernels \cup {"no_MLE", "bad_entry"}

Pcrs == {17, 18}
BootDataText == 35  \* strlen("Measured bootloader data into PCR18")
KernelText == 26    \* strlen("Measured Kernel into PCR17")
MbiText == 23       \* strlen("Measured MBI into PCR18")

NoLocality == 255   \* TPM_NO_LOCALITY

ASSUME LaunchAssumption ==
  /\ \A r \in BOOLEAN : Boots[r] \subseteq Boot /\ MBIs[r] \subseteq MBI
  /\ {BootDataText, KernelText, MbiText, ModText} \subseteq Texts

VARIABLES
  pc,       \* where skl_main() and the functions it calls are
  stage,    \* and where extend_pcr() is: "sha1", "sha256" or "log"
  reliable, \* the TPM is found, grants locality 2 at once and obeys every command
  intf,     \* the TPM's interface: "TIS" or "CRB"
  boot,     \* the bootloader data, in the SLB
  kernel,   \* memory: what the kernel's image holds
  mbi,      \* memory: the multiboot information
  module,   \* memory: what the modules hold
  shield,   \* "DEV": only the SLB is protected; "IOMMU": all memory is
  buff,     \* tpm->buff is set: the TPM granted the locality
  locality, \* the static of tis.c or crb.c: the locality the driver uses
  active,   \* the TPM: the locality that has it
  wanted,   \* the TPM: localities that were requested and are not granted yet
  digest,   \* extend_pcr()'s hash and sha256_hash
  pcr,      \* the TPM: per bank and PCR, what it was extended with
  logged,   \* what the event log's records say
  refused,  \* an event was not logged
  entry,    \* pm_kernel_entry, or kernel_entry
  sized,    \* kernel_size is not 0
  mod       \* module tags passed by the module loop

memory == <<kernel, mbi, module>>
eventlog == <<family, phase, log>>
access == <<locality, active, wanted>>
tpm == <<buff, access, pcr>>
measuring == <<stage, digest, logged, refused>>
found == <<entry, sized, mod>>
inputs == <<reliable, intf, boot>>
launch == <<pc, inputs, memory, shield, tpm, measuring, found>>
lvars == <<launch, eventlog>>

Banks == IF family = TPM12 THEN {"SHA1"} ELSE Algos

\* A measurement: what is hashed, and what it held at the time.
M(what, content) == [what |-> what, content |-> content]
NoM == M("none", "none")

Goto(from, to) == pc = from /\ pc' = to

-----------------------------------------------------------------------------
(* skl_main() up to the choice of the kernel's boot protocol. *)

CheckTags ==
  /\ Goto("start", IF boot.tags THEN "enable" ELSE "reboot")
  /\ UNCHANGED <<inputs, memory, shield, tpm, measuring, found, eventlog>>

(* A driver asks for a locality and looks once whether it has it. The TIS  *)
(* driver gives up what it had before (tis.c:67); the CRB driver gives up  *)
(* locality 1 (crb.c:217), so that what it had stays active unless the TPM *)
(* lets the request take over. A request that is refused stays with the    *)
(* TPM.                                                                    *)
AskFor(l, granted) ==
  IF granted
  THEN locality' = l /\ active' = l /\ wanted' = {}
  ELSE /\ locality' = NoLocality
       /\ active' = IF intf = "TIS" THEN NoLocality ELSE active
       /\ wanted' = {l}

(* enable_tpm(), which takes locality 0. It fails if it does not get it, or *)
(* finds no vendor ID; its result is used unchecked.                       *)
EnableTpm ==
  /\ pc = "enable"
  /\ \E granted \in BOOLEAN :
       /\ reliable \/ active = 0 => granted
       /\ AskFor(0, granted)
       /\ \/ granted /\ pc' = "locality"
          \/ ~reliable /\ pc' = "crash"
  /\ UNCHANGED <<inputs, memory, shield, buff, pcr, measuring, found, eventlog>>

(* tpm_request_locality(tpm, 2): tpm->buff is set if it was granted.       *)
RequestLocality ==
  /\ Goto("locality", "event_log")
  /\ \E granted \in BOOLEAN :
       /\ reliable => granted
       /\ AskFor(2, granted)
       /\ buff' = granted
  /\ UNCHANGED <<inputs, memory, shield, pcr, measuring, found, eventlog>>

(* event_log_init(), which logs what SKINIT did as the first record.       *)
StartLog ==
  /\ \E c \in Containers, h \in SUBSET Algos : InitLog(c, h)
  /\ IF log'.ret = 0
     THEN /\ logged' = <<[pcr |-> 17, nth |-> 1,
                          digest |-> [a \in Algos |-> M("skl", "skl")]]>>
          /\ UNCHANGED refused
     ELSE /\ refused' = TRUE
          /\ UNCHANGED logged
  /\ UNCHANGED <<inputs, memory, shield, tpm, stage, digest, found>>

\* Variant: only the log is started, the boot data is not measured.
InitEventLogOnly == Goto("event_log", "boot_tag") /\ StartLog

InitEventLog == Goto("event_log", "bootdata") /\ StartLog

(* Exactly one boot tag, of a known type.                                  *)
ChooseProtocol ==
  /\ Goto("boot_tag", IF boot.kind \in {"linux", "mb2"} THEN "iommu" ELSE "reboot")
  /\ UNCHANGED <<inputs, memory, shield, tpm, measuring, found, eventlog>>

-----------------------------------------------------------------------------
(* What is hashed as the kernel: kernel_size bytes from kernel_entry on,   *)
(* neither of which need have been found.                                  *)
KernelData ==
  CASE ~sized -> M("nothing", "nothing")
    [] sized /\ entry = "null" -> M("low_memory", "memory")
    [] OTHER -> M("kernel", kernel)

(* extend_pcr(): what it is called with, by the place it is called from.   *)
Job ==
  CASE pc = "bootdata" -> [what |-> "boot_data", content |-> "tags", pcr |-> 18,
                           text |-> BootDataText, next |-> "boot_tag"]
    \* The address of skl_multiboot2()'s variable tag is passed, not its value.
    [] pc = "mbi" -> [what |-> "tag_pointer", content |-> "stack", pcr |-> 18,
                      text |-> MbiText, next |-> "find"]
    [] pc = "kernel" -> [what |-> KernelData.what, content |-> KernelData.content,
                         pcr |-> 17, text |-> KernelText,
                         next |-> IF boot.kind = "linux" THEN "release" ELSE "modules"]
    [] pc = "module" -> [what |-> "module", content |-> module, pcr |-> 17,
                         text |-> ModText, next |-> "modules"]

Extending == pc \in {"bootdata", "mbi", "kernel", "module"}

(* tpm_extend_pcr(), whose result extend_pcr() ignores.                    *)
TpmExtend(bank, value) ==
  \/ /\ buff
     /\ pcr' = [pcr EXCEPT ![bank][Job.pcr] = Append(@, value)]
  \/ /\ ~reliable
     /\ UNCHANGED pcr

ExtendSha1 ==
  /\ Extending /\ stage = "sha1"
  /\ digest' = [digest EXCEPT !["SHA1"] = M(Job.what, Job.content)]
  /\ TpmExtend("SHA1", digest'["SHA1"])
  /\ stage' = IF family = TPM12 THEN "log" ELSE "sha256"
  /\ UNCHANGED <<pc, inputs, memory, shield, buff, access, logged, refused, found, eventlog>>

\* Variant: the TPM 2.0 path extends the SHA-256 bank with the SHA-1 digest.
ExtendSha256Stale ==
  /\ Extending /\ stage = "sha256"
  /\ digest' = [digest EXCEPT !["SHA256"] = M(Job.what, Job.content)]
  /\ TpmExtend("SHA256", digest["SHA256"])
  /\ stage' = "log"
  /\ UNCHANGED <<pc, inputs, memory, shield, buff, access, logged, refused, found, eventlog>>

ExtendSha256 ==
  /\ Extending /\ stage = "sha256"
  /\ digest' = [digest EXCEPT !["SHA256"] = M(Job.what, Job.content)]
  /\ TpmExtend("SHA256", digest'["SHA256"])
  /\ stage' = "log"
  /\ UNCHANGED <<pc, inputs, memory, shield, buff, access, logged, refused, found, eventlog>>

\* Variant: only what can be logged at once is logged as extended.
LogModulesOnce ==
  /\ Extending /\ stage = "log"
  /\ IF pc = "module" /\ mod > 1
     THEN UNCHANGED <<eventlog, logged, refused>>
     ELSE /\ AddEvent(Job.text)
          /\ IF log'.ret = 0
             THEN /\ logged' = Append(logged, [pcr |-> Job.pcr, digest |-> digest,
                                               nth |-> Len(pcr["SHA1"][Job.pcr])])
                  /\ UNCHANGED refused
             ELSE /\ refused' = TRUE
                  /\ UNCHANGED logged
  /\ stage' = "sha1"
  /\ pc' = Job.next
  /\ UNCHANGED <<inputs, memory, shield, tpm, digest, found>>

(* log_event_tpm12() or log_event_tpm20(), whose result is ignored too.    *)
LogMeasurement ==
  /\ Extending /\ stage = "log"
  /\ AddEvent(Job.text)
  /\ IF log'.ret = 0
     THEN /\ logged' = Append(logged, [pcr |-> Job.pcr, digest |-> digest,
                                       nth |-> Len(pcr["SHA1"][Job.pcr])])
          /\ UNCHANGED refused
     ELSE /\ refused' = TRUE
          /\ UNCHANGED logged
  /\ stage' = "sha1"
  /\ pc' = Job.next
  /\ UNCHANGED <<inputs, memory, shield, tpm, digest, found>>

-----------------------------------------------------------------------------
(* skl_linux() *)

\* Variant: the kernel is checked and its entry point found before iommu_setup().
CheckBeforeIommu ==
  \/ /\ pc = "iommu" /\ boot.kind = "linux" /\ entry = "null"
     /\ kernel \in GoodKernels
     /\ entry' = kernel
     /\ sized' = TRUE
     /\ UNCHANGED <<pc, inputs, memory, shield, tpm, measuring, mod, eventlog>>
  \/ /\ Goto("iommu", IF boot.kind = "linux" THEN "kernel" ELSE "mbi")
     /\ boot.kind = "linux" => entry # "null"
     /\ shield' \in {"DEV", "IOMMU"}
     /\ UNCHANGED <<inputs, memory, tpm, measuring, found, eventlog>>

(* iommu_setup(): with an IOMMU all DMA is blocked, without one only the   *)
(* SLB stays protected.                                                    *)
SetupIommu ==
  /\ Goto("iommu", IF boot.kind = "linux" THEN "check" ELSE "mbi")
  /\ shield' \in {"DEV", "IOMMU"}
  /\ UNCHANGED <<inputs, memory, tpm, measuring, found, eventlog>>

(* The boot protocol version, kernel_info and the MLE header.              *)
CheckMle ==
  /\ Goto("check", IF kernel = "no_MLE" THEN "reboot" ELSE "stub")
  /\ UNCHANGED <<inputs, memory, shield, tpm, measuring, found, eventlog>>

(* The driver relinquishes its locality, which is nobody's if the last one *)
(* was refused: what the TPM granted or grants later is not given up then. *)
(* TIS forgets its locality, CRB does not.                                 *)
GiveUp ==
  /\ active' = IF active = locality THEN NoLocality ELSE active
  /\ locality' = IF intf = "TIS" THEN NoLocality ELSE locality
  /\ UNCHANGED wanted

\* Variant: the TPM is given up before the kernel is measured.
ReleaseThenMeasure ==
  /\ Goto("stub", IF kernel = "bad_entry" THEN "reboot" ELSE "kernel")
  /\ entry' = IF kernel = "bad_entry" THEN "null" ELSE kernel
  /\ sized' = TRUE
  /\ GiveUp
  /\ UNCHANGED <<inputs, memory, shield, buff, pcr, measuring, mod, eventlog>>

(* get_kernel_entry(): the entry point must lie in what will be measured.  *)
GetEntry ==
  /\ Goto("stub", IF kernel = "bad_entry" THEN "reboot" ELSE "kernel")
  /\ entry' = IF kernel = "bad_entry" THEN "null" ELSE kernel
  /\ sized' = TRUE
  /\ UNCHANGED <<inputs, memory, shield, tpm, measuring, mod, eventlog>>

\* Variant: only the command buffer is freed.
KeepLocality ==
  /\ Goto("release", "done") \/ Goto("done", "canary")
  /\ UNCHANGED <<inputs, memory, shield, tpm, measuring, found, eventlog>>

(* tpm_relinquish_locality() and free_tpm(), here and in skl_main(). Doing *)
(* it again changes nothing.                                               *)
Release ==
  /\ \/ Goto("release", "done")
     \/ Goto("done", "canary")
  /\ GiveUp
  /\ UNCHANGED <<inputs, memory, shield, buff, pcr, measuring, found, eventlog>>

-----------------------------------------------------------------------------
(* skl_multiboot2() *)

(* The first loop over the MBI, for what the boot tag does not hold.       *)
FindKernel ==
  /\ Goto("find", "kernel")
  /\ entry' = IF boot.entry \/ mbi.base THEN "base" ELSE "null"
  /\ sized' = (boot.size \/ mbi.elf)
  /\ UNCHANGED <<inputs, memory, shield, tpm, measuring, mod, eventlog>>

\* Variant: the loop stops before the last module.
NextModuleShort ==
  /\ pc = "modules"
  /\ IF mod + 1 < mbi.mods
     THEN pc' = "module" /\ mod' = mod + 1
     ELSE pc' = (IF mbi.safe THEN "done" ELSE "reboot") /\ UNCHANGED mod
  /\ UNCHANGED <<inputs, memory, shield, tpm, measuring, entry, sized, eventlog>>

(* The module loop, and the safety checks after it.                        *)
NextModule ==
  /\ pc = "modules"
  /\ IF mod < mbi.mods
     THEN pc' = "module" /\ mod' = mod + 1
     ELSE pc' = (IF mbi.safe THEN "done" ELSE "reboot") /\ UNCHANGED mod
  /\ UNCHANGED <<inputs, memory, shield, tpm, measuring, entry, sized, eventlog>>

-----------------------------------------------------------------------------
(* The stack canary: whether the stack sufficed is not modelled.           *)
CheckCanary ==
  /\ pc = "canary"
  /\ pc' \in {"handoff", "reboot"}
  /\ UNCHANGED <<inputs, memory, shield, tpm, measuring, found, eventlog>>

Ended == pc \in {"handoff", "reboot", "crash"}

Cpu ==
  \/ CheckTags \/ EnableTpm \/ RequestLocality \/ InitEventLog \/ ChooseProtocol
  \/ ExtendSha1 \/ ExtendSha256 \/ LogMeasurement
  \/ SetupIommu \/ CheckMle \/ GetEntry \/ Release
  \/ FindKernel \/ NextModule \/ CheckCanary

(* The TPM grants a locality it refused before: once nobody has it, or, with *)
(* CRB, taking it from a lower one. Nothing withdraws the request, so that  *)
(* it may do so at any time, also when the kernel runs.                    *)
Grant ==
  /\ \E l \in wanted :
       /\ active = NoLocality \/ (intf = "CRB" /\ active < l)
       /\ active' = l /\ wanted' = wanted \ {l}
  /\ UNCHANGED <<pc, inputs, memory, shield, locality, buff, pcr, measuring, found, eventlog>>

(* A device overwrites the kernel, the MBI or a module. One write to each  *)
(* shows every hazard that later ones could.                               *)
Dma ==
  /\ shield = "DEV" /\ ~Ended
  /\ \/ /\ kernel \in {"kernel", "no_MLE", "bad_entry"}
        /\ kernel' = "other_kernel"
        /\ UNCHANGED <<mbi, module>>
     \/ /\ mbi' \in MBIs[reliable] /\ mbi'.mods > mbi.mods
        /\ UNCHANGED <<kernel, module>>
     \/ /\ module = "module"
        /\ module' = "other_module"
        /\ UNCHANGED <<kernel, mbi>>
  /\ UNCHANGED <<pc, inputs, shield, tpm, measuring, found, eventlog>>

LaunchInit ==
  /\ Init
  /\ pc = "start" /\ stage = "sha1"
  /\ reliable \in BOOLEAN /\ boot \in Boots[reliable]
  /\ kernel \in Kernels \ {"other_kernel"} /\ mbi \in MBIs[reliable] /\ module = "module"
  /\ shield = "DEV"
  \* A TPM 1.2 has no CRB. Firmware may have left a CRB to locality 0.
  /\ intf \in IF family = TPM12 THEN {"TIS"} ELSE {"TIS", "CRB"}
  /\ active \in IF intf = "TIS" THEN {NoLocality} ELSE {NoLocality, 0}
  /\ buff = FALSE /\ locality = NoLocality /\ wanted = {}
  /\ digest = [a \in Algos |-> NoM]
  \* SKINIT extended PCR 17 with the SLB, PCR 18 is as it was reset.
  /\ pcr = [a \in Banks |-> [p \in Pcrs |-> IF p = 17 THEN <<M("skl", "skl")>> ELSE <<>>]]
  /\ logged = <<>> /\ refused = FALSE
  /\ entry = "null" /\ sized = FALSE /\ mod = 0

LaunchNext == Cpu \/ Grant \/ Dma

Launch == LaunchInit /\ [][LaunchNext]_lvars

-----------------------------------------------------------------------------
(* The boot data is what a verifier needs to judge the rest by: if the TPM  *)
(* obeys, PCR 17 is not extended before PCR 18 has it (main.c:488).        *)
BootDataFirst ==
  reliable => \A b \in Banks :
    \/ pcr[b][17] = <<M("skl", "skl")>>
    \/ pcr[b][18] # <<>> /\ pcr[b][18][1] = M("boot_data", "tags")

\* The measurements of n modules that hold what.
Modules(n, what) == [i \in 1 .. n |-> M("module", what)]

(* If the TPM obeys, PCR 17 of every bank stands for what runs and nothing  *)
(* else: SKL, the kernel it jumps to and each of the modules, once and in  *)
(* that order, unless the kernel's size or entry point was not found in    *)
(* the MBI.                                                                *)
KernelMeasured ==
  reliable /\ pc = "handoff" /\ shield = "IOMMU" /\ sized /\ entry # "null" =>
    \A b \in Banks :
      pcr[b][17] = <<M("skl", "skl"), M("kernel", kernel)>>
                   \o Modules(IF boot.kind = "mb2" THEN mbi.mods ELSE 0, module)

(* Nothing but what runs is in the PCRs: behind the IOMMU, what was        *)
(* checked, what was measured and what is jumped to are the same bytes.    *)
RunsWhatItMeasured ==
  pc = "handoff" /\ shield = "IOMMU" =>
    /\ \A b \in Banks : \A i \in DOMAIN pcr[b][17] :
         pcr[b][17][i] \in {M("skl", "skl"), M("kernel", kernel),
                            M("nothing", "nothing"), M("low_memory", "memory"),
                            M("module", module)}
    /\ boot.kind = "linux" => entry = kernel /\ kernel \in GoodKernels

(* If the TPM obeys, every record of the event log tells the truth: it gives*)
(* the digests its PCR was extended with, in every bank, and records are in *)
(* that order.                                                             *)
LogMatchesBanks ==
  reliable =>
    /\ \A i \in DOMAIN logged : \A b \in Banks :
         LET r == logged[i]
         IN  r.nth \in DOMAIN pcr[b][r.pcr] /\ pcr[b][r.pcr][r.nth] = r.digest[b]
    /\ \A i, j \in DOMAIN logged :
         i < j /\ logged[i].pcr = logged[j].pcr => logged[i].nth < logged[j].nth

(* If the TPM obeys and no event was refused, the log accounts for every    *)
(* extension: a verifier can replay it into the PCRs' values.              *)
LogReplays ==
  reliable /\ stage = "sha1" /\ phase = "run" /\ ~refused =>
    \A p \in Pcrs :
      Cardinality({i \in DOMAIN logged : logged[i].pcr = p}) = Len(pcr["SHA1"][p])

(* The TPM is the kernel's at the hand-over (main.c:327, main.c:512): if it *)
(* granted the locality when it was asked for it, none is active and none  *)
(* is still to be granted. If it refused it, that is not so.               *)
TpmGivenUp == pc = "handoff" /\ buff => active = NoLocality /\ wanted = {}

(* No measurement is sent to the TPM without the locality PCRs 17 and 18   *)
(* are extended from: the driver uses it and the TPM has granted it, not   *)
(* before and not once it is given up.                                     *)
NoLateCommand == [][pcr' # pcr => locality = 2 /\ active = 2 /\ active' = 2]_lvars

(* "Extend PCR18 with MBI structure's hash; this includes all cmdlines"    *)
(* (main.c:368).                                                           *)
MbiMeasured ==
  reliable /\ pc = "handoff" /\ boot.kind = "mb2" =>
    \A b \in Banks : \E i \in DOMAIN pcr[b][18] : pcr[b][18][i].what = "mbi"
=============================================================================
