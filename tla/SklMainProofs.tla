---------------------------- MODULE SklMainProofs ----------------------------
(* Proofs about the launch of main.c: for every bootloader data, every     *)
(* multiboot information with any number of modules, any TPM and any DMA.  *)
EXTENDS SklMain, EventLogProofs, FiniteSetTheorems, SequenceTheorems

Whats == {"none", "skl", "boot_data", "tag_pointer", "kernel", "nothing", "low_memory", "module"}
Contents ==
  {"none", "skl", "tags", "stack", "nothing", "memory", "module", "other_module"} \cup Kernels
Measurement == [what : Whats, content : Contents]
Record == [pcr : Pcrs, nth : Nat, digest : [Algos -> Measurement]]

(* Where skl_main() is before the log, in between, and once all is measured.*)
Early == {"start", "enable", "locality", "event_log"}
Linux == {"check", "stub", "release"}
Multiboot2 == {"mbi", "find", "modules", "module"}
Handed == {"done", "canary", "handoff"}
Measuring == {"bootdata", "mbi", "kernel", "module"}
Running == {"bootdata", "boot_tag", "iommu", "kernel"} \cup Linux \cup Multiboot2 \cup Handed
Failed == {"reboot", "crash"}

LTypeOK ==
  /\ pc \in Early \cup Running \cup Failed
  /\ stage \in {"sha1", "sha256", "log"}
  /\ family \in Family /\ reliable \in BOOLEAN
  /\ boot \in Boots[reliable]
  /\ kernel \in Kernels /\ mbi \in MBIs[reliable] /\ module \in {"module", "other_module"}
  /\ shield \in {"DEV", "IOMMU"}
  /\ intf \in {"TIS", "CRB"} /\ buff \in BOOLEAN
  /\ {locality, active} \subseteq {0, 2, NoLocality} /\ wanted \in SUBSET {0, 2}
  /\ entry \in Kernels \cup {"null", "base"} /\ sized \in BOOLEAN
  /\ mod \in Nat
  /\ digest \in [Algos -> Measurement]
  /\ pcr \in [Banks -> [Pcrs -> Seq(Measurement)]]
  /\ logged \in Seq(Record)

(* extend_pcr() is in one of its stages only where it was called, and no    *)
(* IOMMU shields memory before iommu_setup().                              *)
StageInv ==
  /\ stage # "sha1" => pc \in Measuring
  /\ stage = "sha256" => family = TPM20
  /\ pc \in Early \cup {"bootdata", "boot_tag", "iommu"} => shield = "DEV"

(* The calls extend_pcr() is made with.                                    *)
LEMMA JobTyped ==
  ASSUME LTypeOK, pc \in Measuring
  PROVE  /\ Job.pcr = (IF pc \in {"bootdata", "mbi"} THEN 18 ELSE 17)
         /\ Job.pcr \in Pcrs /\ M(Job.what, Job.content) \in Measurement
         /\ Job.text \in Texts
         /\ Job.next = (CASE pc = "bootdata" -> "boot_tag"
                          [] pc = "mbi" -> "find"
                          [] pc = "kernel" -> IF boot.kind = "linux" THEN "release" ELSE "modules"
                          [] pc = "module" -> "modules")
<1>1. \A w \in Whats, c \in Contents : M(w, c) \in Measurement
  BY DEF M, Measurement
<1>2. KernelData.what \in Whats /\ KernelData.content \in Contents
  BY DEF KernelData, M, LTypeOK, Kernels, GoodKernels, Whats, Contents
<1>3. CASE pc = "bootdata"
  BY <1>3, <1>1, LaunchAssumption DEF Job, Pcrs, Whats, Contents
<1>4. CASE pc = "mbi"
  BY <1>4, <1>1, LaunchAssumption DEF Job, Pcrs, Whats, Contents
<1>5. CASE pc = "kernel"
  BY <1>5, <1>1, <1>2, LaunchAssumption DEF Job, Pcrs, Whats, Contents
<1>6. CASE pc = "module"
  BY <1>6, <1>1, LaunchAssumption DEF Job, Pcrs, Whats, Contents, LTypeOK
<1> QED
  BY <1>3, <1>4, <1>5, <1>6 DEF Measuring

(* What an extension of a PCR does to the banks.                           *)
LEMMA Extension ==
  ASSUME NEW B, NEW p \in [B -> [Pcrs -> Seq(Measurement)]],
         NEW b \in B, NEW r \in Pcrs, NEW v \in Measurement,
         NEW q, q = [p EXCEPT ![b][r] = Append(@, v)]
  PROVE  /\ q \in [B -> [Pcrs -> Seq(Measurement)]]
         /\ q[b][r] = Append(p[b][r], v)
         /\ \A c \in B, s \in Pcrs : c # b \/ s # r => q[c][s] = p[c][s]
  OBVIOUS

(* A longer sequence keeps what it began with.                             *)
LEMMA Appended ==
  ASSUME NEW s \in Seq(Measurement), NEW v \in Measurement
  PROVE  /\ Len(s) \in Nat /\ Len(Append(s, v)) = Len(s) + 1 /\ Append(s, v) # <<>>
         /\ \A i \in 1 .. Len(s) : Append(s, v)[i] = s[i]
         /\ Append(s, v)[Len(s) + 1] = v
         /\ s # <<>> => 1 \in 1 .. Len(s)
         /\ s = <<>> => Len(s) = 0
<1>1. Len(s) \in Nat /\ Len(Append(s, v)) = Len(s) + 1
  OBVIOUS
<1>2. Append(s, v) # <<>>
  BY <1>1
<1>3. \A i \in 1 .. Len(s) : Append(s, v)[i] = s[i]
  OBVIOUS
<1>4. Append(s, v)[Len(s) + 1] = v
  OBVIOUS
<1>5. s # <<>> => 1 \in 1 .. Len(s)
  OBVIOUS
<1>6. s = <<>> => Len(s) = 0
  OBVIOUS
<1> QED
  BY <1>1, <1>2, <1>3, <1>4, <1>5, <1>6

(* What event_log_init() and extend_pcr() log.                             *)
SkinitRecord == [pcr |-> 17, nth |-> 1, digest |-> [a \in Algos |-> M("skl", "skl")]]
JobRecord == [pcr |-> Job.pcr, digest |-> digest, nth |-> Len(pcr["SHA1"][Job.pcr])]

(* What the launch logs are records.                                       *)
LEMMA RecordsTyped ==
  /\ SkinitRecord \in Record
  /\ Job.pcr \in Pcrs /\ digest \in [Algos -> Measurement] /\ "SHA1" \in Banks
     /\ pcr \in [Banks -> [Pcrs -> Seq(Measurement)]] => JobRecord \in Record
<1>1. M("skl", "skl") \in Measurement
  BY DEF M, Measurement, Whats, Contents
<1>2. SkinitRecord \in Record
  BY <1>1 DEF SkinitRecord, Record, Pcrs
<1> QED
  BY <1>2 DEF JobRecord, Record

(* A record is written, or the event is refused.                           *)
LEMMA Logging ==
  /\ StartLog => \/ logged' = <<SkinitRecord>> /\ refused' = refused
                 \/ logged' = logged /\ refused'
  /\ LogMeasurement => \/ logged' = Append(logged, JobRecord) /\ refused' = refused
                       \/ logged' = logged /\ refused'
  BY DEF StartLog, LogMeasurement, SkinitRecord, JobRecord

(* What SKL starts from is what the code can give.                         *)
LEMMA InitTyped == LaunchInit => LTypeOK /\ StageInv
<1> SUFFICES ASSUME LaunchInit PROVE LTypeOK /\ StageInv
  OBVIOUS
<1>1. M("skl", "skl") \in Measurement /\ NoM \in Measurement
  BY DEF M, NoM, Measurement, Whats, Contents
<1>2. pcr \in [Banks -> [Pcrs -> Seq(Measurement)]]
  BY <1>1 DEF LaunchInit, Pcrs
<1>3. logged \in Seq(Record)
  BY DEF LaunchInit
<1>4. digest \in [Algos -> Measurement]
  BY <1>1 DEF LaunchInit
<1> QED
  BY <1>2, <1>3, <1>4 DEF LaunchInit, Init, LTypeOK, StageInv, Early, Kernels, GoodKernels

(* The bank that extend_pcr() is about to extend exists.                    *)
LEMMA BanksOf ==
  ASSUME LTypeOK, Extending, StageInv
  PROVE  /\ stage \in {"sha1", "log"} => "SHA1" \in Banks
         /\ stage = "sha256" => "SHA256" \in Banks /\ "SHA1" \in Banks
  BY DEF Banks, Algos, StageInv, LTypeOK, Family, TPM12, TPM20

(* Every step of SKL's and of a device's leaves values the code can give.   *)
LEMMA NextTyped == LTypeOK /\ StageInv /\ [LaunchNext]_lvars => (LTypeOK /\ StageInv)'
<1> SUFFICES ASSUME LTypeOK, StageInv, [LaunchNext]_lvars PROVE (LTypeOK /\ StageInv)'
  OBVIOUS
<1> USE DEF LTypeOK, StageInv, Goto, Early, Running, Failed, Linux, Multiboot2, Handed, Measuring
<1>1. CASE UNCHANGED lvars
  BY <1>1 DEF lvars, launch, eventlog, inputs, memory, access, tpm, measuring, found, Banks
<1>2. CASE CheckTags
  BY <1>2 DEF CheckTags, eventlog, inputs, memory, access, tpm, measuring, found, Banks
<1>3. CASE EnableTpm
  BY <1>3 DEF EnableTpm, AskFor, eventlog, inputs, memory, measuring, found, Banks
<1>4. CASE RequestLocality
  BY <1>4 DEF RequestLocality, AskFor, eventlog, inputs, memory, measuring, found, Banks
<1>5. CASE InitEventLog
  <2>2. UNCHANGED <<family, inputs, memory, shield, tpm, stage, digest, found>> /\ pc' = "bootdata"
        /\ stage = "sha1" /\ pc = "event_log"
    BY <1>5 DEF InitEventLog, StartLog, InitLog
  <2>3. logged' \in Seq(Record)
    <3>1. <<SkinitRecord>> \in Seq(Record)
      BY RecordsTyped
    <3>2. StartLog
      BY <1>5 DEF InitEventLog
    <3> QED BY <3>1, <3>2, Logging
  <2> QED
    BY <2>2, <2>3 DEF Banks, inputs, memory, access, tpm, found
<1>6. CASE ChooseProtocol
  BY <1>6 DEF ChooseProtocol, eventlog, inputs, memory, access, tpm, measuring, found, Banks
<1>7. CASE ExtendSha1
  <2>1. pc \in Measuring /\ UNCHANGED <<pc, inputs, memory, shield, buff, access, logged, found, eventlog>>
        /\ stage' = IF family = TPM12 THEN "log" ELSE "sha256"
    BY <1>7 DEF ExtendSha1, Extending
  <2>2. M(Job.what, Job.content) \in Measurement /\ Job.pcr \in Pcrs
    BY <2>1, JobTyped
  <2>3. digest' \in [Algos -> Measurement] /\ digest'["SHA1"] = M(Job.what, Job.content)
    BY <1>7, <2>2 DEF ExtendSha1, Algos
  <2>4. "SHA1" \in Banks /\ Banks' = Banks
    BY <2>1 DEF Banks, Algos, eventlog
  <2>5. pcr' \in [Banks -> [Pcrs -> Seq(Measurement)]]
    <3>1. CASE UNCHANGED pcr
      BY <2>4, <3>1
    <3>2. CASE pcr' = [pcr EXCEPT !["SHA1"][Job.pcr] = Append(@, M(Job.what, Job.content))]
      BY <2>2, <2>4, <3>2, Extension
    <3> QED
      BY <1>7, <2>3, <3>1, <3>2 DEF ExtendSha1, TpmExtend
  <2> QED
    BY <2>1, <2>3, <2>4, <2>5 DEF eventlog, inputs, memory, access, found, Family, TPM12, TPM20
<1>8. CASE ExtendSha256
  <2>1. /\ pc \in Measuring /\ stage = "sha256" /\ stage' = "log"
        /\ UNCHANGED <<pc, inputs, memory, shield, buff, access, logged, found, eventlog>>
    BY <1>8 DEF ExtendSha256, Extending
  <2>2. M(Job.what, Job.content) \in Measurement /\ Job.pcr \in Pcrs
    BY <2>1, JobTyped
  <2>3. digest' \in [Algos -> Measurement] /\ digest'["SHA256"] = M(Job.what, Job.content)
    BY <1>8, <2>2 DEF ExtendSha256, Algos
  <2>4. "SHA256" \in Banks /\ Banks' = Banks
    BY <2>1 DEF Banks, Algos, eventlog, TPM12, TPM20
  <2>5. pcr' \in [Banks -> [Pcrs -> Seq(Measurement)]]
    <3>1. CASE UNCHANGED pcr
      BY <2>4, <3>1
    <3>2. CASE pcr' = [pcr EXCEPT !["SHA256"][Job.pcr] = Append(@, M(Job.what, Job.content))]
      BY <2>2, <2>4, <3>2, Extension
    <3> QED
      BY <1>8, <2>3, <3>1, <3>2 DEF ExtendSha256, TpmExtend
  <2> QED
    BY <2>1, <2>3, <2>4, <2>5 DEF eventlog, inputs, memory, access, found
<1>9. CASE LogMeasurement
  <2>1. /\ pc \in Measuring /\ stage' = "sha1" /\ pc' = Job.next
        /\ UNCHANGED <<family, inputs, memory, shield, tpm, digest, found>>
    BY <1>9 DEF LogMeasurement, Extending, AddEvent
  <2>2. Job.pcr \in Pcrs /\ Banks' = Banks /\ "SHA1" \in Banks
    BY <2>1, JobTyped DEF Banks, Algos
  <2>4. logged' \in Seq(Record)
    <3>1. Append(logged, JobRecord) \in Seq(Record)
      BY <2>2, RecordsTyped
    <3> QED BY <1>9, <3>1, Logging
  <2>5. /\ Job.next \in {"boot_tag", "find", "release", "modules"}
        /\ Job.next = "boot_tag" => pc = "bootdata"
    BY <2>1, JobTyped
  <2> QED
    BY <2>1, <2>2, <2>4, <2>5 DEF inputs, memory, access, tpm, found
<1>10. CASE SetupIommu
  BY <1>10 DEF SetupIommu, eventlog, inputs, memory, access, tpm, measuring, found, Banks
<1>11. CASE CheckMle
  BY <1>11 DEF CheckMle, eventlog, inputs, memory, access, tpm, measuring, found, Banks
<1>12. CASE GetEntry
  BY <1>12 DEF GetEntry, eventlog, inputs, memory, access, tpm, measuring, found, Banks
<1>13. CASE Release
  BY <1>13 DEF Release, GiveUp, eventlog, inputs, memory, measuring, found, Banks
<1>14. CASE FindKernel
  BY <1>14 DEF FindKernel, eventlog, inputs, memory, access, tpm, measuring, found, Banks
<1>15. CASE NextModule
  BY <1>15 DEF NextModule, eventlog, inputs, memory, access, tpm, measuring, found, Banks
<1>16. CASE CheckCanary
  BY <1>16 DEF CheckCanary, eventlog, inputs, memory, access, tpm, measuring, found, Banks
<1>17. CASE Dma
  BY <1>17 DEF Dma, eventlog, inputs, memory, access, tpm, measuring, found, Banks, Kernels, GoodKernels
<1>18. CASE Grant
  BY <1>18 DEF Grant, eventlog, inputs, memory, measuring, found, Banks
<1> QED
  BY <1>1, <1>2, <1>3, <1>4, <1>5, <1>6, <1>7, <1>8, <1>9, <1>10, <1>11, <1>12, <1>13, <1>14,
     <1>15, <1>16, <1>17, <1>18 DEF LaunchNext, Cpu

(* The launch never leaves the values the code can give.                   *)
THEOREM LaunchTyped == Launch => [](LTypeOK /\ StageInv)
<1> QED
  BY InitTyped, NextTyped, PTL DEF Launch

-----------------------------------------------------------------------------
(* The way skl_main() takes: which log it finds, which boot protocol it is  *)
(* in, how far the module loop is. The MBI never loses a module tag.       *)
PathInv ==
  /\ pc \in Early => phase = "start" /\ logged = <<>>
  /\ pc \in Running => phase # "start"
  /\ pc \in Linux => boot.kind = "linux"
  /\ pc \in Multiboot2 => boot.kind = "mb2"
  /\ pc \in {"iommu", "kernel"} \cup Handed => boot.kind \in {"linux", "mb2"}
  /\ pc \notin {"modules", "module"} \cup Handed \cup Failed => mod = 0
  /\ pc = "module" => mod > 0
  /\ boot.kind = "linux" => mod = 0
  /\ mod <= mbi.mods
  /\ pc \in Handed /\ boot.kind = "mb2" /\ shield = "IOMMU" => mod = mbi.mods

(* Who has the TPM, if it granted locality 2 when it was asked for it: the  *)
(* driver and the TPM agree on the locality until it is given up, nobody   *)
(* has one from then on, and no request is left that the TPM could grant.  *)
AccessInv ==
  /\ pc \in {"start", "enable", "locality"} => ~buff
  /\ buff => /\ wanted = {}
             /\ active = NoLocality \/ (active = 2 /\ locality = 2)
             /\ pc \notin Handed \cup Failed => active = 2
             /\ pc \in {"canary", "handoff"} => active = NoLocality

(* Before the kernel is measured PCR 17 holds what SKINIT extended it with.*)
SklOnly == <<M("skl", "skl")>>
BeforeKernel == Early \cup {"bootdata", "boot_tag", "iommu", "check", "stub", "mbi", "find"}

EarlyPcrInv ==
  /\ pc \in Early => \A b \in Banks : pcr[b][18] = <<>>
  /\ pc \in BeforeKernel \/ (pc = "kernel" /\ stage = "sha1") =>
       \A b \in Banks : pcr[b][17] = SklOnly

(* What may be in PCR 17 once no device can change what was measured.      *)
Allowed == {M("skl", "skl"), M("kernel", kernel), M("nothing", "nothing"),
            M("low_memory", "memory"), M("module", module)}

ShieldedInv ==
  shield = "IOMMU" =>
    /\ \A b \in Banks : \A i \in DOMAIN pcr[b][17] : pcr[b][17][i] \in Allowed
    /\ pc = "stub" => kernel # "no_MLE"
    /\ boot.kind = "linux" /\ pc \in {"kernel", "release"} \cup Handed =>
         entry = kernel /\ kernel \in GoodKernels

(* While extend_pcr() runs, which banks have its measurement already.      *)
Extended(b) == stage = "log" \/ (stage = "sha256" /\ b = "SHA1")
JobPcr == IF pc \in {"bootdata", "mbi"} THEN 18 ELSE 17

BootDataInv ==
  reliable => \A b \in Banks :
    /\ \/ pc \in Early
       \/ pc = "bootdata" /\ ~Extended(b)
       \/ pc \in Failed /\ pcr[b][17] = SklOnly
       \/ pcr[b][18] # <<>> /\ pcr[b][18][1] = M("boot_data", "tags")
    /\ pc = "bootdata" /\ ~Extended(b) => pcr[b][18] = <<>>

(* PCR 17 measurement by measurement, if the TPM obeys and what was to be   *)
(* measured was found.                                                     *)
KernelAnd(n) == <<M("skl", "skl"), M("kernel", kernel)>> \o Modules(n, module)

ExactInv ==
  reliable /\ shield = "IOMMU" /\ sized /\ entry # "null" =>
    \A b \in Banks :
      /\ pc = "kernel" /\ stage # "sha1" =>
           pcr[b][17] = IF Extended(b) THEN KernelAnd(0) ELSE SklOnly
      /\ pc \in {"release", "modules"} \cup Handed => pcr[b][17] = KernelAnd(mod)
      /\ pc = "module" => pcr[b][17] = KernelAnd(IF Extended(b) THEN mod ELSE mod - 1)

(* The banks and the log agree at every stage of extend_pcr().             *)
BanksInv ==
  reliable =>
    /\ \A b \in Banks, p \in Pcrs :
         Len(pcr["SHA1"][p]) =
           Len(pcr[b][p]) + (IF stage = "sha256" /\ b = "SHA256" /\ p = JobPcr THEN 1 ELSE 0)
    /\ \A b \in Banks :
         Extended(b) => /\ pcr[b][JobPcr] # <<>>
                        /\ pcr[b][JobPcr][Len(pcr[b][JobPcr])] = digest[b]

RecordsInv ==
  reliable =>
    /\ \A i \in DOMAIN logged, b \in Banks :
         LET r == logged[i]
         IN  /\ r.nth \in 1 .. Len(pcr[b][r.pcr]) /\ pcr[b][r.pcr][r.nth] = r.digest[b]
             /\ stage # "sha1" /\ r.pcr = JobPcr => r.nth < Len(pcr["SHA1"][r.pcr])
    /\ \A i, j \in DOMAIN logged :
         i < j /\ logged[i].pcr = logged[j].pcr => logged[i].nth < logged[j].nth

(* The records of a PCR, which are as many as its extensions.              *)
RecordsOf(s, p) == {i \in DOMAIN s : s[i].pcr = p}

ReplayInv ==
  reliable /\ phase # "start" /\ ~refused =>
    \A p \in Pcrs :
      Len(pcr["SHA1"][p]) =
        Cardinality(RecordsOf(logged, p)) + (IF stage # "sha1" /\ p = JobPcr THEN 1 ELSE 0)
-----------------------------------------------------------------------------
(* What the steps do to the banks and to the log.                          *)
JobValue == M(Job.what, Job.content)

(* Everything else than what extend_pcr() extends and logs: where it leads *)
(* to, and that the IOMMU stays and keeps memory as it is.                 *)
Quiet ==
  /\ UNCHANGED <<reliable, boot, eventlog, stage, digest, pcr, logged, refused>>
  /\ shield = "IOMMU" => UNCHANGED <<shield, memory>>
  /\ pc # "iommu" => UNCHANGED shield
  /\ \/ pc' = pc
     \/ pc = "start" /\ pc' \in {"enable", "reboot"}
     \/ pc = "enable" /\ pc' \in {"locality", "crash"}
     \/ pc = "locality" /\ pc' = "event_log"
     \/ pc = "boot_tag" /\ pc' \in {"iommu", "reboot"}
     \/ pc = "iommu" /\ pc' \in {"check", "mbi"}
     \/ pc = "check" /\ pc' \in {"stub", "reboot"}
     \/ pc = "stub" /\ pc' \in {"kernel", "reboot"}
     \/ pc = "release" /\ pc' = "done"
     \/ pc = "find" /\ pc' = "kernel"
     \/ pc = "modules" /\ pc' \in {"module", "done", "reboot"}
     \/ pc = "done" /\ pc' = "canary"
     \/ pc = "canary" /\ pc' \in {"handoff", "reboot"}

(* Every step extends a bank, logs, or leaves the banks and the log alone. *)
LEMMA StepKinds ==
  ASSUME LTypeOK, StageInv, [LaunchNext]_lvars
  PROVE  ExtendSha1 \/ ExtendSha256 \/ LogMeasurement \/ InitEventLog \/ Quiet
<1> USE DEF Quiet, inputs, tpm, measuring, Goto
<1>1. CASE UNCHANGED lvars
  BY <1>1 DEF lvars, launch
<1>2. CASE CheckTags \/ EnableTpm \/ RequestLocality \/ ChooseProtocol \/ SetupIommu
  BY <1>2 DEF CheckTags, EnableTpm, RequestLocality, ChooseProtocol, SetupIommu, StageInv
<1>3. CASE CheckMle \/ GetEntry \/ Release \/ FindKernel \/ NextModule \/ CheckCanary
  BY <1>3 DEF CheckMle, GetEntry, Release, FindKernel, NextModule, CheckCanary
<1>4. CASE Grant \/ Dma
  BY <1>4 DEF Grant, Dma
<1> QED
  BY <1>1, <1>2, <1>3, <1>4 DEF LaunchNext, Cpu

(* What event_log_init() does to the rest.                                 *)
LEMMA InitLogStep ==
  ASSUME InitEventLog
  PROVE  /\ pc = "event_log" /\ pc' = "bootdata" /\ phase = "start" /\ phase' # "start"
         /\ UNCHANGED <<family, inputs, memory, shield, tpm, stage, digest, found>>
         /\ \/ logged' = <<SkinitRecord>> /\ refused' = refused
            \/ logged' = logged /\ refused'
<1>1. StartLog
  BY DEF InitEventLog
<1>2. phase = "start" /\ phase' \in {"run", "err"} /\ family' = family
  BY DEF InitEventLog, StartLog, InitLog
<1>3. pc = "event_log" /\ pc' = "bootdata"
  BY DEF InitEventLog, Goto
<1>4. UNCHANGED <<inputs, memory, shield, tpm, stage, digest, found>>
  BY <1>1 DEF StartLog
<1> QED
  BY <1>1, <1>2, <1>3, <1>4, Logging

(* extend_pcr() extends the next bank with what was hashed, if the TPM obeys.*)
NextBank == IF stage = "sha1" THEN "SHA1" ELSE "SHA256"

(* extend_pcr() with one bank: the digest noted, and the bank extended or  *)
(* not, by a TPM that may fail.                                            *)
LEMMA ExtendStep ==
  ASSUME LTypeOK, StageInv, ExtendSha1 \/ ExtendSha256
  PROVE  /\ NextBank \in Banks /\ JobPcr \in Pcrs
         /\ ~Extended(NextBank)
         /\ \A c \in Banks : Extended(c)' <=> c = NextBank \/ Extended(c)
         /\ stage' = IF family = TPM12 \/ stage = "sha256" THEN "log" ELSE "sha256"
         /\ digest'[NextBank] = JobValue
         /\ \A c \in Banks : c # NextBank => digest'[c] = digest[c]
         /\ \/ buff /\ pcr'[NextBank][JobPcr] = Append(pcr[NextBank][JobPcr], JobValue)
            \/ ~reliable /\ pcr' = pcr
         /\ \A c \in Banks, p \in Pcrs :
              c # NextBank \/ p # JobPcr => pcr'[c][p] = pcr[c][p]
<1>1. pc \in Measuring
  BY DEF ExtendSha1, ExtendSha256, Extending, Measuring
<1>2. Job.pcr = JobPcr /\ JobPcr \in Pcrs /\ JobValue \in Measurement
  BY <1>1, JobTyped DEF JobPcr, JobValue
<1> DEFINE
  Goal == /\ NextBank \in Banks
          /\ ~Extended(NextBank)
          /\ \A c \in Banks : Extended(c)' <=> c = NextBank \/ Extended(c)
          /\ stage' = IF family = TPM12 \/ stage = "sha256" THEN "log" ELSE "sha256"
          /\ digest'[NextBank] = JobValue
          /\ \A c \in Banks : c # NextBank => digest'[c] = digest[c]
          /\ \/ buff /\ pcr' = [pcr EXCEPT ![NextBank][JobPcr] = Append(@, JobValue)]
             \/ ~reliable /\ pcr' = pcr
<1>0. SUFFICES Goal
  <2>1. pcr \in [Banks -> [Pcrs -> Seq(Measurement)]]
    BY DEF LTypeOK
  <2>2. CASE ~reliable /\ pcr' = pcr
    BY <1>2, <2>2
  <2>3. CASE buff /\ pcr' = [pcr EXCEPT ![NextBank][JobPcr] = Append(@, JobValue)]
    BY <1>2, <2>1, <2>3, Extension
  <2> QED
    BY <2>2, <2>3
<1>3. CASE ExtendSha1
  <2>1. "SHA1" \in Banks /\ Banks \subseteq Algos /\ stage = "sha1" /\ NextBank = "SHA1"
    BY <1>3 DEF Banks, Algos, NextBank, ExtendSha1, StageInv, TPM12, TPM20
  <2>2. stage' = IF family = TPM12 \/ stage = "sha256" THEN "log" ELSE "sha256"
    BY <1>3, <2>1 DEF ExtendSha1
  <2>3. ~Extended("SHA1") /\ \A c \in Banks : Extended(c)' <=> c = "SHA1" \/ Extended(c)
    BY <2>1, <2>2 DEF Extended, Banks, Algos
  <2>4. digest' = [digest EXCEPT !["SHA1"] = JobValue]
    BY <1>3 DEF ExtendSha1, JobValue
  <2>5. digest'["SHA1"] = JobValue /\ \A c \in Banks : c # "SHA1" => digest'[c] = digest[c]
    BY <2>1, <2>4 DEF LTypeOK, Algos
  <2>6. \/ buff /\ pcr' = [pcr EXCEPT !["SHA1"][JobPcr] = Append(@, JobValue)]
        \/ ~reliable /\ pcr' = pcr
    BY <1>2, <1>3, <2>5 DEF ExtendSha1, TpmExtend
  <2> QED
    BY <2>1, <2>2, <2>3, <2>5, <2>6
<1>4. CASE ExtendSha256
  <2>1. "SHA256" \in Banks /\ Banks \subseteq Algos /\ stage = "sha256" /\ NextBank = "SHA256"
    BY <1>4 DEF Banks, Algos, NextBank, ExtendSha256, StageInv, TPM12, TPM20
  <2>2. stage' = IF family = TPM12 \/ stage = "sha256" THEN "log" ELSE "sha256"
    BY <1>4, <2>1 DEF ExtendSha256
  <2>3. ~Extended("SHA256") /\ \A c \in Banks : Extended(c)' <=> c = "SHA256" \/ Extended(c)
    BY <2>1, <2>2 DEF Extended, Banks, Algos
  <2>4. digest' = [digest EXCEPT !["SHA256"] = JobValue]
    BY <1>4 DEF ExtendSha256, JobValue
  <2>5. digest'["SHA256"] = JobValue /\ \A c \in Banks : c # "SHA256" => digest'[c] = digest[c]
    BY <2>1, <2>4 DEF LTypeOK, Algos
  <2>6. \/ buff /\ pcr' = [pcr EXCEPT !["SHA256"][JobPcr] = Append(@, JobValue)]
        \/ ~reliable /\ pcr' = pcr
    BY <1>2, <1>4, <2>5 DEF ExtendSha256, TpmExtend
  <2> QED
    BY <2>1, <2>2, <2>3, <2>5, <2>6
<1> QED
  BY <1>3, <1>4

\* What extend_pcr() leaves alone while it extends.
OutsideExtend == <<pc, inputs, memory, shield, buff, access, logged, refused, found, eventlog>>

(* While it extends, nothing happens outside of the TPM and the digest.    *)
LEMMA ExtendFrame ==
  ExtendSha1 \/ ExtendSha256 => pc \in Measuring /\ UNCHANGED OutsideExtend
  BY DEF ExtendSha1, ExtendSha256, OutsideExtend, Extending, Measuring

(* extend_pcr() logs what it extended and goes on.                         *)
LEMMA LogStep ==
  ASSUME LTypeOK, StageInv, LogMeasurement
  PROVE  /\ pc \in Measuring /\ stage = "log" /\ stage' = "sha1"
         /\ pc' = (CASE pc = "bootdata" -> "boot_tag"
                     [] pc = "mbi" -> "find"
                     [] pc = "kernel" -> IF boot.kind = "linux" THEN "release" ELSE "modules"
                     [] pc = "module" -> "modules")
         /\ UNCHANGED <<inputs, memory, shield, tpm, digest, found, family, phase>>
         /\ \/ logged' = Append(logged, JobRecord) /\ refused' = refused
            \/ logged' = logged /\ refused'
         /\ JobRecord = [pcr |-> JobPcr, digest |-> digest, nth |-> Len(pcr["SHA1"][JobPcr])]
         /\ JobPcr \in Pcrs /\ \A b \in Banks : Extended(b)
<1>1. /\ pc \in Measuring /\ stage = "log" /\ stage' = "sha1" /\ pc' = Job.next
      /\ UNCHANGED <<inputs, memory, shield, tpm, digest, found, family, phase>>
  BY DEF LogMeasurement, Extending, Measuring, AddEvent
<1>2. Job.pcr = JobPcr /\ JobPcr \in Pcrs
  BY <1>1, JobTyped DEF JobPcr, Pcrs
<1>3. pc' = (CASE pc = "bootdata" -> "boot_tag"
                     [] pc = "mbi" -> "find"
                     [] pc = "kernel" -> IF boot.kind = "linux" THEN "release" ELSE "modules"
                     [] pc = "module" -> "modules")
  BY <1>1, JobTyped
<1> QED
  BY <1>1, <1>2, <1>3, Logging DEF JobRecord, Extended
-----------------------------------------------------------------------------
(* The MBI is a number of module tags, which DMA does not lower.            *)
LEMMA MbiTyped == LTypeOK => mbi.mods \in Nat
  BY LaunchAssumption DEF LTypeOK, MBI

(* At entry no path is chosen and nothing is given up.                     *)
LEMMA InitPath == LaunchInit => PathInv /\ AccessInv
<1> SUFFICES ASSUME LaunchInit PROVE PathInv /\ AccessInv
  OBVIOUS
<1>1. mbi.mods \in Nat
  BY MbiTyped, InitTyped
<1> QED
  BY <1>1 DEF LaunchInit, Init, PathInv, AccessInv, Early, Running, Linux, Multiboot2, Handed, Failed

(* Each step stays on its path: the protocol's, and with or without a TPM. *)
LEMMA NextPath ==
  LTypeOK /\ StageInv /\ PathInv /\ AccessInv /\ [LaunchNext]_lvars => (PathInv /\ AccessInv)'
<1> SUFFICES ASSUME LTypeOK, StageInv, PathInv, AccessInv, [LaunchNext]_lvars
             PROVE  (PathInv /\ AccessInv)'
  OBVIOUS
<1>0. mbi.mods \in Nat /\ mod \in Nat
  BY MbiTyped DEF LTypeOK
<1> USE DEF PathInv, AccessInv, Early, Running, Linux, Multiboot2, Handed, Failed, Goto,
            inputs, memory, access, tpm, measuring, found, eventlog
<1>1. CASE UNCHANGED lvars
  BY <1>1 DEF lvars, launch
<1>2. CASE CheckTags
  BY <1>2 DEF CheckTags
<1>3. CASE EnableTpm
  BY <1>3 DEF EnableTpm, AskFor
<1>4. CASE RequestLocality
  BY <1>4 DEF RequestLocality, AskFor
<1>5. CASE InitEventLog
  BY <1>5 DEF InitEventLog, StartLog, InitLog
<1>6. CASE ChooseProtocol
  BY <1>6 DEF ChooseProtocol
<1>7. CASE ExtendSha1 \/ ExtendSha256
  BY <1>7, ExtendFrame DEF OutsideExtend, Measuring
<1>9. CASE LogMeasurement
  BY <1>9, LogStep DEF Measuring
<1>10. CASE SetupIommu
  BY <1>10 DEF SetupIommu
<1>11. CASE CheckMle
  BY <1>11 DEF CheckMle
<1>12. CASE GetEntry
  BY <1>12 DEF GetEntry
<1>13. CASE Release
  BY <1>13 DEF Release, GiveUp
<1>14. CASE FindKernel
  BY <1>14 DEF FindKernel
<1>15. CASE NextModule
  BY <1>0, <1>15 DEF NextModule
<1>16. CASE CheckCanary
  BY <1>16 DEF CheckCanary
<1>17. CASE Dma
  <2>1. mbi'.mods >= mbi.mods /\ mbi'.mods \in Nat
    BY <1>0, <1>17, LaunchAssumption DEF Dma, LTypeOK, MBI
  <2> QED
    BY <1>0, <1>17, <2>1 DEF Dma
<1>18. CASE Grant
  BY <1>18 DEF Grant
<1> QED
  BY <1>1, <1>2, <1>3, <1>4, <1>5, <1>6, <1>7, <1>9, <1>10, <1>11, <1>12, <1>13, <1>14,
     <1>15, <1>16, <1>17, <1>18 DEF LaunchNext, Cpu

(* The way the launch takes and who has the TPM on it, on every behaviour.  *)
THEOREM LaunchPath == Launch => [](PathInv /\ AccessInv)
  BY LaunchTyped, InitPath, NextPath, PTL DEF Launch

(* On every path to the kernel on which SKL was granted the locality it    *)
(* has given it up, and nothing is left for the TPM to grant.              *)
THEOREM LaunchTpmGivenUp == Launch => []TpmGivenUp
<1>1. AccessInv => TpmGivenUp
  BY DEF AccessInv, TpmGivenUp
<1> QED
  BY <1>1, LaunchPath, PTL

(* PCRs are extended while SKL holds the locality: not before it was        *)
(* granted, not once it was given up.                                      *)
THEOREM LaunchNoLateCommand == Launch => NoLateCommand
<1>1. ASSUME LTypeOK, StageInv, PathInv, AccessInv, [LaunchNext]_lvars
      PROVE  [pcr' # pcr => locality = 2 /\ active = 2 /\ active' = 2]_lvars
  <2> USE <1>1
  <2>1. CASE ExtendSha1 \/ ExtendSha256
    <3>1. pcr' = pcr \/ buff
      BY <2>1, ExtendStep
    <3>2. pc \in Measuring /\ active' = active
      BY <2>1, ExtendFrame DEF OutsideExtend, access
    <3> QED
      BY <3>1, <3>2 DEF AccessInv, Measuring, Handed, Failed, NoLocality
  <2>2. CASE LogMeasurement
    BY <2>2, LogStep DEF tpm
  <2>3. CASE InitEventLog
    BY <2>3 DEF InitEventLog, StartLog, tpm
  <2>4. CASE Quiet
    BY <2>4 DEF Quiet
  <2> QED
    BY <2>1, <2>2, <2>3, <2>4, StepKinds
<1> QED
  BY <1>1, LaunchTyped, LaunchPath, PTL DEF Launch, NoLateCommand
-----------------------------------------------------------------------------
(* PCR 17 before the kernel is measured, and what is in it after that.      *)
LEMMA InitShielded == LaunchInit => EarlyPcrInv /\ ShieldedInv
  BY DEF LaunchInit, EarlyPcrInv, ShieldedInv, Early, SklOnly, Pcrs

(* Nothing but SKL's own measurement and the boot data before the kernel.  *)
LEMMA NextEarlyPcr ==
  ASSUME LTypeOK, StageInv, EarlyPcrInv, [LaunchNext]_lvars
  PROVE  EarlyPcrInv'
<1> USE DEF EarlyPcrInv, Early, BeforeKernel
<1>1. CASE ExtendSha1 \/ ExtendSha256
  <2>1. pc \in Measuring /\ pc' = pc /\ stage' # "sha1" /\ Banks' = Banks
    BY <1>1, ExtendStep, ExtendFrame DEF OutsideExtend, Banks, eventlog
  <2>2. pc \in {"bootdata", "mbi"} => \A b \in Banks : pcr'[b][17] = pcr[b][17]
    BY <1>1, ExtendStep DEF JobPcr, Pcrs
  <2> QED
    BY <2>1, <2>2 DEF Measuring
<1>2. CASE LogMeasurement
  BY <1>2, LogStep DEF tpm, Measuring, Banks
<1>3. CASE InitEventLog
  BY <1>3, InitLogStep DEF tpm, Banks
<1>4. CASE Quiet
  BY <1>4 DEF Quiet, Banks, eventlog
<1> QED
  BY <1>1, <1>2, <1>3, <1>4, StepKinds

(* Behind the IOMMU nothing else than what runs comes into PCR 17.          *)
LEMMA NextShielded ==
  ASSUME LTypeOK, StageInv, EarlyPcrInv, PathInv, ShieldedInv, [LaunchNext]_lvars
  PROVE  ShieldedInv'
<1> SUFFICES ASSUME shield' = "IOMMU" PROVE ShieldedInv'
  BY DEF ShieldedInv
<1> DEFINE
  Pcr17 == \A b \in Banks : \A i \in DOMAIN pcr[b][17] : pcr[b][17][i] \in Allowed
  Checked == /\ pc = "stub" => kernel # "no_MLE"
             /\ boot.kind = "linux" /\ pc \in {"kernel", "release"} \cup Handed =>
                  entry = kernel /\ kernel \in GoodKernels
<1>1. Pcr17'
  <2>1. CASE ExtendSha1 \/ ExtendSha256
    <3>1. /\ shield = "IOMMU" /\ Allowed' = Allowed /\ Banks' = Banks
          /\ pc \in Measuring
      BY <2>1, ExtendFrame DEF OutsideExtend, Banks, eventlog, Allowed, memory
    <3>2. pc \in {"kernel", "module"} => JobValue \in Allowed
      BY DEF JobValue, Job, KernelData, M, Allowed
    <3>3. CASE pc \in {"bootdata", "mbi"}
      <4>1. \A b \in Banks : pcr'[b][17] = pcr[b][17]
        BY <2>1, <3>3, ExtendStep DEF JobPcr, Pcrs
      <4> QED
        BY <3>1, <4>1 DEF ShieldedInv
    <3>4. CASE pc \in {"kernel", "module"}
      <4>1. SUFFICES ASSUME NEW b \in Banks, NEW i \in DOMAIN pcr'[b][17]
                     PROVE  pcr'[b][17][i] \in Allowed
        BY <3>1
      <4>2. pcr[b][17] \in Seq(Measurement)
        BY DEF LTypeOK, Pcrs
      <4>3. pcr'[b][17] = pcr[b][17] \/ pcr'[b][17] = Append(pcr[b][17], JobValue)
        BY <2>1, <3>4, ExtendStep DEF JobPcr, Pcrs
      <4> QED
        BY <3>1, <3>2, <3>4, <4>1, <4>2, <4>3 DEF ShieldedInv
    <3> QED
      BY <3>1, <3>3, <3>4 DEF Measuring
  <2>2. CASE LogMeasurement
    BY <2>2, LogStep DEF tpm, Banks, memory, Allowed, ShieldedInv
  <2>3. CASE InitEventLog
    BY <2>3, InitLogStep DEF tpm, Banks, memory, Allowed, ShieldedInv
  <2>4. CASE Quiet
    <3>1. pcr' = pcr /\ Banks' = Banks
      BY <2>4 DEF Quiet, Banks, eventlog
    <3>2. CASE shield = "IOMMU"
      BY <2>4, <3>1, <3>2 DEF Quiet, memory, Allowed, ShieldedInv
    <3>3. CASE shield # "IOMMU"
      <4>1. pc = "iommu"
        BY <2>4, <3>3 DEF Quiet
      <4>2. \A b \in Banks : pcr[b][17] = SklOnly
        BY <4>1 DEF EarlyPcrInv, BeforeKernel
      <4> QED
        BY <3>1, <4>2 DEF Allowed, SklOnly
    <3> QED
      BY <3>2, <3>3
  <2> QED
    BY <2>1, <2>2, <2>3, <2>4, StepKinds
<1>2. Checked'
  <2> USE DEF Handed, Goto, ShieldedInv
  <2>1. CASE UNCHANGED lvars
    BY <2>1 DEF lvars, launch, inputs, memory, found
  <2>2. CASE CheckTags \/ EnableTpm \/ RequestLocality \/ InitEventLog \/ ChooseProtocol
    BY <2>2 DEF CheckTags, EnableTpm, RequestLocality, InitEventLog, ChooseProtocol, inputs, memory,
                found
  <2>3. CASE ExtendSha1 \/ ExtendSha256
    BY <2>3, ExtendFrame DEF OutsideExtend, Measuring, inputs, memory, found
  <2>4. CASE LogMeasurement
    BY <2>4, LogStep DEF Measuring, inputs, memory, found, PathInv, Multiboot2
  <2>5. CASE SetupIommu \/ CheckMle \/ Release \/ CheckCanary
    BY <2>5 DEF SetupIommu, CheckMle, Release, CheckCanary, inputs, memory, found
  <2>6. CASE GetEntry
    BY <2>6 DEF GetEntry, LTypeOK, Kernels, GoodKernels, memory, inputs
  <2>7. CASE FindKernel \/ NextModule
    BY <2>7 DEF FindKernel, NextModule, memory, inputs, PathInv, Multiboot2
  <2>8. CASE Dma
    BY <2>8 DEF Dma
  <2>9. CASE Grant
    BY <2>9 DEF Grant, inputs, memory, found
  <2> QED
    BY <2>1, <2>2, <2>3, <2>4, <2>5, <2>6, <2>7, <2>8, <2>9 DEF LaunchNext, Cpu
<1> QED
  BY <1>1, <1>2 DEF ShieldedInv

(* PCR 17 is SKINIT's alone before the kernel is measured, PCR 18 empty    *)
(* before the boot data; behind the IOMMU PCR 17 takes only what is in     *)
(* memory, and the entry is that of a good kernel.                         *)
THEOREM LaunchShielded == Launch => [](EarlyPcrInv /\ ShieldedInv)
  BY LaunchTyped, LaunchPath, InitShielded, NextEarlyPcr, NextShielded, PTL DEF Launch

(* Behind the IOMMU, what was checked, what was measured and what is jumped *)
(* to are the same bytes, whatever the TPM does and DMA did before.        *)
THEOREM LaunchRunsWhatItMeasured == Launch => []RunsWhatItMeasured
<1>1. ShieldedInv => RunsWhatItMeasured
  BY DEF ShieldedInv, RunsWhatItMeasured, Allowed, Handed
<1> QED
  BY <1>1, LaunchShielded, PTL
-----------------------------------------------------------------------------
(* A TPM that obeys has the boot data before anything else.                 *)
LEMMA InitBootData == LaunchInit => BootDataInv
  BY DEF LaunchInit, BootDataInv, Extended, Early, Pcrs

(* The boot data stays first in PCR 18 once it is there.                   *)
LEMMA NextBootData ==
  ASSUME LTypeOK, StageInv, EarlyPcrInv, BootDataInv, [LaunchNext]_lvars
  PROVE  BootDataInv'
<1> USE DEF BootDataInv
<1>1. CASE ExtendSha1 \/ ExtendSha256
  <2>1. /\ UNCHANGED <<reliable, pc>> /\ Banks' = Banks /\ pc \in Measuring
    BY <1>1, ExtendFrame DEF OutsideExtend, inputs, Banks, eventlog
  <2> SUFFICES ASSUME reliable, NEW b \in Banks
               PROVE  /\ \/ pc = "bootdata" /\ ~Extended(b)'
                         \/ pcr'[b][18] # <<>> /\ pcr'[b][18][1] = M("boot_data", "tags")
                      /\ pc = "bootdata" /\ ~Extended(b)' => pcr'[b][18] = <<>>
    BY <2>1
  <2>2. pcr[b][18] \in Seq(Measurement)
    BY DEF LTypeOK, Pcrs
  <2>3. Extended(b)' <=> b = NextBank \/ Extended(b)
    BY <1>1, ExtendStep
  <2>4. CASE b = NextBank /\ JobPcr = 18
    <3>1. pcr'[b][18] = Append(pcr[b][18], JobValue) /\ ~Extended(b)
      BY <1>1, <2>4, ExtendStep
    <3>2. pc = "bootdata" => JobValue = M("boot_data", "tags")
      BY DEF JobValue, Job
    <3>3. JobValue \in Measurement
      BY <2>1, JobTyped DEF JobValue
    <3>4. pcr'[b][18] # <<>> /\ Extended(b)'
      BY <2>2, <2>3, <2>4, <3>1, <3>3, Appended
    <3>5. pcr'[b][18][1] = M("boot_data", "tags")
      <4>1. CASE pc = "bootdata"
        <5>1. pcr[b][18] = <<>>
          BY <3>1, <4>1
        <5> QED
          BY <2>2, <3>1, <3>2, <3>3, <4>1, <5>1, Appended
      <4>2. CASE pc # "bootdata"
        <5>1. pcr[b][18] # <<>> /\ pcr[b][18][1] = M("boot_data", "tags")
          BY <2>1, <4>2 DEF Early, Failed, Measuring
        <5> QED
          BY <2>2, <3>1, <3>3, <5>1, Appended
      <4> QED
        BY <4>1, <4>2
    <3> QED
      BY <3>4, <3>5
  <2>5. CASE ~(b = NextBank /\ JobPcr = 18)
    <3>1. pcr'[b][18] = pcr[b][18]
      BY <1>1, <2>5, ExtendStep DEF Pcrs
    <3>2. pc = "bootdata" => JobPcr = 18
      BY DEF JobPcr
    <3> QED
      BY <2>1, <2>2, <2>3, <2>5, <3>1, <3>2 DEF Early, Failed, Measuring
  <2> QED
    BY <2>4, <2>5
<1>2. CASE LogMeasurement
  <2>1. \A b \in Banks : Extended(b)
    BY <1>2, LogStep
  <2> QED
    BY <1>2, <2>1, LogStep DEF inputs, tpm, Banks, Measuring, Early, Failed
<1>3. CASE InitEventLog
  <2>1. stage = "sha1" /\ \A b \in Banks : ~Extended(b)' /\ pcr[b][18] = <<>>
    BY <1>3, InitLogStep DEF Extended, StageInv, Measuring, EarlyPcrInv, Early
  <2> QED
    BY <1>3, <2>1, InitLogStep DEF inputs, tpm, Banks
<1>4. CASE Quiet
  <2>1. \A b \in Banks : Extended(b)' <=> Extended(b)
    BY <1>4 DEF Quiet, Extended
  <2>2. \A b \in Banks : pc \in Early => pcr[b][17] = SklOnly
    BY DEF EarlyPcrInv, BeforeKernel
  <2> QED
    BY <1>4, <2>1, <2>2 DEF Quiet, Banks, eventlog, Early, Failed
<1> QED
  BY <1>1, <1>2, <1>3, <1>4, StepKinds

(* PCR 18 holds the boot data before PCR 17 is extended with what it is     *)
(* needed to judge, if the TPM obeys.                                      *)
THEOREM LaunchBootDataFirst == Launch => []BootDataFirst
<1>1. LTypeOK /\ EarlyPcrInv /\ BootDataInv => BootDataFirst
  BY DEF EarlyPcrInv, BootDataInv, BootDataFirst, BeforeKernel, SklOnly
<1> QED
  BY <1>1, LaunchTyped, LaunchShielded, InitBootData, NextBootData, PTL DEF Launch

-----------------------------------------------------------------------------
(* The banks of a TPM that obeys go together, and end in the digest that is *)
(* about to be logged.                                                     *)
LEMMA InitBanks == LaunchInit => BanksInv
<1> SUFFICES ASSUME LaunchInit PROVE BanksInv
  OBVIOUS
<1>1. "SHA1" \in Banks /\ stage = "sha1"
  BY DEF LaunchInit, Banks, Algos
<1>2. \A b \in Banks : ~Extended(b)
  BY <1>1 DEF Extended
<1>3. \A b \in Banks, p \in Pcrs : pcr[b][p] = pcr["SHA1"][p] /\ pcr[b][p] \in Seq(Measurement)
  BY <1>1, InitTyped DEF LaunchInit, LTypeOK
<1> QED
  BY <1>1, <1>2, <1>3 DEF BanksInv

(* Each step keeps the banks in agreement: extend_pcr() alone is in        *)
(* between two of them.                                                    *)
LEMMA NextBanks ==
  ASSUME LTypeOK, StageInv, BanksInv, [LaunchNext]_lvars
  PROVE  BanksInv'
<1> USE DEF BanksInv
<1>0. "SHA1" \in Banks /\ Banks \subseteq Algos
  BY DEF Banks, Algos
<1>1. CASE ExtendSha1 \/ ExtendSha256
  <2>1. /\ UNCHANGED <<reliable, pc>> /\ Banks' = Banks /\ JobPcr' = JobPcr
    BY <1>1, ExtendFrame DEF OutsideExtend, inputs, Banks, eventlog, JobPcr
  <2> SUFFICES ASSUME reliable PROVE BanksInv'
    BY <2>1
  <2>2. \A b \in Banks, p \in Pcrs : pcr[b][p] \in Seq(Measurement)
    BY DEF LTypeOK
  <2>3. /\ NextBank \in Banks /\ JobPcr \in Pcrs
        /\ pcr'[NextBank][JobPcr] = Append(pcr[NextBank][JobPcr], JobValue)
        /\ \A c \in Banks, p \in Pcrs : c # NextBank \/ p # JobPcr => pcr'[c][p] = pcr[c][p]
        /\ stage' = IF family = TPM12 \/ stage = "sha256" THEN "log" ELSE "sha256"
        /\ stage \in {"sha1", "sha256"}
    BY <1>1, ExtendStep DEF ExtendSha1, ExtendSha256
  <2>4. \A b \in Banks, p \in Pcrs :
          Len(pcr'["SHA1"][p]) =
            Len(pcr'[b][p]) + (IF stage' = "sha256" /\ b = "SHA256" /\ p = JobPcr THEN 1 ELSE 0)
    <3>1. SUFFICES ASSUME NEW b \in Banks, NEW p \in Pcrs
                   PROVE  Len(pcr'["SHA1"][p]) =
                            Len(pcr'[b][p]) + (IF stage' = "sha256" /\ b = "SHA256" /\ p = JobPcr
                                               THEN 1 ELSE 0)
      OBVIOUS
    <3>2. Len(pcr["SHA1"][p]) =
            Len(pcr[b][p]) + (IF stage = "sha256" /\ b = "SHA256" /\ p = JobPcr THEN 1 ELSE 0)
      OBVIOUS
    <3>3. b = "SHA1" \/ (b = "SHA256" /\ family # TPM12)
      BY DEF Banks, Algos
    <3>4. CASE p # JobPcr
      BY <1>0, <2>2, <2>3, <3>2, <3>4
    <3>5. CASE p = JobPcr
      <4>1. Len(pcr'[NextBank][p]) = Len(pcr[NextBank][p]) + 1
        BY <2>2, <2>3, <3>5
      <4>2. Len(pcr[b][p]) \in Nat /\ Len(pcr["SHA1"][p]) \in Nat
        BY <1>0, <2>2
      <4>3. \A c \in Banks : c # NextBank => pcr'[c][p] = pcr[c][p]
        BY <2>3, <3>5
      <4>4. CASE stage = "sha1"
        <5>1. NextBank = "SHA1" /\ Len(pcr["SHA1"][p]) = Len(pcr[b][p])
          BY <3>2, <4>2, <4>4 DEF NextBank
        <5>2. CASE b = "SHA1"
          BY <2>2, <2>3, <4>1, <4>2, <5>1, <5>2
        <5>3. CASE b = "SHA256" /\ family # TPM12
          BY <1>0, <2>3, <3>5, <4>1, <4>2, <4>3, <4>4, <5>1, <5>3
        <5> QED
          BY <3>3, <5>2, <5>3
      <4>5. CASE stage = "sha256"
        <5>1. NextBank = "SHA256" /\ stage' = "log"
          BY <2>3, <4>5 DEF NextBank
        <5>2. CASE b = "SHA1"
          BY <2>3, <4>2, <4>3, <5>1, <5>2
        <5>3. CASE b = "SHA256"
          BY <1>0, <3>2, <3>5, <4>1, <4>2, <4>3, <4>5, <5>1, <5>3
        <5> QED
          BY <3>3, <5>2, <5>3
      <4> QED
        BY <2>3, <4>4, <4>5
    <3> QED
      BY <3>4, <3>5
  <2>5. ASSUME NEW b \in Banks, Extended(b)'
        PROVE  /\ pcr'[b][JobPcr] # <<>>
               /\ pcr'[b][JobPcr][Len(pcr'[b][JobPcr])] = digest'[b]
    <3>1. CASE b = NextBank
      BY <1>1, <2>2, <2>3, <3>1, ExtendStep
    <3>2. CASE b # NextBank
      BY <1>1, <2>3, <2>5, <3>2, ExtendStep
    <3> QED
      BY <3>1, <3>2
  <2> QED
    BY <2>1, <2>4, <2>5
<1>2. CASE LogMeasurement
  BY <1>2, LogStep DEF inputs, tpm, Banks, Extended
<1>3. CASE InitEventLog
  BY <1>3, InitLogStep DEF inputs, tpm, Banks, Extended, StageInv, Measuring
<1>4. CASE Quiet
  <2>1. stage # "sha1" => JobPcr' = JobPcr
    BY <1>4 DEF Quiet, StageInv, Measuring, JobPcr
  <2>2. \A b \in Banks : Extended(b)' <=> Extended(b)
    BY <1>4 DEF Quiet, Extended
  <2>3. \A b \in Banks : Extended(b) => stage # "sha1"
    BY DEF Extended
  <2> QED
    BY <1>4, <2>1, <2>2, <2>3 DEF Quiet, Banks, eventlog
<1> QED
  BY <1>1, <1>2, <1>3, <1>4, StepKinds

(* All banks hold extensions of the same things, but for the one           *)
(* extend_pcr() is at.                                                     *)
THEOREM LaunchBanks == Launch => []BanksInv
  BY LaunchTyped, InitBanks, NextBanks, PTL DEF Launch
-----------------------------------------------------------------------------
(* The records: what each says is in the banks, in the order they are in.   *)
TrueRecord(r) ==
  /\ \A b \in Banks : r.nth \in 1 .. Len(pcr[b][r.pcr]) /\ pcr[b][r.pcr][r.nth] = r.digest[b]
  /\ stage # "sha1" /\ r.pcr = JobPcr => r.nth < Len(pcr["SHA1"][r.pcr])

Ordered(s) == \A i, j \in DOMAIN s : i < j /\ s[i].pcr = s[j].pcr => s[i].nth < s[j].nth

(* RecordsInv, record by record.                                           *)
LEMMA RecordsAre ==
  RecordsInv <=> (reliable => (\A i \in DOMAIN logged : TrueRecord(logged[i])) /\ Ordered(logged))
<1>1. "SHA1" \in Banks
  BY DEF Banks, Algos
<1>2. ASSUME NEW i \in DOMAIN logged
      PROVE  TrueRecord(logged[i]) <=>
               \A b \in Banks :
                 LET r == logged[i]
                 IN  /\ r.nth \in 1 .. Len(pcr[b][r.pcr]) /\ pcr[b][r.pcr][r.nth] = r.digest[b]
                     /\ stage # "sha1" /\ r.pcr = JobPcr => r.nth < Len(pcr["SHA1"][r.pcr])
  BY <1>1 DEF TrueRecord
<1> QED
  BY <1>2 DEF RecordsInv, Ordered

(* What a PCR held stays there.                                            *)
LEMMA Kept ==
  ASSUME LTypeOK, StageInv, ExtendSha1 \/ ExtendSha256, NEW r \in Record, TrueRecord(r), reliable
  PROVE  TrueRecord(r)'
<1>1. r.pcr \in Pcrs /\ r.nth \in Nat
  BY DEF Record
<1>2. Banks' = Banks /\ JobPcr' = JobPcr /\ pc \in Measuring
  BY ExtendFrame DEF OutsideExtend, Banks, eventlog, JobPcr
<1>3. \A b \in Banks, p \in Pcrs : pcr[b][p] \in Seq(Measurement)
  BY DEF LTypeOK
<1>4. JobValue \in Measurement
  BY <1>2, JobTyped DEF JobValue
<1>5. \A b \in Banks, p \in Pcrs :
        IF b = NextBank /\ p = JobPcr THEN pcr'[b][p] = Append(pcr[b][p], JobValue)
                                      ELSE pcr'[b][p] = pcr[b][p]
  BY ExtendStep
<1>6. ASSUME NEW b \in Banks
      PROVE  r.nth \in 1 .. Len(pcr'[b][r.pcr]) /\ pcr'[b][r.pcr][r.nth] = r.digest[b]
  <2>1. r.nth \in 1 .. Len(pcr[b][r.pcr]) /\ pcr[b][r.pcr][r.nth] = r.digest[b]
    BY DEF TrueRecord
  <2>2. CASE b = NextBank /\ r.pcr = JobPcr
    BY <1>1, <1>3, <1>4, <1>5, <2>1, <2>2, Appended
  <2>3. CASE ~(b = NextBank /\ r.pcr = JobPcr)
    BY <1>1, <1>5, <2>1, <2>3
  <2> QED
    BY <2>2, <2>3
<1>7. "SHA1" \in Banks
  BY DEF Banks, Algos
<1>8. ASSUME r.pcr = JobPcr PROVE r.nth < Len(pcr'["SHA1"][r.pcr])
  <2>1. CASE stage = "sha1"
    <3>1. r.nth <= Len(pcr["SHA1"][r.pcr]) /\ NextBank = "SHA1"
      BY <1>7, <2>1 DEF TrueRecord, NextBank
    <3> QED
      BY <1>1, <1>3, <1>4, <1>5, <1>7, <1>8, <3>1, Appended
  <2>2. CASE stage # "sha1"
    <3>1. NextBank # "SHA1" /\ r.nth < Len(pcr["SHA1"][r.pcr])
      BY <1>8, <2>2 DEF TrueRecord, NextBank
    <3> QED
      BY <1>1, <1>5, <1>7, <3>1
  <2> QED
    BY <2>1, <2>2
<1> QED
  BY <1>2, <1>6, <1>8 DEF TrueRecord

(* At entry the log is empty.                                              *)
LEMMA InitRecords == LaunchInit => RecordsInv
  BY DEF LaunchInit, RecordsInv

(* A record is written after its extensions, and later extensions do not   *)
(* change what it says.                                                    *)
LEMMA NextRecords ==
  ASSUME LTypeOK, StageInv, PathInv, EarlyPcrInv, BanksInv, RecordsInv, [LaunchNext]_lvars
  PROVE  RecordsInv'
<1>0. logged \in Seq(Record) /\ \A i \in DOMAIN logged : logged[i] \in Record
  BY DEF LTypeOK
<1>1. CASE ExtendSha1 \/ ExtendSha256
  <2>1. UNCHANGED <<reliable, logged>>
    BY <1>1, ExtendFrame DEF OutsideExtend, inputs
  <2>2. ASSUME reliable, NEW i \in DOMAIN logged PROVE TrueRecord(logged[i])'
    <3>1. logged[i] \in Record /\ TrueRecord(logged[i])
      BY <1>0, <2>2, RecordsAre
    <3> QED
      BY <1>1, <2>1, <2>2, <3>1, Kept
  <2> QED
    BY <2>1, <2>2, RecordsAre DEF RecordsInv, TrueRecord
<1>2. CASE LogMeasurement
  <2>1. UNCHANGED <<reliable, pcr, digest>> /\ Banks' = Banks /\ stage' = "sha1"
    BY <1>2, LogStep DEF inputs, tpm, Banks
  <2>2. CASE logged' = logged
    BY <2>1, <2>2 DEF RecordsInv
  <2>3. CASE logged' = Append(logged, JobRecord)
    <3> SUFFICES ASSUME reliable PROVE RecordsInv'
      BY <2>1 DEF RecordsInv
    <3>1. /\ JobRecord = [pcr |-> JobPcr, digest |-> digest, nth |-> Len(pcr["SHA1"][JobPcr])]
          /\ stage = "log" /\ JobPcr \in Pcrs /\ \A b \in Banks : Extended(b)
      BY <1>2, LogStep
    <3>2. \A b \in Banks : pcr[b][JobPcr] \in Seq(Measurement)
      BY <3>1 DEF LTypeOK
    <3>3. ASSUME NEW b \in Banks
          PROVE  /\ JobRecord.nth \in 1 .. Len(pcr[b][JobRecord.pcr])
                 /\ pcr[b][JobRecord.pcr][JobRecord.nth] = JobRecord.digest[b]
      <4>1. Len(pcr["SHA1"][JobPcr]) = Len(pcr[b][JobPcr])
        BY <3>1, <3>2 DEF BanksInv
      <4>2. pcr[b][JobPcr] # <<>> /\ pcr[b][JobPcr][Len(pcr[b][JobPcr])] = digest[b]
        BY <3>1 DEF BanksInv
      <4>3. Len(pcr[b][JobPcr]) \in Nat \ {0}
        BY <3>2, <4>2
      <4> QED
        BY <3>1, <4>1, <4>2, <4>3
    <3>4. ASSUME NEW i \in DOMAIN logged
          PROVE  /\ \A b \in Banks : /\ logged[i].nth \in 1 .. Len(pcr[b][logged[i].pcr])
                                     /\ pcr[b][logged[i].pcr][logged[i].nth] = logged[i].digest[b]
                 /\ logged[i].pcr = JobRecord.pcr => logged[i].nth < JobRecord.nth
      <4>1. TrueRecord(logged[i])
        BY RecordsAre
      <4> QED
        BY <3>1, <4>1 DEF TrueRecord
    <3>5. Ordered(logged)
      BY RecordsAre
    <3>6. /\ DOMAIN logged' = 1 .. Len(logged) + 1 /\ DOMAIN logged = 1 .. Len(logged)
          /\ Len(logged) \in Nat /\ logged'[Len(logged) + 1] = JobRecord
          /\ \A i \in DOMAIN logged : logged'[i] = logged[i]
      BY <1>0, <2>3
    <3> HIDE <2>3
    <3>7. \A i \in DOMAIN logged' : i \in DOMAIN logged \/ i = Len(logged) + 1
      BY <3>6
    <3>8. \A i \in DOMAIN logged', b \in Banks' :
            /\ logged'[i].nth \in 1 .. Len(pcr'[b][logged'[i].pcr])
            /\ pcr'[b][logged'[i].pcr][logged'[i].nth] = logged'[i].digest[b]
      BY <2>1, <3>3, <3>4, <3>6, <3>7
    <3>9. ASSUME NEW i \in DOMAIN logged', NEW j \in DOMAIN logged',
                 i < j, logged'[i].pcr = logged'[j].pcr
          PROVE  logged'[i].nth < logged'[j].nth
      <4>1. i \in DOMAIN logged
        BY <3>6, <3>7, <3>9
      <4>2. CASE j \in DOMAIN logged
        BY <3>5, <3>6, <3>9, <4>1, <4>2 DEF Ordered
      <4>3. CASE j = Len(logged) + 1
        BY <3>4, <3>6, <3>9, <4>1, <4>3
      <4> QED
        BY <3>7, <4>2, <4>3
    <3> QED
      BY <2>1, <3>8, <3>9 DEF RecordsInv
  <2> QED
    BY <1>2, <2>2, <2>3, LogStep
<1>3. CASE InitEventLog
  <2>1. UNCHANGED <<pcr, stage>> /\ Banks' = Banks /\ stage = "sha1" /\ logged = <<>>
    BY <1>3, InitLogStep DEF tpm, Banks, StageInv, Measuring, PathInv, Early
  <2>2. \A b \in Banks : b \in Algos /\ pcr[b][17] = SklOnly
    BY <1>3, InitLogStep DEF Banks, Algos, EarlyPcrInv, BeforeKernel, Early
  <2>3. CASE logged' = logged
    BY <2>1, <2>3 DEF RecordsInv
  <2>4. CASE logged' = <<SkinitRecord>>
    BY <2>1, <2>2, <2>4 DEF RecordsInv, SkinitRecord, SklOnly
  <2> QED
    BY <1>3, <2>3, <2>4, InitLogStep
<1>4. CASE Quiet
  <2>1. stage # "sha1" => JobPcr' = JobPcr
    BY <1>4 DEF Quiet, StageInv, Measuring, JobPcr
  <2> QED
    BY <1>4, <2>1 DEF Quiet, Banks, eventlog, RecordsInv
<1> QED
  BY <1>1, <1>2, <1>3, <1>4, StepKinds

(* Every record says what is in the banks, in the order it is in.          *)
THEOREM LaunchRecords == Launch => []RecordsInv
  BY LaunchTyped, LaunchPath, LaunchShielded, LaunchBanks, InitRecords, NextRecords, PTL DEF Launch

(* Every record of the log says what a PCR was extended with in every bank, *)
(* in the order of the extensions, if the TPM obeys.                       *)
THEOREM LaunchLogMatchesBanks == Launch => []LogMatchesBanks
<1>1. LTypeOK /\ RecordsInv => LogMatchesBanks
  <2> SUFFICES ASSUME LTypeOK, RecordsInv, reliable PROVE LogMatchesBanks
    BY DEF LogMatchesBanks
  <2>1. \A i \in DOMAIN logged : logged[i] \in Record
    BY DEF LTypeOK
  <2>2. \A b \in Banks, p \in Pcrs : DOMAIN pcr[b][p] = 1 .. Len(pcr[b][p])
    BY DEF LTypeOK
  <2> QED
    BY <2>1, <2>2 DEF RecordsInv, LogMatchesBanks, Record
<1> QED
  BY <1>1, LaunchTyped, LaunchRecords, PTL
-----------------------------------------------------------------------------
(* A record more is one more for its PCR.                                  *)
LEMMA RecordsCounted ==
  ASSUME NEW s \in Seq(Record), NEW r \in Record, NEW p \in Pcrs
  PROVE  /\ Cardinality(RecordsOf(s, p)) \in Nat
         /\ Cardinality(RecordsOf(Append(s, r), p)) =
              Cardinality(RecordsOf(s, p)) + (IF r.pcr = p THEN 1 ELSE 0)
<1>1. IsFiniteSet(RecordsOf(s, p))
  <2>1. RecordsOf(s, p) \subseteq 1 .. Len(s) /\ Len(s) \in Nat
    BY DEF RecordsOf
  <2>2. IsFiniteSet(1 .. Len(s))
    BY <2>1, FS_Interval
  <2> QED
    BY <2>1, <2>2, FS_Subset
<1>2. /\ DOMAIN Append(s, r) = 1 .. Len(s) + 1 /\ DOMAIN s = 1 .. Len(s) /\ Len(s) \in Nat
      /\ Append(s, r)[Len(s) + 1] = r
      /\ \A i \in 1 .. Len(s) : Append(s, r)[i] = s[i]
  OBVIOUS
<1>3. RecordsOf(Append(s, r), p) =
        IF r.pcr = p THEN RecordsOf(s, p) \cup {Len(s) + 1} ELSE RecordsOf(s, p)
  BY <1>2 DEF RecordsOf
<1>4. Len(s) + 1 \notin RecordsOf(s, p)
  BY <1>2 DEF RecordsOf
<1> QED
  BY <1>1, <1>3, <1>4, FS_AddElement, FS_CardinalityType

(* At entry there is nothing to replay.                                    *)
LEMMA InitReplay == LaunchInit => ReplayInv
  BY DEF LaunchInit, Init, ReplayInv

(* Each step leaves the log behind the PCRs by no more than the extension  *)
(* it is at.                                                               *)
LEMMA NextReplay ==
  ASSUME LTypeOK, StageInv, PathInv, EarlyPcrInv, ReplayInv, [LaunchNext]_lvars
  PROVE  ReplayInv'
<1> USE DEF ReplayInv
<1>0. "SHA1" \in Banks /\ \A p \in Pcrs : pcr["SHA1"][p] \in Seq(Measurement)
  BY DEF Banks, Algos, LTypeOK
<1>1. CASE ExtendSha1 \/ ExtendSha256
  <2>1. UNCHANGED <<reliable, phase, refused, logged>> /\ JobPcr' = JobPcr /\ pc \in Measuring
        /\ stage' # "sha1"
    BY <1>1, ExtendFrame, ExtendStep DEF OutsideExtend, inputs, eventlog, JobPcr
  <2>2. JobValue \in Measurement
    BY <2>1, JobTyped DEF JobValue
  <2> SUFFICES ASSUME reliable, phase # "start", ~refused, NEW p \in Pcrs
               PROVE  Len(pcr'["SHA1"][p]) =
                        Cardinality(RecordsOf(logged, p)) + (IF p = JobPcr THEN 1 ELSE 0)
    BY <2>1
  <2>3. Len(pcr["SHA1"][p]) =
          Cardinality(RecordsOf(logged, p)) + (IF stage # "sha1" /\ p = JobPcr THEN 1 ELSE 0)
    OBVIOUS
  <2>6. Cardinality(RecordsOf(logged, p)) \in Nat
    BY RecordsTyped, RecordsCounted DEF LTypeOK
  <2>4. CASE p = JobPcr /\ stage = "sha1"
    <3>1. pcr'["SHA1"][p] = Append(pcr["SHA1"][p], JobValue)
      BY <1>1, <2>4, ExtendStep DEF NextBank
    <3>2. Len(pcr'["SHA1"][p]) = Len(pcr["SHA1"][p]) + 1
      BY <1>0, <2>2, <3>1, Appended
    <3> QED
      BY <2>3, <2>4, <2>6, <3>2
  <2>5. CASE ~(p = JobPcr /\ stage = "sha1")
    <3>1. "SHA1" # NextBank \/ p # JobPcr
      BY <2>5 DEF NextBank
    <3>2. pcr'["SHA1"][p] = pcr["SHA1"][p]
      BY <1>0, <1>1, <3>1, ExtendStep
    <3> QED
      BY <2>3, <2>5, <3>2
  <2> QED
    BY <2>4, <2>5
<1>2. CASE LogMeasurement
  <2>1. UNCHANGED <<reliable, phase, pcr>> /\ stage' = "sha1" /\ stage = "log" /\ JobPcr \in Pcrs
    BY <1>2, LogStep DEF inputs, tpm
  <2>2. CASE refused'
    BY <2>2
  <2>3. CASE logged' = Append(logged, JobRecord) /\ refused' = refused
    <3>1. JobRecord \in Record /\ JobRecord.pcr = JobPcr
      BY <1>0, <1>2, <2>1, LogStep DEF Record, LTypeOK
    <3>2. ASSUME NEW p \in Pcrs
          PROVE  Cardinality(RecordsOf(logged', p)) =
                   Cardinality(RecordsOf(logged, p)) + (IF JobPcr = p THEN 1 ELSE 0)
      BY <2>3, <3>1, RecordsCounted DEF LTypeOK
    <3> QED
      BY <2>1, <2>3, <3>2
  <2> QED
    BY <1>2, <2>2, <2>3, LogStep
<1>3. CASE InitEventLog
  <2>1. UNCHANGED <<pcr, stage>> /\ stage = "sha1" /\ logged = <<>> /\ pc = "event_log"
    BY <1>3, InitLogStep DEF tpm, StageInv, Measuring, PathInv, Early
  <2>2. pcr["SHA1"][17] = SklOnly /\ pcr["SHA1"][18] = <<>>
    BY <1>0, <2>1 DEF EarlyPcrInv, BeforeKernel, Early
  <2>3. CASE refused'
    BY <2>3
  <2>4. CASE logged' = <<SkinitRecord>>
    <3>1. RecordsOf(logged', 17) = {1} /\ RecordsOf(logged', 18) = {}
      BY <2>4 DEF RecordsOf, SkinitRecord
    <3>2. Cardinality({1}) = 1 /\ Cardinality({}) = 0
      BY FS_Singleton, FS_EmptySet
    <3>3. Len(SklOnly) = 1
      BY DEF SklOnly
    <3>4. \A p \in Pcrs : Len(pcr'["SHA1"][p]) = Cardinality(RecordsOf(logged', p))
      <4>1. Len(pcr'["SHA1"][17]) = Cardinality(RecordsOf(logged', 17))
        BY <2>1, <2>2, <3>1, <3>2, <3>3
      <4>2. Len(<<>>) = 0
        OBVIOUS
      <4>3. Len(pcr'["SHA1"][18]) = Cardinality(RecordsOf(logged', 18))
        BY <2>1, <2>2, <3>1, <3>2, <4>2
      <4> QED
        BY <4>1, <4>3 DEF Pcrs
    <3>5. \A p \in Pcrs : Len(pcr["SHA1"][p]) \in Nat
      BY <1>0
    <3> QED
      BY <2>1, <3>4, <3>5
  <2> QED
    BY <1>3, <2>3, <2>4, InitLogStep
<1>4. CASE Quiet
  <2>1. stage # "sha1" => JobPcr' = JobPcr
    BY <1>4 DEF Quiet, StageInv, Measuring, JobPcr
  <2> QED
    BY <1>4, <2>1 DEF Quiet, eventlog
<1> QED
  BY <1>1, <1>2, <1>3, <1>4, StepKinds

(* If no event was refused, the log has one record for each extension of a  *)
(* PCR: a verifier can replay it.                                          *)
THEOREM LaunchLogReplays == Launch => []LogReplays
<1>1. LTypeOK /\ ReplayInv => LogReplays
  <2> SUFFICES ASSUME LTypeOK, ReplayInv, reliable, stage = "sha1", phase = "run", ~refused,
                      NEW p \in Pcrs
               PROVE  Cardinality({i \in DOMAIN logged : logged[i].pcr = p}) = Len(pcr["SHA1"][p])
    BY DEF LogReplays
  <2>1. Cardinality(RecordsOf(logged, p)) \in Nat
    BY RecordsTyped, RecordsCounted DEF LTypeOK
  <2> QED
    BY <2>1 DEF ReplayInv, RecordsOf
<1> QED
  BY <1>1, LaunchTyped, LaunchPath, LaunchShielded, InitReplay, NextReplay, PTL DEF Launch
-----------------------------------------------------------------------------
(* One module more is one measurement more.                                *)
LEMMA ModulesGrow ==
  ASSUME NEW n \in Nat, NEW k, NEW w, M("skl", "skl") \in Measurement,
         M("kernel", k) \in Measurement, M("module", w) \in Measurement
  PROVE  /\ Append(<<M("skl", "skl")>>, M("kernel", k)) =
              <<M("skl", "skl"), M("kernel", k)>> \o Modules(0, w)
         /\ Append(<<M("skl", "skl"), M("kernel", k)>> \o Modules(n, w), M("module", w)) =
              <<M("skl", "skl"), M("kernel", k)>> \o Modules(n + 1, w)
<1> DEFINE e == M("module", w)
           s == <<M("skl", "skl"), M("kernel", k)>>
<1>1. s \in Seq(Measurement) /\ e \in Measurement
  OBVIOUS
<1>2. \A j \in Nat : /\ Modules(j, w) \in Seq(Measurement) /\ Len(Modules(j, w)) = j
                     /\ \A i \in 1 .. j : Modules(j, w)[i] = e
  BY DEF Modules
<1>3. Modules(0, w) = <<>>
  BY <1>2, EmptySeq
<1>4. s \o Modules(0, w) = s
  BY <1>1, <1>3, ConcatEmptySeq
<1>5. Append(<<M("skl", "skl")>>, M("kernel", k)) = s
  <2>1. ASSUME NEW a \in Measurement, NEW b \in Measurement
        PROVE  Append(<<a>>, b) = <<a, b>>
    <3>1. <<a>> \in Seq(Measurement) /\ Len(<<a>>) = 1 /\ <<a>>[1] = a
      OBVIOUS
    <3>2. /\ Append(<<a>>, b) \in Seq(Measurement) /\ Len(Append(<<a>>, b)) = 2
          /\ Append(<<a>>, b)[1] = a /\ Append(<<a>>, b)[2] = b
      BY <3>1, Appended
    <3>3. <<a, b>> \in Seq(Measurement) /\ Len(<<a, b>>) = 2 /\ <<a, b>>[1] = a /\ <<a, b>>[2] = b
      OBVIOUS
    <3>4. \A i \in 1 .. 2 : i = 1 \/ i = 2
      OBVIOUS
    <3> HIDE DEF Measurement
    <3> QED
      BY <3>2, <3>3, <3>4, SeqEqual
  <2> QED
    BY <2>1
<1> HIDE DEF e, s
<1>6. Append(Modules(n, w), e) = Modules(n + 1, w)
  <2>1. /\ Modules(n, w) \in Seq(Measurement) /\ Len(Modules(n, w)) = n
        /\ Modules(n + 1, w) \in Seq(Measurement) /\ Len(Modules(n + 1, w)) = n + 1
        /\ \A i \in 1 .. n : Modules(n, w)[i] = e
        /\ \A i \in 1 .. n + 1 : Modules(n + 1, w)[i] = e
    BY <1>2
  <2> QED
    BY <1>1, <2>1
<1>7. Append(s \o Modules(n, w), e) = s \o Append(Modules(n, w), e)
  <2>1. Modules(n, w) \in Seq(Measurement)
    BY <1>2
  <2> HIDE DEF Modules
  <2> QED
    BY <1>1, <2>1
<1> QED
  BY <1>4, <1>5, <1>6, <1>7 DEF e, s

(* What PCR 17 holds grows with the measurements, one by one.               *)
LEMMA KernelAndGrows ==
  ASSUME LTypeOK, NEW n \in Nat
  PROVE  /\ Append(SklOnly, M("kernel", kernel)) = KernelAnd(0)
         /\ Append(KernelAnd(n), M("module", module)) = KernelAnd(n + 1)
<1>1. /\ M("skl", "skl") \in Measurement /\ M("kernel", kernel) \in Measurement
      /\ M("module", module) \in Measurement
  BY DEF M, Measurement, Whats, Contents, LTypeOK
<1> QED
  BY <1>1, ModulesGrow DEF SklOnly, KernelAnd

(* At entry PCR 17 has nothing of the kernel.                              *)
LEMMA InitExact == LaunchInit => ExactInv
  BY DEF LaunchInit, ExactInv

(* Each step extends PCR 17 with what comes next, and with nothing else.   *)
LEMMA NextExact ==
  ASSUME LTypeOK, StageInv, PathInv, EarlyPcrInv, ExactInv, [LaunchNext]_lvars
  PROVE  ExactInv'
<1>0. mod \in Nat
  BY DEF LTypeOK
<1> USE DEF ExactInv
<1>1. CASE ExtendSha1 \/ ExtendSha256
  <2>1. /\ UNCHANGED <<pc, reliable, boot, kernel, mbi, module, shield, entry, sized, mod>>
        /\ Banks' = Banks /\ pc \in Measuring
    BY <1>1, ExtendFrame DEF OutsideExtend, inputs, memory, found, eventlog, Banks
  <2> SUFFICES ASSUME reliable, shield = "IOMMU", sized, entry # "null", NEW b \in Banks
               PROVE  /\ pc = "kernel" =>
                           pcr'[b][17] = IF Extended(b)' THEN KernelAnd(0) ELSE SklOnly
                      /\ pc = "module" =>
                           pcr'[b][17] = KernelAnd(IF Extended(b)' THEN mod ELSE mod - 1)
    BY <2>1 DEF Measuring, Handed, KernelAnd
  <2>2. /\ Extended(b)' <=> b = NextBank \/ Extended(b)
        /\ b = NextBank => ~Extended(b) /\ pcr'[b][JobPcr] = Append(pcr[b][JobPcr], JobValue)
        /\ b # NextBank => pcr'[b][JobPcr] = pcr[b][JobPcr]
    BY <1>1, ExtendStep
  <2>3. ASSUME pc = "kernel"
        PROVE  pcr'[b][17] = IF Extended(b)' THEN KernelAnd(0) ELSE SklOnly
    <3>1. JobPcr = 17 /\ JobValue = M("kernel", kernel)
      BY <2>3 DEF JobPcr, JobValue, Job, KernelData, M
    <3>2. pcr[b][17] = IF Extended(b) THEN KernelAnd(0) ELSE SklOnly
      BY <2>3 DEF EarlyPcrInv, Extended
    <3> QED
      BY <2>2, <3>1, <3>2, KernelAndGrows
  <2>4. ASSUME pc = "module"
        PROVE  pcr'[b][17] = KernelAnd(IF Extended(b)' THEN mod ELSE mod - 1)
    <3>1. JobPcr = 17 /\ JobValue = M("module", module)
      BY <2>4 DEF JobPcr, JobValue, Job
    <3>2. pcr[b][17] = KernelAnd(IF Extended(b) THEN mod ELSE mod - 1)
      BY <2>4
    <3>3. mod - 1 \in Nat /\ (mod - 1) + 1 = mod
      BY <1>0, <2>4 DEF PathInv
    <3> QED
      BY <2>2, <3>1, <3>2, <3>3, KernelAndGrows
  <2> QED
    BY <2>3, <2>4
<1>2. CASE LogMeasurement
  <2>1. /\ UNCHANGED <<reliable, boot, kernel, mbi, module, shield, entry, sized, mod, pcr>>
        /\ Banks' = Banks /\ stage' = "sha1"
    BY <1>2, LogStep DEF inputs, memory, found, tpm, Banks
  <2>2. \/ pc = "kernel" /\ pc' \in {"release", "modules"} /\ mod = 0
        \/ pc = "module" /\ pc' = "modules"
        \/ pc' \in {"boot_tag", "find"}
    BY <1>2, LogStep DEF PathInv, Measuring, Handed, Failed
  <2>3. stage # "sha1" /\ \A b \in Banks : Extended(b)
    BY <1>2, LogStep
  <2> QED
    BY <2>1, <2>2, <2>3 DEF Handed, KernelAnd
<1>3. CASE InitEventLog
  BY <1>3, InitLogStep DEF Handed
<1>4. CASE Quiet
  <2>0. pcr' = pcr /\ reliable' = reliable /\ Banks' = Banks /\ stage' = stage
        /\ (\A b \in Banks : Extended(b)' <=> Extended(b))
    BY <1>4 DEF Quiet, Banks, eventlog, Extended
  <2> USE DEF Goto, Handed, inputs, memory, found
  <2>1. CASE UNCHANGED lvars
    BY <1>4, <2>0, <2>1 DEF lvars, launch, KernelAnd
  <2>2. CASE CheckTags \/ EnableTpm \/ RequestLocality \/ InitEventLog \/ ChooseProtocol \/ SetupIommu
    BY <2>0, <2>2 DEF CheckTags, EnableTpm, RequestLocality, InitEventLog, ChooseProtocol, SetupIommu
  <2>3. CASE CheckMle \/ GetEntry \/ FindKernel
    BY <2>0, <2>3 DEF CheckMle, GetEntry, FindKernel, StageInv, Measuring
  <2>4. CASE Release \/ CheckCanary
    BY <2>0, <2>4 DEF Release, CheckCanary, KernelAnd
  <2>5. CASE NextModule
    <3>1. UNCHANGED <<kernel, module, shield, entry, sized>> /\ pc = "modules"
      BY <2>5 DEF NextModule
    <3>2. \/ pc' = "module" /\ mod' = mod + 1
          \/ pc' \in {"done", "reboot"} /\ mod' = mod
      BY <2>5 DEF NextModule
    <3>3. stage = "sha1" /\ \A b \in Banks : ~Extended(b)
      BY <3>1 DEF StageInv, Measuring, Extended
    <3>4. (mod + 1) - 1 = mod
      BY <1>0
    <3> QED
      BY <2>0, <3>1, <3>2, <3>3, <3>4 DEF KernelAnd
  <2>6. CASE Dma
    BY <2>6 DEF Dma
  <2>7. CASE ExtendSha1 \/ ExtendSha256
    BY <1>1, <2>7
  <2>8. CASE LogMeasurement
    BY <1>2, <2>8
  <2>9. CASE Grant
    BY <2>0, <2>9 DEF Grant, KernelAnd
  <2> QED
    BY <2>1, <2>2, <2>3, <2>4, <2>5, <2>6, <2>7, <2>8, <2>9 DEF LaunchNext, Cpu
<1> QED
  BY <1>1, <1>2, <1>3, <1>4, StepKinds

(* With a TPM that obeys and the IOMMU up, PCR 17 is at any time what the  *)
(* launch has measured so far, once each and in order.                     *)
THEOREM LaunchExact == Launch => []ExactInv
  BY LaunchTyped, LaunchPath, LaunchShielded, InitExact, NextExact, PTL DEF Launch

(* At the hand-over PCR 17 stands for SKL, the kernel and each module, once *)
(* and in that order, for any number of modules.                           *)
THEOREM LaunchKernelMeasured == Launch => []KernelMeasured
<1>1. LTypeOK /\ PathInv /\ ExactInv => KernelMeasured
  <2> SUFFICES ASSUME LTypeOK, PathInv, ExactInv, reliable, pc = "handoff", shield = "IOMMU",
                      sized, entry # "null", NEW b \in Banks
               PROVE  pcr[b][17] = <<M("skl", "skl"), M("kernel", kernel)>>
                                   \o Modules(IF boot.kind = "mb2" THEN mbi.mods ELSE 0, module)
    BY DEF KernelMeasured
  <2>1. pcr[b][17] = KernelAnd(mod)
    BY DEF ExactInv, Handed
  <2>2. mod = IF boot.kind = "mb2" THEN mbi.mods ELSE 0
    BY DEF PathInv, Handed
  <2> QED
    BY <2>1, <2>2 DEF KernelAnd
<1> QED
  BY <1>1, LaunchTyped, LaunchPath, LaunchExact, PTL
-----------------------------------------------------------------------------
(* Composition: the launch uses the event log as module EventLog says it is *)
(* used, so that what is proved of the log holds of the launch's log.      *)
THEOREM LaunchUsesEventLog == Launch => Spec
<1>1. LaunchInit => Init
  BY DEF LaunchInit
<1>2. ASSUME LTypeOK, StageInv, [LaunchNext]_lvars PROVE [Next]_vars
  <2> USE <1>2
  <2>1. CASE ExtendSha1 \/ ExtendSha256
    BY <2>1, ExtendFrame DEF OutsideExtend, eventlog, vars
  <2>2. CASE LogMeasurement
    <3>1. AddEvent(Job.text) /\ pc \in Measuring
      BY <2>2, LogStep DEF LogMeasurement
    <3>2. Job.text \in Texts
      BY <3>1, JobTyped
    <3> QED
      BY <3>1, <3>2 DEF Next
  <2>3. CASE InitEventLog
    BY <2>3 DEF InitEventLog, StartLog, Next
  <2>4. CASE Quiet
    BY <2>4 DEF Quiet, eventlog, vars
  <2> QED
    BY <2>1, <2>2, <2>3, <2>4, StepKinds
<1> QED
  BY <1>1, <1>2, LaunchTyped, PTL DEF Launch, Spec

(* In the launch, neither clearing the log nor writing to it touches a byte *)
(* outside of the container or of the SLB, its header points behind the    *)
(* last record, records are whole, and a failed log stays shut.            *)
THEOREM LaunchLogIsSound ==
  Launch => [](WritesContained /\ HeaderTracksEnd /\ WholeRecords /\ FailedLogStaysShut)
<1>1. Launch => Spec
  BY LaunchUsesEventLog
<1>2. Spec => []WritesContained /\ []HeaderTracksEnd /\ []WholeRecords /\ []FailedLogStaysShut
  BY WritesStayContained, HeaderAlwaysTracksEnd, RecordsAreWhole, FailedLogIsShut
<1> QED
  BY <1>1, <1>2, PTL
=============================================================================
