# A formal model of the Secure Kernel Loader

The Secure Kernel Loader (SKL) is the program an AMD processor enters with the
`SKINIT` instruction. It runs alone, on one CPU with interrupts off, from a 64
KiB Secure Loader Block (SLB) that `SKINIT` measured into PCR 17 of the TPM and
shielded against DMA. Its job is short and has to be right the first time:
measure what the bootloader handed over and the kernel it is about to start,
hand DMA protection over from the SLB's own to the IOMMU, keep an event log of
the measurements, and jump to the kernel.

This directory holds TLA+ models of it, model-checked with TLC, and proofs
about them checked with TLAPS.

## The system

| Part | Source | State it keeps | Operations | Modelled in |
|---|---|---|---|---|
| Launch sequence | `main.c` | control flow, kernel entry and size | `skl_main`, `skl_linux`, `skl_multiboot2`, `extend_pcr` | `SklMain`; `BootPath`, `KernelImage` |
| DMA hand-over | `main.c`, `iommu.c` | IOMMU registers, `command_buf`, `iommu_done` | `iommu_setup`, `iommu_load_device_table`, `send_command` | `Iommu`, `DmaShield` |
| SLB protection | `dev.c` | `DEV_CR`, `MEMPROT_CR` | `disable_memory_protection` | `Iommu`, `PciConfig` |
| Event log | `event_log.c` | `evtlog_base`, `ptr_current`, `limit`, the log's memory | `event_log_init`, `log_event_tpm12`, `log_event_tpm20`, `log_write` | `EventLog` |
| TPM facade | `tpmlib/tpm.c` | `struct tpm` | `enable_tpm`, `tpm_request_locality`, `tpm_extend_pcr`, `tpm_relinquish_locality`, `free_tpm` | `TpmTis`, `TpmCrb`; `SklMain`, by outcome |
| TIS driver | `tpmlib/tis.c` | `locality` | `tis_request_locality`, `tis_relinquish_locality`, `tis_send`, `tis_recv` | `TpmTis` |
| CRB driver | `tpmlib/crb.c` | `locality`; commands in the TPM's memory | `crb_init`, `crb_request_locality`, `crb_send`, `crb_relinquish_locality` | `TpmCrb` |
| TPM commands | `tpmlib/tpm{1,2}_cmds.c` | none | `tpm1_pcr_extend`, `tpm2_extend_pcr` | `TpmTis`, `TpmCrb` |
| Command buffer | `tpmlib/tpm_buff.c` | `struct tpmbuff` | `alloc_tpmbuff`, `tpmb_reserve`, `tpmb_put`, `tpmb_trim`, `tpmb_free`, `free_tpmbuff` | `TpmBuff` |
| Tags | `include/tags.h` | none (data in the SLB) | `next_tag`, `next_of_type`, `next_of_class` | `SklTags` |
| Multiboot information | `main.c`, `include/multiboot2.h` | none (data in memory) | `multiboot_next_tag`, both loops of `skl_multiboot2` | `Multiboot`; content in `SklMain` |
| PCI | `pci.c` | access method | `pci_init`, `pci_locate`, the accessors | `PciConfig` |
| Entry and exit | `head.S` | CPU mode, page tables | `_entry` | `SklEntry` |
| Hashes | `sha1sum.c`, `sha256.c` | block buffer, schedule, registers | `sha1sum`, `sha256sum` | `Sha` |

Interaction is by call, except at three places where another agent acts at the
same time: devices write to memory outside the SLB at any time until the IOMMU
stops them; the IOMMU fetches commands from `command_buf` at its own pace; and
the TPM works at its own pace behind its registers and may fail to. These, the
integer edges of a log whose place the bootloader chooses, and results that are
ignored throughout are what is hard to test here; `PROJECT.json` lists each
hazard at its line.

What makes each part correct:

* *Event log*: it is never written outside its container or over the SLB,
  whatever the bootloader says about it; it is a sequence of whole records at
  all times, also when a record does not fit or initialisation failed.
* *DMA hand-over*: devices are kept out of the SLB from SKINIT to the kernel's
  entry, although one protection goes before SKL can know that the other is in
  force; and the polling ends.
* *Launch*: what runs is what was measured, in spite of devices that can write
  to all memory until the IOMMU stops them; PCRs and event log agree.
* *TPM drivers*: a command is carried out at most once and in order; what was
  reported as done was done; a slow, silent or failing TPM does not stop the
  launch where the code has a limit for it.
* *Tags, image, MBI*: walks and range checks stay inside what was measured,
  over lists and header fields SKL does not control, and they end.
* *Entry and exit*: no step the CPU would refuse, and the kernel is entered in
  the state its boot protocol asks for.
* *PCI*: the register that is meant is reached by either method, and nothing
  else is written.
* *Hashes*: what goes through the rounds is the padded message, whatever its
  length.

## Modules

**EventLog** The statics of `event_log.c` and the log's memory are one record
`log`; every C function is an operator on it (`LogWrite`, `LogEvent`,
`EventLogInit`), composed as the calls are. `InitLog` and `AddEvent` are the
actions. Bytes are abstracted to *pieces* (what was copied, where, how much).
Addresses are natural numbers below `AddrSpace`; the one sum the C code makes
in 32 bits is taken modulo `AddrSpace`.

**EventLogProofs** The theorems about it, see below.

**Iommu** `pc` follows `iommu_setup()` and both calls of
`iommu_load_device_table()`, one action per group of register writes between
which the order matters; `FetchFails`, `FetchCommand` and `FetchGarbage` are
the IOMMU. What the IOMMU does is taken from what the source relies on, in
particular the comment at `main.c:181-193`:

* while the SLB is protected a fetch from `command_buf` fails, halts command
  processing, and makes the IOMMU block all devices (`failsafe`);
* that state survives clearing `IommuEn`, and ends when a command is fetched;
* setting `CmdBufEn` after clearing it makes the IOMMU try again;
* what becomes of the fail-safe state at an illegal command is not said
  anywhere, so both outcomes are allowed.

**DmaShield** What the hand-over promises, with one variable, the set of guards
that keep devices out of the SLB. `Iommu` implements it: `ShieldSpec` is its
specification under the mapping `Guards`.

**SklMain** extends `EventLog` with the launch. `pc` is the place in
`skl_main()` and the functions it calls, `stage` the place in `extend_pcr()`.
Memory that devices can write (`kernel`, `mbi`, `module`) is separate from what
is in the SLB (`boot`). PCRs are sequences of the measurements they were
extended with, per bank. `iommu_setup()` is one step here with the two outcomes
`Iommu` shows it to have. The action `Dma` is a device. With `reliable` the TPM
is there, grants its locality at once and carries out every command; without, each of
these may fail, at any command, and what SKL does is the same. `locality` is the driver's
static, `active` and `wanted` are the TPM's, named as in `TpmTis` and `TpmCrb`, of which
`AskFor` and `GiveUp` are the summary: a request and the one look at its result
are a step. `enable_tpm()` takes locality 0. Asked for 2, the TIS driver gives 0 up first,
the CRB driver does not, and neither withdraws a request that is refused: `Grant` is
the TPM granting it later, at any time. What the driver then relinquishes is the locality it
believes to have, which is none. So there are four ways a refusal can end at the
hand-over: with TIS the request pending or locality 2 active, with CRB locality 0 or 2 active.
`NoLateCommand` says that SKL does not send on the strength of such a grant.

**BootPath** is the way from SKINIT to the kernel's first instruction as the one
thread takes it. It composes four modules that share `pc` and `protocol`
(**SklPc**, which also has `Learn`: how a walk over memory that does not change
comes to know a header) and nothing else, each with an action for its own places in the code:

* **SklEntry**: `head.S`, instruction by instruction where their order matters.
  `LegalStep` is the architecture's rule book, written independently of the code.
* **SklTags**: the checks of `skl_main()` and all walks over the bootloader's
  tags. Which tag is at an address is chosen when it is first read, and then
  stays, because it is in the SLB; behind the SLB's end every read may find
  something else. A walk `next_of_type()` or `next_of_class()` makes on from a NULL
  that `next_tag()` returned is at an address nothing is said of: it ends in
  `pc = "lost"`.
* **KernelImage**: the zero page and the MLE headers, with every sum in
  `Word` values, and what of the image is measured.
* **Multiboot**: both loops over the MBI, revealed tag by tag as above, and the
  safety checks. Memory does not change under these two: that devices are kept
  out of it by then, or are not, is the subject of `SklMain`.

**PciConfig** `pc` follows `iommu_setup()` through `pci_init()`, both searches of
`pci_locate()`, and `disable_memory_protection()`, one configuration access per
action. `Conf1Address` and `MmioAddress` are the numbers SKL makes up for a
register, `Conf1Target` and `MmioTarget` what a host bridge makes of them.

**Sha** Both hash functions, block by block and round by round. What words are is
left out, where they are is kept: a byte is the number of the message byte it
is a copy of, a register holds the number of the round that computed its value,
and anything computed from other operands than the standard's is `Wrong`.

**LeafCalls** puts the two together for one run: each is called alone.

**SklMainProofs**, **TpmTisProofs**, **TpmCrbProofs**, **BootPathProofs**, **LeafCallsProofs**,
**IommuProofs** and **KernelImageProofs** hold the theorems about the modules they are
named after, and nothing that models code; see below.

**TpmBuff** `tpm_buff.c`, one operator per function on a buffer record; pointers
are offsets, the contents are left out (the drivers' modules know the command).

**TpmTis** and **TpmCrb** extend `TpmBuff`. Each runs the calls SKL makes, from
`enable_tpm()` over a number of extensions to `free_tpm()`, through one driver.
`pc` is the place in the driver; each of its actions makes at most one access
to a register, or several of which only one matters, so that the TPM can act
between any two. The TPM is the other half of each module (`Tpm`): it is modelled
by what the driver uses of it and is free to be slow. A command's bytes are its number, repeated; its length
is that of the header and the rest.

* In `TpmTis` the FIFO takes and gives bytes by burst counts; `STS_COMMAND_READY`
  cancels; the TPM may give up on a command it has not received completely,
  may answer with any length and result, or late (timeouts are the choice not
  to wait). With `reliable` it does none of the first, and has finished a
  command before SKL turns to the next. That is an assumption, which `NoneLost`
  makes because nothing in the driver waits for a TPM 2.0.
* In `TpmCrb` commands are built in the TPM's own memory (`area`) and started by a
  register. Delay loops are steps during which the TPM can do any amount of
  work. Assumed is what the driver's comments assume: that the TPM has gone idle
  after the pause of `crb.c:204`, and that a cancel has succeeded by timeout B
  (`crb.c:238`). Control bits written uninitialised are 0, as in the build.
  `free_tpmbuff()` of a buffer that was never allocated writes to low memory in
  the code and does nothing here.

**TpmService** What SKL relies on when it extends PCRs: a command is carried out
only after it was given, at most once, and in order; it may be lost. Both
drivers implement it with the mapping `Service`.

`MCEventLog`, `MCIommu`, `MCSklMain`, `MCBootPath`, `MCLeafCalls`, `MCTpmTis` and
`MCTpmCrb` give the constants values.

Definitions introduced by a comment `Variant:` are not part of a specification:
each is a changed copy of the definition after it, the way a bug would change
it, and documents what the properties guard against. Values such as control points are
identifiers in quotes: TLAPS' SMT backend does not take other strings.

## Runs

| Run | What it shows | Bounds |
|---|---|---|
| `event_log` | where the log writes and that it stays readable | real structure sizes; 9 addresses around a 256-byte SLB in 2 KiB, 5 container sizes around the minima, 4 text lengths; events until the log is full |
| `iommu` | that devices are kept out of the SLB, at which moments on which machine, that `iommu_setup()` returns, and that it implements `DmaShield` | all 128 machines: with or without a usable IOMMU, invalidation, cached entries, either protection, eager or slow; `command_buf` in slot 0 and slot 2 of its page |
| `iommu_early_completion` | a counterexample to a comment | the same |
| `iommu_unaligned` | a counterexample to a comment | the same |
| `launch` | PCRs and event log agree with what runs; a failing TPM never makes SKL run what it did not measure as such; no command is sent but in a locality the TPM granted, and where it granted it when asked, it is given up before the hand-over | 2 kernels good, 2 bad; up to 2 modules; 3 log sizes; with a reliable TPM every kind of bootloader data and of MBI, with a failing one only well-formed ones; a TPM 1.2 with TIS, a TPM 2.0 with TIS or CRB |
| `boot_path` | walks stay in what was measured and end; modes are switched legally; the kernel is entered where and how it should be | bootloader data of 3 headers, of all the SLB has room for, and of one more than that; tags of 0, 1 and 2 headers; words of 4 bits, 4 zero pages, 4 offsets; MBIs of up to 4 tags of 4 sizes |
| `leaf_calls` | the PCI accesses reach the right registers and lift the protection only; what is hashed is the padded message | 11376 machines: 3 access methods, capability lists of up to 3 blocks in any order, circular or not, pointers with reserved bits; messages of every length from 0 to 130, both hashes |
| `launch_mbi` | a counterexample to a comment | as `launch` |
| `tpm_tis` | the TIS driver ends, tells the truth, and implements `TpmService`; with a reliable TPM, one that has finished a command before the next, no command is lost | both families; 2 commands of 4 or 5 bytes with headers of 2; bursts up to 3; responses of 2, 3, 5 and 7 bytes, the buffer has 6 |
| `tpm_tis_locality` | a counterexample to a comment | the same |
| `tpm_crb` | the CRB driver ends, tells the truth, leaves a running command's memory alone, and implements `TpmService`, also with a TPM that hangs | 4 commands of 4, 5, 7 and 4 bytes, the buffer has 6 |
| `tpm_crb_locality` | a counterexample: no locality, nothing measured | the same, with a TPM that does not preempt locality 0 |

The bounds suffice because the code has no counters beyond those in the table:
`command_buf` is used twice, from the start each time, so one position at the
start of a page and one elsewhere are all that differ (the proofs need neither);
the event log is compared with constants only at its two ends, and every run
fills it to the last byte; two modules tell the first, the next and the last
iteration of the loop apart. A loop that stays in its list does so by comparing
an address with its end: `boot_path` has tags that end before, at and behind
it, and where sums wrap (`Word = 16`, and `Limit = 64` for the size of a multiboot
tag) images, payloads and tags on either side of the wrap. Addresses of tags count in headers of
two bytes, `Data` to `SlbEnd`; behind unit `MbiTop` of the MBI come only end tags; and
a module whose tag is its own successor is noted `MbiTop + 1` times only. A hash
function has no state but the length's place in a block: 130 goes through two blocks
and back to their start. A driver returns to the same state after every
command but for what is left in the TPM and the buffer: two commands show what
one leaves to the next, and the CRB's four have one that does not fit in
between. Command lengths fill a burst, exceed it, and leave the last byte to be
sent with no room for it; response lengths are a header only, one that fits, the
longest that fits and one that does not.

`CHECK_DEADLOCK FALSE` is set for all but `EventLog`: the loader jumps to the
kernel or reboots, `iommu_setup()` or the function called returns, the TPM is
given up, and nothing happens afterwards.

The invariants of `Iommu` say themselves which machines they are about. An IOMMU is
*eager* if it has made its first attempt to fetch before SLB protection is
lifted. Nothing in the code waits for that: it is a property of hardware that
`SlbShielded` and `FreshCompletion` assume, because they are about every moment
or about the second completion, and that `ReturnsShielded` and `Terminates` do
without. `Timely` adds that an IOMMU firmware has used must be able to flush what
it cached, for which `iommu.c` has one command only.

Where `command_buf` is in its page is decided by the linker. At the start of a
page (`off = 0`) the code works as intended, and the properties with `off = 0`
say so. `link.lds` does not ask for it, and a build with GCC puts it elsewhere
(page offset 0x520): then the case of `iommu_unaligned` is the real one.

Fairness: the CPU keeps running (`WF_vars(Cpu)`), it has no interrupts and
nothing to wait for but what is modelled; the IOMMU fetches what it can
(`WF_vars(Device)`), as the polling loop of `main.c:240` must assume. `BootPath`
and `LeafCalls` have one thread, with interrupts off and nothing to wait for:
`WF_vars(Next)`. Devices
and the bootloader are never obliged to do anything. `SklMain` claims no
liveness and states no fairness: whether it ends is a matter of what it calls,
`Ends` of the two drivers and of `BootPath`, and `Terminates` of `Iommu`. The TIS driver waits for the TPM without a limit in three loops, so
`TpmTis` needs a TPM that keeps working (`WF_vars(Tpm)`). The CRB driver does
not: `TpmCrb` only assumes that the TPM heeds its control registers
(`WF_vars(Obey)`, `WF_vars(Cancel)`), and it may hang on a command.

## Findings

* `iommu_early_completion`: the first `COMPLETION_WAIT` can be carried out
  although a comment says it cannot. `ReturnsShielded` shows that no harm comes
  of it.
* `iommu_unaligned`: `send_command()` indexes `command_buf[]` with a slot number
  that counts from the page, not from the array.
* `tpm_tis_locality`: "wait for locality to be granted" is one read of the
  register; a TPM that needs longer is left without, all extensions fail, and
  the launch goes on.
* `tpm_crb_locality`: before it requests locality 2 the CRB driver relinquishes
  the locality numbered by the flag `loc_assigned`, which is always 1, instead
  of the active one, which is 0.
* `launch_mbi`: `extend_pcr(tpm, &tag, ...)` measures the stack instead of the
  multiboot information.

## Proofs

`EventLogProofs` proves every property of run `event_log` for all values of the
constants that meet `LayoutAssumption`: any structure sizes that are consistent
with the initial offsets, any address space, SLB, containers and texts.

None of the properties is inductive. `IInv` is: it says that before
initialisation the log is `NullLog`; that after a failed one it is *shut*
(`limit = ptr`, nothing written); and that otherwise it is *open*: base, pointer
and limit are in order and outside the SLB, the pieces are adjacent, begin at
`base`, end at `ptr` and alternate in kind, all of them below `ptr`, and the
offset leads to `ptr`. The argument that an event keeps it is in `LogEventFits`:
if `HasEnoughSpace` holds for both pieces together then neither call of
`LogWrite` is refused, and the record is appended whole; if it does not,
`LogEventFull` says that only `ret` changes. A shut log has no space for
anything (`LogEventShut` needs `EvSize > 0` only). What the bootloader controls
enters in `UsableContainer`: a container that passes the checks ends above its
start without wrapping, and does not touch the SLB.

`IommuProofs` proves every safety property of run `iommu`, and that `Iommu` implements
`DmaShield`, for every set of machines and every slot of its page `command_buf`
may start at (`PlatformAssumption` is all that is assumed). Again none of the
properties is inductive. `IInv` adds to `TypeOK`, by where the CPU is and which of the
two calls it is in: what was decided on the way there (`PhaseInv`), what the control
register and the device table's address are (`RegisterInv`), how far the tail is
(`QueueInv`), what the slots hold (`SlotInv`), what a completion stands for
(`DoneInv`), and why devices are blocked (`BlockInv`). The heart of it is the
last: a halted IOMMU in the first call is in its fail-safe state; an eager one
enters the second call halted, so the fail-safe state survives until the second
call's first command is fetched, and that is the flush, if there is anything to
flush, after the device table was set. `Fetching`, `PendingPlace` and
`PendingCommand` say which command the IOMMU finds when it may fetch at all. Where
`command_buf` does not start a page the first slot is never stored to: the IOMMU
fetches no command, so that nothing ends the fail-safe state but the illegal
command itself, which is why `Timely` excludes caches there. `HandsOver` then takes
one case per combination of `SlbProtected` before and after a step: only
`DisableMemoryProtection` changes it (`Calls`).

`KernelImageProofs` proves, for words of any width and every zero page, that the entry
point `skl_linux()` returns lies in the bytes that were measured. `is_in_kernel()`
compares with sums that wrap, `extend_pcr()` is given a start and a length that do
not: the two mean the same bytes because a sum that wraps only gets smaller
(`RemainderBound`), so that what is accepted is below the true end too
(`InKernelIsInside`). The invariant carries the check over to the place where the
image is measured; `code32_start` is read for both from a zero page that does not
change in between, which is what `KernelImage` assumes. That the entry is
outside of the compressed payload is not claimed: those sums wrap the other way.

`SklMainProofs` proves the properties of run `launch`, for any kernels, any bootloader
data, any number of modules and any log, with a TPM that may fail at every command and
devices that write to memory between any two steps. They build on each other.
`LTypeOK` and `StageInv` say that `extend_pcr()` is under way only where it was called;
`PathInv` says which way is taken. `AccessInv` is about the launches in which locality 2 was
granted: driver and TPM agree on it until it is given up, none is active from then on, and
nothing is pending that `Grant` could change this with. `TpmGivenUp` follows at once, and
`NoLateCommand` because a command is sent only with the buffer such a launch has. `ShieldedInv` is the invariant behind
`RunsWhatItMeasured`: once the IOMMU is up, memory stays, and PCR 17 holds nothing but
what is in it. `BanksInv`, `RecordsInv` and `ReplayInv` say what is true *between* two
statements of `extend_pcr()`: SHA-1 first, so that for one stage the banks differ by
one extension (`Extended`), and the record comes last. `ExactInv` follows PCR 17
measurement by measurement. All of these look at the same few steps:
`StepKinds` says that a step extends one bank, or logs, or opens the log, or is `Quiet`, and
what a quiet step leaves alone. `KernelMeasured` is stated as an equality of sequences, not of
sets, so that a module measured twice or out of order violates it.
`LaunchUsesEventLog` is the composition: every step of the launch is one of `EventLog` or
leaves the log alone, and `InitEventLog` comes once, so that `Launch` implements `Spec` of
`EventLog` and the theorems of `EventLogProofs` hold of the launch
(`LaunchLogIsSound`). `LaunchAssumption` says only that the constants are of their types and that the
four texts SKL logs are among `EventLog`'s.

`TpmTisProofs` and `TpmCrbProofs` prove every safety property of the runs `tpm_tis` and
`tpm_crb`, for any number of commands of any length, buffers and bursts of any size, and
any response, and that either driver implements `TpmService`. In `TpmTis`
`DriverInv` keeps the arithmetic of sending and receiving, which shows that the buffer
is not overrun although the length comes from the TPM; `ChipInv` what the registers can say at
which place; `FifoInv` is what the refinement needs: what is in the FIFO is of one command, younger
than all that are finished, and the driver's own once it has seen `STS_COMMAND_READY`. `ResponseInv`
says that a good response at hand is the current command's. `PendingInv` carries
`NoneLost`: with a TPM that keeps its side of the protocol a command that counts as sent is done or being
executed. In `TpmCrb` `ChipInv` says that the TPM is at the driver's command whenever it is
at any (this is where the order of `crb_send()`'s waits and its cancel enters), and
`FinishedInv` that a command found done was done. Under the mapping
`Build` gives a command, `Execute` carries one out, and every other step is a stutter: a
command that is lost is one that is never carried out.

`BootPathProofs` proves every safety property of run `boot_path`, for data and MBIs of any
size, words of any width, and tags of any length. `CpuInv` follows the mode switches of `head.S` in either
direction, `ResultInv` what is in the registers, `ImageInv` takes `KernelImageProofs` over. For the tags the invariant is `ChainInv`.
While the checks walk the list it is `Partial`: every tag that was read, but the one
the walk is at, has a successor that was read too. When the end tag is where the header says
the list ends, it is `Complete`, and from then on every walk that starts in the list stays in it,
because a tag in the SLB is what it was. A tag of length zero is its own successor
and harms none of this; only the walk does not end. For the MBI `Upwards` says that the tags that were read
go upwards in memory, and `MbiInv` that every set that has the first tag and is closed under
the successor has them all: that is what being on the list means
(`IsClosed`, `List`). It is stated with sets rather than by recursion because the two walks
are two iterations, of which the second has to be shown to find what the first
found. `ModsInv` then says that the modules below the current tag are those measured.

`LeafCallsProofs` proves both properties of run `leaf_calls`. `PciLiftsOnlyProtection` holds for any number of
capabilities in any order on either function, any reserved bits, circular lists, and
either access method. `TargetIs` is the arithmetic of both methods, `SpaceIs` and `LinkIs` what the
registers of such a machine hold; `WalkInv` says that the search is at a block of the list behind none of
DEV's. `MachineAssumption` excludes capabilities that overlap, lie in the header, or end so near to 256 that
DEV's two registers would not fit. `ShaHashesPadded` holds for a message of any length
and needs two invariants: `RoundInv` says that the ring of 16 schedule words holds the last
16, and that the registers, which the unrolled lines rotate by renaming (`Role`), hold what the
standard's hold (`Values`); `PaddingInv` that the blocks so far are the beginning of
the padded message, and the buffer what follows. `TotalIs` is the arithmetic of the one or
two blocks that the padding takes.

What is only model-checked: liveness (`Terminates`, `Ends` of both drivers and of `BootPath`,
`LocateEnds`), which is out of the prover's reach, as `ENABLED` is. So every safety property
that a passing run checks is proved for every value of the constants, and the runs add that
the machines, lists and lengths behind the theorems exist, that every action happens, and
that the loops end. The runs that find counterexamples are about single instances.

What the proofs rest on besides: that a device is stopped by the IOMMU from the moment `SetupIommu` says so,
which is what `IommuProofs` is about (its two outcomes are not derived inside `SklMain`);
the assumptions on the TPM named under `TpmTis` and `TpmCrb`, which are part of those modules' actions; and the
assumptions on the constants, which are evaluated in every run.

## Plan

Modelled is every part with logic of its own, and every safety property is proved. To come, in
this order:

1. `SklMain` over `TpmService`: a launch in which a command that was reported as
   failed is carried out all the same, as `tis_recv()`'s timeout allows, and what then remains
   of `LogMatchesBanks`.
2. `SklMain` over `DmaShield`: `SetupIommu` derived from the hand-over instead of stated by its outcomes.

## Not modelled

Pure I/O and library code (`printk.c`, `string.c`, `tpmlib/tpmio.c`), the
arithmetic on words inside the hashes, the `TEST_DMA` code and the dumps, the
32-bit build of `head.S`, the offline tools and tests, and the build.

Nothing is claimed where

* a list has a tag that is its own successor (zero length, or a size whose rounding
  wraps), a walk is lost behind NULL, or a capability list is circular without the
  capability: those walks need not end, and `Ends` and `LocateEnds` exclude
  them (`Stuck`, `lost`, the premise of `LocateEnds`);
* the MMIO base is at 4 GiB or above, or extended registers can be reached neither by MMIO
  nor through port CF8: the accesses of `pci.c` go elsewhere (`Reachable`);
* the payload's bounds in the zero page wrap around;
* a tag is shorter than the structure its type stands for;
* the TPM refuses locality 2 when it is asked: at the hand-over it then still has the request, or
  has granted it or kept locality 0 (`TpmGivenUp` is about the other launches; the
  comments of the code do not say what should become of it);
* `free_tpmbuff()` is given the NULL pointer a refused locality leaves behind.
