------------------------------- MODULE Iommu --------------------------------
(* The hand-over of DMA protection: iommu_setup() of main.c together with  *)
(* iommu.c and dev.c, run by the one CPU, and the IOMMU, which fetches     *)
(* commands from memory at its own pace.                                   *)
(*                                                                         *)
(* The IOMMU and the two generations of SLB protection are hardware. They  *)
(* are modelled by what main.c:181-198 and iommu.c rely on: while the SLB  *)
(* is protected the IOMMU cannot read it either, the failed fetch makes it *)
(* block all devices until it can read commands again, and setting         *)
(* CmdBufEn after clearing it makes it try again.                          *)
EXTENDS Integers

CONSTANT
  Platforms  \* machines and builds to consider, as records described by Platform

Platform == [
  cap : BOOLEAN,      \* the IOMMU's PCI capability is there
  enabled : BOOLEAN,  \* and enabled by firmware, IOMMU_CAP_BA_LOW_ENABLE
  iasup : BOOLEAN,    \* INVALIDATE_IOMMU_ALL is supported, IOMMU_EF_IASup
  used : BOOLEAN,     \* firmware left it translating, with entries cached
  devcap : BOOLEAN,   \* SLB protection is controlled by the DEV capability
  eager : BOOLEAN,    \* it tries to fetch before the CPU can lift the protection
  off : Nat]          \* the build: slot of the 8 KiB command buffer, a page, at
                      \* which command_buf[] starts

CommandBufLen == 2  \* command_buf[2]

ASSUME PlatformAssumption == Platforms \subseteq Platform

VARIABLES
  plat,      \* the machine
  pc,        \* where iommu_setup() and iommu_load_device_table() are
  call,      \* which of the two calls of iommu_load_device_table() it is
  bits,      \* the SLB protection bits, DEV_CR and MEMPROT_CR
  ctl,       \* IommuEn and CmdBufEn of the control register
  devtab,    \* whose device table DEVICE_TABLE_BA points at
  head,      \* COMMAND_BUF_HEAD, as a slot
  tail,      \* COMMAND_BUF_TAIL, as a slot
  slots,     \* memory: the command in each slot
  halted,    \* command processing stopped at an error
  failsafe,  \* a fetch hit the SLB protection: all devices are blocked
  stale,     \* the IOMMU still has entries cached from before
  done       \* iommu_done: 0, or the call whose COMPLETION_WAIT set it

registers == <<ctl, devtab, head, tail>>
hardware == <<halted, failsafe, stale, done>>
vars == <<plat, pc, call, bits, registers, slots, hardware>>

\* Slots a store through command_buf[] can reach, counted like off.
Slots == plat.off .. 2 * plat.off + CommandBufLen - 1

NoCommand == [op |-> "none", call |-> 0]
Command == [op : {"INVALIDATE_IOMMU_ALL", "COMPLETION_WAIT"}, call : {1, 2}]

-----------------------------------------------------------------------------
(* Hardware. *)

\* Which of the protection bits this machine honours.
ProtectionBit == IF plat.devcap THEN "DEV_CR" ELSE "MEMPROT_CR"

SlbProtected == bits[ProtectionBit]

\* No DMA from a device reaches memory through the IOMMU.
Blocking == failsafe \/ (ctl.iommu /\ devtab = "skl" /\ ~stale)

CanFetch ==
  /\ plat.cap /\ plat.enabled
  /\ ctl.iommu /\ ctl.cmd
  /\ ~halted /\ head # tail

(* COMMAND_HARDWARE_ERROR: the command buffer is in the SLB. *)
FetchFails ==
  /\ CanFetch /\ SlbProtected
  /\ halted' = TRUE
  /\ failsafe' = TRUE
  /\ UNCHANGED <<plat, pc, call, bits, registers, slots, stale, done>>

(* A command is fetched and carried out. *)
FetchCommand ==
  /\ CanFetch /\ ~SlbProtected /\ slots[head] # NoCommand
  /\ head' = head + 1
  /\ failsafe' = FALSE
  /\ stale' = (stale /\ slots[head].op # "INVALIDATE_IOMMU_ALL")
  /\ done' = IF slots[head].op = "COMPLETION_WAIT" THEN slots[head].call ELSE done
  /\ UNCHANGED <<plat, pc, call, bits, ctl, devtab, tail, slots, halted>>

(* ILLEGAL_COMMAND_ERROR: memory the CPU did not write a command to. The   *)
(* source does not say whether the fail-safe state survives it.            *)
FetchGarbage ==
  /\ CanFetch /\ ~SlbProtected /\ slots[head] = NoCommand
  /\ halted' = TRUE
  /\ failsafe' \in {failsafe, FALSE}
  /\ UNCHANGED <<plat, pc, call, bits, registers, slots, stale, done>>

Device == FetchFails \/ FetchCommand \/ FetchGarbage

-----------------------------------------------------------------------------
(* The CPU. *)

Goto(from, to) == pc = from /\ pc' = to

\* Variant: a missing capability is not noticed.
LocateAnyway ==
  /\ Goto("locate", "check")
  /\ UNCHANGED <<plat, call, bits, registers, slots, hardware>>

(* iommu_cap = iommu_locate() *)
Locate ==
  /\ Goto("locate", IF plat.cap THEN "check" ELSE "fallback")
  /\ UNCHANGED <<plat, call, bits, registers, slots, hardware>>

\* Variant: the protection is lifted before the IOMMU is set up.
UnprotectFirst ==
  /\ Goto("check", IF ~plat.enabled THEN "fallback"
                   ELSE IF call = 1 THEN "unprotect" ELSE "disable")
  /\ UNCHANGED <<plat, call, bits, registers, slots, hardware>>

(* The first early return of iommu_load_device_table(), and what the two   *)
(* callers do with it: the second one ignores it.                          *)
CheckFirmware ==
  /\ Goto("check", IF plat.enabled THEN "disable"
                   ELSE IF call = 1 THEN "fallback" ELSE "poll")
  /\ UNCHANGED <<plat, call, bits, registers, slots, hardware>>

DisableIommu ==
  /\ Goto("disable", "devtab")
  /\ ctl' = [iommu |-> FALSE, cmd |-> FALSE]
  /\ UNCHANGED <<plat, call, bits, devtab, head, tail, slots, hardware>>

\* Variant: the device table is left to a later version.
KeepDeviceTable ==
  /\ Goto("devtab", "cmdbuf")
  /\ UNCHANGED <<plat, call, bits, registers, slots, hardware>>

SetDeviceTable ==
  /\ Goto("devtab", "cmdbuf")
  /\ devtab' = "skl"
  /\ UNCHANGED <<plat, call, bits, ctl, head, tail, slots, hardware>>

\* Variant: the tail register is not reset.
SetCommandHead ==
  /\ Goto("cmdbuf", "cmden")
  /\ head' = plat.off
  /\ UNCHANGED <<plat, call, bits, ctl, devtab, tail, slots, hardware>>

(* The command buffer, and the IOMMU's event log, which nobody reads. *)
SetCommandBuffer ==
  /\ Goto("cmdbuf", "cmden")
  /\ head' = plat.off
  /\ tail' = plat.off
  /\ UNCHANGED <<plat, call, bits, ctl, devtab, slots, hardware>>

EnableCommands ==
  /\ Goto("cmden", "iommuen")
  /\ ctl' = [ctl EXCEPT !.cmd = TRUE]
  /\ halted' = FALSE
  /\ UNCHANGED <<plat, call, bits, devtab, head, tail, slots, failsafe, stale, done>>

EnableIommu ==
  /\ Goto("iommuen", IF plat.iasup THEN "store_inv" ELSE "store_wait")
  /\ ctl' = [ctl EXCEPT !.iommu = TRUE]
  /\ UNCHANGED <<plat, call, bits, devtab, head, tail, slots, hardware>>

(* send_command(): the command goes to command_buf[tail], which is tail    *)
(* slots after command_buf[0]; then, after smp_wmb(), the tail moves.      *)
StoreCommand(from, to, op) ==
  /\ Goto(from, to)
  /\ slots' = [slots EXCEPT ![plat.off + tail] = [op |-> op, call |-> call]]
  /\ UNCHANGED <<plat, call, bits, registers, hardware>>

MoveTail(from, to) ==
  /\ Goto(from, to)
  /\ tail' = tail + 1
  /\ UNCHANGED <<plat, call, bits, ctl, devtab, head, slots, hardware>>

\* Variant: the tail moves before the command is in memory.
SendInvalidateEarly ==
  \/ MoveTail("store_inv", "tail_inv")
  \/ /\ Goto("tail_inv", "store_wait")
     /\ slots' = [slots EXCEPT ![plat.off + tail - 1] =
                    [op |-> "INVALIDATE_IOMMU_ALL", call |-> call]]
     /\ UNCHANGED <<plat, call, bits, registers, hardware>>

StoreInvalidate == StoreCommand("store_inv", "tail_inv", "INVALIDATE_IOMMU_ALL")

MoveToInvalidate == MoveTail("tail_inv", "store_wait")

SendInvalidate == StoreInvalidate \/ MoveToInvalidate

StoreWait == StoreCommand("store_wait", "tail_wait", "COMPLETION_WAIT")

MoveToWait == MoveTail("tail_wait", IF call = 1 THEN "unprotect" ELSE "poll")

SendWait == StoreWait \/ MoveToWait

\* Variant: the bit of the other processor families is cleared.
DisableOtherProtection ==
  /\ Goto("unprotect", "check")
  /\ plat.eager => ~CanFetch
  /\ bits' = [bits EXCEPT ![IF plat.devcap THEN "MEMPROT_CR" ELSE "DEV_CR"] = FALSE]
  /\ call' = 2
  /\ UNCHANGED <<plat, registers, slots, hardware>>

(* disable_memory_protection(), which looks for the DEV capability first.  *)
(* An eager IOMMU has reacted to the new tail by then.                     *)
DisableMemoryProtection ==
  /\ Goto("unprotect", "check")
  /\ plat.eager => ~CanFetch
  /\ bits' = [bits EXCEPT ![IF plat.devcap THEN "DEV_CR" ELSE "MEMPROT_CR"] = FALSE]
  /\ call' = 2
  /\ UNCHANGED <<plat, registers, slots, hardware>>

\* Variant: completion is assumed.
PollOnce ==
  /\ Goto("poll", "set")
  /\ UNCHANGED <<plat, call, bits, registers, slots, hardware>>

(* while ( !iommu_done ) *)
Poll ==
  /\ Goto("poll", "set")
  /\ done # 0
  /\ UNCHANGED <<plat, call, bits, registers, slots, hardware>>

LoadDeviceTable ==
  \/ CheckFirmware \/ DisableIommu \/ SetDeviceTable \/ SetCommandBuffer
  \/ EnableCommands \/ EnableIommu \/ SendInvalidate \/ SendWait

Cpu == Locate \/ LoadDeviceTable \/ DisableMemoryProtection \/ Poll

Returned == pc \in {"set", "fallback"}

-----------------------------------------------------------------------------
Init ==
  /\ plat \in Platforms
  /\ pc = "locate"
  /\ call = 1
  /\ bits = [b \in {"DEV_CR", "MEMPROT_CR"} |-> TRUE]
  /\ ctl = [iommu |-> plat.used, cmd |-> FALSE]
  /\ devtab = "firmware"
  /\ head = plat.off /\ tail = plat.off
  /\ slots = [s \in Slots |-> NoCommand]
  /\ halted = FALSE /\ failsafe = FALSE
  /\ stale = plat.used
  /\ done = 0

Next == Cpu \/ Device

(* The CPU never waits except in Poll, and the IOMMU fetches what it can.  *)
Fairness == WF_vars(Cpu) /\ WF_vars(Device)

Spec == Init /\ [][Next]_vars /\ Fairness

-----------------------------------------------------------------------------
(* Variables hold register values the code can put there; in particular no *)
(* more commands are sent than command_buf[] has room for (iommu.c:101).   *)
TypeOK ==
  /\ plat \in Platforms
  /\ pc \in {"locate", "check", "disable", "devtab", "cmdbuf", "cmden", "iommuen",
             "store_inv", "tail_inv", "store_wait", "tail_wait", "unprotect",
             "poll", "set", "fallback"}
  /\ call \in {1, 2}
  /\ bits \in [{"DEV_CR", "MEMPROT_CR"} -> BOOLEAN]
  /\ ctl \in [iommu : BOOLEAN, cmd : BOOLEAN]
  /\ devtab \in {"firmware", "skl"}
  /\ head \in plat.off .. tail /\ tail \in plat.off .. plat.off + CommandBufLen
  /\ slots \in [Slots -> Command \cup {NoCommand}]
  /\ {halted, failsafe, stale} \subseteq BOOLEAN
  /\ done \in {0, 1, 2}

(* Every slot the IOMMU is told to fetch holds a command SKL sent          *)
(* (iommu.c:95-103: head and tail are moved "forwards to the start of the  *)
(* buffer").                                                               *)
PendingAreCommands == \A s \in head .. tail - 1 : slots[s] # NoCommand

(* That is so where the array starts a page.                               *)
FetchesCommands == plat.off = 0 => PendingAreCommands

\* Machines on which the IOMMU is told to block in time: it must be fast, and
\* any entries it holds must be flushed, which iommu.c has no other command
\* for ("TODO: else?", iommu.c:136).
Timely == plat.eager /\ (plat.used => plat.iasup /\ plat.off = 0)

(* Devices are kept out of the SLB at every moment of the hand-over: once  *)
(* its own protection is lifted the IOMMU blocks them, first by its        *)
(* fail-safe state and then by SKL's device table (main.c:181-193).        *)
SlbShielded == Timely => SlbProtected \/ Blocking

(* The completion SKL acts on is the second call's, which also vouches for *)
(* the flush sent before it.                                               *)
FreshCompletion ==
  pc = "set" /\ plat.eager => done = 2 /\ head = tail /\ (plat.iasup => ~stale)

(* Without a usable IOMMU the SLB protection stays on for good.            *)
ProtectedWithoutIommu == ~(plat.cap /\ plat.enabled) => SlbProtected

(* Whichever call's completion ended the polling, iommu_setup() returns    *)
(* with devices kept out of the SLB, on a machine whose IOMMU holds no     *)
(* entries or can flush them.                                              *)
ReturnsShielded ==
  Returned /\ (plat.iasup \/ ~plat.used) => SlbProtected \/ Blocking

(* "Write to a variable inside SLB (does not work in the first call)"      *)
(* (iommu.c:143).                                                          *)
FirstCallCannotComplete == done # 1

(* iommu_setup() returns where the array starts a page: the polling ends.  *)
Terminates == plat.off = 0 => <>Returned

(* On Timely machines iommu_setup() implements the hand-over DmaShield       *)
(* describes; nothing is claimed of others.                                *)
Guards ==
  IF Timely
  THEN (IF SlbProtected THEN {"DEV"} ELSE {}) \cup (IF Blocking THEN {"IOMMU"} ELSE {})
  ELSE {"DEV"}

Shield == INSTANCE DmaShield WITH guards <- Guards

ShieldSpec == Shield!Spec
=============================================================================
