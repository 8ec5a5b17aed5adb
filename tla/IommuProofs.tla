---------------------------- MODULE IommuProofs -----------------------------
(* Proofs about the hand-over of DMA protection (module Iommu), for every  *)
(* set of machines and every place of command_buf[] in its page.           *)
EXTENDS Iommu, TLAPS

(* Where the CPU is:                                                       *)
\* no command was sent in this call yet, and the last call's registers ...
Entering == {"check", "disable", "devtab", "cmdbuf"}
\* ... are still there when iommu_setup() starts or gives up, too;
Outside == {"locate", "fallback"}
\* the command buffer was set up, and nothing sent;
Empty == {"cmden", "iommuen", "store_inv", "tail_inv"}
\* both commands were sent;
Sent == {"unprotect", "poll", "set"}
\* the IOMMU is enabled.
Running == {"store_inv", "tail_inv", "store_wait", "tail_wait"} \cup Sent

\* The slot, counted from off, of a call's COMPLETION_WAIT.
Last == IF plat.iasup THEN 1 ELSE 0

Cmd(op, n) == [op |-> op, call |-> n]

(* The protection goes with the second call, which takes a usable IOMMU.   *)
PhaseInv ==
  /\ SlbProtected <=> call = 1
  /\ pc \in Outside \cup {"unprotect"} => call = 1
  /\ pc \in {"poll", "set"} => call = 2
  /\ pc \notin Outside => plat.cap
  /\ pc \notin Outside \cup {"check"} \/ call = 2 => plat.cap /\ plat.enabled
  /\ pc \in {"store_inv", "tail_inv"} => plat.iasup

RegisterInv ==
  /\ pc \in Running => ctl.iommu /\ ctl.cmd
  /\ pc \in {"check", "disable"} /\ call = 2 => ctl.iommu /\ ctl.cmd
  /\ pc \in {"devtab", "cmdbuf", "cmden", "iommuen"} => ~ctl.iommu
  /\ pc = "iommuen" => ctl.cmd
  /\ pc \in Outside \cup {"check", "disable"} /\ call = 1 => ~ctl.cmd
  /\ pc \in Running \cup {"cmdbuf", "cmden", "iommuen"} \/ call = 2 => devtab = "skl"

QueueInv ==
  /\ pc \in Empty => tail = plat.off
  /\ pc \in Outside \cup Entering /\ call = 1 => tail = plat.off
  /\ pc \in {"store_wait", "tail_wait"} => tail = plat.off + Last
  /\ pc \in Sent => tail = plat.off + Last + 1
  /\ pc \in Entering /\ call = 2 => tail = plat.off + Last + 1
  /\ call = 1 => head = plat.off

(* What the slots hold, by the call that stored it. In an array that does  *)
(* not start a page the first slot the IOMMU looks at is never stored to.  *)
SlotInv ==
  /\ plat.off = 0 =>
       /\ plat.iasup /\ pc \in {"tail_inv", "store_wait", "tail_wait"} \cup Sent
            => slots[0] = Cmd("INVALIDATE_IOMMU_ALL", call)
       /\ pc \in {"tail_wait"} \cup Sent => slots[Last] = Cmd("COMPLETION_WAIT", call)
       /\ pc \in Entering /\ call = 2 =>
            /\ slots[Last] = Cmd("COMPLETION_WAIT", 1)
            /\ plat.iasup => slots[0] = Cmd("INVALIDATE_IOMMU_ALL", 1)
  /\ plat.off > 0 => slots[plat.off] = NoCommand /\ head = plat.off /\ done = 0

DoneInv ==
  /\ call = 1 => done = 0
  /\ done # 0 /\ plat.iasup => ~stale
  /\ done = 2 => pc \in {"poll", "set"} /\ head = tail
  /\ plat.eager => done # 1
  /\ pc = "set" => done # 0

(* A fetch that fails makes the IOMMU block, and nothing makes it stop     *)
(* before it has flushed what it holds.                                    *)
BlockInv ==
  /\ call = 1 /\ halted => failsafe
  /\ plat.eager /\ call = 2 /\ pc \in Entering \cup {"cmden"} => halted
  /\ ~plat.used => ~stale
  /\ plat.iasup /\ plat.off = 0 /\ head > 0 => ~stale
  /\ Timely /\ call = 2 => failsafe \/ (pc \in Running /\ ~stale)

IInv == TypeOK /\ PhaseInv /\ RegisterInv /\ QueueInv /\ SlotInv /\ DoneInv /\ BlockInv

-----------------------------------------------------------------------------
(* A machine's fields have the types of its record.                        *)
LEMMA PlatTyped ==
  ASSUME plat \in Platforms
  PROVE  /\ plat.off \in Nat
         /\ plat.cap \in BOOLEAN /\ plat.enabled \in BOOLEAN /\ plat.iasup \in BOOLEAN
         /\ plat.used \in BOOLEAN /\ plat.devcap \in BOOLEAN /\ plat.eager \in BOOLEAN
BY PlatformAssumption DEF Platform

(* What StoreCommand() does to memory.                                     *)
LEMMA Stored ==
  ASSUME TypeOK, NEW from, NEW to, NEW op \in {"INVALIDATE_IOMMU_ALL", "COMPLETION_WAIT"},
         StoreCommand(from, to, op), tail <= plat.off + 1
  PROVE  /\ slots' \in [Slots -> Command \cup {NoCommand}]
         /\ slots'[plat.off + tail] = Cmd(op, call)
         /\ \A s \in Slots : s # plat.off + tail => slots'[s] = slots[s]
<1>0. plat.off \in Nat /\ tail \in plat.off .. plat.off + 2
  BY PlatTyped DEF TypeOK, CommandBufLen
<1>1. plat.off + tail \in Slots
  BY <1>0 DEF Slots, CommandBufLen
<1>2. Cmd(op, call) \in Command
  BY DEF TypeOK, Cmd, Command
<1>3. slots' = [slots EXCEPT ![plat.off + tail] = Cmd(op, call)]
  BY DEF StoreCommand, Cmd
<1>4. slots \in [Slots -> Command \cup {NoCommand}]
  BY DEF TypeOK
<1> QED  BY <1>1, <1>2, <1>3, <1>4

(* The search for the capability decides about plat.cap only.              *)
LEMMA LocateIInv ==
  ASSUME IInv, Locate
  PROVE  IInv'
<1> USE PlatTyped
<1>1. TypeOK'
  BY DEF IInv, TypeOK, Locate, Goto, registers, hardware, Slots
<1>2. PhaseInv'
  BY DEF IInv, PhaseInv, Locate, Goto, Outside, ProtectionBit, SlbProtected
<1>3. RegisterInv'
  BY DEF IInv, PhaseInv, RegisterInv, Locate, Goto, registers, Outside, Sent, Running
<1>4. QueueInv'
  BY DEF IInv, PhaseInv, QueueInv, Locate, Goto, registers, Outside, Sent
<1>5. SlotInv'
  BY DEF IInv, PhaseInv, SlotInv, Locate, Goto, registers, hardware, Outside, Sent
<1>6. DoneInv'
  BY DEF IInv, DoneInv, Locate, Goto, hardware
<1>7. BlockInv'
  BY DEF IInv, PhaseInv, BlockInv, Locate, Goto, registers, hardware, Outside
<1> QED  BY <1>1, <1>2, <1>3, <1>4, <1>5, <1>6, <1>7 DEF IInv

(* The early return: in the second call it cannot be taken, see PhaseInv.  *)
LEMMA CheckFirmwareIInv ==
  ASSUME IInv, CheckFirmware
  PROVE  IInv'
<1> USE PlatTyped
<1>1. TypeOK'
  BY DEF IInv, TypeOK, CheckFirmware, Goto, registers, hardware, Slots
<1>2. PhaseInv'
  BY DEF IInv, TypeOK, PhaseInv, CheckFirmware, Goto, Outside, ProtectionBit,
         SlbProtected
<1>3. RegisterInv'
  BY DEF IInv, TypeOK, RegisterInv, CheckFirmware, Goto, registers, Sent, Running
<1>4. QueueInv'
  BY DEF IInv, TypeOK, QueueInv, CheckFirmware, Goto, registers, Entering,
         Empty, Sent, Last
<1>5. SlotInv'
  BY DEF IInv, TypeOK, PhaseInv, SlotInv, CheckFirmware, Goto, registers,
         hardware, Entering, Sent, Last
<1>6. DoneInv'
  BY DEF IInv, DoneInv, CheckFirmware, Goto, hardware
<1>7. BlockInv'
  BY DEF IInv, BlockInv, CheckFirmware, Goto, registers, hardware, Entering,
         Sent, Running, Timely
<1> QED  BY <1>1, <1>2, <1>3, <1>4, <1>5, <1>6, <1>7 DEF IInv

(* The IOMMU is off, so that devices are blocked only by failsafe from here. *)
LEMMA DisableIommuIInv ==
  ASSUME IInv, DisableIommu
  PROVE  IInv'
<1> USE PlatTyped
<1>1. TypeOK'
  BY DEF IInv, TypeOK, DisableIommu, Goto, hardware, Slots
<1>2. PhaseInv'
  BY DEF IInv, PhaseInv, DisableIommu, Goto, Outside, ProtectionBit, SlbProtected
<1>3. RegisterInv'
  BY DEF IInv, RegisterInv, DisableIommu, Goto, Sent, Running
<1>4. QueueInv'
  BY DEF IInv, QueueInv, DisableIommu, Goto, Entering, Empty, Sent, Last
<1>5. SlotInv'
  BY DEF IInv, SlotInv, DisableIommu, Goto, hardware, Entering, Sent, Last
<1>6. DoneInv'
  BY DEF IInv, DoneInv, DisableIommu, Goto, hardware
<1>7. BlockInv'
  BY DEF IInv, BlockInv, DisableIommu, Goto, hardware, Entering, Sent, Running, Timely
<1> QED  BY <1>1, <1>2, <1>3, <1>4, <1>5, <1>6, <1>7 DEF IInv

(* A register write: what is cached and what is queued stay as they are.   *)
LEMMA SetDeviceTableIInv ==
  ASSUME IInv, SetDeviceTable
  PROVE  IInv'
<1> USE PlatTyped
<1>1. TypeOK'
  BY DEF IInv, TypeOK, SetDeviceTable, Goto, hardware, Slots
<1>2. PhaseInv'
  BY DEF IInv, PhaseInv, SetDeviceTable, Goto, Outside, ProtectionBit, SlbProtected
<1>3. RegisterInv'
  BY DEF IInv, RegisterInv, SetDeviceTable, Goto, Outside, Sent, Running
<1>4. QueueInv'
  BY DEF IInv, QueueInv, SetDeviceTable, Goto, Entering, Empty, Sent, Last
<1>5. SlotInv'
  BY DEF IInv, SlotInv, SetDeviceTable, Goto, hardware, Entering, Sent, Last
<1>6. DoneInv'
  BY DEF IInv, DoneInv, SetDeviceTable, Goto, hardware
<1>7. BlockInv'
  BY DEF IInv, BlockInv, SetDeviceTable, Goto, hardware, Entering, Sent, Running, Timely
<1> QED  BY <1>1, <1>2, <1>3, <1>4, <1>5, <1>6, <1>7 DEF IInv

(* The queue is empty again; a completion of the first call stays counted. *)
LEMMA SetCommandBufferIInv ==
  ASSUME IInv, SetCommandBuffer
  PROVE  IInv'
<1> USE PlatTyped
<1>1. TypeOK'
  BY DEF IInv, TypeOK, SetCommandBuffer, Goto, hardware, CommandBufLen, Slots
<1>2. PhaseInv'
  BY DEF IInv, PhaseInv, SetCommandBuffer, Goto, Outside, ProtectionBit, SlbProtected
<1>3. RegisterInv'
  BY DEF IInv, RegisterInv, SetCommandBuffer, Goto, Outside, Sent, Running
<1>4. QueueInv'
  BY DEF QueueInv, SetCommandBuffer, Goto, Entering, Sent
<1>5. SlotInv'
  BY DEF IInv, SlotInv, SetCommandBuffer, Goto, hardware, Entering, Sent
<1>6. DoneInv'
  BY DEF IInv, DoneInv, SetCommandBuffer, Goto, hardware
<1>7. BlockInv'
  BY DEF IInv, BlockInv, SetCommandBuffer, Goto, hardware, Entering, Sent,
         Running, Timely
<1> QED  BY <1>1, <1>2, <1>3, <1>4, <1>5, <1>6, <1>7 DEF IInv

(* Command processing restarts, which ends what halted stood for.          *)
LEMMA EnableCommandsIInv ==
  ASSUME IInv, EnableCommands
  PROVE  IInv'
<1> USE PlatTyped
<1>1. TypeOK'
  BY DEF IInv, TypeOK, EnableCommands, Goto, Slots
<1>2. PhaseInv'
  BY DEF IInv, PhaseInv, EnableCommands, Goto, Outside, ProtectionBit, SlbProtected
<1>3. RegisterInv'
  BY DEF IInv, RegisterInv, EnableCommands, Goto, Outside, Sent, Running
<1>4. QueueInv'
  BY DEF IInv, QueueInv, EnableCommands, Goto, Entering, Empty, Sent
<1>5. SlotInv'
  BY DEF IInv, SlotInv, EnableCommands, Goto, Entering, Sent
<1>6. DoneInv'
  BY DEF IInv, DoneInv, EnableCommands, Goto
<1>7. BlockInv'
  BY DEF IInv, BlockInv, EnableCommands, Goto, Entering, Sent, Running, Timely
<1> QED  BY <1>1, <1>2, <1>3, <1>4, <1>5, <1>6, <1>7 DEF IInv

(* From here the IOMMU fetches; the queue is still empty.                  *)
LEMMA EnableIommuIInv ==
  ASSUME IInv, EnableIommu
  PROVE  IInv'
<1> USE PlatTyped
<1>1. TypeOK'
  BY DEF IInv, TypeOK, EnableIommu, Goto, hardware, Slots
<1>2. PhaseInv'
  BY DEF IInv, PhaseInv, EnableIommu, Goto, Outside, ProtectionBit, SlbProtected
<1>3. RegisterInv'
  <2>1. ctl'.iommu /\ ctl'.cmd = ctl.cmd
    BY DEF IInv, TypeOK, EnableIommu
  <2>2. ctl.cmd /\ devtab' = "skl" /\ pc' \in {"store_inv", "store_wait"}
    BY DEF IInv, RegisterInv, EnableIommu, Goto
  <2> QED  BY <2>1, <2>2 DEF RegisterInv, Outside, Running, Sent
<1>4. QueueInv'
  <2>1. tail = plat.off /\ (call = 1 => head = plat.off)
    BY DEF IInv, QueueInv, EnableIommu, Goto, Empty
  <2>2. plat.off \in Nat
    BY DEF IInv, TypeOK
  <2>3. CASE plat.iasup
    BY <2>1, <2>3 DEF QueueInv, EnableIommu, Goto, Entering, Sent
  <2>4. CASE ~plat.iasup
    <3>1. tail = plat.off + Last
      BY <2>1, <2>2, <2>4 DEF Last
    <3>2. pc' = "store_wait" /\ UNCHANGED <<plat, call, head, tail, Last>>
      BY <2>4 DEF EnableIommu, Goto, Last
    <3> QED  BY <2>1, <3>1, <3>2 DEF QueueInv, Entering, Sent
  <2> QED  BY <2>3, <2>4
<1>5. SlotInv'
  BY DEF IInv, SlotInv, EnableIommu, Goto, hardware, Entering, Sent
<1>6. DoneInv'
  BY DEF IInv, DoneInv, EnableIommu, Goto, hardware
<1>7. BlockInv'
  BY DEF IInv, BlockInv, EnableIommu, Goto, hardware, Entering, Running, Timely
<1> QED  BY <1>1, <1>2, <1>3, <1>4, <1>5, <1>6, <1>7 DEF IInv

(* An eager IOMMU has halted at the protection by now, and is in failsafe. *)
LEMMA DisableMemoryProtectionIInv ==
  ASSUME IInv, DisableMemoryProtection
  PROVE  IInv'
<1> USE PlatTyped
<1>1. TypeOK'
  BY DEF IInv, TypeOK, DisableMemoryProtection, Goto, registers, hardware, Slots
<1>2. PhaseInv'
  BY DEF IInv, TypeOK, PhaseInv, DisableMemoryProtection, Goto, Outside,
         ProtectionBit, SlbProtected
<1>3. RegisterInv'
  BY DEF IInv, RegisterInv, DisableMemoryProtection, Goto, registers, Sent, Running
<1>4. QueueInv'
  BY DEF IInv, QueueInv, DisableMemoryProtection, Goto, registers, Empty, Sent, Last
<1>5. SlotInv'
  BY DEF IInv, PhaseInv, SlotInv, DisableMemoryProtection, Goto, registers,
         hardware, Sent, Last
<1>6. DoneInv'
  BY DEF IInv, DoneInv, DisableMemoryProtection, Goto, hardware
<1>7. BlockInv'
  BY DEF IInv, TypeOK, PhaseInv, RegisterInv, QueueInv, BlockInv,
         DisableMemoryProtection, Goto, CanFetch, registers, hardware, Sent,
         Running, Last, Timely
<1> QED  BY <1>1, <1>2, <1>3, <1>4, <1>5, <1>6, <1>7 DEF IInv

(* Polling ends with a completion.                                         *)
LEMMA PollIInv ==
  ASSUME IInv, Poll
  PROVE  IInv'
<1> USE PlatTyped
<1>1. TypeOK'
  BY DEF IInv, TypeOK, Poll, Goto, registers, hardware, Slots
<1>2. PhaseInv'
  BY DEF IInv, PhaseInv, Poll, Goto, Outside, ProtectionBit, SlbProtected
<1>3. RegisterInv'
  BY DEF IInv, RegisterInv, Poll, Goto, registers, Outside, Sent, Running
<1>4. QueueInv'
  BY DEF IInv, QueueInv, Poll, Goto, registers, Outside, Entering, Empty, Sent, Last
<1>5. SlotInv'
  BY DEF IInv, SlotInv, Poll, Goto, Entering, Sent, Last
<1>6. DoneInv'
  BY DEF IInv, DoneInv, Poll, Goto, registers, hardware
<1>7. BlockInv'
  BY DEF IInv, BlockInv, Poll, Goto, registers, hardware, Entering, Sent,
         Running, Timely
<1> QED  BY <1>1, <1>2, <1>3, <1>4, <1>5, <1>6, <1>7 DEF IInv

(* The only way into failsafe.                                             *)
LEMMA FetchFailsIInv ==
  ASSUME IInv, FetchFails
  PROVE  IInv'
<1> USE PlatTyped
<1>1. TypeOK'
  BY DEF IInv, TypeOK, FetchFails, registers, Slots
<1>2. PhaseInv'
  BY DEF IInv, PhaseInv, FetchFails, ProtectionBit, SlbProtected
<1>3. RegisterInv'
  BY DEF IInv, RegisterInv, FetchFails, registers
<1>4. QueueInv'
  BY DEF IInv, QueueInv, FetchFails, registers, Last
<1>5. SlotInv'
  BY DEF IInv, SlotInv, FetchFails, registers, Last
<1>6. DoneInv'
  BY DEF IInv, DoneInv, FetchFails, CanFetch
<1>7. BlockInv'
  BY DEF IInv, BlockInv, FetchFails, registers
<1> QED  BY <1>1, <1>2, <1>3, <1>4, <1>5, <1>6, <1>7 DEF IInv

(* The first slot is stored to, beyond the tail.                           *)
LEMMA StoreInvalidateIInv ==
  ASSUME IInv, StoreInvalidate
  PROVE  IInv'
<1>t. plat.off \in Nat /\ Last \in {0, 1}
  BY PlatTyped DEF IInv, TypeOK, Last
<1>u. tail = plat.off
  BY DEF IInv, QueueInv, StoreInvalidate, StoreCommand, Goto, Empty
<1>0. tail <= plat.off + 1
  BY <1>t, <1>u
<1>s. /\ slots' \in [Slots -> Command \cup {NoCommand}]
      /\ slots'[plat.off + tail] = Cmd("INVALIDATE_IOMMU_ALL", call)
      /\ \A s \in Slots : s # plat.off + tail => slots'[s] = slots[s]
  BY <1>0, Stored DEF IInv, StoreInvalidate
<1>1. TypeOK'
  BY <1>s, <1>t, <1>u
     DEF IInv, TypeOK, StoreInvalidate, StoreCommand, Goto, registers, hardware,
         Slots
<1>2. PhaseInv'
  BY <1>s, <1>t, <1>u
     DEF IInv, PhaseInv, StoreInvalidate, StoreCommand, Goto, Outside,
         ProtectionBit, SlbProtected
<1>3. RegisterInv'
  BY <1>s, <1>t, <1>u
     DEF IInv, RegisterInv, StoreInvalidate, StoreCommand, Goto, registers,
         Outside, Running
<1>4. QueueInv'
  BY <1>s, <1>t, <1>u
     DEF IInv, QueueInv, StoreInvalidate, StoreCommand, Goto, registers,
         Entering, Sent
<1>5. SlotInv'
  <2>1. ASSUME plat.off = 0
        PROVE  slots'[0] = Cmd("INVALIDATE_IOMMU_ALL", call)
    BY <2>1, <1>s, <1>u
  <2>2. ASSUME plat.off > 0
        PROVE  slots'[plat.off] = slots[plat.off]
    <3>1. plat.off \in Slots /\ plat.off + tail # plat.off
      BY <2>2, <1>t, <1>u DEF Slots, CommandBufLen
    <3> QED  BY <3>1, <1>s
  <2> QED
    BY <2>1, <2>2, <1>t
       DEF IInv, SlotInv, StoreInvalidate, StoreCommand, Goto, registers,
           hardware, Entering, Sent
<1>6. DoneInv'
  BY <1>s, <1>t, <1>u DEF IInv, DoneInv, StoreInvalidate, StoreCommand, Goto, hardware
<1>7. BlockInv'
  BY <1>s, <1>t, <1>u
     DEF IInv, BlockInv, StoreInvalidate, StoreCommand, Goto, registers,
         hardware, Entering, Running, Timely
<1> QED  BY <1>1, <1>2, <1>3, <1>4, <1>5, <1>6, <1>7 DEF IInv

(* The tail moves over the slot that was stored to.                        *)
LEMMA MoveToInvalidateIInv ==
  ASSUME IInv, MoveToInvalidate
  PROVE  IInv'
<1>t. plat.off \in Nat /\ Last \in {0, 1}
  BY PlatTyped DEF IInv, TypeOK, Last
<1>u. tail = plat.off
  BY DEF IInv, QueueInv, MoveToInvalidate, MoveTail, Goto, Empty
<1>1. TypeOK'
  <2>1. head \in plat.off .. tail' /\ tail' \in plat.off .. plat.off + CommandBufLen
    <3>1. head \in plat.off .. tail
      BY DEF IInv, TypeOK
    <3>2. tail' = tail + 1 /\ head' = head
      BY DEF MoveToInvalidate, MoveTail
    <3> QED  BY <1>t, <1>u, <3>1, <3>2 DEF CommandBufLen
  <2> QED
    BY <2>1 DEF IInv, TypeOK, MoveToInvalidate, MoveTail, Goto, hardware, Slots
<1>2. PhaseInv'
  BY <1>t, <1>u
     DEF IInv, PhaseInv, MoveToInvalidate, MoveTail, Goto, Outside,
         ProtectionBit, SlbProtected
<1>3. RegisterInv'
  BY <1>t, <1>u
     DEF IInv, RegisterInv, MoveToInvalidate, MoveTail, Goto, Outside, Running
<1>4. QueueInv'
  BY <1>t, <1>u
     DEF IInv, PhaseInv, QueueInv, MoveToInvalidate, MoveTail, Goto, Outside,
         Entering, Empty, Sent, Last
<1>5. SlotInv'
  BY <1>t, <1>u
     DEF IInv, SlotInv, MoveToInvalidate, MoveTail, Goto, hardware, Entering,
         Sent
<1>6. DoneInv'
  BY <1>t, <1>u DEF IInv, DoneInv, MoveToInvalidate, MoveTail, Goto, hardware
<1>7. BlockInv'
  BY <1>t, <1>u
     DEF IInv, BlockInv, MoveToInvalidate, MoveTail, Goto, hardware, Entering,
         Running, Timely
<1> QED  BY <1>1, <1>2, <1>3, <1>4, <1>5, <1>6, <1>7 DEF IInv

(* The last slot is stored to, beyond the tail.                            *)
LEMMA StoreWaitIInv ==
  ASSUME IInv, StoreWait
  PROVE  IInv'
<1>t. plat.off \in Nat /\ Last \in {0, 1}
  BY PlatTyped DEF IInv, TypeOK, Last
<1>u. tail = plat.off + Last
  BY DEF IInv, QueueInv, StoreWait, StoreCommand, Goto
<1>0. tail <= plat.off + 1
  BY <1>t, <1>u
<1>s. /\ slots' \in [Slots -> Command \cup {NoCommand}]
      /\ slots'[plat.off + tail] = Cmd("COMPLETION_WAIT", call)
      /\ \A s \in Slots : s # plat.off + tail => slots'[s] = slots[s]
  BY <1>0, Stored DEF IInv, StoreWait
<1>1. TypeOK'
  BY <1>s, <1>t, <1>u
     DEF IInv, TypeOK, StoreWait, StoreCommand, Goto, registers, hardware, Slots
<1>2. PhaseInv'
  BY <1>s, <1>t, <1>u
     DEF IInv, PhaseInv, StoreWait, StoreCommand, Goto, Outside, ProtectionBit,
         SlbProtected
<1>3. RegisterInv'
  BY <1>s, <1>t, <1>u
     DEF IInv, RegisterInv, StoreWait, StoreCommand, Goto, registers, Outside,
         Running
<1>4. QueueInv'
  BY <1>s, <1>t, <1>u
     DEF IInv, QueueInv, StoreWait, StoreCommand, Goto, registers, Outside,
         Entering, Empty, Sent, Last
<1>5. SlotInv'
  <2>1. ASSUME plat.off = 0
        PROVE  /\ slots'[Last] = Cmd("COMPLETION_WAIT", call)
               /\ plat.iasup => slots'[0] = slots[0]
    <3>1. plat.off + tail = Last /\ 0 \in Slots
      BY <2>1, <1>t, <1>u DEF Slots, CommandBufLen
    <3> QED  BY <3>1, <1>s DEF Last
  <2>2. ASSUME plat.off > 0
        PROVE  slots'[plat.off] = slots[plat.off]
    <3>1. plat.off \in Slots /\ plat.off + tail # plat.off
      <4>1. tail > 0
        BY <2>2, <1>t, <1>u
      <4>2. plat.off + tail # plat.off
        BY <4>1, <1>t, <1>u
      <4> QED  BY <4>2, <2>2, <1>t DEF Slots, CommandBufLen
    <3> QED  BY <3>1, <1>s
  <2> QED
    BY <2>1, <2>2, <1>t
       DEF IInv, SlotInv, StoreWait, StoreCommand, Goto, registers, hardware,
           Entering, Last
<1>6. DoneInv'
  BY <1>s, <1>t, <1>u DEF IInv, DoneInv, StoreWait, StoreCommand, Goto, hardware
<1>7. BlockInv'
  BY <1>s, <1>t, <1>u
     DEF IInv, BlockInv, StoreWait, StoreCommand, Goto, registers, hardware,
         Entering, Running, Timely
<1> QED  BY <1>1, <1>2, <1>3, <1>4, <1>5, <1>6, <1>7 DEF IInv

(* The tail is where Sent has it.                                          *)
LEMMA MoveToWaitIInv ==
  ASSUME IInv, MoveToWait
  PROVE  IInv'
<1>t. plat.off \in Nat /\ Last \in {0, 1}
  BY PlatTyped DEF IInv, TypeOK, Last
<1>u. tail = plat.off + Last
  BY DEF IInv, QueueInv, MoveToWait, MoveTail, Goto
<1>1. TypeOK'
  <2>1. head \in plat.off .. tail' /\ tail' \in plat.off .. plat.off + CommandBufLen
    <3>1. head \in plat.off .. tail
      BY DEF IInv, TypeOK
    <3>2. tail' = tail + 1 /\ head' = head
      BY DEF MoveToWait, MoveTail
    <3> QED  BY <1>t, <1>u, <3>1, <3>2 DEF CommandBufLen
  <2> QED
    BY <2>1 DEF IInv, TypeOK, MoveToWait, MoveTail, Goto, hardware, Slots
<1>2. PhaseInv'
  BY <1>t, <1>u
     DEF IInv, TypeOK, PhaseInv, MoveToWait, MoveTail, Goto, Outside,
         ProtectionBit, SlbProtected
<1>3. RegisterInv'
  BY <1>t, <1>u DEF IInv, RegisterInv, MoveToWait, MoveTail, Goto, Outside, Running
<1>4. QueueInv'
  BY <1>t, <1>u
     DEF IInv, QueueInv, MoveToWait, MoveTail, Goto, Outside, Entering, Empty,
         Last
<1>5. SlotInv'
  BY <1>t, <1>u DEF IInv, SlotInv, MoveToWait, MoveTail, Goto, hardware, Entering, Last
<1>6. DoneInv'
  BY <1>t, <1>u DEF IInv, DoneInv, MoveToWait, MoveTail, Goto, hardware
<1>7. BlockInv'
  BY <1>t, <1>u
     DEF IInv, BlockInv, MoveToWait, MoveTail, Goto, hardware, Entering, Sent,
         Running, Timely
<1> QED  BY <1>1, <1>2, <1>3, <1>4, <1>5, <1>6, <1>7 DEF IInv

(* While the SLB is not protected the IOMMU fetches in the second call     *)
(* only, when the CPU is about to send or has sent something.              *)
LEMMA Fetching ==
  ASSUME IInv, CanFetch, ~SlbProtected
  PROVE  /\ call = 2 /\ head # tail
         /\ pc \in {"check", "disable", "store_wait", "tail_wait", "poll", "set"}
<1>1. call = 2 /\ ctl.iommu /\ head # tail
  BY DEF IInv, TypeOK, PhaseInv, CanFetch
<1>2. plat.off \in Nat /\ head \in plat.off .. tail /\ tail \in plat.off .. plat.off + 2
  BY PlatTyped DEF IInv, TypeOK, CommandBufLen
<1>3. pc \notin {"locate", "fallback", "unprotect", "devtab", "cmdbuf", "cmden", "iommuen"}
  BY <1>1 DEF IInv, PhaseInv, RegisterInv, Outside
<1>4. pc \notin {"store_inv", "tail_inv"}
  <2>1. tail # plat.off
    BY <1>1, <1>2
  <2> QED  BY <2>1 DEF IInv, QueueInv, Empty
<1> QED  BY <1>1, <1>3, <1>4 DEF IInv, TypeOK

(* Where command_buf[] starts a page, and what is pending: the second of   *)
(* two commands only where the CPU has sent both.                          *)
LEMMA PendingPlace ==
  ASSUME IInv, CanFetch, ~SlbProtected, plat.off = 0
  PROVE  /\ head \in 0 .. Last
         /\ head # Last => head = 0 /\ plat.iasup
         /\ pc \in {"store_wait", "tail_wait"} => head # Last
<1>1. /\ call = 2 /\ head # tail
      /\ pc \in {"check", "disable", "store_wait", "tail_wait", "poll", "set"}
  BY Fetching
<1>2. head \in 0 .. tail
  BY DEF IInv, TypeOK
<1>3. Last \in {0, 1} /\ (Last = 1 <=> plat.iasup)
  BY DEF Last
<1>4. CASE pc \in {"store_wait", "tail_wait"}
  <2>1. tail = plat.off + Last
    BY <1>4 DEF IInv, QueueInv
  <2>2. Last = 1 /\ head = 0
    BY <1>1, <1>2, <1>3, <2>1
  <2> QED  BY <1>3, <2>2
<1>5. CASE pc \in {"check", "disable", "poll", "set"}
  <2>1. tail = plat.off + Last + 1
    BY <1>1, <1>5 DEF IInv, QueueInv, Entering, Sent
  <2>2. head \in 0 .. Last /\ (head # Last => head = 0 /\ Last = 1)
    BY <1>1, <1>2, <1>3, <2>1
  <2> QED  BY <1>3, <1>5, <2>2
<1> QED  BY <1>1, <1>4, <1>5

(* What the IOMMU finds there: a command of the call whose commands the    *)
(* CPU sent last.                                                          *)
LEMMA PendingCommand ==
  ASSUME IInv, CanFetch, ~SlbProtected, plat.off = 0
  PROVE  slots[head] = [op |-> IF head = Last THEN "COMPLETION_WAIT"
                                              ELSE "INVALIDATE_IOMMU_ALL",
                        call |-> IF pc \in {"check", "disable"} THEN 1 ELSE 2]
<1>1. call = 2 /\ pc \in {"check", "disable", "store_wait", "tail_wait", "poll", "set"}
  BY Fetching
<1>2. /\ head # Last => head = 0 /\ plat.iasup
      /\ pc \in {"store_wait", "tail_wait"} => head # Last
  BY PendingPlace
<1>3. CASE pc \in {"check", "disable"}
  <2>1. /\ slots[Last] = Cmd("COMPLETION_WAIT", 1)
        /\ plat.iasup => slots[0] = Cmd("INVALIDATE_IOMMU_ALL", 1)
    BY <1>1, <1>3 DEF IInv, SlotInv, Entering
  <2> QED  BY <1>2, <1>3, <2>1 DEF Cmd
<1>4. CASE pc \in {"poll", "set"}
  <2>1. /\ slots[Last] = Cmd("COMPLETION_WAIT", 2)
        /\ plat.iasup => slots[0] = Cmd("INVALIDATE_IOMMU_ALL", 2)
    BY <1>1, <1>4 DEF IInv, SlotInv, Sent
  <2> QED  BY <1>2, <1>4, <2>1 DEF Cmd
<1>5. CASE pc \in {"store_wait", "tail_wait"}
  <2>1. plat.iasup => slots[0] = Cmd("INVALIDATE_IOMMU_ALL", 2)
    BY <1>1, <1>5 DEF IInv, SlotInv
  <2> QED  BY <1>2, <1>5, <2>1 DEF Cmd
<1> QED  BY <1>1, <1>3, <1>4, <1>5

(* Failsafe ends with the first command, which flushes, or nothing is stale. *)
LEMMA FetchCommandIInv ==
  ASSUME IInv, FetchCommand
  PROVE  IInv'
<1> USE PlatTyped
<1>a. /\ call = 2 /\ head # tail
      /\ pc \in {"check", "disable", "store_wait", "tail_wait", "poll", "set"}
  BY Fetching DEF FetchCommand
<1>b. plat.off = 0
  <2>1. ~(plat.off > 0)
    BY DEF IInv, SlotInv, FetchCommand
  <2> QED  BY <2>1 DEF IInv, TypeOK
<1>c. /\ head \in 0 .. Last
      /\ head # Last => head = 0 /\ plat.iasup
      /\ pc \in {"store_wait", "tail_wait"} => head # Last
  BY <1>b, PendingPlace DEF FetchCommand
<1>d. slots[head] = [op |-> IF head = Last THEN "COMPLETION_WAIT"
                                           ELSE "INVALIDATE_IOMMU_ALL",
                     call |-> IF pc \in {"check", "disable"} THEN 1 ELSE 2]
  BY <1>b, PendingCommand DEF FetchCommand
<1>e. /\ stale' = (stale /\ head = Last)
      /\ done' = IF head = Last THEN IF pc \in {"check", "disable"} THEN 1 ELSE 2 ELSE done
  BY <1>d DEF FetchCommand
<1>f. head' = head + 1 /\ failsafe' = FALSE
      /\ UNCHANGED <<plat, pc, call, bits, ctl, devtab, tail, slots, halted>>
  BY DEF FetchCommand
<1>1. TypeOK'
  <2>1. head' \in plat.off .. tail
    BY <1>a, <1>f DEF IInv, TypeOK, CommandBufLen
  <2>2. stale' \in BOOLEAN /\ done' \in {0, 1, 2}
    BY <1>e DEF IInv, TypeOK
  <2> QED  BY <1>f, <2>1, <2>2 DEF IInv, TypeOK, Slots
<1>2. PhaseInv'
  BY <1>a, <1>b, <1>c, <1>e, <1>f DEF IInv, PhaseInv, ProtectionBit, SlbProtected
<1>3. RegisterInv'
  BY <1>a, <1>b, <1>c, <1>e, <1>f DEF IInv, RegisterInv
<1>4. QueueInv'
  BY <1>a, <1>b, <1>c, <1>e, <1>f DEF IInv, QueueInv, Last
<1>5. SlotInv'
  BY <1>a, <1>b, <1>c, <1>e, <1>f DEF IInv, SlotInv, Last
<1>6. DoneInv'
  <2>1. head = Last /\ plat.iasup => ~stale
    BY <1>b DEF IInv, BlockInv, Last
  <2>2. ~plat.eager \/ pc \notin {"check", "disable"}
    BY <1>a DEF IInv, BlockInv, FetchCommand, CanFetch, Entering
  <2>3. head = Last /\ pc \in {"poll", "set"} => head' = tail
    BY <1>b, <1>c, <1>f DEF IInv, QueueInv, Sent, Last
  <2>4. done # 2
    BY <1>a DEF IInv, DoneInv
  <2> QED  BY <1>a, <1>c, <1>e, <1>f, <2>1, <2>2, <2>3, <2>4
              DEF IInv, TypeOK, DoneInv, Last
<1>7. BlockInv'
  <2>1. head = Last /\ plat.iasup => ~stale
    BY <1>b DEF IInv, BlockInv, Last
  <2>2. ~plat.eager \/ pc \in {"store_wait", "tail_wait", "poll", "set"}
    BY <1>a DEF IInv, BlockInv, FetchCommand, CanFetch, Entering
  <2>3. plat.iasup \/ ~plat.used => ~stale'
    BY <1>e, <2>1 DEF IInv, BlockInv
  <2> QED  BY <1>a, <1>b, <1>f, <2>2, <2>3 DEF IInv, BlockInv, Timely, Running, Sent
<1> QED  BY <1>1, <1>2, <1>3, <1>4, <1>5, <1>6, <1>7 DEF IInv

(* Only an array that does not start a page holds memory without a command. *)
LEMMA FetchGarbageIInv ==
  ASSUME IInv, FetchGarbage
  PROVE  IInv'
<1> USE PlatTyped
<1>a. /\ call = 2 /\ head # tail
      /\ pc \in {"check", "disable", "store_wait", "tail_wait", "poll", "set"}
  BY Fetching DEF FetchGarbage
<1>b. plat.off # 0
  BY PendingCommand DEF FetchGarbage, NoCommand
<1>1. TypeOK'
  BY <1>a, <1>b DEF IInv, TypeOK, FetchGarbage, registers, Slots
<1>2. PhaseInv'
  BY <1>a, <1>b DEF IInv, PhaseInv, FetchGarbage, ProtectionBit, SlbProtected
<1>3. RegisterInv'
  BY <1>a, <1>b DEF IInv, RegisterInv, FetchGarbage, registers
<1>4. QueueInv'
  BY <1>a, <1>b DEF IInv, QueueInv, FetchGarbage, registers, Last
<1>5. SlotInv'
  BY <1>a, <1>b DEF IInv, SlotInv, FetchGarbage, registers
<1>6. DoneInv'
  BY <1>a, <1>b DEF IInv, DoneInv, FetchGarbage
<1>7. BlockInv'
  BY <1>a, <1>b
     DEF IInv, BlockInv, FetchGarbage, CanFetch, Entering, Sent, Running, Timely
<1> QED  BY <1>1, <1>2, <1>3, <1>4, <1>5, <1>6, <1>7 DEF IInv

(* The launch starts with the protection on and nothing sent.              *)
LEMMA InitIInv == Init => IInv
<1> SUFFICES ASSUME Init  PROVE IInv
  OBVIOUS
<1> USE PlatTyped
<1>1. TypeOK
  <2>1. head \in plat.off .. tail /\ tail \in plat.off .. plat.off + CommandBufLen
    BY DEF Init, CommandBufLen
  <2>2. slots \in [Slots -> Command \cup {NoCommand}]
    BY DEF Init
  <2>3. plat.used \in BOOLEAN
    BY PlatTyped DEF Init
  <2>4. bits \in [{"DEV_CR", "MEMPROT_CR"} -> BOOLEAN]
    BY DEF Init
  <2>5. ctl \in [iommu : BOOLEAN, cmd : BOOLEAN] /\ stale \in BOOLEAN
    BY <2>3 DEF Init
  <2> QED  BY <2>1, <2>2, <2>4, <2>5 DEF Init, TypeOK
<1>2. PhaseInv
  BY DEF Init, PhaseInv, Outside, ProtectionBit, SlbProtected
<1>3. RegisterInv
  BY DEF Init, RegisterInv, Sent, Running
<1>4. QueueInv
  BY DEF Init, QueueInv, Sent
<1>5. SlotInv
  BY DEF Init, SlotInv, Sent, CommandBufLen, Slots
<1>6. DoneInv
  BY DEF Init, DoneInv
<1>7. BlockInv
  BY DEF Init, BlockInv
<1> QED  BY <1>1, <1>2, <1>3, <1>4, <1>5, <1>6, <1>7 DEF IInv

(* Every step keeps the invariant.                                         *)
LEMMA NextIInv == IInv /\ [Next]_vars => IInv'
<1> SUFFICES ASSUME IInv, [Next]_vars  PROVE IInv'
  OBVIOUS
<1>1. CASE Locate
  BY <1>1, LocateIInv
<1>2. CASE LoadDeviceTable
  BY <1>2, CheckFirmwareIInv, DisableIommuIInv, SetDeviceTableIInv,
     SetCommandBufferIInv,
     EnableCommandsIInv, EnableIommuIInv, StoreInvalidateIInv, MoveToInvalidateIInv,
     StoreWaitIInv, MoveToWaitIInv
     DEF LoadDeviceTable, SendInvalidate, SendWait
<1>3. CASE DisableMemoryProtection
  BY <1>3, DisableMemoryProtectionIInv
<1>4. CASE Poll
  BY <1>4, PollIInv
<1>5. CASE Device
  BY <1>5, FetchFailsIInv, FetchCommandIInv, FetchGarbageIInv DEF Device
<1>6. CASE UNCHANGED vars
  BY <1>6
     DEF vars, registers, hardware, IInv, TypeOK, PhaseInv, RegisterInv,
         QueueInv, SlotInv, DoneInv, BlockInv, Slots, SlbProtected,
         ProtectionBit, Last, Timely
<1> QED  BY <1>1, <1>2, <1>3, <1>4, <1>5, <1>6 DEF Next, Cpu

(* The inductive invariant holds in every reachable state.                 *)
THEOREM Invariance == Spec => []IInv
<1> QED  BY InitIInv, NextIInv, PTL DEF Spec

(* The registers and the queue have their types, and command_buf[] is      *)
(* never sent more commands than it has room for (iommu.c:95-103).         *)
THEOREM Typed == Spec => []TypeOK
<1>1. IInv => TypeOK
  BY DEF IInv
<1> QED  BY <1>1, Invariance, PTL

(* In an array that starts a page the IOMMU is only ever told to fetch     *)
(* commands SKL stored (iommu.c:95-103).                                   *)
THEOREM CommandsFetched == Spec => []FetchesCommands
<1>1. IInv => FetchesCommands
  <2> SUFFICES ASSUME IInv, plat.off = 0, NEW s \in head .. tail - 1
               PROVE  slots[s] # NoCommand
    BY DEF FetchesCommands, PendingAreCommands
  <2>1. head \in 0 .. tail /\ tail \in 0 .. 2 /\ plat.iasup \in BOOLEAN
    BY PlatTyped DEF IInv, TypeOK, CommandBufLen
  <2>2. tail > 0
    BY <2>1
  <2>3. /\ pc \in {"store_wait", "tail_wait"} \cup Sent \/ (pc \in Entering /\ call = 2)
        /\ tail = IF pc \in {"store_wait", "tail_wait"} THEN Last ELSE Last + 1
    BY <2>2 DEF IInv, TypeOK, PhaseInv, QueueInv, Outside, Entering, Empty, Sent, Last
  <2>4. plat.iasup => slots[0] # NoCommand
    BY <2>3 DEF IInv, SlotInv, Cmd, NoCommand
  <2>5. pc \notin {"store_wait"} => slots[Last] # NoCommand \/ s # Last
    BY <2>3 DEF IInv, SlotInv, Cmd, NoCommand
  <2> QED  BY <2>1, <2>3, <2>4, <2>5 DEF Last
<1> QED  BY <1>1, Invariance, PTL

(* Once it is lifted from a Timely machine the IOMMU blocks.               *)
LEMMA ShieldedOnce == IInv => (Timely /\ ~SlbProtected => Blocking)
BY DEF IInv, TypeOK, PhaseInv, RegisterInv, BlockInv, Blocking

(* On machines that are told to block in time no moment of the hand-over   *)
(* leaves the SLB open to devices (main.c:181-193).                        *)
THEOREM Shielded == Spec => []SlbShielded
<1>1. IInv => SlbShielded
  BY ShieldedOnce DEF SlbShielded
<1> QED  BY <1>1, Invariance, PTL

(* iommu_setup() acts on the completion of the second call's commands, its *)
(* flush included, whenever the IOMMU is fast (main.c:195-198).            *)
THEOREM CompletionFresh == Spec => []FreshCompletion
<1>1. IInv => FreshCompletion
  BY PlatTyped DEF IInv, TypeOK, DoneInv, FreshCompletion
<1> QED  BY <1>1, Invariance, PTL

(* A machine whose IOMMU is missing or disabled keeps its SLB protection   *)
(* (main.c:166-178).                                                       *)
THEOREM Unprotected == Spec => []ProtectedWithoutIommu
<1>1. IInv => ProtectedWithoutIommu
  BY PlatTyped DEF IInv, TypeOK, PhaseInv, ProtectedWithoutIommu
<1> QED  BY <1>1, Invariance, PTL

(* Wherever iommu_setup() returns devices are kept out of the SLB.         *)
THEOREM ShieldedOnReturn == Spec => []ReturnsShielded
<1>1. IInv => ReturnsShielded
  BY PlatTyped
     DEF IInv, PhaseInv, RegisterInv, DoneInv, BlockInv, ReturnsShielded,
         Returned, Blocking, Outside, Running, Sent
<1> QED  BY <1>1, Invariance, PTL

-----------------------------------------------------------------------------
(* The SLB protection goes in one place only.                              *)
LEMMA Calls ==
  ASSUME IInv, [Next]_vars
  PROVE  /\ plat' = plat
         /\ call' = call \/ DisableMemoryProtection
<1> USE DEF registers, hardware, Goto
<1>1. CASE Cpu
  BY <1>1
     DEF Cpu, Locate, LoadDeviceTable, CheckFirmware, DisableIommu,
         SetDeviceTable, SetCommandBuffer, EnableCommands, EnableIommu,
         SendInvalidate, StoreInvalidate, MoveToInvalidate, SendWait, StoreWait,
         MoveToWait, StoreCommand, MoveTail, DisableMemoryProtection, Poll
<1>2. CASE Device
  BY <1>2 DEF Device, FetchFails, FetchCommand, FetchGarbage
<1>3. CASE UNCHANGED vars
  BY <1>3 DEF vars
<1> QED  BY <1>1, <1>2, <1>3 DEF Next

(* iommu_setup() implements the hand-over of DmaShield: a step is one of   *)
(* preparation while the protection is on, the one that lifts it over a    *)
(* blocking IOMMU, or changes nothing (main.c:164-202).                    *)
THEOREM HandsOver == Spec => ShieldSpec
<1>1. Init => Shield!Init
  BY DEF Init, Shield!Init, Guards, SlbProtected, ProtectionBit, Blocking
<1>2. IInv /\ IInv' /\ [Next]_vars => [Shield!Next]_Guards
  <2> SUFFICES ASSUME IInv, IInv', [Next]_vars  PROVE [Shield!Next]_Guards
    OBVIOUS
  <2>1. /\ SlbProtected <=> call = 1
        /\ Timely /\ ~SlbProtected => Blocking
    BY ShieldedOnce DEF IInv, PhaseInv
  <2>2. /\ SlbProtected' <=> call' = 1
        /\ Timely' /\ ~SlbProtected' => Blocking'
    BY DEF IInv, TypeOK, PhaseInv, RegisterInv, BlockInv, Blocking
  <2>3. Timely' <=> Timely
    BY Calls DEF Timely
  <2>4. CASE ~Timely
    BY <2>3, <2>4 DEF Guards
  <2>5. CASE Timely /\ SlbProtected /\ SlbProtected'
    BY <2>3, <2>5 DEF Guards, Shield!Next, Shield!Prepare
  <2>6. CASE Timely /\ SlbProtected /\ ~SlbProtected'
    <3>1. DisableMemoryProtection
      BY <2>1, <2>2, <2>6, Calls
    <3>2. Blocking' <=> Blocking
      BY <3>1 DEF DisableMemoryProtection, Blocking, registers, hardware
    <3> QED  BY <2>2, <2>3, <2>6, <3>2 DEF Guards, Shield!Next, Shield!HandOver
  <2>7. CASE Timely /\ ~SlbProtected
    <3>1. call = 2 /\ call' = 2
      BY <2>1, <2>7, Calls DEF IInv, TypeOK, DisableMemoryProtection
    <3> QED  BY <2>1, <2>2, <2>3, <2>7, <3>1 DEF Guards
  <2> QED  BY <2>4, <2>5, <2>6, <2>7
<1> QED  BY <1>1, <1>2, Invariance, PTL DEF Spec, ShieldSpec, Shield!Spec
=============================================================================
