---------------------------- MODULE TpmTisProofs ----------------------------
(* Proofs about the TIS driver: for any number of commands of any length,   *)
(* any buffer and burst size, any responses, and any TPM of module TpmTis.  *)
EXTENDS TpmTis, SequenceTheorems, TLAPS

(* Where a command is sent from, and a response is read.                    *)
Idle == {"init", "init_wait", "crash", "relinquish", "request", "request_wait", "extend", "end"}
Sending == {"ready", "ready_wait", "burst", "push", "check", "last", "stuck", "go"}
Receiving == {"recv", "recv_again", "header", "body", "over"}

Outcome == [cmd : 1 .. Commands, ok : BOOLEAN]

(* Values, and what a call has done so far: what is in the buffer and how   *)
(* much of it was sent or received.                                         *)
DriverInv ==
  /\ pc \in Idle \cup Sending \cup Receiving
  /\ family \in Families /\ reliable \in Reliability
  /\ cmd \in 0 .. Commands /\ count \in Nat /\ burst \in 0 .. MaxBurst
  /\ buff \in Buffer /\ buff.len <= buff.truesize /\ buff.tail \in {Null, buff.len}
  /\ count <= buff.truesize
  /\ ret \in Seq({"ok", "error"})
  /\ Len(ret) = IF pc \in Idle THEN cmd ELSE cmd - 1
  /\ pc \in Idle \ {"extend", "end"} => cmd = 0
  /\ pc \in Receiving => family = TPM12
  /\ pc \in Sending => buff.len = CmdLen[family][cmd] /\ buff.tail = buff.len
  /\ pc \in (Idle \ {"extend", "end"}) \cup {"ready", "ready_wait", "recv_again"} => count = 0
  /\ pc \in {"burst", "push", "check", "last"} => count <= buff.len - 1
  /\ pc \in {"recv", "recv_again", "header"} => buff.len = HdrLen /\ buff.tail = HdrLen
  /\ pc = "header" => count <= HdrLen
  /\ pc = "body" => /\ rsp.len > HdrLen /\ rsp.len <= buff.truesize
                    /\ count <= rsp.len - HdrLen - 1

ChipInv ==
  /\ st \in {"idle", "readying", "ready", "receive", "execute", "complete"}
  /\ fifo \in Seq(1 .. Commands) /\ left \in Nat
  /\ rsp \in [len : Nat, ok : BOOLEAN]
  /\ room \in 0 .. MaxBurst /\ valid \in BOOLEAN
  /\ finished \in Seq(Outcome)
  /\ st \in {"receive", "execute"} => fifo # <<>>
  /\ left > 0 => st = "complete"
  /\ pc \in {"header", "body", "over"} => st = "complete"

AccessInv ==
  /\ {locality, active} \subseteq {0, 2, NoLocality} /\ wanted \subseteq {0, 2}
  /\ LocalityKnown

(* What the FIFO holds is one command's, younger than all that are finished.*)
FifoInv ==
  /\ st \in {"readying", "ready"} => fifo = <<>>
  /\ st \in {"receive", "execute"} => \A j \in DOMAIN finished : finished[j].cmd < fifo[1]
  /\ \A i \in DOMAIN fifo : fifo[i] <= cmd
  /\ \A j \in DOMAIN finished : finished[j].cmd <= cmd
  /\ pc \in Sending => \A j \in DOMAIN finished : finished[j].cmd < cmd
  /\ pc \in Sending \ {"ready"} => st \notin {"execute", "complete"}
  /\ pc = "ready" => \A i \in DOMAIN fifo : fifo[i] < cmd
  /\ pc = "ready_wait" => fifo = <<>>
  /\ pc \in (Sending \ {"ready"}) \cup Receiving => \A i \in DOMAIN fifo : fifo[i] = cmd

(* The response at hand is to the command that was sent.                    *)
ResponseInv ==
  /\ pc \in (Sending \ {"ready"}) \cup Receiving =>
       (rsp.ok => \E i \in DOMAIN finished : finished[i] = [cmd |-> cmd, ok |-> TRUE])
  /\ Truthful

(* A command that SKL takes to be sent is done or being carried out.        *)
Done(c) == \E i \in DOMAIN finished : finished[i].cmd = c

PendingInv ==
  reliable =>
    /\ pc \in {"last", "stuck", "go"} => st = "receive"
    /\ pc = "go" => ~Expect
    /\ pc = "end" => st # "execute"
    /\ \A c \in DOMAIN ret : ret[c] = "ok" => Done(c) \/ (st = "execute" /\ fifo[1] = c)
-----------------------------------------------------------------------------
(* What the operations on a command buffer give.                            *)
LEMMA Buffers ==
  ASSUME NEW b \in Buffer, NEW n \in Nat
  PROVE  /\ Free(b) \in Buffer /\ Free(b).len = 0 /\ Free(b).tail = Null
         /\ Free(b).truesize = b.truesize
         /\ Reserve(Free(b)) \in Buffer /\ Reserve(Free(b)).len = HdrLen
         /\ Reserve(Free(b)).tail = HdrLen /\ Reserve(Free(b)).truesize = b.truesize
         /\ Release(b) \in Buffer /\ Release(b).len = b.len /\ Release(b).tail = b.tail
         /\ Release(b).truesize = b.truesize
         /\ Alloc(b, n) \in Buffer /\ Alloc(b, n).len = 0 /\ Alloc(b, n).tail = Null
  BY HeaderAssumption DEF Buffer, Free, Reserve, Release, Alloc, Null

(* Appending to a buffer where there is room.                              *)
LEMMA Puts ==
  ASSUME NEW b \in Buffer, NEW n \in Nat, b.tail = b.len, CanPut(b, n)
  PROVE  /\ Put(b, n) \in Buffer /\ Put(b, n).len = b.len + n /\ Put(b, n).tail = b.len + n
         /\ Put(b, n).truesize = b.truesize /\ b.len + n <= b.truesize
<1>1. b.len \in Nat /\ b.truesize \in Nat
  BY DEF Buffer
<1>2. Put(b, n) = [b EXCEPT !.tail = b.len + n, !.len = b.len + n]
  BY DEF Put
<1>3. b.len + n \in Nat
  BY <1>1
<1>4. \A k \in Nat : /\ [b EXCEPT !.tail = k, !.len = k] \in Buffer
                     /\ [b EXCEPT !.tail = k, !.len = k].len = k
                     /\ [b EXCEPT !.tail = k, !.len = k].tail = k
                     /\ [b EXCEPT !.tail = k, !.len = k].truesize = b.truesize
  BY DEF Buffer
<1> QED
  BY <1>2, <1>3, <1>4 DEF CanPut

(* Trimming a buffer by all that is in it.                                 *)
LEMMA Trims ==
  ASSUME NEW b \in Buffer, b.tail = b.len
  PROVE  /\ Trim(b, b.len) \in Buffer /\ Trim(b, b.len).len = 0 /\ Trim(b, b.len).tail = 0
         /\ Trim(b, b.len).truesize = b.truesize
<1>1. b.len \in Nat
  BY DEF Buffer
<1>2. Trim(b, b.len) = [b EXCEPT !.tail = b.tail - b.len, !.len = b.len - b.len]
  BY <1>1 DEF Trim
<1>3. b.tail - b.len = 0 /\ b.len - b.len = 0
  BY <1>1
<1>4. /\ [b EXCEPT !.tail = 0, !.len = 0] \in Buffer
      /\ [b EXCEPT !.tail = 0, !.len = 0].len = 0 /\ [b EXCEPT !.tail = 0, !.len = 0].tail = 0
      /\ [b EXCEPT !.tail = 0, !.len = 0].truesize = b.truesize
  BY DEF Buffer
<1> QED
  BY <1>2, <1>3, <1>4

(* A command is longer than its header.                                    *)
LEMMA Lengths ==
  ASSUME DriverInv, NEW c \in 1 .. Commands
  PROVE  CmdLen[family][c] \in Nat /\ CmdLen[family][c] > HdrLen /\ HdrLen \in Nat \ {0}
  BY TisAssumption, HeaderAssumption DEF DriverInv

(* A command returns: the buffer is free, and the result noted.             *)
LEMMA Returns ==
  ASSUME DriverInv, pc \in Sending \cup Receiving, NEW r \in {"ok", "error"}, Return(r),
         UNCHANGED <<machine, cmd, burst>>, count' \in Nat, count' <= buff.truesize
  PROVE  DriverInv'
<1>1. buff' = Free(buff) /\ ret' = Append(ret, r) /\ pc' = "extend"
  BY DEF Return
<1>2. buff' \in Buffer /\ buff'.len = 0 /\ buff'.tail = Null /\ buff'.truesize = buff.truesize
  BY <1>1, Buffers DEF DriverInv
<1>3. ret' \in Seq({"ok", "error"}) /\ Len(ret') = cmd
  <2>1. ret \in Seq({"ok", "error"}) /\ Len(ret) = cmd - 1 /\ cmd \in Int
    BY DEF DriverInv, Sending, Receiving, Idle
  <2> QED
    BY <1>1, <2>1
<1>4. buff.truesize \in Nat
  BY DEF DriverInv, Buffer
<1> QED
  BY <1>1, <1>2, <1>3, <1>4 DEF DriverInv, Sending, Receiving, Idle, machine

(* SKL has no buffer at entry, and nothing is being sent.                  *)
LEMMA InitDriver == Init => DriverInv
<1> SUFFICES ASSUME Init PROVE DriverInv
  OBVIOUS
<1>1. buff \in Buffer /\ buff.len = 0 /\ buff.truesize = 0 /\ buff.tail = Null
  BY DEF Init, NullBuff, Buffer, Null
<1>2. ret \in Seq({"ok", "error"}) /\ Len(ret) = 0
  BY DEF Init
<1>3. Commands \in Nat /\ MaxBurst \in Nat
  BY TisAssumption
<1> QED
  BY <1>1, <1>2, <1>3 DEF Init, DriverInv, Idle, Sending, Receiving

(* The driver's state through every step of its own and of the TPM's.       *)
LEMMA NextDriver ==
  ASSUME DriverInv, ChipInv, [Next]_vars
  PROVE  DriverInv'
<1> USE DEF Goto, machine, chip, status, access
<1>0. /\ HdrLen \in Nat \ {0} /\ BufSize \in Nat /\ Commands \in Nat /\ MaxBurst \in Nat
      /\ buff.len \in Nat /\ buff.truesize \in Nat /\ count \in Nat
  BY HeaderAssumption, TisAssumption DEF DriverInv, Buffer
<1>1. CASE UNCHANGED vars
  BY <1>1 DEF vars, driver, DriverInv
<1>2. CASE Tpm
  <2>1. UNCHANGED <<machine, driver>>
    BY <1>2 DEF Tpm, Grant, GetReady, Settle, Drain, GiveUp, Execute
  <2>2. pc = "body" => rsp' = rsp
    BY <1>2 DEF Tpm, Grant, GetReady, Settle, Drain, GiveUp, Execute, ChipInv
  <2> QED
    BY <2>1, <2>2 DEF driver, DriverInv, Sending, Receiving, Idle
<1>3. CASE RequestZero \/ InitTis \/ RequestTwo
  BY <1>3 DEF RequestZero, InitTis, RequestTwo, DriverInv, Sending, Receiving, Idle
<1>4. CASE RelinquishZero
  BY <1>4 DEF RelinquishZero, Relinquish, DriverInv, Sending, Receiving, Idle
<1>5. CASE GetLocality
  <2>1. UNCHANGED <<machine, cmd, count, burst, ret>> /\ pc = "request_wait" /\ pc' = "extend"
    BY <1>5 DEF GetLocality
  <2>2. CASE buff' = buff
    BY <2>1, <2>2 DEF DriverInv, Sending, Receiving, Idle
  <2>3. CASE buff' = Alloc(buff, BufSize)
    <3>1. buff' \in Buffer /\ buff'.len = 0 /\ buff'.tail = Null
      BY <1>0, <2>3, Buffers DEF DriverInv
    <3>2. buff'.truesize = (IF buff.head THEN buff.truesize ELSE BufSize) /\ buff'.truesize \in Nat
      BY <1>0, <2>3 DEF Alloc
    <3>3. count <= buff'.truesize
      <4>1. count = 0
        BY <2>1 DEF DriverInv, Idle
      <4> QED
        BY <1>0, <3>2, <4>1
    <3> QED
      BY <1>0, <2>1, <3>1, <3>2, <3>3 DEF DriverInv, Sending, Receiving, Idle
  <2> QED
    BY <1>5, <2>2, <2>3 DEF GetLocality
<1>6. CASE GiveUpTpm
  <2>1. /\ UNCHANGED <<machine, cmd, count, burst, ret>> /\ pc = "extend" /\ pc' = "end"
        /\ buff' = Release(buff)
    BY <1>6 DEF GiveUpTpm, Relinquish
  <2>2. /\ buff' \in Buffer /\ buff'.len = buff.len /\ buff'.tail = buff.tail
        /\ buff'.truesize = buff.truesize
    BY <2>1, <1>0, Buffers DEF DriverInv
  <2> QED
    BY <2>1, <2>2 DEF DriverInv, Sending, Receiving, Idle
<1>7. CASE Build
  <2>1. /\ UNCHANGED <<machine, burst>> /\ pc = "extend" /\ cmd < Commands
        /\ cmd' = cmd + 1 /\ count' = 0
    BY <1>7 DEF Build
  <2>2. cmd' \in 1 .. Commands /\ cmd \in Nat
    BY <1>0, <2>1 DEF DriverInv
  <2> DEFINE size == CmdLen[family][cmd + 1] - HdrLen
             reserved == Reserve(Free(buff))
  <2>3. size \in Nat /\ HdrLen + size = CmdLen[family][cmd'] /\ CmdLen[family][cmd'] > HdrLen
    BY <1>0, <2>1, <2>2, Lengths
  <2>4. /\ reserved \in Buffer /\ reserved.len = HdrLen /\ reserved.tail = HdrLen
        /\ reserved.truesize = buff.truesize
    BY <1>0, Buffers DEF DriverInv
  <2>5. \/ /\ CanPut(reserved, size) /\ pc' = "ready" /\ buff' = Put(reserved, size) /\ ret' = ret
        \/ pc' = "extend" /\ buff' = Free(buff) /\ ret' = Append(ret, "error")
        \/ pc' = "extend" /\ buff' = buff /\ ret' = Append(ret, "error")
    BY <1>7 DEF Build, Return
  <2> HIDE DEF size, reserved
  <2>6. ASSUME CanPut(reserved, size), pc' = "ready", buff' = Put(reserved, size), ret' = ret
        PROVE  DriverInv'
    <3>1. /\ buff' \in Buffer /\ buff'.len = CmdLen[family][cmd'] /\ buff'.tail = buff'.len
          /\ buff'.truesize = buff.truesize /\ buff'.len <= buff'.truesize
      BY <2>3, <2>4, <2>6, Puts
    <3> QED
      BY <1>0, <2>1, <2>2, <2>3, <2>6, <3>1 DEF DriverInv, Sending, Receiving, Idle
  <2>7. ASSUME pc' = "extend", buff' \in {buff, Free(buff)}, ret' = Append(ret, "error")
        PROVE  DriverInv'
    <3>1. /\ buff' \in Buffer /\ buff'.len <= buff'.truesize /\ buff'.tail \in {Null, buff'.len}
          /\ buff'.truesize = buff.truesize
      BY <1>0, <2>7, Buffers DEF DriverInv
    <3>2. ret' \in Seq({"ok", "error"}) /\ Len(ret') = cmd'
      <4>1. ret \in Seq({"ok", "error"}) /\ Len(ret) = cmd
        BY <2>1 DEF DriverInv, Idle
      <4> QED
        BY <2>1, <2>7, <4>1
    <3> QED
      BY <1>0, <2>1, <2>2, <2>7, <3>1, <3>2 DEF DriverInv, Sending, Receiving, Idle
  <2> QED
    BY <2>5, <2>6, <2>7
<1>8. CASE WriteReady \/ ReadReady
  <2>1. /\ UNCHANGED <<machine, cmd, buff, count, burst, ret>>
        /\ pc \in {"ready", "ready_wait"} /\ pc' \in {"ready", "ready_wait", "burst"}
    BY <1>8 DEF WriteReady, ReadReady
  <2>2. count = 0 /\ buff.len = CmdLen[family][cmd] /\ Len(ret) = cmd - 1 /\ Len(ret) \in Nat
    BY <2>1 DEF DriverInv, Sending, Idle
  <2>3. cmd \in 1 .. Commands
    BY <1>0, <2>2 DEF DriverInv
  <2>4. count <= buff.len - 1
    BY <1>0, <2>2, <2>3, Lengths
  <2> QED
    BY <2>1, <2>2, <2>4 DEF DriverInv, Sending, Receiving, Idle
<1>9. CASE WaitBurst
  <2>1. pc = "burst" /\ pc' = "push" /\ burst' = room /\ room \in 0 .. MaxBurst
        /\ UNCHANGED <<machine, cmd, buff, count, ret>>
    BY <1>9 DEF WaitBurst, ChipInv
  <2> QED
    BY <2>1 DEF DriverInv, Sending, Receiving, Idle
<1>10. CASE Push
  <2>1. UNCHANGED <<machine, cmd, buff, ret>> /\ pc = "push"
    BY <1>10 DEF Push
  <2>2. \/ /\ burst > 0 /\ count < buff.len - 1 /\ pc' = pc /\ count' = count + 1
           /\ burst' = burst - 1
        \/ pc' = "check" /\ UNCHANGED <<count, burst>>
    BY <1>10 DEF Push, Length
  <2> QED
    BY <1>0, <2>1, <2>2, SMTT(30) DEF DriverInv, Sending, Receiving, Idle
<1>11. CASE CheckExpect
  <2>1. UNCHANGED <<machine, cmd, count, burst>> /\ pc = "check"
    BY <1>11 DEF CheckExpect
  <2>2. CASE Return("error")
    BY <1>0, <2>1, <2>2, Returns DEF DriverInv, Sending
  <2>3. CASE pc' \in {"burst", "last"} /\ UNCHANGED <<buff, ret>>
    BY <1>0, <2>1, <2>3 DEF DriverInv, Sending, Receiving, Idle
  <2> QED
    BY <1>11, <2>2, <2>3 DEF CheckExpect
<1>12. CASE PushLast
  <2>1. UNCHANGED <<machine, cmd, buff, burst, ret>> /\ pc = "last" /\ pc' = "stuck"
        /\ count' = count + 1
    BY <1>12 DEF PushLast
  <2> QED
    BY <1>0, <2>1 DEF DriverInv, Sending, Receiving, Idle
<1>13. CASE CheckStuck
  <2>1. UNCHANGED <<machine, cmd, count, burst>> /\ pc = "stuck"
    BY <1>13 DEF CheckStuck
  <2>2. CASE Return("error")
    BY <1>0, <2>1, <2>2, Returns DEF DriverInv, Sending
  <2>3. CASE pc' = "go" /\ UNCHANGED <<buff, ret>>
    BY <1>0, <2>1, <2>3 DEF DriverInv, Sending, Receiving, Idle
  <2> QED
    BY <1>13, <2>2, <2>3 DEF CheckStuck
<1>14. CASE Go
  <2>1. UNCHANGED <<machine, cmd, count, burst>> /\ pc = "go"
    BY <1>14 DEF Go
  <2>2. CASE Return("ok")
    BY <1>0, <2>1, <2>2, Returns DEF DriverInv, Sending
  <2>3. CASE family # TPM20 /\ pc' = "recv" /\ buff' = Put(Trim(buff, buff.len), HdrLen) /\ ret' = ret
    <3>1. buff.len = CmdLen[family][cmd] /\ buff.tail = buff.len /\ cmd \in 0 .. Commands
          /\ family = TPM12 /\ Len(ret) = cmd - 1 /\ Len(ret) \in Nat
      BY <2>1, <2>3, TisAssumption DEF DriverInv, Sending, Idle
    <3>2. cmd \in 1 .. Commands
      BY <1>0, <3>1
    <3>3. buff.len > HdrLen
      BY <3>1, <3>2, Lengths
    <3>4. /\ Trim(buff, buff.len) \in Buffer /\ Trim(buff, buff.len).len = 0
          /\ Trim(buff, buff.len).tail = 0 /\ Trim(buff, buff.len).truesize = buff.truesize
      BY <3>1, Trims DEF DriverInv
    <3>5. CanPut(Trim(buff, buff.len), HdrLen)
      BY <1>0, <3>3, <3>4 DEF CanPut, DriverInv
    <3>6. /\ buff' \in Buffer /\ buff'.len = HdrLen /\ buff'.tail = HdrLen
          /\ buff'.truesize = buff.truesize /\ HdrLen <= buff.truesize
      BY <1>0, <2>3, <3>4, <3>5, Puts
    <3> QED
      BY <1>0, <2>1, <2>3, <3>1, <3>6 DEF DriverInv, Sending, Receiving, Idle
  <2> QED
    BY <1>14, <2>2, <2>3 DEF Go
<1>15. CASE WaitResponse
  BY <1>0, <1>15 DEF WaitResponse, DriverInv, Sending, Receiving, Idle
<1>16. CASE WaitAgain
  <2>1. UNCHANGED <<machine, cmd, count, burst, rsp>> /\ pc = "recv_again"
    BY <1>16 DEF WaitAgain
  <2>2. CASE Return("error")
    BY <1>0, <2>1, <2>2, Returns DEF DriverInv, Receiving
  <2>3. CASE pc' = "header" /\ UNCHANGED <<buff, ret>>
    BY <1>0, <2>1, <2>3 DEF DriverInv, Sending, Receiving, Idle
  <2> QED
    BY <1>16, <2>2, <2>3 DEF WaitAgain
<1>17. CASE ReadHeader
  <2>1. UNCHANGED <<machine, cmd, burst, rsp>> /\ pc = "header" /\ rsp.len \in Nat
    BY <1>17 DEF ReadHeader, ChipInv
  <2>2. CASE UNCHANGED count /\ Return("error")
    BY <1>0, <2>1, <2>2, Returns DEF DriverInv, Receiving
  <2>3. ASSUME NEW n \in 1 .. MaxBurst, n <= HdrLen - count, count' = count + n,
               UNCHANGED <<pc, buff, ret>>
        PROVE  DriverInv'
    BY <1>0, <2>1, <2>3 DEF DriverInv, Sending, Receiving, Idle
  <2>4. ASSUME rsp.len > HdrLen, CanPut(buff, rsp.len - HdrLen), pc' = "body", count' = 0,
               buff' = Put(buff, rsp.len - HdrLen), ret' = ret
        PROVE  DriverInv'
    <3>1. buff.len = HdrLen /\ buff.tail = HdrLen /\ rsp.len - HdrLen \in Nat
      BY <1>0, <2>1, <2>4 DEF DriverInv
    <3>2. /\ buff' \in Buffer /\ buff'.len = rsp.len /\ buff'.tail = rsp.len
          /\ buff'.truesize = buff.truesize /\ rsp.len <= buff.truesize
      BY <1>0, <2>1, <2>4, <3>1, Puts DEF DriverInv
    <3> QED
      BY <1>0, <2>1, <2>4, <3>2 DEF DriverInv, Sending, Receiving, Idle
  <2> QED
    BY <1>17, <2>2, <2>3, <2>4 DEF ReadHeader, ReadTowards
<1>18. CASE ReadBody
  <2>1. UNCHANGED <<machine, cmd, burst, rsp>> /\ pc = "body" /\ rsp.len \in Nat
    BY <1>18 DEF ReadBody, ChipInv
  <2>2. CASE UNCHANGED count /\ Return("error")
    BY <1>0, <2>1, <2>2, Returns DEF DriverInv, Receiving
  <2>3. ASSUME NEW n \in 1 .. MaxBurst, n <= rsp.len - HdrLen - 1 - count, count' = count + n,
               UNCHANGED <<pc, buff, ret>>
        PROVE  DriverInv'
    BY <1>0, <2>1, <2>3, SMTT(30) DEF DriverInv, Sending, Receiving, Idle
  <2>4. CASE pc' = "over" /\ count' = count + 1 /\ UNCHANGED <<buff, ret>>
    BY <1>0, <2>1, <2>4 DEF DriverInv, Sending, Receiving, Idle
  <2> QED
    BY <1>18, <2>2, <2>3, <2>4 DEF ReadBody, ReadTowards
<1>19. CASE CheckResponse
  <2>1. UNCHANGED <<machine, cmd, count, burst>> /\ pc = "over"
    BY <1>19 DEF CheckResponse
  <2>2. \E r \in {"ok", "error"} : Return(r)
    BY <1>19 DEF CheckResponse
  <2> QED
    BY <1>0, <2>1, <2>2, Returns DEF DriverInv, Receiving
<1> QED
  BY <1>1, <1>2, <1>3, <1>4, <1>5, <1>6, <1>7, <1>8, <1>9, <1>10, <1>11, <1>12, <1>13, <1>14,
     <1>15, <1>16, <1>17, <1>18, <1>19 DEF Next, Driver, Locality, Send, Recv
-----------------------------------------------------------------------------
(* The TPM's state, and that a response is there while it is read.          *)
LEMMA InitChip == Init => ChipInv /\ AccessInv
  BY TisAssumption DEF Init, ChipInv, AccessInv, LocalityKnown, NoRsp, NoLocality

(* Each step, the TPM's own included, keeps what is in its FIFO a command  *)
(* or a response.                                                          *)
LEMMA NextChip ==
  ASSUME DriverInv, ChipInv, [Next]_vars
  PROVE  ChipInv'
<1> USE DEF Goto, machine, driver, chip, status, access, ChipInv
<1>0. /\ Commands \in Nat /\ MaxBurst \in Nat /\ RspLens \subseteq Nat
      /\ cmd \in 0 .. Commands /\ room \in Nat
  BY TisAssumption DEF DriverInv
<1>1. CASE UNCHANGED vars
  BY <1>1 DEF vars
<1>2. CASE Grant \/ GetReady \/ Settle
  BY <1>2 DEF Grant, GetReady, Settle
<1>3. CASE Drain
  BY <1>0, <1>3 DEF Drain
<1>4. CASE GiveUp
  BY <1>4 DEF GiveUp, Expect
<1>5. CASE Execute
  <2>1. st = "execute" /\ st' = "complete" /\ UNCHANGED <<pc, fifo, room, valid>>
    BY <1>5 DEF Execute
  <2>2. PICK ok \in BOOLEAN, len \in RspLens :
          /\ rsp' = [len |-> len, ok |-> ok] /\ left' = len
          /\ finished' = Append(finished, [cmd |-> fifo[1], ok |-> ok])
    BY <1>5 DEF Execute
  <2>3. [cmd |-> fifo[1], ok |-> ok] \in Outcome
    <3>1. fifo # <<>> /\ fifo \in Seq(1 .. Commands)
      BY <2>1
    <3>2. 1 \in 1 .. Len(fifo)
      BY <3>1, EmptySeq
    <3>3. fifo[1] \in 1 .. Commands
      BY <3>1, <3>2, ElementOfSeq
    <3> QED
      BY <3>3 DEF Outcome
  <2>4. finished' \in Seq(Outcome)
    BY <2>2, <2>3
  <2> QED
    BY <1>0, <2>1, <2>2, <2>4
<1>6. CASE RequestZero \/ InitTis \/ RequestTwo \/ GetLocality
  BY <1>6 DEF RequestZero, InitTis, RequestTwo, GetLocality
<1>7. CASE RelinquishZero \/ GiveUpTpm
  BY <1>7 DEF RelinquishZero, GiveUpTpm, Relinquish, Abandon
<1>8. CASE Build \/ ReadReady \/ WaitBurst \/ CheckExpect \/ CheckStuck
  BY <1>8 DEF Build, ReadReady, WaitBurst, CheckExpect, CheckStuck, Return
<1>9. CASE WriteReady
  BY <1>9 DEF WriteReady, MakeReady, NoRsp
<1>10. ASSUME Receive(cmd), left' = left, rsp' = rsp, finished' = finished, cmd \in 1 .. Commands,
              pc' \notin {"header", "body", "over"}
       PROVE  ChipInv'
  <2>1. \/ fifo' = Append(fifo, cmd) /\ st' = "receive" /\ st \in {"ready", "receive"}
        \/ fifo' = fifo /\ st' = st
    BY <1>10 DEF Receive
  <2>2. Append(fifo, cmd) \in Seq(1 .. Commands) /\ Append(fifo, cmd) # <<>>
    BY <1>10
  <2>3. room' = (IF room > 0 THEN room - 1 ELSE 0) /\ valid' = FALSE
    BY <1>10 DEF Receive
  <2>4. room' \in 0 .. MaxBurst
    BY <1>0, <2>3
  <2> QED
    BY <1>10, <2>1, <2>2, <2>3, <2>4
<1>11. pc \in Sending => cmd \in 1 .. Commands
  <2> SUFFICES ASSUME pc \in Sending PROVE cmd \in 1 .. Commands
    OBVIOUS
  <2>1. Len(ret) = cmd - 1 /\ Len(ret) \in Nat
    BY DEF DriverInv, Sending, Idle
  <2> QED
    BY <1>0, <2>1
<1>12. CASE Push
  BY <1>10, <1>11, <1>12 DEF Push, Sending
<1>13. CASE PushLast
  BY <1>10, <1>11, <1>13 DEF PushLast, Sending
<1>14. CASE Go
  BY <1>14 DEF Go, Start, Return
<1>15. CASE WaitResponse \/ WaitAgain
  BY <1>15 DEF WaitResponse, WaitAgain, Available, Return
<1>16. CASE ReadHeader
  BY <1>16 DEF ReadHeader, ReadTowards, Available, Return
<1>17. CASE ReadBody
  BY <1>17 DEF ReadBody, ReadTowards, Available, Return
<1>18. CASE CheckResponse
  <2>1. pc = "over" /\ UNCHANGED <<room, valid, finished>>
    BY <1>18 DEF CheckResponse
  <2>2. pc' = "extend"
    BY <1>18 DEF CheckResponse, Return
  <2>3. CASE UNCHANGED chip
    BY <2>1, <2>2, <2>3
  <2>4. CASE MakeReady
    BY <2>1, <2>2, <2>4 DEF MakeReady, NoRsp
  <2> QED
    BY <1>18, <2>3, <2>4 DEF CheckResponse
<1> QED
  BY <1>1, <1>2, <1>3, <1>4, <1>5, <1>6, <1>7, <1>8, <1>9, <1>12, <1>13, <1>14, <1>15, <1>16,
     <1>17, <1>18 DEF Next, Tpm, Driver, Locality, Send, Recv

(* What the driver takes for its locality is the one it was granted.        *)
LEMMA NextAccess ==
  ASSUME DriverInv, AccessInv, [Next]_vars
  PROVE  AccessInv'
<1> USE DEF Goto, machine, driver, chip, status, access, AccessInv, LocalityKnown, NoLocality, MaxLocality
<1>1. CASE UNCHANGED vars
  BY <1>1 DEF vars
<1>2. CASE Grant
  BY <1>2 DEF Grant
<1>3. CASE GetReady \/ Settle \/ Drain \/ GiveUp \/ Execute
  BY <1>3, ZenonT(30) DEF GetReady, Settle, Drain, GiveUp, Execute
<1>4. CASE RequestZero \/ InitTis \/ RequestTwo \/ GetLocality
  BY <1>4, ZenonT(30) DEF RequestZero, InitTis, RequestTwo, GetLocality
<1>5. CASE RelinquishZero \/ GiveUpTpm
  BY <1>5 DEF RelinquishZero, GiveUpTpm, Relinquish, Abandon
<1>6. CASE Send
  BY <1>6, ZenonT(30)
     DEF Send, Build, WriteReady, ReadReady, WaitBurst, Push, CheckExpect, PushLast, CheckStuck, Go
<1>7. CASE Recv
  BY <1>7 DEF Recv, WaitResponse, WaitAgain, ReadHeader, ReadBody, CheckResponse
<1> QED
  BY <1>1, <1>2, <1>3, <1>4, <1>5, <1>6, <1>7 DEF Next, Tpm, Driver, Locality

(* The driver's, the TPM's and the registers' state on every behaviour.     *)
THEOREM TisInvariance == Spec => [](DriverInv /\ ChipInv /\ AccessInv)
<1>1. DriverInv /\ ChipInv /\ AccessInv /\ [Next]_vars => (DriverInv /\ ChipInv /\ AccessInv)'
  BY NextDriver, NextChip, NextAccess
<1> QED
  BY <1>1, InitDriver, InitChip, PTL DEF Spec

(* Values stay in their types, and the buffer never holds more than it has  *)
(* room for, whatever length of response the TPM comes up with.            *)
THEOREM TisTypeCorrect == Spec => []TypeOK
<1>1. DriverInv /\ ChipInv /\ AccessInv => TypeOK
  BY DEF DriverInv, ChipInv, AccessInv, TypeOK, Sending, Receiving, Idle
<1> QED
  BY <1>1, TisInvariance, PTL

(* The driver never takes itself to have a locality that it has not.        *)
THEOREM TisLocalityKnown == Spec => []LocalityKnown
<1>1. AccessInv => LocalityKnown
  BY DEF AccessInv
<1> QED
  BY <1>1, TisInvariance, PTL
-----------------------------------------------------------------------------
(* A longer sequence keeps what it began with.                             *)
LEMMA Appended ==
  ASSUME NEW S, NEW s \in Seq(S), NEW e \in S
  PROVE  /\ Append(s, e) \in Seq(S) /\ Append(s, e) # <<>>
         /\ DOMAIN s = 1 .. Len(s) /\ DOMAIN Append(s, e) = 1 .. Len(s) + 1 /\ Len(s) \in Nat
         /\ \A i \in DOMAIN s : i \in DOMAIN Append(s, e) /\ Append(s, e)[i] = s[i]
         /\ Append(s, e)[Len(s) + 1] = e
         /\ \A i \in DOMAIN Append(s, e) : i \in DOMAIN s \/ i = Len(s) + 1
         /\ Append(s, e)[1] = IF s = <<>> THEN e ELSE s[1]
         /\ s # <<>> => 1 \in DOMAIN s
<1>1. Append(s, e) \in Seq(S) /\ DOMAIN s = 1 .. Len(s) /\ Len(s) \in Nat
  OBVIOUS
<1>2. Len(Append(s, e)) = Len(s) + 1
  OBVIOUS
<1>3. Append(s, e) # <<>> /\ DOMAIN Append(s, e) = 1 .. Len(s) + 1
  BY <1>1, <1>2
<1>4. \A i \in 1 .. Len(s) : Append(s, e)[i] = s[i]
  OBVIOUS
<1>5. Append(s, e)[Len(s) + 1] = e
  OBVIOUS
<1>6. s # <<>> => 1 \in 1 .. Len(s)
  OBVIOUS
<1>7. s = <<>> => Len(s) = 0
  OBVIOUS
<1>8. Append(s, e)[1] = IF s = <<>> THEN e ELSE s[1]
  BY <1>1, <1>4, <1>5, <1>6, <1>7
<1> QED
  BY <1>1, <1>3, <1>4, <1>5, <1>6, <1>8

(* A sequence that is one longer and agrees on the rest is the other one   *)
(* with an element appended.                                               *)
LEMMA AppendIs ==
  ASSUME NEW S, NEW s \in Seq(S), NEW e \in S, NEW t \in Seq(S), Len(t) = Len(s) + 1,
         \A i \in 1 .. Len(s) : t[i] = s[i], t[Len(s) + 1] = e
  PROVE  t = Append(s, e)
<1>1. /\ Append(s, e) \in Seq(S) /\ DOMAIN Append(s, e) = 1 .. Len(s) + 1 /\ Len(s) \in Nat
      /\ \A i \in 1 .. Len(s) : Append(s, e)[i] = s[i]
      /\ Append(s, e)[Len(s) + 1] = e
  BY Appended
<1>2. Len(Append(s, e)) = Len(s) + 1
  OBVIOUS
<1>3. \A i \in 1 .. Len(t) : i \in 1 .. Len(s) \/ i = Len(s) + 1
  BY <1>1
<1> QED
  BY <1>1, <1>2, <1>3, SeqEqual

(* Whatever is sent, a command being sent is one of those given.            *)
LEMMA SendingCommand == DriverInv /\ pc \in Sending \cup Receiving => cmd \in 1 .. Commands
<1> SUFFICES ASSUME DriverInv, pc \in Sending \cup Receiving PROVE cmd \in 1 .. Commands
  OBVIOUS
<1>1. Len(ret) = cmd - 1 /\ Len(ret) \in Nat /\ cmd \in 0 .. Commands /\ Commands \in Nat
  BY TisAssumption DEF DriverInv, Sending, Receiving, Idle
<1> QED
  BY <1>1

(* The steps by what they do to the command that is sent or carried out.    *)
Elsewhere ==
  /\ UNCHANGED <<machine, cmd, fifo, rsp, finished>> /\ st' = st
  /\ \/ UNCHANGED <<pc, ret>>
     \/ pc \in Idle /\ pc' \in Idle \ {"end"} /\ ret' = ret
     \/ pc \in (Sending \ {"ready"}) \cup Receiving /\ pc' = "extend" /\ ret' = Append(ret, "error")
     \/ pc = "ready_wait" /\ pc' = "ready" /\ ret' = ret
     \/ /\ pc \in Sending \ {"ready", "go"} /\ pc' \in {"burst", "push", "check"}
        /\ ret' = ret
     \/ pc = "check" /\ pc' = "last" /\ Expect /\ ret' = ret
     \/ pc = "stuck" /\ pc' = "go" /\ ~Expect /\ ret' = ret
     \/ pc \in Receiving /\ pc' \in Receiving /\ ret' = ret

(* A step is one of those that commands, the FIFO or results change in, or *)
(* none of that changes.                                                   *)
LEMMA TisSteps ==
  ASSUME DriverInv, [Next]_vars
  PROVE  \/ Elsewhere
         \/ GetReady \/ GiveUp \/ Execute \/ RelinquishZero \/ GiveUpTpm \/ Build \/ WriteReady
         \/ Push \/ PushLast \/ Go \/ CheckResponse
<1> USE DEF Goto, machine, driver, chip, status, access, Elsewhere, Idle, Sending, Receiving
<1>1. CASE UNCHANGED vars
  BY <1>1 DEF vars
<1>2. CASE Grant \/ Settle \/ Drain
  BY <1>2 DEF Grant, Settle, Drain
<1>3. CASE RequestZero \/ InitTis \/ RequestTwo \/ GetLocality
  BY <1>3 DEF RequestZero, InitTis, RequestTwo, GetLocality
<1>4. CASE ReadReady \/ WaitBurst
  BY <1>4 DEF ReadReady, WaitBurst
<1>5. CASE CheckExpect
  BY <1>5 DEF CheckExpect, Return
<1>6. CASE CheckStuck
  BY <1>6 DEF CheckStuck, Return
<1>7. CASE WaitResponse \/ WaitAgain
  BY <1>7 DEF WaitResponse, WaitAgain, Return
<1>8. CASE ReadHeader
  BY <1>8 DEF ReadHeader, ReadTowards, Return
<1>9. CASE ReadBody
  BY <1>9 DEF ReadBody, ReadTowards, Return
<1> QED
  BY <1>1, <1>2, <1>3, <1>4, <1>5, <1>6, <1>7, <1>8, <1>9
  DEF Next, Tpm, Driver, Locality, Send, Recv

(* At entry nothing was sent.                                              *)
LEMMA InitFifo == Init => FifoInv /\ ResponseInv /\ PendingInv
  BY DEF Init, FifoInv, ResponseInv, Truthful, PendingInv, NoRsp, Sending, Receiving

(* What is in the FIFO is of the command being sent, and younger than all   *)
(* that are finished.                                                      *)
LEMMA NextFifo ==
  ASSUME DriverInv, ChipInv, FifoInv, [Next]_vars
  PROVE  FifoInv'
<1> USE DEF Goto, FifoInv
<1>0. /\ cmd \in Nat /\ fifo \in Seq(1 .. Commands) /\ finished \in Seq(Outcome)
      /\ \A j \in DOMAIN finished : finished[j].cmd \in 1 .. Commands
      /\ \A i \in DOMAIN fifo : fifo[i] \in 1 .. Commands
  <2>1. /\ cmd \in 0 .. Commands /\ Commands \in Nat /\ fifo \in Seq(1 .. Commands)
        /\ finished \in Seq(Outcome)
    BY TisAssumption DEF DriverInv, ChipInv
  <2>2. \A j \in DOMAIN finished : finished[j] \in Outcome
    BY <2>1
  <2> QED
    BY <2>1, <2>2 DEF Outcome
<1>1. CASE Elsewhere
  BY <1>1 DEF Elsewhere, Idle, Sending, Receiving
<1>2. CASE GetReady
  BY <1>2 DEF GetReady, driver
<1>3. CASE GiveUp
  BY <1>3 DEF GiveUp, driver
<1>4. CASE Execute
  <2>1. st = "execute" /\ st' = "complete" /\ UNCHANGED <<pc, cmd, fifo>>
    BY <1>4 DEF Execute, driver
  <2>2. PICK ok \in BOOLEAN : finished' = Append(finished, [cmd |-> fifo[1], ok |-> ok])
    BY <1>4 DEF Execute
  <2>3. 1 \in DOMAIN fifo
    BY <1>0, <2>1, EmptySeq DEF ChipInv
  <2> DEFINE o == [cmd |-> fifo[1], ok |-> ok]
  <2>4. o \in Outcome /\ o.cmd = fifo[1]
    BY <1>0, <2>3 DEF Outcome
  <2> HIDE DEF o
  <2>5. \A j \in DOMAIN finished' : finished'[j].cmd = fifo[1] \/ \E k \in DOMAIN finished : finished'[j] = finished[k]
    BY <1>0, <2>2, <2>4, Appended DEF o
  <2> QED
    BY <2>1, <2>3, <2>5 DEF Sending, Receiving
<1>5. CASE RelinquishZero \/ GiveUpTpm
  BY <1>5 DEF RelinquishZero, GiveUpTpm, Relinquish, Abandon, chip, Sending, Receiving
<1>6. CASE Build
  <2>1. cmd' = cmd + 1 /\ UNCHANGED <<st, fifo, finished>> /\ pc' \in {"extend", "ready"}
    BY <1>6 DEF Build, Return, chip
  <2> QED
    BY <1>0, <2>1 DEF Sending, Receiving
<1>7. CASE WriteReady
  BY <1>7 DEF WriteReady, MakeReady, ChipInv, Sending, Receiving
<1>8. ASSUME Receive(cmd), UNCHANGED <<cmd, finished>>, pc \in Sending \ {"ready", "ready_wait"},
             pc' \in Sending \ {"ready", "ready_wait"}
      PROVE  FifoInv'
  <2>1. cmd \in 1 .. Commands
    BY <1>8, SendingCommand
  <2>2. CASE st \in {"ready", "receive"} /\ st' = "receive" /\ fifo' = Append(fifo, cmd)
    <3>1. \A i \in DOMAIN fifo' : fifo'[i] = cmd
      BY <1>0, <1>8, <2>1, <2>2, Appended
    <3>2. fifo'[1] = cmd
      BY <1>0, <2>1, <2>2, <3>1, Appended
    <3> QED
      BY <1>0, <1>8, <2>1, <2>2, <3>1, <3>2 DEF Receiving, Sending
  <2>3. CASE UNCHANGED <<st, fifo>>
    BY <1>8, <2>3 DEF Receiving, Sending
  <2> QED
    BY <1>8, <2>2, <2>3 DEF Receive
<1>9. CASE Push
  <2>1. UNCHANGED <<cmd, finished>> /\ pc = "push" /\ pc' \in {"push", "check"}
    BY <1>9 DEF Push
  <2>2. Receive(cmd) \/ UNCHANGED <<st, fifo>>
    BY <1>9 DEF Push, chip
  <2> QED
    BY <1>8, <2>1, <2>2 DEF Sending, Receiving
<1>10. CASE PushLast
  BY <1>8, <1>10 DEF PushLast, Sending, Receiving
<1>11. CASE Go
  BY <1>11 DEF Go, Start, Return, Sending, Receiving
<1>12. CASE CheckResponse
  <2>1. UNCHANGED <<cmd, finished>> /\ pc' = "extend" /\ pc = "over"
    BY <1>12 DEF CheckResponse, Return
  <2>2. UNCHANGED chip \/ MakeReady
    BY <1>12 DEF CheckResponse
  <2> QED
    BY <2>1, <2>2 DEF MakeReady, chip, ChipInv, Sending, Receiving
<1> QED
  BY <1>1, <1>2, <1>3, <1>4, <1>5, <1>6, <1>7, <1>9, <1>10, <1>11, <1>12, TisSteps

(* A response that reports success is to the command that was sent, so SKL  *)
(* takes for done what is.                                                 *)
LEMMA NextResponse ==
  ASSUME DriverInv, ChipInv, FifoInv, ResponseInv, [Next]_vars
  PROVE  ResponseInv'
<1> USE DEF Goto
<1> DEFINE Here == pc \in (Sending \ {"ready"}) \cup Receiving =>
                     (rsp.ok => \E i \in DOMAIN finished : finished[i] = [cmd |-> cmd, ok |-> TRUE])
<1>0. /\ ret \in Seq({"ok", "error"}) /\ finished \in Seq(Outcome) /\ Here /\ Truthful
      /\ (pc \in Sending \cup Receiving => Len(ret) = cmd - 1 /\ cmd \in Nat)
  BY TisAssumption DEF DriverInv, ChipInv, ResponseInv, Sending, Receiving, Idle
<1>1. ASSUME UNCHANGED <<family, finished>>, ret' = ret \/ ret' = Append(ret, "error")
      PROVE  Truthful'
  <2>1. \A c \in DOMAIN ret' : ret'[c] = "ok" => c \in DOMAIN ret /\ ret[c] = "ok"
    BY <1>0, <1>1, Appended
  <2> QED
    BY <1>0, <1>1, <2>1 DEF Truthful
<1>2. CASE Elsewhere
  <2>1. Truthful'
    BY <1>1, <1>2 DEF Elsewhere, machine
  <2>2. Here'
    BY <1>0, <1>2 DEF Elsewhere, Sending, Receiving, Idle
  <2> QED
    BY <2>1, <2>2 DEF ResponseInv
<1>3. CASE GetReady \/ GiveUp
  BY <1>0, <1>3 DEF GetReady, GiveUp, machine, driver, ResponseInv, Truthful
<1>4. CASE Execute
  <2>1. st = "execute" /\ UNCHANGED <<pc, cmd, fifo, ret, family>>
    BY <1>4 DEF Execute, driver, machine
  <2>2. PICK ok \in BOOLEAN : /\ finished' = Append(finished, [cmd |-> fifo[1], ok |-> ok])
                              /\ rsp'.ok = ok
    BY <1>4 DEF Execute
  <2>3. fifo \in Seq(1 .. Commands) /\ 1 \in DOMAIN fifo /\ fifo[1] \in 1 .. Commands
    <3>1. fifo \in Seq(1 .. Commands) /\ fifo # <<>>
      BY <2>1 DEF ChipInv
    <3>2. 1 \in 1 .. Len(fifo) /\ DOMAIN fifo = 1 .. Len(fifo)
      BY <3>1, EmptySeq
    <3> QED
      BY <3>1, <3>2, ElementOfSeq
  <2> DEFINE o == [cmd |-> fifo[1], ok |-> ok]
  <2>4. o \in Outcome
    BY <2>3 DEF Outcome
  <2> HIDE DEF o
  <2>5. /\ \A i \in DOMAIN finished : i \in DOMAIN finished' /\ finished'[i] = finished[i]
        /\ Len(finished) + 1 \in DOMAIN finished' /\ finished'[Len(finished) + 1] = o
    BY <1>0, <2>2, <2>4, Appended DEF o
  <2>6. Truthful'
    BY <1>0, <2>1, <2>5 DEF Truthful
  <2>7. Here'
    <3>1. ASSUME pc \in (Sending \ {"ready"}) \cup Receiving, ok
          PROVE  o = [cmd |-> cmd, ok |-> TRUE]
      BY <2>3, <3>1 DEF FifoInv, o
    <3> QED
      BY <2>1, <2>2, <2>5, <3>1
  <2> QED
    BY <2>6, <2>7 DEF ResponseInv
<1>5. CASE RelinquishZero \/ GiveUpTpm
  BY <1>0, <1>5 DEF RelinquishZero, GiveUpTpm, Relinquish, machine, ResponseInv, Truthful, Sending, Receiving
<1>6. CASE Build
  <2>1. UNCHANGED <<family, finished>> /\ pc' \in {"extend", "ready"}
        /\ (ret' = ret \/ ret' = Append(ret, "error"))
    BY <1>6 DEF Build, Return, machine
  <2> QED
    BY <1>1, <2>1 DEF ResponseInv, Sending, Receiving
<1>7. CASE WriteReady
  BY <1>0, <1>7 DEF WriteReady, MakeReady, NoRsp, machine, ResponseInv, Truthful, Sending, Receiving
<1>8. CASE Push
  <2>1. UNCHANGED <<family, finished, ret, cmd>> /\ rsp' = rsp /\ pc = "push"
    BY <1>8 DEF Push, machine, chip
  <2> QED
    BY <1>0, <2>1 DEF ResponseInv, Truthful, Sending, Receiving
<1>9. CASE PushLast
  BY <1>0, <1>9 DEF PushLast, machine, ResponseInv, Truthful, Sending, Receiving
<1>10. CASE Go
  <2>1. UNCHANGED <<family, finished, cmd, rsp>> /\ pc = "go"
    BY <1>10 DEF Go, Start, machine
  <2>2. Here'
    BY <1>0, <2>1 DEF Sending, Receiving
  <2>3. family = TPM20 \/ ret' = ret
    BY <1>10 DEF Go
  <2>4. Truthful'
    BY <1>0, <1>1, <2>1, <2>3 DEF Truthful, TPM12, TPM20
  <2> QED
    BY <2>2, <2>4 DEF ResponseInv
<1>11. CASE CheckResponse
  <2>1. UNCHANGED <<family, finished, cmd>> /\ pc = "over" /\ pc' = "extend"
    BY <1>11 DEF CheckResponse, machine, Return
  <2>2. ret' = Append(ret, "error") \/ (ret' = Append(ret, "ok") /\ rsp.ok)
    BY <1>11 DEF CheckResponse, Return
  <2>3. Truthful'
    <3>1. CASE ret' = Append(ret, "error")
      BY <1>1, <2>1, <3>1
    <3>2. CASE ret' = Append(ret, "ok") /\ rsp.ok
      <4>1. \E i \in DOMAIN finished : finished[i] = [cmd |-> cmd, ok |-> TRUE]
        BY <1>0, <2>1, <3>2 DEF Receiving
      <4>2. Len(ret) + 1 = cmd
        BY <1>0, <2>1 DEF Receiving
      <4>3. \A c \in DOMAIN ret' : c = cmd \/ (c \in DOMAIN ret /\ ret'[c] = ret[c])
        BY <1>0, <3>2, <4>2, Appended
      <4> QED
        BY <1>0, <2>1, <4>1, <4>3 DEF Truthful
    <3> QED
      BY <2>2, <3>1, <3>2
  <2> QED
    BY <2>1, <2>3 DEF ResponseInv, Sending, Receiving
<1> QED
  BY <1>2, <1>3, <1>4, <1>5, <1>6, <1>7, <1>8, <1>9, <1>10, <1>11, TisSteps

(* With a TPM that obeys, no command is lost between STS_GO and its end.    *)
LEMMA NextPending ==
  ASSUME DriverInv, ChipInv, FifoInv, ResponseInv, PendingInv, [Next]_vars
  PROVE  PendingInv'
<1> USE DEF Goto
<1> SUFFICES ASSUME reliable, reliable' = reliable PROVE PendingInv'
  <2>1. reliable' = reliable
    BY DEF Next, vars, machine, Driver, Tpm, Locality, Send, Recv, Grant, GetReady, Settle, Drain,
           GiveUp, Execute, RequestZero, InitTis, RequestTwo, GetLocality, RelinquishZero, GiveUpTpm,
           Relinquish, Build, WriteReady, ReadReady, WaitBurst, Push, CheckExpect, PushLast,
           CheckStuck, Go, WaitResponse, WaitAgain, ReadHeader, ReadBody, CheckResponse
  <2> QED
    BY <2>1 DEF PendingInv
<1>0. /\ ret \in Seq({"ok", "error"}) /\ finished \in Seq(Outcome) /\ fifo \in Seq(1 .. Commands)
      /\ pc \in {"last", "stuck", "go"} => st = "receive"
      /\ pc = "go" => ~Expect
      /\ pc = "end" => st # "execute"
      /\ \A c \in DOMAIN ret : ret[c] = "ok" => Done(c) \/ (st = "execute" /\ fifo[1] = c)
      /\ pc \in Sending \cup Receiving => Len(ret) = cmd - 1 /\ cmd \in 1 .. Commands /\ cmd \in Int
  BY SendingCommand DEF DriverInv, ChipInv, PendingInv, Sending, Receiving, Idle
\* Nothing was being carried out, and only an error is noted.
<1>1. ASSUME st # "execute", finished' = finished,
             ret' = ret \/ ret' = Append(ret, "error"),
             pc' \in {"last", "stuck", "go"} => st' = "receive",
             pc' = "go" => ~Expect', pc' = "end" => st' # "execute"
      PROVE  PendingInv'
  <2>1. \A c \in DOMAIN ret' : ret'[c] = "ok" => c \in DOMAIN ret /\ ret[c] = "ok"
    BY <1>0, <1>1, Appended
  <2>2. \A c \in DOMAIN ret' : ret'[c] = "ok" => Done(c)'
    BY <1>0, <1>1, <2>1 DEF Done
  <2> QED
    BY <1>1, <2>2 DEF PendingInv
<1>2. CASE Elsewhere
  <2>1. /\ pc' \in {"last", "stuck", "go"} => st' = "receive"
        /\ pc' = "go" => ~Expect'
        /\ pc' = "end" => st' # "execute"
    BY <1>0, <1>2 DEF Elsewhere, machine, Expect, Idle, Sending, Receiving
  <2>2. \A c \in DOMAIN ret' : ret'[c] = "ok" => c \in DOMAIN ret /\ ret[c] = "ok"
    <3>1. ret' = ret \/ ret' = Append(ret, "error")
      BY <1>2 DEF Elsewhere
    <3> QED
      BY <1>0, <3>1, Appended
  <2>3. \A c \in DOMAIN ret' : ret'[c] = "ok" => Done(c)' \/ (st' = "execute" /\ fifo'[1] = c)
    BY <1>0, <1>2, <2>2 DEF Elsewhere, Done
  <2> QED
    BY <2>1, <2>3 DEF PendingInv
<1>3. CASE GetReady \/ GiveUp
  BY <1>0, <1>1, <1>3 DEF GetReady, GiveUp, driver
<1>4. CASE Execute
  <2>1. st = "execute" /\ st' = "complete" /\ UNCHANGED <<pc, fifo, ret>>
    BY <1>4 DEF Execute, driver
  <2>2. PICK ok \in BOOLEAN : finished' = Append(finished, [cmd |-> fifo[1], ok |-> ok])
    BY <1>4 DEF Execute
  <2> DEFINE o == [cmd |-> fifo[1], ok |-> ok]
  <2>3. o \in Outcome /\ o.cmd = fifo[1]
    <3>1. fifo # <<>>
      BY <2>1 DEF ChipInv
    <3>2. 1 \in 1 .. Len(fifo)
      BY <1>0, <3>1, EmptySeq
    <3>3. fifo[1] \in 1 .. Commands
      BY <1>0, <3>2, ElementOfSeq
    <3> QED
      BY <3>3 DEF Outcome
  <2> HIDE DEF o
  <2>4. /\ \A i \in DOMAIN finished : i \in DOMAIN finished' /\ finished'[i] = finished[i]
        /\ Len(finished) + 1 \in DOMAIN finished' /\ finished'[Len(finished) + 1] = o
    BY <1>0, <2>2, <2>3, Appended DEF o
  <2>5. \A c : Done(c) \/ fifo[1] = c => Done(c)'
    BY <2>3, <2>4 DEF Done
  <2> QED
    BY <1>0, <2>1, <2>5 DEF PendingInv
<1>5. CASE RelinquishZero
  <2>1. ret = <<>> /\ ret' = ret /\ pc' = "request"
    <3>1. pc = "relinquish" /\ ret' = ret /\ pc' = "request"
      BY <1>5 DEF RelinquishZero, Relinquish
    <3>2. Len(ret) = 0
      BY <3>1 DEF DriverInv, Idle
    <3> QED
      BY <1>0, <3>1, <3>2, EmptySeq
  <2> QED
    BY <2>1 DEF PendingInv
<1>6. CASE GiveUpTpm
  <2>1. st # "execute" /\ finished' = finished /\ ret' = ret /\ pc' = "end" /\ st' = st
    BY <1>6 DEF GiveUpTpm, Relinquish, Abandon, chip
  <2> QED
    BY <1>1, <2>1
<1>7. CASE Build
  <2>1. UNCHANGED <<finished, st, fifo>> /\ pc' \in {"extend", "ready"}
        /\ (ret' = ret \/ ret' = Append(ret, "error"))
    BY <1>7 DEF Build, Return, chip
  <2>2. \A c \in DOMAIN ret' : ret'[c] = "ok" => c \in DOMAIN ret /\ ret[c] = "ok"
    BY <1>0, <2>1, Appended, SMTT(30)
  <2> QED
    BY <1>0, <2>1, <2>2 DEF PendingInv, Done
<1>8. CASE WriteReady
  BY <1>1, <1>8 DEF WriteReady
<1>9. CASE Push
  <2>1. pc = "push" /\ pc' \in {"push", "check"} /\ finished' = finished /\ ret' = ret
    BY <1>9 DEF Push
  <2> QED
    BY <1>1, <2>1 DEF FifoInv, Sending
<1>10. CASE PushLast
  <2>1. pc = "last" /\ pc' = "stuck" /\ finished' = finished /\ ret' = ret /\ Receive(cmd)
    BY <1>10 DEF PushLast
  <2>2. st = "receive" /\ st' = "receive"
    BY <1>0, <2>1 DEF Receive
  <2> QED
    BY <1>1, <2>1, <2>2
<1>11. CASE Go
  <2>1. /\ pc = "go" /\ finished' = finished /\ fifo' = fifo /\ cmd' = cmd /\ st' = "execute"
        /\ pc' \in {"extend", "recv"} /\ (ret' = ret \/ ret' = Append(ret, "ok"))
    BY <1>0, <1>11 DEF Go, Start, Return
  <2>2. st = "receive" /\ Len(ret) + 1 = cmd
    BY <1>0, <2>1 DEF Sending
  <2>3. fifo[1] = cmd
    <3>1. fifo # <<>>
      BY <2>2 DEF ChipInv
    <3>2. 1 \in DOMAIN fifo
      BY <1>0, <3>1, EmptySeq
    <3> QED
      BY <2>1, <3>2 DEF FifoInv, Sending
  <2>4. \A c \in DOMAIN ret' : c = cmd \/ (c \in DOMAIN ret /\ ret'[c] = ret[c])
    BY <1>0, <2>1, <2>2, Appended, SMTT(30)
  <2>5. \A c \in DOMAIN ret : ret[c] = "ok" => Done(c)'
    BY <1>0, <2>1, <2>2 DEF Done
  <2> QED
    BY <2>1, <2>3, <2>4, <2>5 DEF PendingInv
<1>12. CASE CheckResponse
  <2>1. finished' = finished /\ pc = "over" /\ pc' = "extend" /\ cmd' = cmd
    BY <1>12 DEF CheckResponse, Return
  <2>2. st # "execute"
    BY <2>1 DEF ChipInv
  <2>3. ret' = Append(ret, "error") \/ (ret' = Append(ret, "ok") /\ rsp.ok)
    BY <1>12 DEF CheckResponse, Return
  <2>4. CASE ret' = Append(ret, "error")
    BY <1>1, <2>1, <2>2, <2>4
  <2>5. CASE ret' = Append(ret, "ok") /\ rsp.ok
    <3>1. Done(cmd)
      BY <2>1, <2>5 DEF ResponseInv, Receiving, Done
    <3>2. Len(ret) + 1 = cmd
      BY <1>0, <2>1 DEF Receiving
    <3>3. \A c \in DOMAIN ret' : c = cmd \/ (c \in DOMAIN ret /\ ret'[c] = ret[c])
      BY <1>0, <2>5, <3>2, Appended
    <3>4. \A c \in DOMAIN ret' : ret'[c] = "ok" => Done(c)'
      BY <1>0, <2>1, <2>2, <3>1, <3>3 DEF Done
    <3> QED
      BY <2>1, <3>4 DEF PendingInv
  <2> QED
    BY <2>3, <2>4, <2>5
<1> QED
  BY <1>2, <1>3, <1>4, <1>5, <1>6, <1>7, <1>8, <1>9, <1>10, <1>11, <1>12, TisSteps

(* What is in the FIFO, what it answers, and what has happened so far      *)
(* belong together, in every state.                                        *)
THEOREM TisCommands == Spec => [](FifoInv /\ ResponseInv /\ PendingInv)
<1>1. DriverInv /\ ChipInv /\ FifoInv /\ ResponseInv /\ PendingInv /\ [Next]_vars
      => (FifoInv /\ ResponseInv /\ PendingInv)'
  BY NextFifo, NextResponse, NextPending
<1> QED
  BY <1>1, InitFifo, TisInvariance, PTL DEF Spec

(* A TPM 1.2 extension that is reported as a success has happened: the      *)
(* response that is trusted is the one to the command that was sent.       *)
THEOREM TisTruthful == Spec => []Truthful
<1>1. ResponseInv => Truthful
  BY DEF ResponseInv
<1> QED
  BY <1>1, TisCommands, PTL

(* No command that was sent with success is lost when the TPM is given up,  *)
(* for either family, if it is done with one before SKL turns to the next. *)
THEOREM TisNoneLost == Spec => []NoneLost
<1>1. PendingInv => NoneLost
  BY DEF PendingInv, NoneLost, Done
<1> QED
  BY <1>1, TisCommands, PTL

-----------------------------------------------------------------------------
(* Refinement: the driver and the TPM carry out commands at most once and   *)
(* in the order they were given in.                                        *)
LEMMA ServiceStep ==
  ASSUME DriverInv, ChipInv, FifoInv, [Next]_vars
  PROVE  [Service!Next]_(<<cmd, [i \in DOMAIN finished |-> finished[i].cmd]>>)
<1> DEFINE done == [i \in DOMAIN finished |-> finished[i].cmd]
<1> SUFFICES [Service!Next]_(<<cmd, done>>)
  OBVIOUS
<1> USE DEF Goto
<1>1. CASE Build
  <2>1. cmd' = cmd + 1 /\ finished' = finished
    BY <1>1 DEF Build
  <2> QED
    BY <2>1 DEF Service!Next, Service!Give
<1>2. CASE Execute
  <2>1. st = "execute" /\ cmd' = cmd
    BY <1>2 DEF Execute, driver
  <2>2. PICK ok \in BOOLEAN : finished' = Append(finished, [cmd |-> fifo[1], ok |-> ok])
    BY <1>2 DEF Execute
  <2>3. /\ finished \in Seq(Outcome) /\ fifo[1] \in 1 .. Commands /\ fifo[1] <= cmd
        /\ cmd \in Nat
    <3>1. fifo # <<>> /\ fifo \in Seq(1 .. Commands) /\ finished \in Seq(Outcome)
      BY <2>1 DEF ChipInv
    <3>2. 1 \in 1 .. Len(fifo) /\ DOMAIN fifo = 1 .. Len(fifo)
      BY <3>1, EmptySeq
    <3> QED
      BY <3>1, <3>2, ElementOfSeq, TisAssumption DEF FifoInv, DriverInv
  <2>4. fifo[1] \in 1 .. cmd /\ \A i \in DOMAIN done : done[i] < fifo[1]
    BY <2>1, <2>3 DEF FifoInv
  <2>5. done' = Append(done, fifo[1])
    <3> DEFINE o == [cmd |-> fifo[1], ok |-> ok]
    <3>1. o \in Outcome /\ o.cmd = fifo[1]
      BY <2>3 DEF Outcome
    <3> HIDE DEF o
    <3>2. /\ DOMAIN finished = 1 .. Len(finished) /\ DOMAIN finished' = 1 .. Len(finished) + 1
          /\ Len(finished) \in Nat
          /\ \A i \in DOMAIN finished : finished'[i] = finished[i]
          /\ finished'[Len(finished) + 1] = o
      BY <2>2, <2>3, <3>1, Appended DEF o
    <3>3. ASSUME NEW t \in Seq(Outcome)
          PROVE  /\ [i \in DOMAIN t |-> t[i].cmd] \in Seq(1 .. Commands)
                 /\ Len([i \in DOMAIN t |-> t[i].cmd]) = Len(t)
      <4>1. DOMAIN t = 1 .. Len(t) /\ Len(t) \in Nat /\ \A i \in 1 .. Len(t) : t[i] \in Outcome
        OBVIOUS
      <4>2. \A i \in 1 .. Len(t) : t[i].cmd \in 1 .. Commands
        BY <4>1 DEF Outcome
      <4>3. [i \in DOMAIN t |-> t[i].cmd] = [i \in 1 .. Len(t) |-> t[i].cmd]
        BY <4>1
      <4> QED
        BY <4>1, <4>2, <4>3
    <3>4. finished' \in Seq(Outcome)
      BY <2>2, <2>3, <3>1, Appended DEF o
    <3>5. done \in Seq(1 .. Commands) /\ Len(done) = Len(finished)
      BY <2>3, <3>3
    <3>6. done' \in Seq(1 .. Commands) /\ Len(done') = Len(finished) + 1
      <4>1. Len(finished') = Len(finished) + 1
        BY <3>2, <3>4
      <4> QED
        BY <3>3, <3>4, <4>1
    <3>7. /\ \A i \in 1 .. Len(finished) : done'[i] = done[i]
          /\ done'[Len(finished) + 1] = fifo[1]
      BY <3>1, <3>2
    <3> HIDE DEF done
    <3> QED
      BY <2>3, <3>2, <3>5, <3>6, <3>7, AppendIs
  <2> QED
    BY <2>1, <2>4, <2>5 DEF Service!Next, Service!CarryOut
<1>3. CASE UNCHANGED <<cmd, finished>>
  BY <1>3
<1>4. Build \/ Execute \/ UNCHANGED <<cmd, finished>>
  BY TisSteps DEF Elsewhere, GetReady, GiveUp, RelinquishZero, GiveUpTpm, Relinquish, WriteReady,
                  Push, PushLast, Go, CheckResponse, driver
<1> QED
  BY <1>1, <1>2, <1>3, <1>4

(* The TIS driver with its TPM implements the service SKL relies on: a      *)
(* command is carried out at most once, and none overtakes another.        *)
THEOREM TisImplementsService == Spec => ServiceSpec
<1>1. Init => Service!Init
  BY DEF Init, Service!Init
<1>2. DriverInv /\ ChipInv /\ FifoInv /\ [Next]_vars
      => [Service!Next]_(<<cmd, [i \in DOMAIN finished |-> finished[i].cmd]>>)
  BY ServiceStep
<1> QED
  BY <1>1, <1>2, TisInvariance, TisCommands, PTL DEF Spec, ServiceSpec, Service!Spec
=============================================================================
