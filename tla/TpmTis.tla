------------------------------- MODULE TpmTis -------------------------------
(* The TIS driver, tis.c, used by tpm.c and the PCR extend commands of     *)
(* tpm1_cmds.c and tpm2_cmds.c, from enable_tpm() to the last              *)
(* tpm_relinquish_locality(). The TPM works at its own pace behind its     *)
(* registers: it is hardware, modelled by what the driver uses of it.      *)
EXTENDS TpmBuff, Sequences

CONSTANTS
  Families,  \* TPM families to consider
  Commands,  \* number of PCR extensions to perform
  CmdLen,    \* per family: length of each command
  RspLens,   \* response lengths a TPM may come up with
  BufSize,   \* STATIC_TIS_BUFFER_SIZE
  MaxBurst,  \* most bytes the FIFO can take or give at once
  Reliability \* kinds of TPM to consider: the variable reliable's values

TPM12 == "TPM12"
TPM20 == "TPM20"
NoLocality == 255  \* TPM_NO_LOCALITY
MaxLocality == 4   \* TPM_MAX_LOCALITY

ASSUME TisAssumption ==
  /\ Families \subseteq {TPM12, TPM20} /\ Commands \in Nat
  /\ \A f \in Families, c \in 1 .. Commands : CmdLen[f][c] \in Nat /\ CmdLen[f][c] > HdrLen
  /\ RspLens \subseteq Nat /\ BufSize \in Nat
  /\ MaxBurst \in Nat \ {0} /\ Reliability \subseteq BOOLEAN

VARIABLES
  family,    \* the TPM's
  reliable,  \* it never gives up, and is done with a command before SKL
             \* turns to the next
  \* the driver
  pc,        \* where it is
  locality,  \* the static of tis.c
  buff,      \* tpm_buff; tpm->buff points at it once it is allocated
  cmd,       \* number of the command being sent, or last sent
  count,     \* tis_send()'s count, recv_data()'s size
  burst,     \* burstcnt
  ret,       \* what tpm_extend_pcr() returned for each command
  \* the TPM
  active,    \* the locality that is granted
  wanted,    \* localities that were requested and are not granted yet
  st,        \* its state
  fifo,      \* bytes received, each by its command's number
  left,      \* bytes of the response not read yet
  rsp,       \* the response: its length, and whether it reports success
  room,      \* its burst count
  valid,     \* STS_VALID
  finished   \* the commands it carried out, successfully or not

machine == <<family, reliable>>
driver == <<pc, locality, buff, cmd, count, burst, ret>>
access == <<active, wanted>>
chip == <<st, fifo, left, rsp>>
status == <<room, valid>>
vars == <<machine, driver, access, chip, status, finished>>

\* buf->len, once the command is built.
Length == buff.len

NoRsp == [len |-> 0, ok |-> FALSE]

Goto(from, to) == pc = from /\ pc' = to

-----------------------------------------------------------------------------
(* The TPM. *)

\* It reads a command's length from its header.
Expect ==
  /\ st = "receive"
  /\ Len(fifo) < HdrLen \/ Len(fifo) < CmdLen[family][fifo[1]]

Available == valid /\ left > 0

Grant ==
  /\ active = NoLocality
  /\ \E l \in wanted : active' = l /\ wanted' = wanted \ {l}
  /\ UNCHANGED <<machine, driver, chip, status, finished>>

GetReady ==
  /\ st = "readying"
  /\ st' = "ready"
  /\ UNCHANGED <<machine, driver, access, fifo, left, rsp, status, finished>>

Settle ==
  /\ ~valid
  /\ valid' = TRUE
  /\ UNCHANGED <<machine, driver, access, chip, room, finished>>

Drain ==
  /\ room = 0
  /\ room' \in 1 .. MaxBurst
  /\ UNCHANGED <<machine, driver, access, chip, valid, finished>>

(* It may give up on a command it has not received completely: tis_send()  *)
(* looks out for a TPM that stops expecting bytes.                         *)
GiveUp ==
  /\ Expect /\ ~reliable
  /\ st' = "idle" /\ fifo' = <<>>
  /\ UNCHANGED <<machine, driver, access, left, rsp, status, finished>>

Execute ==
  /\ st = "execute"
  /\ st' = "complete"
  /\ \E ok \in BOOLEAN, len \in RspLens :
       /\ rsp' = [len |-> len, ok |-> ok]
       /\ left' = len
       /\ finished' = Append(finished, [cmd |-> fifo[1], ok |-> ok])
  /\ UNCHANGED <<machine, driver, access, fifo, status>>

Tpm == Grant \/ GetReady \/ Settle \/ Drain \/ GiveUp \/ Execute

\* A byte is written to the FIFO. Without room for it, it may be lost.
Receive(byte) ==
  /\ \/ /\ st \in {"ready", "receive"}
        /\ st' = "receive"
        /\ fifo' = Append(fifo, byte)
     \/ /\ room = 0 \/ st \notin {"ready", "receive"}
        /\ UNCHANGED <<st, fifo>>
  /\ room' = IF room > 0 THEN room - 1 ELSE 0
  /\ valid' = FALSE

\* STS_COMMAND_READY is written: whatever the TPM is doing is cancelled.
MakeReady ==
  /\ st' = CASE st = "idle" -> "readying"
             [] st \in {"readying", "ready"} -> st
             [] OTHER -> "idle"
  /\ fifo' = <<>> /\ left' = 0 /\ rsp' = NoRsp

\* STS_GO is written.
Start ==
  /\ st' = IF st = "receive" /\ ~Expect THEN "execute" ELSE st
  /\ UNCHANGED <<fifo, left, rsp>>

\* The locality is given up. The source does not say whether a command that
\* is being carried out survives that.
Abandon ==
  /\ active' = NoLocality
  /\ UNCHANGED wanted
  /\ st' \in IF st = "execute" THEN {"execute", "idle"} ELSE {st}
  /\ UNCHANGED <<fifo, left, rsp>>

-----------------------------------------------------------------------------
(* Localities. *)

(* The first half of tis_request_locality(0), as called by tis_init().     *)
RequestZero ==
  /\ Goto("init", "init_wait")
  /\ wanted' = {0}
  /\ UNCHANGED <<machine, locality, buff, cmd, count, burst, ret, active, chip, status, finished>>

(* The second half, which reads ACCESS once. Without locality 0, as        *)
(* without a TPM, enable_tpm() returns NULL and skl_main() crashes.        *)
InitTis ==
  /\ Goto("init_wait", IF active = 0 THEN "relinquish" ELSE "crash")
  /\ locality' = IF active = 0 THEN 0 ELSE NoLocality
  /\ UNCHANGED <<machine, buff, cmd, count, burst, ret, access, chip, status, finished>>

\* Variant: the driver forgets to forget its locality.
KeepLocality(from, to) ==
  /\ Goto(from, to)
  /\ IF locality < MaxLocality THEN Abandon ELSE UNCHANGED <<access, chip>>
  /\ UNCHANGED <<machine, locality, cmd, count, burst, ret, status, finished>>

(* tis_relinquish_locality() *)
Relinquish(from, to) ==
  /\ Goto(from, to)
  /\ IF locality < MaxLocality THEN Abandon ELSE UNCHANGED <<access, chip>>
  /\ locality' = NoLocality
  /\ UNCHANGED <<machine, cmd, count, burst, ret, status, finished>>

(* tpm_request_locality(tpm, 2): locality 0 is given up first. *)
RelinquishZero == Relinquish("relinquish", "request") /\ UNCHANGED buff

RequestTwo ==
  /\ Goto("request", "request_wait")
  /\ wanted' = wanted \cup {2}
  /\ UNCHANGED <<machine, locality, buff, cmd, count, burst, ret, active, chip, status, finished>>

GetLocality ==
  /\ Goto("request_wait", "extend")
  /\ IF active = 2
     THEN locality' = 2 /\ buff' = Alloc(buff, BufSize)
     ELSE UNCHANGED <<locality, buff>>
  /\ UNCHANGED <<machine, cmd, count, burst, ret, access, chip, status, finished>>

(* free_tpm() is tpm_relinquish_locality(). It has free_tpmbuff() set head *)
(* of a buffer that may not be there: without one, low memory is written.  *)
GiveUpTpm ==
  /\ cmd = Commands
  /\ reliable => st # "execute"
  /\ Relinquish("extend", "end")
  /\ buff' = Release(buff)

-----------------------------------------------------------------------------
(* tpm_extend_pcr() *)

\* tpm1_pcr_extend() or tpm2_extend_pcr() returns.
Return(result) ==
  /\ ret' = Append(ret, result)
  /\ buff' = Free(buff)
  /\ pc' = "extend"

(* The command is built in the buffer: the header, then one tpmb_put() for *)
(* TPM 1.2 and four for TPM 2.0, which fit if their sum does.              *)
Build ==
  LET size == CmdLen[family][cmd + 1] - HdrLen
      reserved == Reserve(Free(buff))
  IN  /\ pc = "extend" /\ cmd < Commands
      /\ cmd' = cmd + 1
      /\ count' = 0
      /\ IF buff.head
         THEN IF CanPut(reserved, size)
              THEN pc' = "ready" /\ buff' = Put(reserved, size) /\ UNCHANGED ret
              ELSE Return("error")
         ELSE \* tpm->buff is NULL
              ret' = Append(ret, "error") /\ UNCHANGED <<pc, buff>>
      /\ UNCHANGED <<machine, locality, burst, access, chip, status, finished>>

(* tis_send() first writes STS_COMMAND_READY, and reads it, ...            *)
WriteReady ==
  /\ Goto("ready", "ready_wait")
  /\ reliable => st # "execute"
  /\ MakeReady
  /\ UNCHANGED <<machine, locality, buff, cmd, count, burst, ret, access, status, finished>>

(* ... until it reads as set.                                              *)
ReadReady ==
  /\ Goto("ready_wait", IF st = "ready" THEN "burst" ELSE "ready")
  /\ UNCHANGED <<machine, locality, buff, cmd, count, burst, ret, access, chip, status, finished>>

(* burst_wait() ends when the burst count is not 0.                        *)
WaitBurst ==
  /\ Goto("burst", "push")
  /\ room > 0
  /\ burst' = room
  /\ UNCHANGED <<machine, locality, buff, cmd, count, ret, access, chip, status, finished>>

Push ==
  /\ pc = "push"
  /\ IF burst > 0 /\ count < Length - 1
     THEN /\ Receive(cmd)
          /\ count' = count + 1
          /\ burst' = burst - 1
          /\ UNCHANGED <<pc, left, rsp>>
     ELSE /\ pc' = "check"
          /\ UNCHANGED <<count, burst, chip, status>>
  /\ UNCHANGED <<machine, locality, buff, cmd, ret, access, finished>>

\* Variant: the TPM is waited for instead.
InsistOnExpect ==
  /\ pc = "check" /\ valid /\ Expect
  /\ pc' = IF count < Length - 1 THEN "burst" ELSE "last"
  /\ UNCHANGED <<machine, locality, buff, cmd, count, burst, ret, access, chip, status, finished>>

(* After every burst the TPM must want more: it has not had the last byte. *)
CheckExpect ==
  /\ pc = "check" /\ valid
  /\ IF Expect
     THEN /\ pc' = IF count < Length - 1 THEN "burst" ELSE "last"
          /\ UNCHANGED <<buff, ret>>
     ELSE Return("error")
  /\ UNCHANGED <<machine, locality, cmd, count, burst, access, chip, status, finished>>

(* The last byte goes out without looking at the burst count.              *)
PushLast ==
  /\ Goto("last", "stuck")
  /\ Receive(cmd)
  /\ count' = count + 1
  /\ UNCHANGED <<machine, locality, buff, cmd, burst, ret, left, rsp, access, finished>>

\* Variant: it is not made sure that the last byte stuck.
TrustLast ==
  /\ Goto("stuck", "go")
  /\ UNCHANGED <<machine, locality, buff, cmd, count, burst, ret, access, chip, status, finished>>

CheckStuck ==
  /\ pc = "stuck" /\ valid
  /\ IF Expect
     THEN Return("error")
     ELSE pc' = "go" /\ UNCHANGED <<buff, ret>>
  /\ UNCHANGED <<machine, locality, cmd, count, burst, access, chip, status, finished>>

(* STS_GO. tpm2_extend_pcr() compares the number of bytes and returns,     *)
(* tpm1_pcr_extend() makes the buffer ready for the response's header.     *)
Go ==
  /\ pc = "go"
  /\ Start
  /\ IF family = TPM20
     THEN Return("ok")
     ELSE /\ pc' = "recv"
          /\ buff' = Put(Trim(buff, buff.len), HdrLen)
          /\ UNCHANGED ret
  /\ UNCHANGED <<machine, locality, cmd, count, burst, access, status, finished>>

-----------------------------------------------------------------------------
(* tis_recv(), for TPM 1.2 only. *)

WaitResponse ==
  /\ Goto("recv", IF Available THEN "header" ELSE "recv_again")
  /\ count' = 0
  /\ UNCHANGED <<machine, locality, buff, cmd, burst, ret, access, chip, status, finished>>

\* Variant: a command that is not answered is sent again.
Resend ==
  /\ pc = "recv_again"
  /\ IF Available
     THEN pc' = "header" /\ UNCHANGED buff
     ELSE pc' = "ready" /\ buff' = Put(Reserve(Free(buff)), CmdLen[family][cmd] - HdrLen)
  /\ UNCHANGED <<machine, locality, cmd, count, burst, ret, access, chip, status, finished>>

(* After timeout D the TPM is given up on.                                 *)
WaitAgain ==
  /\ pc = "recv_again"
  /\ IF Available THEN pc' = "header" /\ UNCHANGED <<buff, ret>> ELSE Return("error")
  /\ UNCHANGED <<machine, locality, cmd, count, burst, access, chip, status, finished>>

\* recv_data() reads a burst, or returns with less than it was asked for.
ReadTowards(size) ==
  \/ /\ Available
     /\ \E n \in 1 .. MaxBurst :
          /\ n <= left /\ n <= size - count
          /\ count' = count + n
          /\ left' = left - n
     /\ valid' \in BOOLEAN
     /\ UNCHANGED <<pc, buff, ret>>
  \/ /\ ~Available
     /\ Return("error")
     /\ UNCHANGED <<count, left, valid>>

\* Variant: a response's length is not compared with the buffer's.
TrustLength ==
  /\ pc = "header"
  /\ \/ count < HdrLen /\ ReadTowards(HdrLen)
     \/ /\ count = HdrLen
        /\ IF rsp.len > HdrLen
           THEN /\ pc' = "body" /\ count' = 0
                /\ buff' = [buff EXCEPT !.len = rsp.len, !.tail = rsp.len]
                /\ UNCHANGED ret
           ELSE Return("error") /\ UNCHANGED count
        /\ UNCHANGED <<left, valid>>
  /\ UNCHANGED <<machine, locality, cmd, burst, access, st, fifo, rsp, room, finished>>

(* The header, and room for what it says is to follow.                     *)
ReadHeader ==
  /\ pc = "header"
  /\ \/ count < HdrLen /\ ReadTowards(HdrLen)
     \/ /\ count = HdrLen
        /\ IF rsp.len > HdrLen /\ CanPut(buff, rsp.len - HdrLen)
           THEN /\ pc' = "body" /\ count' = 0
                /\ buff' = Put(buff, rsp.len - HdrLen)
                /\ UNCHANGED ret
           ELSE Return("error") /\ UNCHANGED count
        /\ UNCHANGED <<left, valid>>
  /\ UNCHANGED <<machine, locality, cmd, burst, access, st, fifo, rsp, room, finished>>

(* All but the last byte, then the last byte.                              *)
ReadBody ==
  /\ pc = "body"
  /\ \/ count < rsp.len - HdrLen - 1 /\ ReadTowards(rsp.len - HdrLen - 1)
     \/ /\ count = rsp.len - HdrLen - 1
        /\ IF Available
           THEN /\ pc' = "over" /\ count' = count + 1
                /\ left' = left - 1
                /\ valid' \in BOOLEAN
                /\ UNCHANGED <<buff, ret>>
           ELSE Return("error") /\ UNCHANGED <<count, left, valid>>
  /\ UNCHANGED <<machine, locality, cmd, burst, access, st, fifo, rsp, room, finished>>

\* Variant: any response will do.
TrustResponse ==
  /\ pc = "over"
  /\ MakeReady
  /\ Return("ok")
  /\ UNCHANGED <<machine, locality, cmd, count, burst, access, status, finished>>

(* Nothing may be left. The response's code decides.                       *)
CheckResponse ==
  /\ pc = "over"
  /\ IF Available
     THEN Return("error") /\ UNCHANGED chip
     ELSE MakeReady /\ Return(IF rsp.ok THEN "ok" ELSE "error")
  /\ UNCHANGED <<machine, locality, cmd, count, burst, access, status, finished>>

-----------------------------------------------------------------------------
Locality == RequestZero \/ InitTis \/ RelinquishZero \/ RequestTwo \/ GetLocality \/ GiveUpTpm

Send ==
  \/ Build \/ WriteReady \/ ReadReady \/ WaitBurst \/ Push \/ CheckExpect
  \/ PushLast \/ CheckStuck \/ Go

Recv == WaitResponse \/ WaitAgain \/ ReadHeader \/ ReadBody \/ CheckResponse

Driver == Locality \/ Send \/ Recv

Init ==
  /\ family \in Families /\ reliable \in Reliability
  /\ pc = "init" /\ locality = NoLocality /\ buff = NullBuff
  /\ cmd = 0 /\ count = 0 /\ burst = 0 /\ ret = <<>>
  /\ active = NoLocality /\ wanted = {}
  /\ st = "idle" /\ fifo = <<>> /\ left = 0 /\ rsp = NoRsp
  /\ room = 0 /\ valid = TRUE
  /\ finished = <<>>

Next == Driver \/ Tpm

(* The CPU runs, and the TPM does not stop working.                        *)
Spec == Init /\ [][Next]_vars /\ WF_vars(Driver) /\ WF_vars(Tpm)

-----------------------------------------------------------------------------
(* Variables hold values the code can give them; the buffer never holds    *)
(* more than it has room for.                                              *)
TypeOK ==
  /\ family \in Families /\ reliable \in Reliability
  /\ pc \in {"init", "init_wait", "crash", "relinquish", "request", "request_wait", "extend",
             "ready", "ready_wait", "burst", "push", "check", "last", "stuck", "go",
             "recv", "recv_again", "header", "body", "over", "end"}
  /\ {locality, active} \subseteq {0, 2, NoLocality} /\ wanted \subseteq {0, 2}
  /\ buff \in Buffer /\ buff.len <= buff.truesize
  /\ buff.tail \in {Null, buff.len}
  /\ cmd \in 0 .. Commands /\ Len(ret) \in {cmd, cmd - 1}
  /\ count <= buff.truesize /\ burst \in 0 .. MaxBurst
  /\ st \in {"idle", "readying", "ready", "receive", "execute", "complete"}

(* A TPM 1.2 extension that was reported as a success has happened.        *)
Truthful ==
  family = TPM12 =>
    \A c \in DOMAIN ret :
      ret[c] = "ok" => \E i \in DOMAIN finished : finished[i] = [cmd |-> c, ok |-> TRUE]

(* The driver never takes itself to have a locality that it has not.       *)
LocalityKnown == locality # NoLocality => active = locality

(* With a reliable TPM, every command that was sent with success has been  *)
(* carried out when the TPM is given up, whether or not the response was   *)
(* read.                                                                   *)
NoneLost ==
  reliable /\ pc = "end" =>
    \A c \in DOMAIN ret :
      ret[c] = "ok" => \E i \in DOMAIN finished : finished[i].cmd = c

(* The sequence of calls comes to an end.                                  *)
Ends == <>(pc \in {"end", "crash"})

(* Commands are carried out at most once, and in the order they were given *)
(* in.                                                                     *)
Service ==
  INSTANCE TpmService
    WITH given <- cmd, done <- [i \in DOMAIN finished |-> finished[i].cmd]

ServiceSpec == Service!Spec

(* "wait for locality to be granted" (tis.c:71).                           *)
LocalityWaited == pc = "extend" => locality = 2
=============================================================================
