------------------------------- MODULE TpmCrb -------------------------------
(* The CRB driver, crb.c, used by tpm.c and tpm2_extend_pcr(), from        *)
(* enable_tpm() to the last tpm_relinquish_locality(). Commands are built  *)
(* in the TPM's own memory, so that nothing is sent but the start bit. The *)
(* TPM works at its own pace behind its registers: it is hardware,         *)
(* modelled by what the driver uses of it. A delay of the driver's is a    *)
(* step during which the TPM may do any amount of work.                    *)
EXTENDS TpmBuff, Sequences

CONSTANTS
  Commands,  \* number of PCR extensions to perform
  CmdLen,    \* length of each command
  BufSize,   \* TPM_CRB_DATA_BUFFER_SIZE
  Preempts   \* the TPM lets a request take over from a lower locality

NoLocality == 255  \* TPM_NO_LOCALITY
Localities == {0, 2}

ASSUME CrbAssumption ==
  /\ Commands \in Nat /\ BufSize \in Nat /\ Preempts \in BOOLEAN
  /\ \A c \in 1 .. Commands : CmdLen[c] \in Nat /\ CmdLen[c] > HdrLen

VARIABLES
  \* the driver
  pc,        \* where it is
  locality,  \* the static of crb.c
  buff,      \* tpm_buff; tpm->buff points at it once it is allocated
  cmd,       \* number of the command being sent, or last sent
  ret,       \* what tpm_extend_pcr() returned for each command
  \* the TPM
  active,    \* LOC_STATE: the assigned locality
  wanted,    \* localities that were requested and are not granted yet
  st,        \* its state; CTRL_START reads 1 while it is "execute"
  area,      \* the command that is in its buffer, 0 for none
  taken,     \* the command it is carrying out, or carried out last
  request,   \* CTRL_REQ: what it was asked for
  cancel,    \* CTRL_CANCEL
  finished   \* the commands it carried out, successfully or not

driver == <<pc, locality, buff, cmd, ret>>
access == <<active, wanted>>
chip == <<st, taken, request>>
vars == <<driver, access, chip, area, cancel, finished>>

Goto(from, to) == pc = from /\ pc' = to

-----------------------------------------------------------------------------
(* The TPM. *)

Grant ==
  /\ \E l \in wanted :
       /\ active = NoLocality \/ (Preempts /\ active < l)
       /\ active' = l /\ wanted' = wanted \ {l}
  /\ UNCHANGED <<driver, chip, area, cancel, finished>>

\* The buffer is invalidated when the TPM goes idle.
Obey ==
  /\ request # "none"
  /\ request' = "none"
  /\ \/ request = "cmd_ready" /\ st = "idle" /\ st' = "ready" /\ UNCHANGED area
     \/ request = "go_idle" /\ st \in {"ready", "complete"} /\ st' = "idle" /\ area' = 0
     \/ /\ <<request, st>> \notin {"cmd_ready"} \X {"idle"} \cup {"go_idle"} \X {"ready", "complete"}
        /\ UNCHANGED <<st, area>>
  /\ UNCHANGED <<driver, access, taken, cancel, finished>>

Execute ==
  /\ st = "execute"
  /\ st' = "complete"
  /\ finished' = Append(finished, taken)
  /\ UNCHANGED <<driver, access, taken, request, area, cancel>>

Cancel ==
  /\ st = "execute" /\ cancel
  /\ st' = "complete"
  /\ UNCHANGED <<driver, access, taken, request, area, cancel, finished>>

Tpm == Grant \/ Obey \/ Execute \/ Cancel

-----------------------------------------------------------------------------
(* Localities. *)

(* crb_request_locality(0), called by crb_init(). The locality may already *)
(* be assigned.                                                            *)
RequestZero ==
  /\ Goto("init", IF active = 0 THEN "idle" ELSE "init_wait")
  /\ IF active = 0
     THEN locality' = 0 /\ UNCHANGED wanted
     ELSE wanted' = wanted \cup {0} /\ UNCHANGED locality
  /\ UNCHANGED <<buff, cmd, ret, active, chip, area, cancel, finished>>

(* LOC_STS is read once. Without locality 0, as without a TPM,             *)
(* enable_tpm() returns NULL and skl_main() crashes.                       *)
InitCrb ==
  /\ Goto("init_wait", IF active = 0 THEN "idle" ELSE "crash")
  /\ locality' = IF active = 0 THEN 0 ELSE NoLocality
  /\ UNCHANGED <<buff, cmd, ret, access, chip, area, cancel, finished>>

(* go_idle() *)
GoIdle ==
  /\ Goto("idle", "ready")
  /\ request' = IF st = "idle" THEN request ELSE "go_idle"
  /\ UNCHANGED <<locality, buff, cmd, ret, access, st, taken, area, cancel, finished>>

(* cmd_ready(), at the end of the "pause to give tpm time to complete the  *)
(* request" (crb.c:204) to go idle, which is taken to be long enough. That *)
(* it may not be for cmd_ready()'s own request is checked, and ignored.    *)
CmdReady ==
  /\ Goto("ready", "request") /\ request = "none"
  /\ request' = IF st = "idle" THEN "cmd_ready" ELSE request
  /\ UNCHANGED <<locality, buff, cmd, ret, access, st, taken, area, cancel, finished>>

\* LOC_CTRL.relinquish is written at a locality, which may not have the TPM.
GiveUpLocality(l) ==
  /\ active' = IF active = l THEN NoLocality ELSE active
  /\ st' \in IF active = l /\ st = "execute" THEN {"execute", "idle"} ELSE {st}

(* tpm_request_locality(tpm, 2) relinquishes loc_assigned, which is 1, and *)
(* not active_locality.                                                    *)
RequestTwo ==
  /\ Goto("request", "request_wait")
  /\ IF active # NoLocality
     THEN GiveUpLocality(1)
     ELSE UNCHANGED <<active, st>>
  /\ wanted' = wanted \cup {2}
  /\ UNCHANGED <<locality, buff, cmd, ret, taken, request, area, cancel, finished>>

\* Variant: without the locality the driver holds on to the one it had.
KeepLocality ==
  /\ Goto("request_wait", "extend")
  /\ IF active = 2
     THEN locality' = 2 /\ buff' = Alloc(NullBuff, BufSize)
     ELSE UNCHANGED <<locality, buff>>
  /\ UNCHANGED <<cmd, ret, access, chip, area, cancel, finished>>

(* Without the locality there is no buffer.                                *)
GetLocality ==
  /\ Goto("request_wait", "extend")
  /\ IF active = 2
     THEN locality' = 2 /\ buff' = Alloc(NullBuff, BufSize)
     ELSE locality' = NoLocality /\ UNCHANGED buff
  /\ UNCHANGED <<cmd, ret, access, chip, area, cancel, finished>>

(* crb_relinquish_locality() does not forget the locality, and writes      *)
(* beyond the TPM's registers if there is none.                            *)
GiveUpTpm ==
  /\ cmd = Commands
  /\ Goto("extend", "end")
  /\ GiveUpLocality(locality)
  /\ buff' = Release(buff)
  /\ UNCHANGED <<locality, cmd, ret, wanted, taken, request, area, cancel, finished>>

-----------------------------------------------------------------------------
(* tpm_extend_pcr() *)

\* tpm2_extend_pcr() returns. tpmb_free() clears the command.
Return(result) ==
  /\ ret' = Append(ret, result)
  /\ buff' = Free(buff)
  /\ area' = 0
  /\ pc' = "extend"

(* The command is built in the TPM's buffer.                               *)
Build ==
  LET size == CmdLen[cmd + 1] - HdrLen
      reserved == Reserve(Free(buff))
  IN  /\ pc = "extend" /\ cmd < Commands
      /\ cmd' = cmd + 1
      /\ IF buff.head
         THEN IF CanPut(reserved, size)
              THEN /\ pc' = "send" /\ area' = cmd + 1 /\ buff' = Put(reserved, size)
                   /\ UNCHANGED ret
              ELSE Return("error")
         ELSE \* tpm->buff is NULL
              ret' = Append(ret, "error") /\ UNCHANGED <<pc, buff, area>>
      /\ UNCHANGED <<locality, access, chip, cancel, finished>>

(* crb_send() fails if the TPM is idle.                                    *)
CheckIdle ==
  /\ pc = "send"
  /\ IF st = "idle"
     THEN Return("error")
     ELSE pc' = "start" /\ UNCHANGED <<ret, buff, area>>
  /\ UNCHANGED <<locality, cmd, access, chip, cancel, finished>>

(* CTRL_START is written; the TPM ignores it unless it is ready for it.    *)
Start ==
  /\ Goto("start", "duration_a")
  /\ IF st \in {"ready", "complete"} /\ active = locality
     THEN st' = "execute" /\ taken' = area
     ELSE UNCHANGED <<st, taken>>
  /\ UNCHANGED <<locality, buff, cmd, ret, access, request, area, cancel, finished>>

(* After duration A the command should be done, ...                        *)
DurationA ==
  /\ pc = "duration_a"
  /\ IF st = "execute"
     THEN pc' = "timeout_a" /\ UNCHANGED <<ret, buff, area>>
     ELSE Return("ok")
  /\ UNCHANGED <<locality, cmd, access, chip, cancel, finished>>

\* Variant: the command is waited for.
WaitForever ==
  /\ pc = "timeout_a" /\ st # "execute"
  /\ Return("ok")
  /\ UNCHANGED <<locality, cmd, access, chip, cancel, finished>>

\* Variant: the command is left to itself.
LeaveRunning ==
  /\ pc = "timeout_a"
  /\ Return(IF st = "execute" THEN "error" ELSE "ok")
  /\ UNCHANGED <<locality, cmd, access, chip, cancel, finished>>

(* ... and after timeout A it is given up on.                              *)
TimeoutA ==
  /\ pc = "timeout_a"
  /\ IF st = "execute"
     THEN pc' = "cancel_check" /\ UNCHANGED <<ret, buff, area>>
     ELSE Return("ok")
  /\ UNCHANGED <<locality, cmd, access, chip, cancel, finished>>

(* cancel_send() looks again before it writes CTRL_CANCEL.                 *)
CancelSend ==
  /\ pc = "cancel_check"
  /\ IF st = "execute"
     THEN pc' = "cancel" /\ UNCHANGED <<ret, buff, area>>
     ELSE Return("error")
  /\ UNCHANGED <<locality, cmd, access, chip, cancel, finished>>

WriteCancel ==
  /\ Goto("cancel", "timeout_b")
  /\ cancel' = TRUE
  /\ UNCHANGED <<locality, buff, cmd, ret, access, chip, area, finished>>

\* Variant: the TPM is left being asked to cancel.
KeepCancel ==
  /\ pc = "timeout_b" /\ st # "execute"
  /\ Return("error")
  /\ UNCHANGED <<locality, cmd, access, chip, cancel, finished>>

\* Variant: a command that was cancelled is sent again.
Resend ==
  /\ Goto("timeout_b", "start") /\ st # "execute"
  /\ cancel' = FALSE
  /\ UNCHANGED <<locality, buff, cmd, ret, access, chip, area, finished>>

(* "assumes cancel will succeed" (crb.c:238): by timeout B it has.         *)
ClearCancel ==
  /\ pc = "timeout_b" /\ st # "execute"
  /\ cancel' = FALSE
  /\ Return("error")
  /\ UNCHANGED <<locality, cmd, access, chip, finished>>

-----------------------------------------------------------------------------
Locality ==
  RequestZero \/ InitCrb \/ GoIdle \/ CmdReady \/ RequestTwo \/ GetLocality \/ GiveUpTpm

Send ==
  \/ Build \/ CheckIdle \/ Start \/ DurationA \/ TimeoutA
  \/ CancelSend \/ WriteCancel \/ ClearCancel

Driver == Locality \/ Send

(* Whoever ran before may have left the TPM to locality 0, and in          *)
(* completion state.                                                       *)
Init ==
  /\ pc = "init" /\ locality = NoLocality /\ buff = NullBuff
  /\ cmd = 0 /\ ret = <<>>
  /\ active \in {NoLocality, 0} /\ wanted = {}
  /\ st \in {"idle", "ready", "complete"}
  /\ area = 0 /\ taken = 0 /\ request = "none" /\ cancel = FALSE
  /\ finished = <<>>

Next == Driver \/ Tpm

(* The CPU runs, and the TPM heeds its control registers. It may hang on a *)
(* command.                                                                *)
Spec == Init /\ [][Next]_vars /\ WF_vars(Driver) /\ WF_vars(Obey) /\ WF_vars(Cancel)

-----------------------------------------------------------------------------
(* An extension that was reported as a success was carried out, although   *)
(* no response is looked at: neither cancelled nor never started.          *)
Truthful ==
  \A c \in DOMAIN ret : ret[c] = "ok" => \E i \in DOMAIN finished : finished[i] = c

(* The memory a command is carried out from is not changed meanwhile, and a *)
(* command never takes more of it than there is.                           *)
AreaStable ==
  /\ st = "execute" => area = taken
  /\ buff.len <= buff.truesize

(* From its first command on the driver never takes itself to have a       *)
(* locality that it has not.                                               *)
LocalityKnown ==
  locality # NoLocality /\ pc \notin {"request", "request_wait", "end"} => active = locality

(* The sequence of calls comes to an end, even if the TPM hangs.           *)
Ends == <>(pc \in {"end", "crash"})

(* Commands are carried out at most once, and in the order they were given *)
(* in.                                                                     *)
Service == INSTANCE TpmService WITH given <- cmd, done <- finished

ServiceSpec == Service!Spec

(* "Now that we have TPM and event log, measure bootloader data"           *)
(* (main.c:488): the commands have a buffer to be built in.                *)
HasTpm == pc = "extend" /\ cmd < Commands => buff.head
=============================================================================
