---------------------------- MODULE TpmCrbProofs ----------------------------
(* Proofs about the CRB driver: for any number of commands of any length,   *)
(* any buffer size, and a TPM that lets localities be taken over or not.    *)
EXTENDS TpmCrb, SequenceTheorems, TLAPS

(* Before there is a buffer; while a command is under way; and while the    *)
(* TPM may be carrying it out.                                              *)
Early == {"init", "init_wait", "crash", "idle", "ready", "request", "request_wait"}
Running == {"duration_a", "timeout_a", "cancel_check", "cancel", "timeout_b"}
Sending == {"send", "start"} \cup Running

DriverInv ==
  /\ pc \in Early \cup Sending \cup {"extend", "end"}
  /\ cmd \in 0 .. Commands
  /\ buff \in Buffer /\ buff.len <= buff.truesize
  /\ ret \in Seq({"ok", "error"})
  /\ Len(ret) = IF pc \in Sending THEN cmd - 1 ELSE cmd

(* The TPM has to be with locality 0 for locality 2 to be asked for, which  *)
(* nobody takes from it.                                                    *)
AccessInv ==
  /\ {locality, active} \subseteq {0, 2, NoLocality} /\ wanted \subseteq {0, 2}
  /\ pc \in {"init", "init_wait", "crash", "idle", "ready"} => wanted \subseteq {0}
  /\ pc \in Sending \cup {"extend", "end"} => locality # 0
  /\ pc \in Sending => buff.head
  /\ pc \in Early => ~buff.head
  /\ buff.head => locality = 2
  /\ LocalityKnown

(* The TPM works on the command that the driver is at, if on any, and is    *)
(* not asked to go idle while there is one in its buffer.                   *)
ChipInv ==
  /\ st \in {"idle", "ready", "complete", "execute"}
  /\ request \in {"none", "cmd_ready", "go_idle"}
  /\ request = "go_idle" => pc = "ready"
  /\ cancel => pc = "timeout_b"
  /\ cancel \in BOOLEAN
  /\ pc \in Sending => area = cmd
  /\ pc = "start" => st # "idle"
  /\ pc \in Running => st \in {"complete", "execute"} /\ taken = cmd
  /\ st = "execute" => pc \in Running

(* All that is finished is older than the command that is being worked on,  *)
(* and the one that is found done by duration or timeout A is among it.     *)
FinishedInv ==
  /\ finished \in Seq(1 .. Commands)
  /\ \A j \in DOMAIN finished : finished[j] <= cmd
  /\ pc \in {"send", "start"} \/ st = "execute" => \A j \in DOMAIN finished : finished[j] < cmd
  /\ pc \in {"duration_a", "timeout_a"} /\ st # "execute" =>
       \E j \in DOMAIN finished : finished[j] = cmd
  /\ Truthful
-----------------------------------------------------------------------------
(* What the operations on a command buffer give: building a command fills   *)
(* no more of it than there is, and freeing leaves it empty.                *)
LEMMA Buffers ==
  ASSUME NEW b \in Buffer, NEW n \in Nat
  PROVE  /\ Free(b) \in Buffer /\ Free(b).len = 0 /\ Free(b).head = b.head
         /\ Release(b) \in Buffer /\ Release(b).len = b.len /\ ~Release(b).head
         /\ Release(b).truesize = b.truesize
         /\ Alloc(b, n) \in Buffer /\ Alloc(b, n).len = 0
         /\ b.truesize \in Nat /\ Free(b).truesize \in Nat /\ Alloc(b, n).truesize \in Nat
  BY HeaderAssumption DEF Buffer, Free, Release, Alloc, Null

(* A command that is built fits its buffer.                                *)
LEMMA Builds ==
  ASSUME NEW b \in Buffer, NEW n \in Nat, CanPut(Reserve(Free(b)), n)
  PROVE  /\ Put(Reserve(Free(b)), n) \in Buffer
         /\ Put(Reserve(Free(b)), n).len <= Put(Reserve(Free(b)), n).truesize
         /\ Put(Reserve(Free(b)), n).head = b.head
<1> DEFINE r == Reserve(Free(b))
<1>1. r \in Buffer /\ r.head = b.head /\ r.len = HdrLen /\ r.tail = HdrLen /\ HdrLen \in Nat
  BY HeaderAssumption DEF Buffer, Free, Reserve, Null
<1>2. Put(r, n) = [r EXCEPT !.tail = r.tail + n, !.len = r.len + n]
  BY DEF Put
<1>3. r.len + n <= r.truesize /\ r.tail + n \in Nat /\ r.len + n \in Nat
  BY <1>1 DEF CanPut
<1> HIDE DEF r
<1>4. /\ Put(r, n) \in Buffer /\ Put(r, n).len = r.len + n /\ Put(r, n).head = r.head
      /\ Put(r, n).truesize = r.truesize
  <2> DEFINE i == r.tail + n
             j == r.len + n
             p == [r EXCEPT !.tail = i, !.len = j]
  <2>1. i \in Nat /\ j \in Nat /\ Put(r, n) = p
    BY <1>2, <1>3
  <2>2. j = r.len + n
    OBVIOUS
  <2> HIDE DEF i, j
  <2>3. p \in Buffer /\ p.len = j /\ p.head = r.head /\ p.truesize = r.truesize
    BY <1>1, <2>1 DEF Buffer
  <2> HIDE DEF p
  <2> QED
    BY <2>1, <2>2, <2>3
<1> QED
  BY <1>1, <1>3, <1>4 DEF r

(* What appending does to a sequence, element by element.                   *)
LEMMA Appended ==
  ASSUME NEW S, NEW s \in Seq(S), NEW e \in S
  PROVE  /\ Append(s, e) \in Seq(S) /\ Len(Append(s, e)) = Len(s) + 1 /\ Len(s) \in Nat
         /\ DOMAIN s = 1 .. Len(s) /\ DOMAIN Append(s, e) = 1 .. Len(s) + 1
         /\ \A i \in DOMAIN s : Append(s, e)[i] = s[i]
         /\ Append(s, e)[Len(s) + 1] = e
  OBVIOUS

(* Every step is one of the driver's or of the TPM's.                       *)
LEMMA CrbSteps ==
  ASSUME [Next]_vars
  PROVE  \/ UNCHANGED vars
         \/ RequestZero \/ InitCrb \/ GoIdle \/ CmdReady \/ RequestTwo \/ GetLocality \/ GiveUpTpm
         \/ Build \/ CheckIdle \/ Start \/ DurationA \/ TimeoutA \/ CancelSend \/ WriteCancel
         \/ ClearCancel \/ Grant \/ Obey \/ Execute \/ Cancel
  BY DEF Next, Driver, Locality, Send, Tpm

(* A command of which the driver only moved on, or which returned.          *)
LEMMA CommandSteps ==
  ASSUME DriverInv, pc \in Sending, cmd' = cmd,
         \/ pc' \in Sending /\ UNCHANGED <<ret, buff>>
         \/ \E r \in {"ok", "error"} : Return(r)
  PROVE  DriverInv' /\ buff'.head = buff.head
<1>0. ret \in Seq({"ok", "error"}) /\ Len(ret) = cmd - 1 /\ cmd \in 0 .. Commands /\ Commands \in Nat
      /\ buff \in Buffer /\ buff.len <= buff.truesize
  BY CrbAssumption DEF DriverInv
<1>1. CASE pc' \in Sending /\ UNCHANGED <<ret, buff>>
  BY <1>0, <1>1 DEF DriverInv
<1>2. ASSUME NEW r \in {"ok", "error"}, Return(r)
      PROVE  DriverInv' /\ buff'.head = buff.head
  <2>1. pc' = "extend" /\ ret' = Append(ret, r) /\ buff' = Free(buff)
    BY <1>2 DEF Return
  <2>2. ret' \in Seq({"ok", "error"}) /\ Len(ret') = cmd
    BY <1>0, <2>1, Appended
  <2>3. buff' \in Buffer /\ buff'.len = 0 /\ buff'.truesize \in Nat /\ buff'.head = buff.head
    BY <1>0, <2>1, Buffers
  <2> QED
    BY <1>0, <2>1, <2>2, <2>3 DEF DriverInv, Sending, Running
<1> QED
  BY <1>1, <1>2

(* The driver's own state: where it is, and what its buffer is at that     *)
(* point.                                                                  *)
LEMMA NextDriver ==
  ASSUME DriverInv, AccessInv, [Next]_vars
  PROVE  DriverInv' /\ (pc \in Sending => buff'.head = buff.head)
<1> USE DEF Goto
<1>0. /\ ret \in Seq({"ok", "error"}) /\ Len(ret) \in Nat /\ Commands \in Nat /\ BufSize \in Nat
      /\ buff \in Buffer /\ cmd \in 0 .. Commands /\ buff.len <= buff.truesize
  BY CrbAssumption DEF DriverInv
<1>1. CASE UNCHANGED driver
  BY <1>1 DEF DriverInv, driver
<1>2. CASE Grant \/ Obey \/ Execute \/ Cancel \/ UNCHANGED vars
  BY <1>1, <1>2 DEF Grant, Obey, Execute, Cancel, vars
<1>3. CASE RequestZero \/ InitCrb \/ GoIdle \/ CmdReady \/ RequestTwo
  <2>1. pc \in Early \ {"crash"} /\ pc' \in Early /\ UNCHANGED <<buff, cmd, ret>>
    BY <1>3 DEF RequestZero, InitCrb, GoIdle, CmdReady, RequestTwo, Early
  <2> QED
    BY <2>1, <1>0 DEF DriverInv, Early, Sending, Running
<1>4. CASE GetLocality
  <2>1. /\ pc = "request_wait" /\ pc' = "extend" /\ UNCHANGED <<cmd, ret>>
        /\ buff' = buff \/ buff' = Alloc(NullBuff, BufSize)
    BY <1>4 DEF GetLocality
  <2>2. NullBuff \in Buffer
    BY DEF NullBuff, Buffer, Null
  <2>3. buff' \in Buffer /\ buff'.len <= buff'.truesize
    BY <1>0, <2>1, <2>2, Buffers
  <2> QED
    BY <1>0, <2>1, <2>3 DEF DriverInv, Sending, Running
<1>5. CASE GiveUpTpm
  <2>1. pc = "extend" /\ pc' = "end" /\ UNCHANGED <<cmd, ret>> /\ buff' = Release(buff)
    BY <1>5 DEF GiveUpTpm
  <2>2. buff' \in Buffer /\ buff'.len <= buff'.truesize
    BY <1>0, <2>1, Buffers
  <2> QED
    BY <1>0, <2>1, <2>2 DEF DriverInv, Sending, Running
<1>6. CASE Build
  <2> DEFINE size == CmdLen[cmd + 1] - HdrLen
             reserved == Reserve(Free(buff))
  <2>1. pc = "extend" /\ cmd' = cmd + 1 /\ cmd' \in 1 .. Commands /\ Len(ret) = cmd
    BY <1>0, <1>6 DEF Build, DriverInv, Sending, Running
  <2>2. size \in Nat
    <3>1. cmd + 1 \in 1 .. Commands
      BY <2>1
    <3>2. CmdLen[cmd + 1] \in Nat /\ CmdLen[cmd + 1] > HdrLen /\ HdrLen \in Nat
      BY <3>1, CrbAssumption, HeaderAssumption
    <3> QED
      BY <3>2
  <2>3. \/ CanPut(reserved, size) /\ pc' = "send" /\ buff' = Put(reserved, size) /\ ret' = ret
        \/ pc' = "extend" /\ buff' \in {buff, Free(buff)} /\ ret' = Append(ret, "error")
    BY <1>6 DEF Build, Return
  <2>4. buff' \in Buffer /\ buff'.len <= buff'.truesize
    BY <1>0, <2>2, <2>3, Builds, Buffers
  <2>5. ret' \in Seq({"ok", "error"}) /\ Len(ret') = IF pc' = "send" THEN cmd' - 1 ELSE cmd'
    BY <1>0, <2>1, <2>3, Appended
  <2>6. pc' \in {"send", "extend"}
    BY <2>3
  <2> HIDE DEF size, reserved
  <2> QED
    BY <1>0, <2>1, <2>4, <2>5, <2>6 DEF DriverInv, Sending, Running
<1>7. CASE CheckIdle \/ Start \/ DurationA \/ TimeoutA \/ CancelSend \/ WriteCancel \/ ClearCancel
  <2>1. /\ pc \in Sending /\ cmd' = cmd
        /\ \/ pc' \in Sending /\ UNCHANGED <<ret, buff>>
           \/ Return("ok") \/ Return("error")
    BY <1>7 DEF CheckIdle, Start, DurationA, TimeoutA, CancelSend, WriteCancel, ClearCancel,
                Sending, Running
  <2> QED
    BY <2>1, CommandSteps
<1> QED
  <2>1. CASE UNCHANGED driver
    BY <1>1, <2>1 DEF driver
  <2>2. CASE RequestZero \/ InitCrb \/ GoIdle \/ CmdReady \/ RequestTwo \/ GetLocality \/ GiveUpTpm \/ Build
    <3>1. pc \notin Sending
      BY <2>2 DEF RequestZero, InitCrb, GoIdle, CmdReady, RequestTwo, GetLocality, GiveUpTpm, Build,
                  Sending, Running
    <3> QED
      BY <2>2, <3>1, <1>3, <1>4, <1>5, <1>6
  <2>3. CASE CheckIdle \/ Start \/ DurationA \/ TimeoutA \/ CancelSend \/ WriteCancel \/ ClearCancel
    BY <1>7, <2>3
  <2>4. CASE Grant \/ Obey \/ Execute \/ Cancel \/ UNCHANGED vars
    BY <2>1, <2>4 DEF Grant, Obey, Execute, Cancel, vars
  <2> QED
    BY <2>2, <2>3, <2>4, CrbSteps
-----------------------------------------------------------------------------
(* The buffer is there for locality 2 only, and freed with it.              *)
LEMMA NextAccess ==
  ASSUME DriverInv, AccessInv, ChipInv, [Next]_vars
  PROVE  AccessInv'
<1> USE DEF Goto, NoLocality
<1>0. buff \in Buffer /\ (pc \in Sending => buff'.head = buff.head)
  BY NextDriver DEF DriverInv
<1>1. CASE UNCHANGED <<driver, access>>
  BY <1>1 DEF driver, access, AccessInv, LocalityKnown
<1>2. CASE UNCHANGED vars \/ Obey \/ Execute \/ Cancel
  BY <1>1, <1>2 DEF Obey, Execute, Cancel, vars
<1>3. CASE Grant
  <2>1. PICK l \in wanted : /\ active = NoLocality \/ (Preempts /\ active < l)
                            /\ active' = l /\ wanted' = wanted \ {l}
    BY <1>3 DEF Grant
  <2>2. UNCHANGED driver /\ l \in {0, 2}
    BY <1>3, <2>1 DEF Grant, AccessInv
  <2>3. ~(locality # NoLocality /\ pc \notin {"request", "request_wait", "end"})
    <3>1. SUFFICES ASSUME locality # NoLocality, pc \notin {"request", "request_wait", "end"}
                   PROVE  FALSE
      OBVIOUS
    <3>2. active = locality /\ locality \in {0, 2} /\ active < l
      BY <2>1, <3>1 DEF AccessInv, LocalityKnown
    <3>3. l = 2 /\ locality = 0
      BY <2>2, <3>2
    <3>4. pc \in {"init", "init_wait", "crash", "idle", "ready"} => FALSE
      BY <2>1, <3>3 DEF AccessInv
    <3> QED
      BY <3>1, <3>3, <3>4 DEF AccessInv, DriverInv, Early
  <2> QED
    BY <2>1, <2>2, <2>3 DEF AccessInv, LocalityKnown, driver
<1>4. CASE RequestZero \/ InitCrb \/ GoIdle \/ CmdReady
  <2>1. CASE RequestZero
    <3>1. pc = "init" /\ UNCHANGED <<buff, active>>
      BY <2>1 DEF RequestZero
    <3>2. \/ active = 0 /\ pc' = "idle" /\ locality' = 0 /\ wanted' = wanted
          \/ pc' = "init_wait" /\ wanted' = wanted \cup {0} /\ locality' = locality
      BY <2>1 DEF RequestZero
    <3> QED
      BY <3>1, <3>2, ZenonT(30) DEF AccessInv, LocalityKnown, Early, Sending, Running
  <2>2. CASE InitCrb
    BY <2>2 DEF InitCrb, AccessInv, LocalityKnown, access, Early, Sending, Running
  <2>3. CASE GoIdle
    BY <2>3 DEF GoIdle, AccessInv, LocalityKnown, access, Early, Sending, Running
  <2>4. CASE CmdReady
    BY <2>4 DEF CmdReady, AccessInv, LocalityKnown, access, Early, Sending, Running
  <2> QED
    BY <1>4, <2>1, <2>2, <2>3, <2>4
<1>5. CASE RequestTwo
  BY <1>5 DEF RequestTwo, GiveUpLocality, AccessInv, LocalityKnown, Early, Sending, Running
<1>6. CASE GetLocality
  <2>1. UNCHANGED access /\ pc = "request_wait" /\ pc' = "extend"
    BY <1>6 DEF GetLocality
  <2>2. \/ active = 2 /\ locality' = 2
        \/ locality' = NoLocality /\ buff' = buff /\ buff.head = FALSE
    <3>1. CASE active = 2
      BY <1>6, <3>1 DEF GetLocality
    <3>2. CASE active # 2
      <4>1. locality' = NoLocality /\ buff' = buff
        BY <1>6, <3>2 DEF GetLocality
      <4>2. ~buff.head
        BY <2>1 DEF AccessInv, Early
      <4> QED
        BY <1>0, <4>1, <4>2 DEF Buffer
    <3> QED
      BY <3>1, <3>2
  <2> QED
    BY <2>1, <2>2 DEF AccessInv, LocalityKnown, access, Early, Sending, Running
<1>7. CASE GiveUpTpm
  <2>1. /\ pc = "extend" /\ pc' = "end" /\ UNCHANGED <<locality, wanted>> /\ buff' = Release(buff)
        /\ active' \in {active, NoLocality}
    BY <1>7 DEF GiveUpTpm, GiveUpLocality
  <2>2. ~buff'.head
    BY <1>0, <2>1, Buffers
  <2> QED
    BY <2>1, <2>2 DEF AccessInv, LocalityKnown, Early, Sending, Running
<1>8. CASE Build
  <2>1. /\ UNCHANGED <<access, locality>> /\ pc = "extend" /\ pc' \in {"send", "extend"}
        /\ pc' = "send" => buff.head
    BY <1>8 DEF Build, Return
  <2>2. buff'.head = buff.head
    <3> DEFINE size == CmdLen[cmd + 1] - HdrLen
               reserved == Reserve(Free(buff))
    <3>1. \/ CanPut(reserved, size) /\ buff' = Put(reserved, size)
          \/ buff' \in {buff, Free(buff)}
      BY <1>8 DEF Build, Return
    <3>2. size \in Nat
      <4>1. cmd + 1 \in 1 .. Commands
        BY <1>8, CrbAssumption DEF Build, DriverInv
      <4>2. CmdLen[cmd + 1] \in Nat /\ CmdLen[cmd + 1] > HdrLen /\ HdrLen \in Nat
        BY <4>1, CrbAssumption, HeaderAssumption
      <4> QED
        BY <4>2
    <3> QED
      BY <1>0, <3>1, <3>2, Builds, Buffers
  <2> QED
    BY <2>1, <2>2 DEF AccessInv, LocalityKnown, access, Early, Sending, Running
<1>9. CASE CheckIdle \/ Start \/ DurationA \/ TimeoutA \/ CancelSend \/ WriteCancel \/ ClearCancel
  <2>1. /\ pc \in Sending /\ UNCHANGED <<access, locality>>
        /\ pc' \in Sending \cup {"extend"}
    BY <1>9 DEF CheckIdle, Start, DurationA, TimeoutA, CancelSend, WriteCancel, ClearCancel,
                Sending, Running, Return
  <2>2. buff'.head = buff.head
    BY <1>0, <2>1
  <2> QED
    BY <2>1, <2>2 DEF AccessInv, LocalityKnown, access, Early, Sending, Running
<1> QED
  BY <1>2, <1>3, <1>4, <1>5, <1>6, <1>7, <1>8, <1>9, CrbSteps

(* While a command is under way the driver has the locality it is sent at. *)
LEMMA HasLocality ==
  ASSUME AccessInv, pc \in Sending
  PROVE  locality = 2 /\ active = locality
  BY DEF AccessInv, LocalityKnown, NoLocality, Sending, Running

(* The TPM is at the command the driver is at, or at none.                  *)
LEMMA NextChip ==
  ASSUME DriverInv, AccessInv, ChipInv, [Next]_vars
  PROVE  ChipInv'
<1> USE DEF Goto
<1>1. CASE UNCHANGED vars \/ Grant
  BY <1>1 DEF Grant, vars, driver, chip, ChipInv
<1>2. CASE Obey
  <2>1. UNCHANGED <<driver, taken, cancel>> /\ request' = "none" /\ request # "none"
    BY <1>2 DEF Obey
  <2>2. \/ st = "idle" /\ st' = "ready" /\ area' = area
        \/ request = "go_idle" /\ st # "execute" /\ st' = "idle"
        \/ UNCHANGED <<st, area>>
    BY <1>2 DEF Obey
  <2> QED
    BY <2>1, <2>2 DEF ChipInv, driver, Sending, Running
<1>3. CASE Execute \/ Cancel
  BY <1>3 DEF Execute, Cancel, ChipInv, driver, Sending, Running
<1>4. CASE RequestZero \/ InitCrb \/ GoIdle \/ CmdReady
  <2>1. /\ pc \in Early \ {"crash"} /\ pc' \in Early /\ UNCHANGED <<st, cancel>>
        /\ \/ request' = request /\ pc # "ready"
           \/ pc' = "ready" /\ request' \in {request, "go_idle"}
           \/ request = "none" /\ request' \in {"none", "cmd_ready"}
    BY <1>4 DEF RequestZero, InitCrb, GoIdle, CmdReady, chip, Early
  <2> QED
    BY <2>1 DEF ChipInv, Early, Sending, Running
<1>5. CASE RequestTwo
  <2>1. st # "execute" /\ pc = "request"
    BY <1>5 DEF RequestTwo, ChipInv, Running
  <2>2. pc' = "request_wait" /\ UNCHANGED <<st, taken, request, cancel>>
    BY <1>5, <2>1 DEF RequestTwo, GiveUpLocality
  <2> QED
    BY <2>1, <2>2 DEF ChipInv, Sending, Running
<1>6. CASE GetLocality
  BY <1>6 DEF GetLocality, chip, ChipInv, Sending, Running
<1>7. CASE GiveUpTpm
  <2>1. st # "execute" /\ pc = "extend"
    BY <1>7 DEF GiveUpTpm, ChipInv, Running
  <2>2. pc' = "end" /\ UNCHANGED <<st, taken, request, cancel>>
    BY <1>7, <2>1 DEF GiveUpTpm, GiveUpLocality
  <2> QED
    BY <2>1, <2>2 DEF ChipInv, Sending, Running
<1>8. CASE Build
  <2>1. /\ UNCHANGED <<chip, cancel>> /\ pc = "extend" /\ cmd' = cmd + 1
        /\ pc' \in {"send", "extend"} /\ (pc' = "send" => area' = cmd + 1)
    BY <1>8 DEF Build, Return
  <2> QED
    BY <2>1 DEF ChipInv, chip, Sending, Running
<1>9. CASE CheckIdle
  BY <1>9 DEF CheckIdle, Return, ChipInv, chip, Sending, Running
<1>10. CASE Start
  <2>1. pc = "start" /\ pc' = "duration_a" /\ UNCHANGED <<cmd, request, cancel, area>>
    BY <1>10 DEF Start
  <2>2. active = locality /\ st \in {"ready", "complete"}
    BY <2>1, HasLocality DEF ChipInv, Sending, Running
  <2>3. st' = "execute" /\ taken' = area
    BY <1>10, <2>2 DEF Start
  <2> QED
    BY <2>1, <2>3 DEF ChipInv, Sending, Running
<1>11. CASE DurationA \/ TimeoutA \/ CancelSend \/ WriteCancel \/ ClearCancel
  <2>1. /\ pc \in Running /\ UNCHANGED <<cmd, chip>>
        /\ \/ pc' \in Running /\ area' = area
           \/ pc' = "extend" /\ st # "execute"
    BY <1>11 DEF DurationA, TimeoutA, CancelSend, WriteCancel, ClearCancel, Running, Return
  <2>2. cancel' \in BOOLEAN /\ (cancel' => pc' = "timeout_b")
    <3>1. CASE DurationA \/ TimeoutA \/ CancelSend
      <4>1. cancel' = cancel /\ pc # "timeout_b"
        BY <3>1 DEF DurationA, TimeoutA, CancelSend
      <4> QED
        BY <4>1 DEF ChipInv
    <3>2. CASE WriteCancel \/ ClearCancel
      BY <3>2 DEF WriteCancel, ClearCancel
    <3> QED
      BY <1>11, <3>1, <3>2
  <2> QED
    BY <2>1, <2>2 DEF ChipInv, chip, Sending, Running
<1> QED
  BY <1>1, <1>2, <1>3, <1>4, <1>5, <1>6, <1>7, <1>8, <1>9, <1>10, <1>11, CrbSteps

(* Reporting an error, or a success of what is done, leaves what was        *)
(* reported true.                                                           *)
LEMMA Reports ==
  ASSUME DriverInv, Truthful, pc \in Sending \/ pc = "extend", finished' = finished,
         NEW r \in {"ok", "error"}, ret' = Append(ret, r),
         r = "ok" => pc \in Sending /\ \E j \in DOMAIN finished : finished[j] = cmd
  PROVE  Truthful'
<1>1. /\ ret \in Seq({"ok", "error"})
      /\ pc \in Sending => Len(ret) + 1 = cmd
  BY CrbAssumption DEF DriverInv
<1>2. SUFFICES ASSUME NEW c \in DOMAIN ret', ret'[c] = "ok"
               PROVE  \E i \in DOMAIN finished : finished[i] = c
  BY DEF Truthful
<1>3. DOMAIN ret = 1 .. Len(ret) /\ DOMAIN ret' = 1 .. Len(ret) + 1 /\ Len(ret) \in Nat
      /\ (\A i \in DOMAIN ret : ret'[i] = ret[i]) /\ ret'[Len(ret) + 1] = r
  BY <1>1, Appended
<1>4. CASE c \in DOMAIN ret
  BY <1>2, <1>3, <1>4 DEF Truthful
<1>5. CASE c = Len(ret) + 1
  BY <1>1, <1>2, <1>3, <1>5
<1> QED
  BY <1>3, <1>4, <1>5

(* What is finished, and that what is reported as a success is.             *)
LEMMA NextFinished ==
  ASSUME DriverInv, AccessInv, ChipInv, FinishedInv, [Next]_vars
  PROVE  FinishedInv'
<1> USE DEF Goto
<1>0. /\ finished \in Seq(1 .. Commands) /\ cmd \in 0 .. Commands /\ Commands \in Nat
      /\ ret \in Seq({"ok", "error"}) /\ Truthful
      /\ \A j \in DOMAIN finished : finished[j] \in 1 .. Commands
  BY CrbAssumption DEF FinishedInv, DriverInv
<1>1. ASSUME UNCHANGED <<cmd, ret, finished>>, st' = "execute" => st = "execute",
             pc' \notin {"send", "start", "duration_a", "timeout_a"}
      PROVE  FinishedInv'
  BY <1>0, <1>1 DEF FinishedInv, Truthful
<1>2. CASE UNCHANGED vars
  BY <1>2 DEF vars, driver, chip, FinishedInv, Truthful
<1>3. CASE Grant \/ Obey
  <2>1. UNCHANGED <<driver, finished>> /\ (st' = "execute" <=> st = "execute")
    BY <1>3 DEF Grant, Obey, chip
  <2> QED
    BY <2>1 DEF FinishedInv, Truthful, driver
<1>4. CASE Execute
  <2>1. st = "execute" /\ st' = "complete" /\ UNCHANGED driver /\ finished' = Append(finished, taken)
    BY <1>4 DEF Execute
  <2>2. pc \in Running /\ taken = cmd /\ cmd \in 1 .. Commands
    <3>1. pc \in Running /\ taken = cmd
      BY <2>1 DEF ChipInv
    <3>2. Len(ret) = cmd - 1 /\ Len(ret) \in Nat
      BY <1>0, <3>1 DEF DriverInv, Sending
    <3> QED
      BY <1>0, <3>1, <3>2
  <2>3. /\ finished' \in Seq(1 .. Commands) /\ Len(finished) \in Nat
        /\ DOMAIN finished = 1 .. Len(finished) /\ DOMAIN finished' = 1 .. Len(finished) + 1
        /\ \A i \in DOMAIN finished : finished'[i] = finished[i]
        /\ finished'[Len(finished) + 1] = cmd
    BY <1>0, <2>1, <2>2, Appended
  <2>4. \A j \in DOMAIN finished' : finished'[j] <= cmd
    <3>1. \A j \in DOMAIN finished : finished[j] <= cmd
      BY DEF FinishedInv
    <3>2. \A j \in DOMAIN finished' : j \in DOMAIN finished \/ j = Len(finished) + 1
      BY <2>3
    <3>3. cmd <= cmd
      BY <1>0
    <3> QED
      BY <2>3, <3>1, <3>2, <3>3
  <2>5. \E j \in DOMAIN finished' : finished'[j] = cmd
    BY <2>3
  <2>6. \A i \in DOMAIN finished : i \in DOMAIN finished' /\ finished'[i] = finished[i]
    BY <2>3
  <2>7. Truthful'
    BY <1>0, <2>1, <2>6 DEF Truthful, driver
  <2> QED
    BY <2>1, <2>2, <2>3, <2>4, <2>5, <2>7 DEF FinishedInv, driver, Running
<1>5. CASE Cancel
  <2>1. pc = "timeout_b" /\ pc' = pc /\ st' = "complete" /\ UNCHANGED <<cmd, ret, finished>>
    BY <1>5 DEF Cancel, driver, ChipInv
  <2> QED
    BY <1>1, <2>1
<1>6. CASE RequestZero \/ InitCrb \/ GoIdle \/ CmdReady \/ GetLocality
  <2>1. pc' \in Early \cup {"extend"} /\ UNCHANGED <<cmd, ret, finished, st>>
    BY <1>6 DEF RequestZero, InitCrb, GoIdle, CmdReady, GetLocality, chip, Early
  <2> QED
    BY <1>1, <2>1 DEF Early
<1>7. CASE RequestTwo
  <2>1. pc' = "request_wait" /\ UNCHANGED <<cmd, ret, finished>> /\ (st' = "execute" => st = "execute")
    BY <1>7 DEF RequestTwo, GiveUpLocality
  <2> QED
    BY <1>1, <2>1
<1>8. CASE GiveUpTpm
  <2>1. pc' = "end" /\ UNCHANGED <<cmd, ret, finished>> /\ (st' = "execute" => st = "execute")
    BY <1>8 DEF GiveUpTpm, GiveUpLocality
  <2> QED
    BY <1>1, <2>1
<1>9. CASE Build
  <2>1. /\ UNCHANGED <<chip, finished>> /\ pc = "extend" /\ pc' \in {"send", "extend"}
        /\ cmd' = cmd + 1 /\ (ret' = ret \/ ret' = Append(ret, "error"))
    BY <1>9 DEF Build, Return
  <2>2. Truthful'
    <3>1. CASE ret' = ret
      BY <1>0, <2>1, <3>1 DEF Truthful
    <3>2. CASE ret' = Append(ret, "error")
      BY <1>0, <2>1, <3>2, Reports
    <3> QED
      BY <2>1, <3>1, <3>2
  <2>3. \A j \in DOMAIN finished : finished[j] < cmd'
    BY <1>0, <2>1 DEF FinishedInv
  <2>4. st' # "execute" /\ \A j \in DOMAIN finished : finished[j] <= cmd'
    BY <1>0, <2>1, <2>3 DEF ChipInv, Running, chip
  <2> QED
    BY <1>0, <2>1, <2>2, <2>3, <2>4 DEF FinishedInv
<1>10. ASSUME pc \in Sending, UNCHANGED <<cmd, st, finished>>, ret' = Append(ret, "error"),
              pc' = "extend"
       PROVE  FinishedInv'
  <2>1. Truthful'
    BY <1>0, <1>10, Reports
  <2> QED
    BY <1>0, <1>10, <2>1 DEF FinishedInv
<1>11. CASE CheckIdle
  <2>1. pc = "send" /\ UNCHANGED <<cmd, st, finished>>
    BY <1>11 DEF CheckIdle, chip
  <2>2. CASE pc' = "start" /\ ret' = ret
    BY <1>0, <2>1, <2>2 DEF FinishedInv, Truthful
  <2>3. CASE Return("error")
    BY <1>10, <2>1, <2>3 DEF Return, Sending
  <2> QED
    BY <1>11, <2>2, <2>3 DEF CheckIdle
<1>12. CASE Start
  <2>1. pc = "start" /\ pc' = "duration_a" /\ UNCHANGED <<cmd, ret, finished>>
    BY <1>12 DEF Start
  <2>2. active = locality /\ st \in {"ready", "complete"}
    BY <2>1, HasLocality DEF ChipInv, Sending, Running
  <2>3. st' = "execute"
    BY <1>12, <2>2 DEF Start
  <2> QED
    BY <1>0, <2>1, <2>3 DEF FinishedInv, Truthful
<1>13. CASE DurationA \/ TimeoutA
  <2>1. pc \in {"duration_a", "timeout_a"} /\ UNCHANGED <<cmd, st, finished>>
        /\ \/ st = "execute" /\ pc' \in {"timeout_a", "cancel_check"} /\ ret' = ret
           \/ st # "execute" /\ Return("ok")
    BY <1>13 DEF DurationA, TimeoutA, chip
  <2>2. CASE ret' = ret /\ st = "execute"
    BY <1>0, <2>1, <2>2 DEF FinishedInv, Truthful
  <2>3. CASE st # "execute" /\ Return("ok")
    <3>1. \E j \in DOMAIN finished : finished[j] = cmd
      BY <2>1, <2>3 DEF FinishedInv
    <3>2. Truthful'
      BY <1>0, <2>1, <2>3, <3>1, Reports DEF Return, Sending, Running
    <3> QED
      BY <1>0, <2>1, <2>3, <3>2 DEF FinishedInv, Return
  <2> QED
    BY <2>1, <2>2, <2>3
<1>14. CASE CancelSend \/ WriteCancel \/ ClearCancel
  <2>1. pc \in Sending /\ UNCHANGED <<cmd, st, finished>>
        /\ \/ pc' \in {"cancel", "timeout_b"} /\ ret' = ret
           \/ Return("error")
    BY <1>14 DEF CancelSend, WriteCancel, ClearCancel, chip, Sending, Running
  <2> QED
    BY <1>1, <1>10, <2>1 DEF Return
<1> QED
  BY <1>2, <1>3, <1>4, <1>5, <1>6, <1>7, <1>8, <1>9, <1>11, <1>12, <1>13, <1>14, CrbSteps
-----------------------------------------------------------------------------
(* All of it from the state the TPM may have been left in.                  *)
LEMMA InitCrbInv == Init => DriverInv /\ AccessInv /\ ChipInv /\ FinishedInv
<1> SUFFICES ASSUME Init PROVE DriverInv /\ AccessInv /\ ChipInv /\ FinishedInv
  OBVIOUS
<1>1. NullBuff \in Buffer /\ NullBuff.len <= NullBuff.truesize /\ ~NullBuff.head
  BY DEF NullBuff, Buffer, Null
<1>2. ret \in Seq({"ok", "error"}) /\ Len(ret) = 0 /\ finished \in Seq(1 .. Commands)
      /\ DOMAIN ret = {} /\ DOMAIN finished = {}
  BY DEF Init
<1>3. Commands \in Nat
  BY CrbAssumption
<1>4. DriverInv
  BY <1>1, <1>2, <1>3 DEF Init, DriverInv, Early, Sending, Running
<1>5. AccessInv
  BY <1>1 DEF Init, AccessInv, LocalityKnown, Sending, Running
<1>6. ChipInv
  BY DEF Init, ChipInv, Sending, Running
<1>7. FinishedInv
  BY <1>2 DEF Init, FinishedInv, Truthful
<1> QED
  BY <1>4, <1>5, <1>6, <1>7

(* The driver knows where it is, and the TPM is with the same command.      *)
THEOREM CrbInvariance == Spec => [](DriverInv /\ AccessInv /\ ChipInv /\ FinishedInv)
<1>1. DriverInv /\ AccessInv /\ ChipInv /\ FinishedInv /\ [Next]_vars
      => (DriverInv /\ AccessInv /\ ChipInv /\ FinishedInv)'
  BY NextDriver, NextAccess, NextChip, NextFinished
<1> QED
  BY <1>1, InitCrbInv, PTL DEF Spec

(* An extension that was reported as a success was carried out, although    *)
(* crb_send() looks at no response: neither cancelled nor never started.    *)
THEOREM CrbTruthful == Spec => []Truthful
<1>1. FinishedInv => Truthful
  BY DEF FinishedInv
<1> QED
  BY <1>1, CrbInvariance, PTL

(* The TPM carries a command out from memory that is not written meanwhile, *)
(* by tpmb_free() nor by the next command, and none exceeds the buffer.     *)
THEOREM CrbAreaStable == Spec => []AreaStable
<1>1. DriverInv /\ ChipInv => AreaStable
  BY DEF DriverInv, ChipInv, AreaStable, Sending
<1> QED
  BY <1>1, CrbInvariance, PTL

(* From its first command on the driver has the locality it takes itself to *)
(* have.                                                                    *)
THEOREM CrbLocalityKnown == Spec => []LocalityKnown
<1>1. AccessInv => LocalityKnown
  BY DEF AccessInv
<1> QED
  BY <1>1, CrbInvariance, PTL

-----------------------------------------------------------------------------
(* Refinement: a step of the driver and the TPM gives the next command,     *)
(* carries one out, or is none of the service's.                            *)
LEMMA ServiceStep ==
  ASSUME DriverInv, ChipInv, FinishedInv, [Next]_vars
  PROVE  [Service!Next]_(<<cmd, finished>>)
<1> USE DEF Goto
<1>1. CASE Build
  <2>1. cmd' = cmd + 1 /\ finished' = finished
    BY <1>1 DEF Build
  <2> QED
    BY <2>1 DEF Service!Next, Service!Give
<1>2. CASE Execute
  <2>1. st = "execute" /\ cmd' = cmd /\ finished' = Append(finished, taken)
    BY <1>2 DEF Execute, driver
  <2>2. pc \in Sending /\ taken = cmd
    BY <2>1 DEF ChipInv, Sending
  <2>3. cmd \in 1 .. cmd
    <3>1. Len(ret) = cmd - 1 /\ Len(ret) \in Nat /\ cmd \in Int
      BY <2>2, CrbAssumption DEF DriverInv
    <3> QED
      BY <3>1
  <2>4. \A i \in DOMAIN finished : finished[i] < cmd
    BY <2>1 DEF FinishedInv
  <2> QED
    BY <2>1, <2>2, <2>3, <2>4 DEF Service!Next, Service!CarryOut
<1>3. CASE UNCHANGED <<cmd, finished>>
  BY <1>3
<1>4. Build \/ Execute \/ UNCHANGED <<cmd, finished>>
  BY CrbSteps DEF RequestZero, InitCrb, GoIdle, CmdReady, RequestTwo, GetLocality, GiveUpTpm,
                  CheckIdle, Start, DurationA, TimeoutA, CancelSend, WriteCancel, ClearCancel,
                  Grant, Obey, Cancel, vars, driver
<1> QED
  BY <1>1, <1>2, <1>3, <1>4

(* The CRB driver with its TPM implements the service SKL relies on: a      *)
(* command is carried out at most once, and none overtakes another, also    *)
(* when one is given up on.                                                 *)
THEOREM CrbImplementsService == Spec => ServiceSpec
<1>1. Init => Service!Init
  BY DEF Init, Service!Init
<1>2. DriverInv /\ ChipInv /\ FinishedInv /\ [Next]_vars => [Service!Next]_(<<cmd, finished>>)
  BY ServiceStep
<1> QED
  BY <1>1, <1>2, CrbInvariance, PTL DEF Spec, ServiceSpec, Service!Spec
=============================================================================
