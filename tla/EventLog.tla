------------------------------ MODULE EventLog ------------------------------
(***************************************************************************)
(* The TPM event log of event_log.c: a container the bootloader allocates, *)
(* that SKL initialises once and then appends measurements to.             *)
(*                                                                         *)
(* The three file-scope pointers of the C code, the "next record" offset   *)
(* kept in the log's own header and the log's memory form one record:      *)
(*   base, ptr, limit  evtlog_base, ptr_current, limit                     *)
(*   off               hdr.next_event_offset or el.next_record_offset      *)
(*   mem               the pieces log_write() copied, in copying order     *)
(*   wiped             what memset() cleared: [at, size]                   *)
(*   ret               the value the last log function returned            *)
(* The operations are functions on that record, so that the launch         *)
(* sequence (module SklMain) uses them too.                                *)
(***************************************************************************)
EXTENDS Integers, Sequences

CONSTANTS
  AddrSpace,  \* number of addresses; u32 sums are taken modulo AddrSpace
  SlbStart,   \* _start: where SKL is loaded
  SlbSize,    \* SLB_SIZE
  HdrSize,    \* sizeof(tpm12_event_t), which opens both log formats
  IdSize,     \* per family: sizeof(tpmXX_spec_id_ev_t)
  EvSize,     \* per family: sizeof(tpmXX_event_t)
  FirstOff,   \* per family: the "next record" offset of an empty log
  OffBase,    \* per family: where, from base, that offset counts from
  Addrs,      \* addresses a bootloader may pass
  Sizes,      \* container sizes a bootloader may pass
  Texts       \* lengths of event descriptions

TPM12 == "TPM12"
TPM20 == "TPM20"
Family == {TPM12, TPM20}
Algos == {"SHA1", "SHA256"}
SkinitText == 6  \* strlen("SKINIT")

ASSUME LayoutAssumption ==
  /\ AddrSpace \in Nat /\ SlbStart \in Nat /\ SlbSize \in Nat
  /\ HdrSize \in Nat \ {0}
  /\ \A f \in Family :
       /\ IdSize[f] \in Nat \ {0} /\ EvSize[f] \in Nat
       /\ EvSize[f] > SkinitText
       /\ FirstOff[f] \in Nat /\ OffBase[f] \in Nat
       /\ OffBase[f] + FirstOff[f] = HdrSize + IdSize[f]
  /\ Addrs \subseteq 0 .. AddrSpace - 1
  /\ Sizes \subseteq 0 .. AddrSpace - 1
  /\ Texts \subseteq Nat

VARIABLES
  family,  \* tpm->family, found by enable_tpm()
  phase,   \* "start" until event_log_init() has run, then "run" or "err"
  log      \* the log, as described above

vars == <<family, phase, log>>

PieceOf(what, at, size) == [what |-> what, at |-> at, size |-> size]
NoPiece == PieceOf("none", 0, 0)

\* The statics before event_log_init(): null pointers.
NullLog == [base |-> 0, ptr |-> 0, limit |-> 0, off |-> 0, mem |-> <<>>,
            wiped |-> NoPiece, ret |-> 0]

-----------------------------------------------------------------------------
\* Variant: log_write() returns the number of bytes it copied.
LogWriteCounting(l, what, size) ==
  IF size >= l.limit - l.ptr
  THEN [l EXCEPT !.ret = 1]
  ELSE [l EXCEPT !.mem = Append(@, PieceOf(what, l.ptr, size)),
                 !.ptr = @ + size,
                 !.ret = size]

(* log_write(): copies a piece, unless it would reach the limit. *)
LogWrite(l, what, size) ==
  IF size >= l.limit - l.ptr
  THEN [l EXCEPT !.ret = 1]
  ELSE [l EXCEPT !.mem = Append(@, PieceOf(what, l.ptr, size)),
                 !.ptr = @ + size,
                 !.ret = 0]

\* Variant: a record may fill the container to its last byte.
HasExactSpace(l, n) == l.limit < l.ptr \/ l.limit - l.ptr >= n

(* HAS_ENOUGH_SPACE(n). The comparison is made in size_t, in which a      *)
(* negative difference is larger than any n.                               *)
HasEnoughSpace(l, n) == l.limit < l.ptr \/ l.limit - l.ptr > n

\* Variant: room is made sure of for the fixed part only.
LogEventHeadRoom(l, f, text) ==
  IF HasEnoughSpace(l, EvSize[f])
  THEN LogWrite(LogWrite([l EXCEPT !.off = @ + EvSize[f] + text], "event", EvSize[f]),
                "text", text)
  ELSE [l EXCEPT !.ret = 1]

\* Variant: the offset is moved before the room is checked.
LogEventEarlyOffset(l, f, text) ==
  LET bumped == [l EXCEPT !.off = @ + EvSize[f] + text]
  IN  IF HasEnoughSpace(l, EvSize[f] + text)
      THEN LogWrite(LogWrite(bumped, "event", EvSize[f]), "text", text)
      ELSE [bumped EXCEPT !.ret = 1]

(* log_event_tpm12() and log_event_tpm20(), which differ in EvSize only.   *)
LogEvent(l, f, text) ==
  LET n == EvSize[f] + text
      bumped == [l EXCEPT !.off = @ + n]
  IN  IF HasEnoughSpace(l, n)
      THEN LogWrite(LogWrite(bumped, "event", EvSize[f]), "text", text)
      ELSE [l EXCEPT !.ret = 1]

-----------------------------------------------------------------------------
(* The container the EVENT_LOG tag describes: how many such tags there     *)
(* are, and the address and size fields of the first.                      *)
Containers == [tags : 0 .. 2, address : Addrs, size : Sizes]

MinSize(f) == HdrSize + IdSize[f] + 2 * EvSize[f]

\* limit as the u32 sum t->address + t->size.
LimitOf(c) == (c.address + c.size) % AddrSpace

\* The part of event_log_init() that takes "goto err" before any pointer is set.
NoUsableTag(c, f) == c.tags # 1 \/ c.size < MinSize(f)

\* Variant: the container's end is not compared with the SLB.
MisplacedStart(c) ==
  \/ c.address > LimitOf(c)
  \/ ~(c.address < SlbStart \/ SlbStart + SlbSize < c.address)

\* The checks made once the pointers are set: u32 overflow, and the SLB.
Misplaced(c) ==
  \/ c.address > LimitOf(c)
  \/ ~(LimitOf(c) < SlbStart \/ SlbStart + SlbSize < c.address)

\* Variant: limit keeps the value it had at the goto.
ErrLogOpen(c, f) ==
  LET at == IF NoUsableTag(c, f) THEN 0 ELSE c.address
      end == IF NoUsableTag(c, f) THEN 0 ELSE LimitOf(c)
  IN  [NullLog EXCEPT !.base = at, !.ptr = at, !.limit = end, !.ret = 1]

(* The log at label err: limit = ptr_current, return 1. *)
ErrLog(c, f) ==
  LET at == IF NoUsableTag(c, f) THEN 0 ELSE c.address
  IN  [NullLog EXCEPT !.base = at, !.ptr = at, !.limit = at, !.ret = 1]

(* Pointers set, memory cleared, and the two header pieces written. The    *)
(* offset field is part of the second piece.                               *)
OpenedLog(c, f) ==
  LET cleared == [NullLog EXCEPT !.base = c.address, !.ptr = c.address,
                                 !.limit = LimitOf(c),
                                 !.wiped = PieceOf("zeros", c.address, c.size)]
      headed == LogWrite(LogWrite(cleared, "header", HdrSize), "spec_id", IdSize[f])
  IN  IF headed.ret = 0 THEN [headed EXCEPT !.off = FirstOff[f]] ELSE headed

\* The digests SKINIT must be logged with, per family.
Needed(f) == IF f = TPM12 THEN {"SHA1"} ELSE Algos

(* event_log_init() on container c, with SKL_HASH tags for algorithms h.   *)
EventLogInit(c, f, h) ==
  IF NoUsableTag(c, f) \/ Misplaced(c)
  THEN ErrLog(c, f)
  ELSE LET opened == OpenedLog(c, f)
       IN  IF Needed(f) \subseteq h
           THEN LogEvent(opened, f, SkinitText)
           ELSE [opened EXCEPT !.ret = 1]

-----------------------------------------------------------------------------
Init ==
  /\ family \in Family
  /\ phase = "start"
  /\ log = NullLog

InitLog(c, h) ==
  /\ phase = "start"
  /\ phase' = IF NoUsableTag(c, family) \/ Misplaced(c) THEN "err" ELSE "run"
  /\ log' = EventLogInit(c, family, h)
  /\ UNCHANGED family

\* extend_pcr() logs a measurement whatever event_log_init() returned.
AddEvent(text) ==
  /\ phase # "start"
  /\ log' = LogEvent(log, family, text)
  /\ UNCHANGED <<family, phase>>

Next ==
  \/ \E c \in Containers, h \in SUBSET Algos : InitLog(c, h)
  \/ \E text \in Texts : AddEvent(text)

Spec == Init /\ [][Next]_vars

-----------------------------------------------------------------------------
(* What a reader of the log relies on. *)

\* The bytes [at, at + size) of a piece lie in [lo, hi).
Within(p, lo, hi) == lo <= p.at /\ p.at + p.size <= hi

Piece == [what : {"header", "spec_id", "event", "text"}, at : Nat, size : Nat]

(* The log's fields have the types their C counterparts have. *)
TypeOK ==
  /\ family \in Family
  /\ phase \in {"start", "run", "err"}
  /\ log \in [base : Nat, ptr : Nat, limit : Nat, off : Nat, mem : Seq(Piece),
              wiped : [what : {"none", "zeros"}, at : Nat, size : Nat],
              ret : {0, 1}]

(* Neither clearing the container nor writing to it touches a byte outside *)
(* [base, limit) or a byte of the SLB, whose code is already measured      *)
(* (event_log.c:240-246).                                                  *)
Contained(p) ==
  /\ Within(p, log.base, log.limit)
  /\ p.at + p.size <= SlbStart \/ SlbStart + SlbSize <= p.at

WritesContained ==
  /\ log.wiped.what = "zeros" => Contained(log.wiped)
  /\ \A i \in DOMAIN log.mem : Contained(log.mem[i])

(* The offset kept in the log's header always points at the first free     *)
(* byte, in either format's way of counting: a reader that follows it      *)
(* neither misses a record nor reads past the last one.                    *)
HeaderTracksEnd ==
  phase = "run" => log.base + OffBase[family] + log.off = log.ptr

(* Records are never torn: pieces are adjacent, they start at base, end at *)
(* ptr, and come in pairs of a fixed part and its variable part.           *)
KindOf(i) ==
  IF i <= 2 THEN IF i = 1 THEN "header" ELSE "spec_id"
            ELSE IF i % 2 = 1 THEN "event" ELSE "text"

EndOf(p) == p.at + p.size

WholeRecords ==
  phase = "run" =>
    /\ Len(log.mem) % 2 = 0 /\ Len(log.mem) >= 2
    /\ log.mem[1].at = log.base
    /\ EndOf(log.mem[Len(log.mem)]) = log.ptr
    /\ \A i \in 1 .. Len(log.mem) - 1 : EndOf(log.mem[i]) = log.mem[i + 1].at
    /\ \A i \in 1 .. Len(log.mem) : log.mem[i].what = KindOf(i)

(* After event_log_init() took the err path nothing is ever written, and   *)
(* the offset field, which is then somewhere in foreign memory, is never   *)
(* updated ("Make sure that further calls to log_write() will fail").      *)
FailedLogStaysShut ==
  phase = "err" => log.mem = <<>> /\ log.off = 0 /\ log.wiped = NoPiece

(* A call that reports failure left the log as it was; one that reports    *)
(* success added exactly one record, at the old end.                       *)
AllOrNothing ==
  [][ phase # "start" =>
        IF log'.ret = 1
        THEN log' = [log EXCEPT !.ret = 1]
        ELSE /\ Len(log'.mem) = Len(log.mem) + 2
             /\ SubSeq(log'.mem, 1, Len(log.mem)) = log.mem
             /\ log'.mem[Len(log.mem) + 1].at = log.ptr ]_vars

=============================================================================
