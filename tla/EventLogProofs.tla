--------------------------- MODULE EventLogProofs ---------------------------
(* Proofs that the event log of event_log.c keeps its properties for every *)
(* container a bootloader can pass, every structure layout and every       *)
(* sequence of measurements.                                               *)
EXTENDS EventLog, TLAPS

LogType == [base : Nat, ptr : Nat, limit : Nat, off : Nat, mem : Seq(Piece),
            wiped : [what : {"none", "zeros"}, at : Nat, size : Nat],
            ret : {0, 1}]

(* An open log: the write pointer is in a container that avoids the SLB,   *)
(* memory is written up to it, in whole records, and the offset agrees.    *)
Placed(l) ==
  /\ l.base <= l.ptr /\ l.ptr < l.limit
  /\ l.limit < SlbStart \/ SlbStart + SlbSize < l.base
  /\ l.wiped = PieceOf("zeros", l.base, l.limit - l.base)

Adjacent(l) ==
  /\ Len(l.mem) % 2 = 0 /\ Len(l.mem) >= 2
  /\ l.mem[1].at = l.base
  /\ EndOf(l.mem[Len(l.mem)]) = l.ptr
  /\ \A i \in 1 .. Len(l.mem) - 1 : EndOf(l.mem[i]) = l.mem[i + 1].at

Kinds(l) == \A i \in 1 .. Len(l.mem) : l.mem[i].what = KindOf(i)

Below(l) ==
  \A i \in 1 .. Len(l.mem) :
    l.base <= l.mem[i].at /\ EndOf(l.mem[i]) <= l.ptr

Open(l, f) ==
  /\ Placed(l) /\ Adjacent(l) /\ Kinds(l) /\ Below(l)
  /\ l.base + OffBase[f] + l.off = l.ptr

(* A log event_log_init() gave up on: no room, nothing written. *)
Shut(l) ==
  /\ l.ptr = l.limit /\ l.mem = <<>> /\ l.off = 0 /\ l.wiped = NoPiece

IInv ==
  /\ family \in Family
  /\ phase \in {"start", "run", "err"}
  /\ log \in LogType
  /\ phase = "start" => log = NullLog
  /\ phase = "run" => Open(log, family)
  /\ phase = "err" => Shut(log)

-----------------------------------------------------------------------------
(* A u32 sum of an address and a size: it wraps around at most once. *)
LEMMA WrapOnce ==
  ASSUME NEW A \in Nat, NEW a \in 0 .. A - 1, NEW s \in 0 .. A - 1
  PROVE  (a + s) % A = IF a + s < A THEN a + s ELSE a + s - A
  OBVIOUS

(* A piece has the fields it is made of. *)
LEMMA PieceFields ==
  ASSUME NEW what, NEW at, NEW size
  PROVE  /\ PieceOf(what, at, size).what = what
         /\ PieceOf(what, at, size).at = at
         /\ PieceOf(what, at, size).size = size
  BY DEF PieceOf

(* A piece made of a kind, an address and a size is one. *)
LEMMA PieceTyped ==
  ASSUME NEW what \in {"header", "spec_id", "event", "text"},
         NEW at \in Nat, NEW size \in Nat
  PROVE  PieceOf(what, at, size) \in Piece
  BY DEF PieceOf, Piece

(* What event_log_init() clears is a piece, too. *)
LEMMA WipedTyped ==
  ASSUME NEW what \in {"none", "zeros"}, NEW at \in Nat, NEW size \in Nat
  PROVE  PieceOf(what, at, size) \in [what : {"none", "zeros"}, at : Nat, size : Nat]
  BY DEF PieceOf

(* Two pieces at the end of a sequence leave what was before them. *)
LEMMA AppendTwo ==
  ASSUME NEW S, NEW m \in Seq(S), NEW e \in S, NEW t \in S
  PROVE  LET z == Append(Append(m, e), t)
         IN  /\ z \in Seq(S) /\ Len(m) \in Nat /\ Len(z) = Len(m) + 2
             /\ z[Len(m) + 1] = e /\ z[Len(m) + 2] = t
             /\ \A i \in 1 .. Len(m) : z[i] = m[i] /\ m[i] \in S
  OBVIOUS

(* The length and the elements of a pair. *)
LEMMA Pair ==
  ASSUME NEW a, NEW b
  PROVE  Len(<<a, b>>) = 2 /\ <<a, b>>[1] = a /\ <<a, b>>[2] = b
  OBVIOUS

(* A log as the list of its fields. *)
Fields(base, ptr, limit, off, mem, wiped, ret) ==
  [base |-> base, ptr |-> ptr, limit |-> limit, off |-> off, mem |-> mem,
   wiped |-> wiped, ret |-> ret]

(* A log is the record of its fields ... *)
LEMMA FieldsOfLog ==
  ASSUME NEW l \in LogType
  PROVE  l = Fields(l.base, l.ptr, l.limit, l.off, l.mem, l.wiped, l.ret)
  BY DEF LogType, Fields

(* ... and a record of such fields is a log. *)
LEMMA FieldsTyped ==
  ASSUME NEW base \in Nat, NEW ptr \in Nat, NEW lim \in Nat, NEW off \in Nat,
         NEW mem \in Seq(Piece), NEW ret \in {0, 1},
         NEW wiped \in [what : {"none", "zeros"}, at : Nat, size : Nat]
  PROVE  Fields(base, ptr, lim, off, mem, wiped, ret) \in LogType
  BY DEF LogType, Fields

(* log_write() with room to spare: the piece is copied to ptr. *)
LEMMA LogWriteFits ==
  ASSUME NEW l \in LogType, NEW what, NEW size \in Nat, size < l.limit - l.ptr
  PROVE  LogWrite(l, what, size) =
           Fields(l.base, l.ptr + size, l.limit, l.off,
                  Append(l.mem, PieceOf(what, l.ptr, size)),
                  l.wiped, 0)
<1> DEFINE more == Append(l.mem, PieceOf(what, l.ptr, size))
           copied == [l EXCEPT !.mem = more]
           moved == [copied EXCEPT !.ptr = copied.ptr + size]
           done == [moved EXCEPT !.ret = 0]
<1>1. ~(size >= l.limit - l.ptr)
  BY DEF LogType
<1>2. LogWrite(l, what, size) = done
  BY <1>1 DEF LogWrite
<1> HIDE DEF more, copied, moved, done
<1>3. l = Fields(l.base, l.ptr, l.limit, l.off, l.mem, l.wiped, l.ret)
  BY FieldsOfLog
<1>4. copied = Fields(l.base, l.ptr, l.limit, l.off, more, l.wiped, l.ret)
  BY <1>3 DEF copied, Fields
<1>5. copied.ptr = l.ptr
  BY <1>4 DEF Fields
<1>6. moved = Fields(l.base, l.ptr + size, l.limit, l.off, more, l.wiped, l.ret)
  BY <1>4, <1>5 DEF moved, Fields
<1>7. done = Fields(l.base, l.ptr + size, l.limit, l.off, more, l.wiped, 0)
  BY <1>6 DEF done, Fields
<1> QED
  BY <1>2, <1>7 DEF more

(* What log_event_tpm12() and log_event_tpm20() do to a log whose pointer  *)
(* is not past its limit: a whole record is added, or nothing is.          *)
EventPiece(l, f) == PieceOf("event", l.ptr, EvSize[f])
TextPiece(l, f, text) == PieceOf("text", l.ptr + EvSize[f], text)

(* log_event_tpm12() and log_event_tpm20() with room to spare: header and *)
(* text are appended, and the header's offset follows. *)
LEMMA LogEventFits ==
  ASSUME NEW l \in LogType, NEW f \in Family, NEW text \in Nat,
         l.limit - l.ptr > EvSize[f] + text
  PROVE  LogEvent(l, f, text) =
           Fields(l.base, l.ptr + EvSize[f] + text, l.limit,
                  l.off + (EvSize[f] + text),
                  Append(Append(l.mem, EventPiece(l, f)), TextPiece(l, f, text)),
                  l.wiped, 0)
<1> DEFINE n == EvSize[f] + text
           bumped == [l EXCEPT !.off = l.off + n]
           half == LogWrite(bumped, "event", EvSize[f])
           whole == LogWrite(half, "text", text)
           one == Append(l.mem, EventPiece(l, f))
           two == Append(one, TextPiece(l, f, text))
<1>1. EvSize[f] \in Nat
  BY LayoutAssumption
<1>2. /\ l.base \in Nat /\ l.ptr \in Nat /\ l.limit \in Nat /\ l.off \in Nat
      /\ l.mem \in Seq(Piece)
      /\ l.wiped \in [what : {"none", "zeros"}, at : Nat, size : Nat]
      /\ l.ret \in {0, 1}
  BY DEF LogType
<1>3. HasEnoughSpace(l, n)
  BY DEF HasEnoughSpace
<1>4. LogEvent(l, f, text) = whole
  BY <1>3 DEF LogEvent
<1> HIDE DEF one, two, bumped, half, whole
<1>5. one \in Seq(Piece)
  <2>1. EventPiece(l, f) \in Piece
    BY <1>1, <1>2, PieceTyped DEF EventPiece
  <2> QED
    BY <1>2, <2>1 DEF one
<1>6. bumped = Fields(l.base, l.ptr, l.limit, l.off + n, l.mem, l.wiped, l.ret)
  BY FieldsOfLog DEF bumped, Fields
<1>7. bumped \in LogType
  BY <1>1, <1>2, <1>6 DEF LogType, Fields
<1>8. /\ bumped.base = l.base /\ bumped.ptr = l.ptr /\ bumped.limit = l.limit
      /\ bumped.off = l.off + n /\ bumped.mem = l.mem /\ bumped.wiped = l.wiped
  BY <1>6 DEF Fields
<1>9. half = Fields(l.base, l.ptr + EvSize[f], l.limit, l.off + n, one, l.wiped, 0)
  BY <1>1, <1>2, <1>7, <1>8, LogWriteFits DEF half, one, EventPiece
<1>10. half \in LogType
  BY <1>1, <1>2, <1>5, <1>9 DEF LogType, Fields
<1>11. /\ half.base = l.base /\ half.ptr = l.ptr + EvSize[f] /\ half.limit = l.limit
       /\ half.off = l.off + n /\ half.mem = one /\ half.wiped = l.wiped
  BY <1>9 DEF Fields
<1>12. whole = Fields(l.base, l.ptr + EvSize[f] + text, l.limit, l.off + n, two, l.wiped, 0)
  BY <1>1, <1>2, <1>10, <1>11, LogWriteFits, SMTT(30) DEF whole, two, TextPiece
<1> QED
  BY <1>4, <1>12 DEF one, two

(* Without room for both pieces they fail before anything is written. *)
LEMMA LogEventFull ==
  ASSUME NEW l \in LogType, NEW f \in Family, NEW text \in Nat,
         l.ptr <= l.limit, ~(l.limit - l.ptr > EvSize[f] + text)
  PROVE  LogEvent(l, f, text) = [l EXCEPT !.ret = 1]
<1>1. EvSize[f] \in Nat /\ l.ptr \in Nat /\ l.limit \in Nat
  BY LayoutAssumption DEF LogType
<1>2. ~HasEnoughSpace(l, EvSize[f] + text)
  BY <1>1 DEF HasEnoughSpace
<1> QED
  BY <1>2 DEF LogEvent

-----------------------------------------------------------------------------
(* A container that passes event_log_init()'s checks: its end did not wrap *)
(* around, it avoids the SLB and it has room for the headers and an event. *)
LEMMA UsableContainer ==
  ASSUME NEW c \in Containers, NEW f \in Family, ~NoUsableTag(c, f), ~Misplaced(c)
  PROVE  /\ c.address \in Nat /\ c.size \in Nat
         /\ LimitOf(c) = c.address + c.size
         /\ LimitOf(c) < SlbStart \/ SlbStart + SlbSize < c.address
         /\ HdrSize + IdSize[f] + EvSize[f] + SkinitText < c.size
<1>1. /\ AddrSpace \in Nat /\ SlbStart \in Nat /\ SlbSize \in Nat /\ HdrSize \in Nat
      /\ IdSize[f] \in Nat /\ EvSize[f] \in Nat /\ EvSize[f] > SkinitText
  BY LayoutAssumption
<1>2. c.address \in 0 .. AddrSpace - 1 /\ c.size \in 0 .. AddrSpace - 1
  BY LayoutAssumption DEF Containers
<1>3. c.address <= LimitOf(c)
  BY <1>1, <1>2 DEF Misplaced, LimitOf
<1>4. HdrSize + IdSize[f] + 2 * EvSize[f] <= c.size
  BY <1>1, <1>2 DEF NoUsableTag, MinSize
<1>5. LimitOf(c) = c.address + c.size
  <2>1. LimitOf(c) = IF c.address + c.size < AddrSpace
                     THEN c.address + c.size ELSE c.address + c.size - AddrSpace
    BY <1>1, <1>2, WrapOnce DEF LimitOf
  <2> QED
    BY <1>1, <1>2, <1>3, <2>1
<1> QED
  BY <1>1, <1>2, <1>4, <1>5 DEF Misplaced, SkinitText

(* What event_log_init() builds in such a container before it logs SKINIT. *)
HeaderPiece(c) == PieceOf("header", c.address, HdrSize)
SpecIdPiece(c, f) == PieceOf("spec_id", c.address + HdrSize, IdSize[f])
Cleared(c) == PieceOf("zeros", c.address, c.size)

(* What event_log_init() leaves in memory and in the pointers. *)
LEMMA OpenedLogFields ==
  ASSUME NEW c \in Containers, NEW f \in Family, ~NoUsableTag(c, f), ~Misplaced(c)
  PROVE  OpenedLog(c, f) =
           Fields(c.address, c.address + HdrSize + IdSize[f], c.address + c.size,
                  FirstOff[f], <<HeaderPiece(c), SpecIdPiece(c, f)>>, Cleared(c), 0)
<1> DEFINE a == c.address
           l1 == [NullLog EXCEPT !.base = a]
           l2 == [l1 EXCEPT !.ptr = a]
           l3 == [l2 EXCEPT !.limit = LimitOf(c)]
           l4 == [l3 EXCEPT !.wiped = Cleared(c)]
           l5 == LogWrite(l4, "header", HdrSize)
           l6 == LogWrite(l5, "spec_id", IdSize[f])
           l7 == [l6 EXCEPT !.off = FirstOff[f]]
           one == <<HeaderPiece(c)>>
           two == <<HeaderPiece(c), SpecIdPiece(c, f)>>
<1>1. /\ HdrSize \in Nat /\ IdSize[f] \in Nat /\ EvSize[f] \in Nat
      /\ FirstOff[f] \in Nat
  BY LayoutAssumption
<1>2. /\ a \in Nat /\ c.size \in Nat /\ LimitOf(c) = a + c.size
      /\ HdrSize + IdSize[f] < c.size
  BY <1>1, UsableContainer DEF SkinitText
<1>3. OpenedLog(c, f) = IF l6.ret = 0 THEN l7 ELSE l6
  BY DEF OpenedLog, Cleared
<1> HIDE DEF a, l1, l2, l3, l4, l5, l6, l7, one, two
<1>4. l1 = Fields(a, 0, 0, 0, <<>>, NoPiece, 0)
  BY DEF l1, NullLog, Fields
<1>5. l2 = Fields(a, a, 0, 0, <<>>, NoPiece, 0)
  BY <1>4 DEF l2, Fields
<1>6. l3 = Fields(a, a, a + c.size, 0, <<>>, NoPiece, 0)
  BY <1>2, <1>5 DEF l3, Fields
<1>7. l4 = Fields(a, a, a + c.size, 0, <<>>, Cleared(c), 0)
  BY <1>6 DEF l4, Fields
<1>8. Cleared(c) \in [what : {"none", "zeros"}, at : Nat, size : Nat]
  BY <1>2, WipedTyped DEF Cleared, a
<1>9. l4 \in LogType
  BY <1>2, <1>7, <1>8 DEF LogType, Fields
<1>10. one = Append(<<>>, HeaderPiece(c)) /\ one \in Seq(Piece)
  <2>1. HeaderPiece(c) \in Piece
    BY <1>1, <1>2, PieceTyped DEF a, HeaderPiece
  <2> QED
    BY <2>1 DEF one
<1>11. l5 = Fields(a, a + HdrSize, a + c.size, 0, one, Cleared(c), 0)
  <2>1. /\ l4.base = a /\ l4.ptr = a /\ l4.limit = a + c.size /\ l4.off = 0
        /\ l4.mem = <<>> /\ l4.wiped = Cleared(c)
    BY <1>7 DEF Fields
  <2>2. HdrSize < l4.limit - l4.ptr
    BY <1>1, <1>2, <2>1
  <2>3. LogWrite(l4, "header", HdrSize) =
          Fields(l4.base, l4.ptr + HdrSize, l4.limit, l4.off,
                 Append(l4.mem, PieceOf("header", l4.ptr, HdrSize)),
                 l4.wiped, 0)
    BY <1>1, <1>9, <2>2, LogWriteFits
  <2> QED
    BY <1>10, <2>1, <2>3, Zenon DEF l5, HeaderPiece, a
<1>12. l5 \in LogType
  BY <1>1, <1>2, <1>8, <1>10, <1>11 DEF LogType, Fields
<1>13. two = Append(one, SpecIdPiece(c, f))
  BY DEF one, two
<1>14. l6 = Fields(a, a + HdrSize + IdSize[f], a + c.size, 0, two, Cleared(c), 0)
  <2>1. /\ l5.base = a /\ l5.ptr = a + HdrSize /\ l5.limit = a + c.size
        /\ l5.off = 0 /\ l5.mem = one /\ l5.wiped = Cleared(c)
    BY <1>11 DEF Fields
  <2>2. IdSize[f] < l5.limit - l5.ptr
    BY <1>1, <1>2, <2>1
  <2>3. LogWrite(l5, "spec_id", IdSize[f]) =
          Fields(l5.base, l5.ptr + IdSize[f], l5.limit, l5.off,
                 Append(l5.mem, PieceOf("spec_id", l5.ptr, IdSize[f])),
                 l5.wiped, 0)
    BY <1>1, <1>12, <2>2, LogWriteFits
  <2> QED
    BY <1>13, <2>1, <2>3, Zenon DEF l6, SpecIdPiece, a
<1>15. l6.ret = 0
  BY <1>14 DEF Fields
<1>16. l7 = Fields(a, a + HdrSize + IdSize[f], a + c.size, FirstOff[f], two, Cleared(c), 0)
  BY <1>14 DEF l7, Fields
<1> QED
  BY <1>3, <1>15, <1>16 DEF a, two

(* A freshly opened log is open, and has room for the SKINIT record. *)
LEMMA OpenedLogOpen ==
  ASSUME NEW c \in Containers, NEW f \in Family, ~NoUsableTag(c, f), ~Misplaced(c)
  PROVE  LET l == OpenedLog(c, f)
         IN  /\ l \in LogType /\ Open(l, f)
             /\ l.limit - l.ptr > EvSize[f] + SkinitText
<1> DEFINE l == OpenedLog(c, f)
           h == HeaderPiece(c)
           s == SpecIdPiece(c, f)
<1>1. /\ HdrSize \in Nat /\ IdSize[f] \in Nat /\ EvSize[f] \in Nat
      /\ FirstOff[f] \in Nat /\ OffBase[f] \in Nat
      /\ OffBase[f] + FirstOff[f] = HdrSize + IdSize[f]
      /\ SlbStart \in Nat /\ SlbSize \in Nat
  BY LayoutAssumption
<1>2. /\ c.address \in Nat /\ c.size \in Nat
      /\ c.address + c.size < SlbStart \/ SlbStart + SlbSize < c.address
      /\ HdrSize + IdSize[f] + EvSize[f] + SkinitText < c.size
  BY UsableContainer
<1>3. l = Fields(c.address, c.address + HdrSize + IdSize[f], c.address + c.size,
                 FirstOff[f], <<h, s>>, Cleared(c), 0)
  BY OpenedLogFields
<1>4. h \in Piece /\ s \in Piece
  <2>1. c.address + HdrSize \in Nat
    BY <1>1, <1>2
  <2>2. h \in Piece
    BY <1>1, <1>2, PieceTyped DEF HeaderPiece
  <2>3. s \in Piece
    BY <1>1, <2>1, PieceTyped DEF SpecIdPiece
  <2> QED
    BY <2>2, <2>3
<1>5. h.what = "header" /\ s.what = "spec_id"
  BY DEF HeaderPiece, SpecIdPiece, PieceOf
<1>6. /\ h.at = c.address /\ h.size = HdrSize
      /\ s.at = c.address + HdrSize /\ s.size = IdSize[f]
  BY DEF HeaderPiece, SpecIdPiece, PieceOf
<1> HIDE DEF l, h, s
<1>7. /\ l.base = c.address /\ l.ptr = c.address + HdrSize + IdSize[f]
      /\ l.limit = c.address + c.size /\ l.off = FirstOff[f]
  BY <1>3 DEF Fields
<1>8. l.mem = <<h, s>>
  BY <1>3 DEF Fields
<1>9. l.wiped = Cleared(c)
  BY <1>3 DEF Fields
<1>10. Len(l.mem) = 2 /\ l.mem[1] = h /\ l.mem[2] = s
  BY <1>8
<1>11. l \in LogType
  <2>1. <<h, s>> \in Seq(Piece)
    BY <1>4
  <2>2. Cleared(c) \in [what : {"none", "zeros"}, at : Nat, size : Nat]
    BY <1>2, WipedTyped DEF Cleared
  <2> QED
    BY <1>1, <1>2, <1>3, <2>1, <2>2 DEF LogType, Fields
<1>12. Placed(l)
  <2>1. l.limit - l.base = c.size
    BY <1>2, <1>7
  <2>2. l.wiped = PieceOf("zeros", l.base, l.limit - l.base)
    BY <1>7, <1>9, <2>1, Zenon DEF Cleared
  <2>3. l.base <= l.ptr /\ l.ptr < l.limit
    BY <1>1, <1>2, <1>7 DEF SkinitText
  <2> QED
    BY <1>2, <1>7, <2>2, <2>3 DEF Placed
<1>13. Adjacent(l)
  <2>1. EndOf(h) = s.at /\ EndOf(s) = l.ptr
    BY <1>1, <1>2, <1>6, <1>7 DEF EndOf
  <2>2. \A i \in 1 .. 1 : EndOf(l.mem[i]) = l.mem[i + 1].at
    BY <1>10, <2>1
  <2> QED
    BY <1>6, <1>7, <1>10, <2>1, <2>2 DEF Adjacent
<1>14. Kinds(l)
  <2>1. KindOf(1) = "header" /\ KindOf(2) = "spec_id"
    BY DEF KindOf
  <2>2. l.mem[1].what = KindOf(1) /\ l.mem[2].what = KindOf(2)
    BY <1>5, <1>10, <2>1
  <2> QED
    BY <1>10, <2>2 DEF Kinds
<1>15. Below(l)
  <2>1. /\ l.base <= h.at /\ EndOf(h) <= l.ptr
        /\ l.base <= s.at /\ EndOf(s) <= l.ptr
    BY <1>1, <1>2, <1>6, <1>7 DEF EndOf
  <2> QED
    BY <1>10, <2>1 DEF Below
<1>16. l.base + OffBase[f] + l.off = l.ptr
  BY <1>1, <1>2, <1>7
<1>17. l.limit - l.ptr > EvSize[f] + SkinitText
  BY <1>1, <1>2, <1>7 DEF SkinitText
<1> QED
  BY <1>11, <1>12, <1>13, <1>14, <1>15, <1>16, <1>17 DEF Open, l

(* A record that fits leaves an open log open. *)
LEMMA LogEventOpen ==
  ASSUME NEW l \in LogType, NEW f \in Family, NEW text \in Nat, Open(l, f),
         l.limit - l.ptr > EvSize[f] + text
  PROVE  LogEvent(l, f, text) \in LogType /\ Open(LogEvent(l, f, text), f)
<1> DEFINE new == LogEvent(l, f, text)
           e == EventPiece(l, f)
           t == TextPiece(l, f, text)
           n == Len(l.mem)
           end == l.ptr + EvSize[f] + text
<1>1. EvSize[f] \in Nat /\ OffBase[f] \in Nat
  BY LayoutAssumption
<1>2. l.base \in Nat /\ l.ptr \in Nat /\ l.limit \in Nat /\ l.off \in Nat
  BY DEF LogType
<1>3. /\ l.mem \in Seq(Piece)
      /\ l.wiped \in [what : {"none", "zeros"}, at : Nat, size : Nat]
  BY DEF LogType
<1>4. new = Fields(l.base, end, l.limit, l.off + (EvSize[f] + text),
                   Append(Append(l.mem, e), t), l.wiped, 0)
  BY LogEventFits
<1>5. e \in Piece /\ t \in Piece
  <2>1. l.ptr + EvSize[f] \in Nat
    BY <1>1, <1>2
  <2>2. e \in Piece
    BY <1>1, <1>2, PieceTyped DEF EventPiece
  <2>3. t \in Piece
    BY <2>1, PieceTyped DEF TextPiece
  <2> QED
    BY <2>2, <2>3
<1>6. e.what = "event" /\ t.what = "text"
  BY DEF EventPiece, TextPiece, PieceOf
<1>7. /\ e.at = l.ptr /\ e.size = EvSize[f]
      /\ t.at = l.ptr + EvSize[f] /\ t.size = text
  BY DEF EventPiece, TextPiece, PieceOf
<1>8. n % 2 = 0 /\ n >= 2
  BY DEF Open, Adjacent
<1>9. l.base <= l.ptr
  BY DEF Open, Placed
<1> HIDE DEF new, e, t
<1>10. /\ new.base = l.base /\ new.ptr = end
       /\ new.limit = l.limit /\ new.off = l.off + (EvSize[f] + text)
  BY <1>4 DEF Fields
<1>11. new.mem = Append(Append(l.mem, e), t)
  BY <1>4 DEF Fields
<1>12. new.wiped = l.wiped
  BY <1>4 DEF Fields
<1>13. /\ Append(Append(l.mem, e), t) \in Seq(Piece)
       /\ n \in Nat /\ Len(new.mem) = n + 2
       /\ new.mem[n + 1] = e /\ new.mem[n + 2] = t
       /\ \A i \in 1 .. n : new.mem[i] = l.mem[i] /\ l.mem[i] \in Piece
  BY <1>3, <1>5, <1>11, AppendTwo
<1>14. end \in Nat /\ l.ptr <= end /\ end < l.limit
  BY <1>1, <1>2
<1> HIDE DEF n, end
<1>15. new \in LogType
  <2>1. l.off + (EvSize[f] + text) \in Nat
    BY <1>1, <1>2
  <2>2. Append(Append(l.mem, e), t) \in Seq(Piece)
    BY <1>13
  <2> QED
    BY <1>2, <1>3, <1>4, <1>14, <2>1, <2>2 DEF LogType, Fields
<1>16. Placed(new)
  <2>1. new.base <= new.ptr /\ new.ptr < new.limit
    BY <1>2, <1>9, <1>10, <1>14
  <2>2. /\ new.limit < SlbStart \/ SlbStart + SlbSize < new.base
        /\ new.wiped = PieceOf("zeros", new.base, new.limit - new.base)
    BY <1>10, <1>12, Zenon DEF Open, Placed
  <2> QED
    BY <2>1, <2>2 DEF Placed
<1>17. Adjacent(new)
  <2>1. (n + 2) % 2 = 0 /\ n + 2 >= 2
    BY <1>8, <1>13
  <2>2. new.mem[1].at = new.base
    <3>1. l.mem[1].at = l.base
      BY DEF Open, Adjacent
    <3>2. new.mem[1] = l.mem[1]
      BY <1>8, <1>13
    <3> QED
      BY <1>10, <3>1, <3>2
  <2>3. EndOf(t) = end
    BY <1>1, <1>2, <1>7 DEF EndOf, end
  <2>4. EndOf(new.mem[n + 2]) = new.ptr
    BY <1>10, <1>13, <2>3
  <2>5. ASSUME NEW i \in 1 .. n + 1
        PROVE  EndOf(new.mem[i]) = new.mem[i + 1].at
    <3>1. CASE i < n
      <4>1. EndOf(l.mem[i]) = l.mem[i + 1].at
        BY <1>13, <3>1 DEF Open, Adjacent, n
      <4>2. new.mem[i] = l.mem[i] /\ new.mem[i + 1] = l.mem[i + 1]
        BY <1>13, <3>1
      <4> QED
        BY <4>1, <4>2
    <3>2. CASE i = n
      <4>1. EndOf(l.mem[n]) = l.ptr
        BY DEF Open, Adjacent, n
      <4>2. n \in 1 .. n
        BY <1>8, <1>13
      <4>3. new.mem[n] = l.mem[n]
        BY <1>13, <4>2
      <4> QED
        BY <1>7, <1>13, <3>2, <4>1, <4>3
    <3>3. CASE i = n + 1
      <4>1. EndOf(e) = t.at
        BY <1>7 DEF EndOf
      <4>2. new.mem[i] = e /\ new.mem[i + 1] = t
        BY <1>13, <3>3
      <4> QED
        BY <4>1, <4>2
    <3> QED
      BY <1>13, <3>1, <3>2, <3>3
  <2> QED
    BY <1>13, <2>1, <2>2, <2>4, <2>5 DEF Adjacent
<1>18. Kinds(new)
  <2> SUFFICES ASSUME NEW i \in 1 .. n + 2
               PROVE  new.mem[i].what = KindOf(i)
    BY <1>13 DEF Kinds
  <2>1. CASE i \in 1 .. n
    BY <1>13, <2>1 DEF Open, Kinds, n
  <2>2. CASE i = n + 1
    <3>1. KindOf(n + 1) = "event"
      BY <1>8, <1>13 DEF KindOf
    <3>2. new.mem[n + 1].what = "event"
      BY <1>6, <1>13
    <3> QED
      BY <2>2, <3>1, <3>2
  <2>3. CASE i = n + 2
    <3>1. KindOf(n + 2) = "text"
      BY <1>8, <1>13 DEF KindOf
    <3>2. new.mem[n + 2].what = "text"
      BY <1>6, <1>13
    <3> QED
      BY <2>3, <3>1, <3>2
  <2> QED
    BY <1>13, <2>1, <2>2, <2>3
<1>19. Below(new)
  <2> SUFFICES ASSUME NEW i \in 1 .. n + 2
               PROVE  l.base <= new.mem[i].at /\ EndOf(new.mem[i]) <= end
    BY <1>10, <1>13 DEF Below
  <2>1. CASE i \in 1 .. n
    <3>1. l.base <= l.mem[i].at /\ EndOf(l.mem[i]) <= l.ptr
      BY <2>1 DEF Open, Below, n
    <3>2. l.mem[i].at \in Nat /\ l.mem[i].size \in Nat
      BY <1>13, <2>1 DEF Piece
    <3>3. EndOf(l.mem[i]) <= end
      BY <1>2, <1>14, <3>1, <3>2 DEF EndOf
    <3> QED
      BY <1>13, <2>1, <3>1, <3>3
  <2>2. CASE i = n + 1
    <3>1. l.base <= e.at /\ EndOf(e) <= end
      BY <1>1, <1>2, <1>7, <1>9 DEF EndOf, end
    <3> QED
      BY <1>13, <2>2, <3>1
  <2>3. CASE i = n + 2
    <3>1. l.base <= t.at /\ EndOf(t) <= end
      BY <1>1, <1>2, <1>7, <1>9 DEF EndOf, end
    <3> QED
      BY <1>13, <2>3, <3>1
  <2> QED
    BY <1>13, <2>1, <2>2, <2>3
<1>20. new.base + OffBase[f] + new.off = new.ptr
  <2>1. l.base + OffBase[f] + l.off = l.ptr
    BY DEF Open
  <2> QED
    BY <1>1, <1>2, <1>10, <2>1 DEF end
<1> QED
  BY <1>15, <1>16, <1>17, <1>18, <1>19, <1>20 DEF Open, new

(* A failing call changes the return value only. *)
LEMMA OnlyRet ==
  ASSUME NEW l \in LogType
  PROVE  LET m == [l EXCEPT !.ret = 1]
         IN  /\ m \in LogType
             /\ m = Fields(l.base, l.ptr, l.limit, l.off, l.mem, l.wiped, 1)
<1> DEFINE m == [l EXCEPT !.ret = 1]
<1>1. m = Fields(l.base, l.ptr, l.limit, l.off, l.mem, l.wiped, 1)
  BY FieldsOfLog DEF Fields
<1> HIDE DEF m
<1>2. m \in LogType
  BY <1>1 DEF LogType, Fields
<1> QED
  BY <1>1, <1>2 DEF m

(* IInv does not depend on the last call's result. *)
LEMMA OnlyRetKeeps ==
  ASSUME NEW l \in LogType, NEW f \in Family
  PROVE  LET m == [l EXCEPT !.ret = 1]
         IN  (Open(l, f) => Open(m, f)) /\ (Shut(l) => Shut(m))
<1> DEFINE m == [l EXCEPT !.ret = 1]
<1>1. m = Fields(l.base, l.ptr, l.limit, l.off, l.mem, l.wiped, 1)
  BY OnlyRet
<1> HIDE DEF m
<1>2. /\ m.base = l.base /\ m.ptr = l.ptr /\ m.limit = l.limit /\ m.off = l.off
      /\ m.mem = l.mem /\ m.wiped = l.wiped
  BY <1>1 DEF Fields
<1>3. Open(l, f) => Open(m, f)
  BY <1>2, Zenon DEF Open, Placed, Adjacent, Kinds, Below
<1>4. Shut(l) => Shut(m)
  BY <1>2, Zenon DEF Shut
<1> QED
  BY <1>3, <1>4 DEF m

(* The log event_log_init() leaves at label err. *)
LEMMA ErrLogShut ==
  ASSUME NEW c \in Containers, NEW f \in Family
  PROVE  ErrLog(c, f) \in LogType /\ Shut(ErrLog(c, f))
<1> DEFINE at == IF NoUsableTag(c, f) THEN 0 ELSE c.address
           l1 == [NullLog EXCEPT !.base = at]
           l2 == [l1 EXCEPT !.ptr = at]
           l3 == [l2 EXCEPT !.limit = at]
           l4 == [l3 EXCEPT !.ret = 1]
<1>1. at \in Nat
  <2>1. AddrSpace \in Nat /\ c.address \in 0 .. AddrSpace - 1
    BY LayoutAssumption DEF Containers
  <2> QED
    BY <2>1
<1>2. ErrLog(c, f) = l4
  BY DEF ErrLog
<1> HIDE DEF at, l1, l2, l3, l4
<1>3. l1 = Fields(at, 0, 0, 0, <<>>, NoPiece, 0)
  BY DEF l1, NullLog, Fields
<1>4. l2 = Fields(at, at, 0, 0, <<>>, NoPiece, 0)
  BY <1>3 DEF l2, Fields
<1>5. l3 = Fields(at, at, at, 0, <<>>, NoPiece, 0)
  BY <1>4 DEF l3, Fields
<1>6. l4 = Fields(at, at, at, 0, <<>>, NoPiece, 1)
  BY <1>5 DEF l4, Fields
<1>7. NoPiece \in [what : {"none", "zeros"}, at : Nat, size : Nat]
  BY DEF NoPiece, PieceOf
<1>8. l4 \in LogType
  BY <1>1, <1>6, <1>7 DEF LogType, Fields
<1>9. Shut(l4)
  BY <1>6 DEF Shut, Fields
<1> QED
  BY <1>2, <1>8, <1>9

-----------------------------------------------------------------------------
(* The statics' initial values. *)
LEMMA NullLogTyped == NullLog \in LogType
<1>1. NullLog = Fields(0, 0, 0, 0, <<>>, NoPiece, 0)
  BY DEF NullLog, Fields
<1>2. NoPiece \in [what : {"none", "zeros"}, at : Nat, size : Nat]
  BY DEF NoPiece, PieceOf
<1>3. <<>> \in Seq(Piece)
  OBVIOUS
<1> QED
  BY <1>1, <1>2, <1>3 DEF LogType, Fields

(* Before event_log_init() the invariant holds. *)
LEMMA InitIInv == Init => IInv
  BY NullLogTyped DEF Init, IInv

(* event_log_init() leaves an open log or a shut one. *)
LEMMA InitLogIInv ==
  ASSUME IInv, NEW c \in Containers, NEW h \in SUBSET Algos, InitLog(c, h)
  PROVE  IInv'
<1>1. family \in Family /\ family' = family
  BY DEF IInv, InitLog
<1>2. CASE NoUsableTag(c, family) \/ Misplaced(c)
  <2>1. phase' = "err" /\ log' = ErrLog(c, family)
    BY <1>2 DEF InitLog, EventLogInit
  <2>2. log' \in LogType /\ Shut(log')
    BY <1>1, <2>1, ErrLogShut
  <2> QED
    BY <1>1, <2>1, <2>2 DEF IInv
<1>3. CASE ~(NoUsableTag(c, family) \/ Misplaced(c))
  <2> DEFINE l == OpenedLog(c, family)
  <2>1. phase' = "run"
    BY <1>3 DEF InitLog
  <2>2. log' = IF Needed(family) \subseteq h
               THEN LogEvent(l, family, SkinitText) ELSE [l EXCEPT !.ret = 1]
    BY <1>3 DEF InitLog, EventLogInit
  <2>3. /\ l \in LogType /\ Open(l, family)
        /\ l.limit - l.ptr > EvSize[family] + SkinitText
    BY <1>1, <1>3, OpenedLogOpen
  <2>4. SkinitText \in Nat
    BY DEF SkinitText
  <2> HIDE DEF l
  <2>5. log' \in LogType /\ Open(log', family)
    <3>1. CASE Needed(family) \subseteq h
      BY <1>1, <2>2, <2>3, <2>4, <3>1, LogEventOpen
    <3>2. CASE ~(Needed(family) \subseteq h)
      BY <1>1, <2>2, <2>3, <3>2, OnlyRet, OnlyRetKeeps
    <3> QED
      BY <3>1, <3>2
  <2> QED
    BY <1>1, <2>1, <2>5 DEF IInv
<1> QED
  BY <1>2, <1>3

(* A later measurement finds the log open with room, or leaves it alone. *)
LEMMA AddEventCases ==
  ASSUME IInv, NEW text \in Texts, AddEvent(text)
  PROVE  /\ text \in Nat /\ family' = family /\ phase' = phase
         /\ \/ /\ phase = "run" /\ Open(log, family)
               /\ log.limit - log.ptr > EvSize[family] + text
               /\ log' = LogEvent(log, family, text)
            \/ log' = [log EXCEPT !.ret = 1]
<1>1. /\ text \in Nat /\ family \in Family /\ log \in LogType
      /\ EvSize[family] \in Nat
  BY LayoutAssumption DEF IInv
<1>2. /\ family' = family /\ phase' = phase /\ phase \in {"run", "err"}
      /\ log' = LogEvent(log, family, text)
  BY DEF AddEvent, IInv
<1>3. CASE phase = "run"
  <2>1. Open(log, family)
    BY <1>3 DEF IInv
  <2>2. log.ptr <= log.limit
    BY <1>1, <2>1 DEF Open, Placed, LogType
  <2> QED
    BY <1>1, <1>2, <1>3, <2>1, <2>2, LogEventFull
<1>4. CASE phase = "err"
  <2>1. Shut(log)
    BY <1>4 DEF IInv
  <2>2. log.ptr <= log.limit /\ ~(log.limit - log.ptr > EvSize[family] + text)
    BY <1>1, <2>1 DEF Shut, LogType
  <2> QED
    BY <1>1, <1>2, <2>2, LogEventFull
<1> QED
  BY <1>2, <1>3, <1>4

(* A later measurement keeps it. *)
LEMMA AddEventIInv ==
  ASSUME IInv, NEW text \in Texts, AddEvent(text)
  PROVE  IInv'
<1>1. family \in Family /\ log \in LogType /\ phase \in {"start", "run", "err"}
  BY DEF IInv
<1>2. phase # "start"
  BY DEF AddEvent
<1>3. text \in Nat /\ family' = family /\ phase' = phase
  BY AddEventCases
<1>4. CASE /\ phase = "run" /\ Open(log, family)
           /\ log.limit - log.ptr > EvSize[family] + text
           /\ log' = LogEvent(log, family, text)
  <2>1. log' \in LogType /\ Open(log', family)
    BY <1>1, <1>3, <1>4, LogEventOpen
  <2> QED
    BY <1>1, <1>3, <1>4, <2>1 DEF IInv
<1>5. CASE log' = [log EXCEPT !.ret = 1]
  <2>1. /\ log' \in LogType
        /\ Open(log, family) => Open(log', family)
        /\ Shut(log) => Shut(log')
    BY <1>1, <1>5, OnlyRet, OnlyRetKeeps
  <2> QED
    BY <1>1, <1>2, <1>3, <2>1 DEF IInv
<1> QED
  BY <1>4, <1>5, AddEventCases

(* Every step keeps it. *)
LEMMA NextIInv == IInv /\ [Next]_vars => IInv'
<1> SUFFICES ASSUME IInv, [Next]_vars PROVE IInv'
  OBVIOUS
<1>1. CASE \E c \in Containers, h \in SUBSET Algos : InitLog(c, h)
  BY <1>1, InitLogIInv
<1>2. CASE \E text \in Texts : AddEvent(text)
  BY <1>2, AddEventIInv
<1>3. CASE UNCHANGED vars
  BY <1>3 DEF vars, IInv
<1> QED
  BY <1>1, <1>2, <1>3 DEF Next

(* The inductive invariant holds whatever container event_log_init() is    *)
(* given, and however many measurements are logged after it.               *)
THEOREM Invariance == Spec => []IInv
  BY InitIInv, NextIInv, PTL DEF Spec

-----------------------------------------------------------------------------
(* The fields of the log always have the types of their C counterparts.    *)
THEOREM TypeCorrect == Spec => []TypeOK
<1>1. IInv => TypeOK
  BY DEF IInv, TypeOK, LogType
<1> QED
  BY <1>1, Invariance, PTL

(* Whatever container the bootloader passes, and however many measurements *)
(* follow, event_log.c never clears or writes a byte outside the container *)
(* nor a byte of the already measured SLB.                                 *)
THEOREM WritesStayContained == Spec => []WritesContained
<1>1. ASSUME IInv PROVE WritesContained
  <2>1. log \in LogType /\ SlbStart \in Nat /\ SlbSize \in Nat
    BY <1>1, LayoutAssumption DEF IInv
  <2>2. CASE phase = "run"
    <3>1. Placed(log) /\ Below(log)
      BY <1>1, <2>2 DEF IInv, Open
    <3>2. log.base \in Nat /\ log.ptr \in Nat /\ log.limit \in Nat /\ log.mem \in Seq(Piece)
      BY <2>1 DEF LogType
    <3>3. /\ log.base <= log.ptr /\ log.ptr < log.limit
          /\ log.limit < SlbStart \/ SlbStart + SlbSize < log.base
      BY <3>1 DEF Placed
    <3>4. log.wiped = PieceOf("zeros", log.base, log.limit - log.base)
      BY <3>1 DEF Placed
    <3>5. Contained(log.wiped)
      <4>1. log.wiped.at = log.base /\ log.wiped.size = log.limit - log.base
        BY <3>4 DEF PieceOf
      <4> QED
        BY <2>1, <3>2, <3>3, <4>1 DEF Contained, Within
    <3>6. ASSUME NEW i \in DOMAIN log.mem PROVE Contained(log.mem[i])
      <4>1. i \in 1 .. Len(log.mem) /\ log.mem[i] \in Piece
        BY <3>2
      <4>2. log.mem[i].at \in Nat /\ log.mem[i].size \in Nat
        BY <4>1 DEF Piece
      <4>3. log.base <= log.mem[i].at /\ log.mem[i].at + log.mem[i].size <= log.ptr
        BY <3>1, <4>1 DEF Below, EndOf
      <4> QED
        BY <2>1, <3>2, <3>3, <4>2, <4>3, SMTT(30) DEF Contained, Within
    <3> QED
      BY <3>5, <3>6 DEF WritesContained
  <2>3. CASE phase # "run"
    <3>1. log.mem = <<>> /\ log.wiped = NoPiece
      BY <1>1, <2>3 DEF IInv, Shut, NullLog
    <3>2. log.wiped.what = "none"
      BY <3>1 DEF NoPiece, PieceOf
    <3>3. DOMAIN log.mem = {}
      BY <3>1
    <3> QED
      BY <3>2, <3>3 DEF WritesContained
  <2> QED
    BY <2>2, <2>3
<1> QED
  BY <1>1, Invariance, PTL

(* The offset in the log's header always points at the first free byte.    *)
THEOREM HeaderAlwaysTracksEnd == Spec => []HeaderTracksEnd
<1>1. IInv => HeaderTracksEnd
  BY DEF IInv, Open, HeaderTracksEnd
<1> QED
  BY <1>1, Invariance, PTL

(* The log holds whole, adjacent records in order, from base up to ptr.    *)
THEOREM RecordsAreWhole == Spec => []WholeRecords
<1>1. IInv => WholeRecords
  BY DEF IInv, Open, Adjacent, Kinds, WholeRecords
<1> QED
  BY <1>1, Invariance, PTL

(* A log event_log_init() gave up on is never written to.                  *)
THEOREM FailedLogIsShut == Spec => []FailedLogStaysShut
<1>1. IInv => FailedLogStaysShut
  BY DEF IInv, Shut, FailedLogStaysShut
<1> QED
  BY <1>1, Invariance, PTL

(* A log call adds exactly one record at the end, or changes nothing.      *)
THEOREM RecordsAreAllOrNothing == Spec => AllOrNothing
<1> DEFINE Effect ==
      phase # "start" =>
        IF log'.ret = 1
        THEN log' = [log EXCEPT !.ret = 1]
        ELSE /\ Len(log'.mem) = Len(log.mem) + 2
             /\ SubSeq(log'.mem, 1, Len(log.mem)) = log.mem
             /\ log'.mem[Len(log.mem) + 1].at = log.ptr
<1>1. ASSUME IInv, NEW text \in Texts, AddEvent(text) PROVE Effect
  <2>1. log \in LogType /\ family \in Family /\ text \in Nat
    BY <1>1, AddEventCases DEF IInv
  <2>2. CASE /\ log.limit - log.ptr > EvSize[family] + text
             /\ log' = LogEvent(log, family, text)
    <3> DEFINE e == EventPiece(log, family)
               t == TextPiece(log, family, text)
               two == Append(Append(log.mem, e), t)
    <3>1. log' = Fields(log.base, log.ptr + EvSize[family] + text, log.limit,
                        log.off + (EvSize[family] + text), two, log.wiped, 0)
      BY <2>1, <2>2, LogEventFits
    <3>2. EvSize[family] \in Nat /\ log.ptr \in Nat /\ log.mem \in Seq(Piece)
      BY <2>1, LayoutAssumption DEF LogType
    <3>3. e.at = log.ptr
      BY DEF EventPiece, PieceOf
    <3>4. e \in Piece /\ t \in Piece
      <4>1. log.ptr + EvSize[family] \in Nat
        BY <3>2
      <4>2. e \in Piece
        BY <3>2, PieceTyped DEF EventPiece
      <4>3. t \in Piece
        BY <2>1, <4>1, PieceTyped DEF TextPiece
      <4> QED
        BY <4>2, <4>3
    <3> HIDE DEF e, t, two
    <3>5. log'.ret = 0 /\ log'.mem = two
      BY <3>1 DEF Fields
    <3>6. /\ two \in Seq(Piece) /\ Len(log.mem) \in Nat
          /\ Len(two) = Len(log.mem) + 2 /\ two[Len(log.mem) + 1] = e
          /\ \A i \in 1 .. Len(log.mem) : two[i] = log.mem[i]
      BY <3>2, <3>4, AppendTwo DEF two
    <3>7. SubSeq(two, 1, Len(log.mem)) = log.mem
      BY <3>2, <3>6
    <3> QED
      BY <3>3, <3>5, <3>6, <3>7
  <2>3. CASE log' = [log EXCEPT !.ret = 1]
    <3>1. log' = Fields(log.base, log.ptr, log.limit, log.off, log.mem, log.wiped, 1)
      BY <2>1, <2>3, OnlyRet
    <3>2. log'.ret = 1
      BY <3>1 DEF Fields
    <3> QED
      BY <2>3, <3>2
  <2> QED
    BY <1>1, <2>2, <2>3, AddEventCases
<1>2. ASSUME NEW c \in Containers, NEW h \in SUBSET Algos, InitLog(c, h) PROVE Effect
  BY <1>2 DEF InitLog
<1>3. IInv /\ [Next]_vars => [Effect]_vars
  BY <1>1, <1>2 DEF Next
<1> QED
  BY <1>3, Invariance, PTL DEF Spec, AllOrNothing
=============================================================================
