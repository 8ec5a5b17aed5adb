--------------------------------- MODULE Sha --------------------------------
(* sha1sum() and sha256sum(): how a message of any length becomes 64-byte   *)
(* blocks, and how each block goes through the unrolled rounds.            *)
(*                                                                         *)
(* What words are is left out, where they are is kept. A byte of a block   *)
(* is the number of the message byte it is a copy of, or a constant. A     *)
(* word of the message schedule is its number t in W(t), a register holds  *)
(* the number of the round that computed its value; Wrong is a value that  *)
(* was computed from other operands than FIPS 180-4 says.                  *)
EXTENDS Integers, Sequences

CONSTANTS
  Lengths,  \* message lengths to consider
  Algs      \* "SHA1" and "SHA256", or one of them

ASSUME ShaAssumption ==
  Lengths \subseteq Nat /\ Algs \subseteq {"SHA1", "SHA256"}

BlockSize == 64
Wrong == -100
Rounds == [SHA1 |-> 80, SHA256 |-> 64]

\* Byte i of the message, which no constant equals.
Data(i) == 1000 + i

VARIABLES
  alg,     \* the function that was called
  len,     \* count: the message's length
  step,    \* where it is
  off,     \* bytes of the message hashed so far
  buf,     \* sctx->buf, hd->buf
  partial, \* bytes in use of buf
  block,   \* the transform's input
  back,    \* where it returns to
  i,       \* the round it is in
  W,       \* its ring of schedule words
  reg,     \* its registers a, b, c...
  hashed   \* the blocks that went into the state, one after the other

once == <<alg, len, off, buf, partial>>
transform == <<block, back, W, reg, i>>
shavars == <<step, once, transform, hashed>>

-----------------------------------------------------------------------------
(* The rounds. Registers count from 0 (a); a value from round n is n, one  *)
(* that SHA-1 has rotated since (b = rol(b, 30)) is n + Turned, and the    *)
(* second value of a round of SHA-256 (d += t1) is n + Second. The chaining *)
(* values are those of the rounds before 0.                                *)
Turned == 200
Second == 200

\* FIPS 180-4: what a, b, c... hold when round n starts.
Standard(a, n) ==
  IF a = "SHA1"
  THEN [p \in 0 .. 4 |-> n - 1 - p + (IF p > 1 THEN Turned ELSE 0)]
  ELSE [p \in 0 .. 7 |-> IF p < 4 THEN n - 1 - p ELSE n + 3 - p + Second]

\* The words that W(t) is computed from, by their distance.
Taps(a) == IF a = "SHA1" THEN {3, 8, 14, 16} ELSE {2, 7, 15, 16}

(* sha1_blend(), sha256_blend(): the word for round n, in the slot of word *)
(* n - 16.                                                                 *)
Blend(a, w, n) == IF \A d \in Taps(a) : w[(n - d) % 16] = n - d THEN n ELSE Wrong

(* The register that is called as the p-th in round n: each line of the    *)
(* unrolled loops has its arguments one place further.                     *)
Role(a, p, n) == IF a = "SHA1" THEN (p - n) % 5 ELSE (p - n) % 8

(* One line: the registers after round n with word w.                      *)
RoundLine(a, r, w, n) ==
  LET At(p) == Role(a, p, n)
      Is(ps) == \A p \in ps : r[At(p)] = Standard(a, n)[p]
      Value(ok, v) == IF ok THEN v ELSE Wrong
  IN  IF a = "SHA1"
      THEN [r EXCEPT ![At(4)] = Value(w = n /\ Is(0 .. 4), n),
                     ![At(1)] = @ + Turned]
      ELSE [r EXCEPT ![At(3)] = Value(w = n /\ Is(3 .. 7), n + Second),
                     ![At(7)] = Value(w = n /\ Is({0, 1, 2, 4, 5, 6, 7}), n)]

(* sha1_transform(), sha256_transform() *)
Transform(from, b, ret) ==
  /\ step = from /\ step' = "rounds"
  /\ block' = b /\ back' = ret
  /\ i' = 0
  /\ W' = [k \in 0 .. 15 |-> k]
  /\ reg' = Standard(alg, 0)

Round ==
  /\ step = "rounds" /\ i < Rounds[alg]
  /\ LET w == IF i < 16 THEN W[i] ELSE Blend(alg, W, i)
     IN  /\ W' = [W EXCEPT ![i % 16] = w]
         /\ reg' = RoundLine(alg, reg, w, i)
  /\ i' = i + 1
  /\ UNCHANGED <<step, once, block, back, hashed>>

(* The registers are added to the state: what was hashed is the block only *)
(* if a, b, c... hold what they should.                                    *)
AddToState ==
  /\ step = "rounds" /\ i = Rounds[alg]
  /\ step' = back
  /\ hashed' = hashed \o (IF reg = Standard(alg, i) THEN block ELSE <<Wrong>>)
  /\ UNCHANGED <<once, transform>>

-----------------------------------------------------------------------------
(* sha1_once(), sha256_once() *)

OnceBlock ==
  /\ len - off >= BlockSize
  /\ Transform("once", [k \in 1 .. BlockSize |-> Data(off + k)], "once")
  /\ off' = off + BlockSize
  /\ UNCHANGED <<alg, len, buf, partial, hashed>>

OnceRest ==
  /\ step = "once" /\ step' = "final"
  /\ len - off < BlockSize
  /\ buf' = [k \in 1 .. BlockSize |-> IF k <= len - off THEN Data(off + k) ELSE buf[k]]
  /\ UNCHANGED <<alg, len, off, partial, transform, hashed>>

(* sha1_final(), sha256_final() *)

StartPadding ==
  /\ step = "final" /\ step' = "extra"
  /\ LET used == len % BlockSize
     IN  /\ buf' = [buf EXCEPT ![used + 1] = 128]
         /\ partial' = used + 1
  /\ UNCHANGED <<alg, len, off, transform, hashed>>

\* memset(buf + partial, 0, to - partial)
Zero(to) == [k \in 1 .. BlockSize |-> IF k > partial /\ k <= to THEN 0 ELSE buf[k]]

\* Variant: a block that has just room for the count gets another one, and
\* one that lacks a byte does not.
ExtraBlockLate ==
  \/ /\ partial > 57
     /\ buf' = Zero(BlockSize)
     /\ partial' = 0
     /\ Transform("extra", buf', "count")
     /\ UNCHANGED <<alg, len, off, hashed>>
  \/ /\ partial <= 57
     /\ step = "extra" /\ step' = "count"
     /\ UNCHANGED <<once, transform, hashed>>

(* No room for the count after the padding's first byte.                   *)
ExtraBlock ==
  \/ /\ partial > 56
     /\ buf' = Zero(BlockSize)
     /\ partial' = 0
     /\ Transform("extra", buf', "count")
     /\ UNCHANGED <<alg, len, off, hashed>>
  \/ /\ partial <= 56
     /\ step = "extra" /\ step' = "count"
     /\ UNCHANGED <<once, transform, hashed>>

\* The eight bytes of a number, the most significant first.
BigEndian(n) ==
  LET shifted[j \in 0 .. 7] == IF j = 0 THEN n ELSE shifted[j - 1] \div 256
  IN  [k \in 1 .. 8 |-> shifted[8 - k] % 256]

AppendCount ==
  /\ buf' = [k \in 1 .. BlockSize |->
               IF k <= 56 THEN Zero(56)[k] ELSE BigEndian(len * 8)[k - 56]]
  /\ Transform("count", buf', "done")
  /\ UNCHANGED <<alg, len, off, partial, hashed>>

(* sha1_init() or sha256_init(), and the call.                             *)
ShaInit ==
  /\ alg \in Algs /\ len \in Lengths
  /\ step = "once" /\ off = 0
  /\ buf = [k \in 1 .. BlockSize |-> 0] /\ partial = 0
  /\ block = <<>> /\ back = "once" /\ i = 0
  /\ W = [k \in 0 .. 15 |-> Wrong] /\ reg = <<>>
  /\ hashed = <<>>

ShaNext ==
  \/ OnceBlock \/ OnceRest \/ StartPadding \/ ExtraBlock \/ AppendCount
  \/ Round \/ AddToState

-----------------------------------------------------------------------------
\* FIPS 180-4: the message, a 1 bit, as few zeros as fill a block, the length.
Padded(n) ==
  [k \in 1 .. n |-> Data(k)] \o <<128>> \o
  [k \in 1 .. (55 - n) % BlockSize |-> 0] \o BigEndian(n * 8)

(* The blocks that went through the rounds are the standard's padding of   *)
(* the whole message, whatever its length (sha256.c:166-191): the tests    *)
(* have no message that ends just before or at a block's end.              *)
HashesPadded == step = "done" => hashed = Padded(len)
=============================================================================
