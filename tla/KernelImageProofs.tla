--------------------------- MODULE KernelImageProofs -------------------------
(* What TLC checks with words of four bits holds for words of any width and *)
(* for every zero page: Linux is entered inside of what was measured.      *)
EXTENDS KernelImage, TLAPS

ImageSpec ==
  /\ ImageInit /\ pc = "skl_linux"
  /\ [][ImageNext]_<<pc, protocol, imagevars>>

Inside(p, from, len) == p >= from /\ p < from + len

(* However the sums in is_in_kernel() wrap, what it accepts lies in the     *)
(* bytes that extend_pcr() is given (main.c:78-86, 323-325).                *)
EntryMeasured == pc = "dump" => Inside(mle_entry, kernel.from, kernel.len)

(* A word that wraps is no larger than the sum it wrapped from.            *)
LEMMA RemainderBound ==
  ASSUME NEW n \in Nat, NEW w \in Nat \ {0}
  PROVE  n % w \in Nat /\ n % w <= n
<1>1. n % w \in 0 .. w - 1
  BY SMT
<1>2. n = w * (n \div w) + (n % w) /\ n \div w \in Int
  BY SMT
<1>3. n \div w >= 0
  BY SMT
<1> QED
  BY <1>1, <1>2, <1>3, SMT

(* is_in_kernel() and extend_pcr() mean the same bytes: where the sum of    *)
(* start and size wraps, nothing is in the kernel at all.                   *)
LEMMA InKernelIsInside ==
  ASSUME NEW b \in Images, NEW p \in Nat, IsInKernel(b, p)
  PROVE  Inside(p, b.code32_start, SizeOf(b))
<1> DEFINE end == b.code32_start + SizeOf(b)
<1>1. b.code32_start \in Nat /\ b.syssize * Paragraph \in Nat /\ Word \in Nat \ {0}
  BY KernelImageAssumption, SMT
<1>2. SizeOf(b) \in Nat
  BY <1>1, RemainderBound DEF SizeOf, U32
<1>3. end \in Nat
  BY <1>1, <1>2
<1>4. U32(end) \in Nat /\ U32(end) <= end
  BY <1>1, <1>3, RemainderBound DEF U32
<1>5. p >= b.code32_start /\ p < U32(end)
  BY DEF IsInKernel
<1> QED
  BY <1>1, <1>3, <1>4, <1>5 DEF Inside

-----------------------------------------------------------------------------
(* What was found out about the image when each step begins.               *)
IInv ==
  /\ pc \in {"mle_header", "sl_stub_entry", "measure_linux"} => bp \in Images
  /\ pc = "measure_linux" => mle_entry \in Nat /\ IsInKernel(bp, mle_entry)
  /\ EntryMeasured

(* An offset from the MLE header, added to code32_start, is an address.    *)
LEMMA OffsetIsAddress ==
  ASSUME NEW b \in Images, NEW offset \in Offsets
  PROVE  U32(b.code32_start + offset) \in Nat
<1>1. b.code32_start + offset \in Nat /\ Word \in Nat \ {0}
  BY KernelImageAssumption, SMT
<1> QED
  BY <1>1, RemainderBound DEF U32

(* skl_linux() begins with nothing found out yet.                          *)
LEMMA InitIInv == ImageInit /\ pc = "skl_linux" => IInv
  BY DEF ImageInit, IInv, EntryMeasured

(* Each step finds out what the next one relies on.                        *)
LEMMA StepIInv == IInv /\ [ImageNext]_<<pc, protocol, imagevars>> => IInv'
<1> SUFFICES ASSUME IInv, [ImageNext]_<<pc, protocol, imagevars>>
             PROVE  IInv'
  OBVIOUS
<1>1. CASE GetKernelInfo
  <2>1. bp' \in Images /\ pc' \in {"mle_header", "reboot"}
    BY <1>1 DEF GetKernelInfo, Follow, Goto
  <2> QED
    BY <2>1 DEF IInv, EntryMeasured
<1>2. CASE GetMleHeader
  <2>1. pc = "mle_header" /\ pc' \in {"sl_stub_entry", "reboot"} /\ UNCHANGED imagevars
    BY <1>2 DEF GetMleHeader, Follow, Goto
  <2> QED
    BY <2>1 DEF IInv, EntryMeasured, imagevars
<1>3. CASE GetKernelEntry
  <2>1. pc = "sl_stub_entry" /\ bp \in Images /\ bp' = bp
    BY <1>3 DEF GetKernelEntry, Goto, IInv
  <2>2. PICK offset \in Offsets :
          LET p == U32(bp.code32_start + offset)
          IN  /\ IF IsInKernel(bp, p) THEN Goto("sl_stub_entry", "measure_linux")
                 ELSE Goto("sl_stub_entry", "reboot")
              /\ mle_entry' = p
    BY <1>3 DEF GetKernelEntry
  <2>3. mle_entry' \in Nat
    BY <2>1, <2>2, OffsetIsAddress
  <2>4. pc' = "measure_linux" => IsInKernel(bp, mle_entry')
    BY <2>2 DEF Goto
  <2>5. IsInKernel(bp, mle_entry') = IsInKernel(bp, mle_entry)'
    BY <2>1 DEF IsInKernel, U32, SizeOf
  <2>6. pc' \in {"measure_linux", "reboot"}
    BY <2>2 DEF Goto
  <2> QED
    BY <2>1, <2>3, <2>4, <2>5, <2>6 DEF IInv, EntryMeasured
<1>4. CASE MeasureImage
  <2>1. pc = "measure_linux" /\ pc' = "dump" /\ UNCHANGED <<bp, mle_entry>>
        /\ kernel' = [from |-> bp.code32_start, len |-> SizeOf(bp)]
    BY <1>4 DEF MeasureImage, Goto
  <2>2. Inside(mle_entry, bp.code32_start, SizeOf(bp))
    BY <2>1, InKernelIsInside DEF IInv
  <2> QED
    BY <2>1, <2>2 DEF IInv, EntryMeasured, Inside
<1>5. CASE UNCHANGED <<pc, protocol, imagevars>>
  BY <1>5 DEF IInv, EntryMeasured, Inside, imagevars, IsInKernel, U32, SizeOf
<1> QED
  BY <1>1, <1>2, <1>3, <1>4, <1>5 DEF ImageNext

(* The entry point handed to the kernel's loader is always one of the bytes *)
(* measured into PCR 17, for words of any width (main.c:315-325).           *)
THEOREM LinuxEntryIsMeasured == ImageSpec => []EntryMeasured
<1>1. IInv => EntryMeasured
  BY DEF IInv
<1> QED
  BY InitIInv, StepIInv, <1>1, PTL DEF ImageSpec
=============================================================================
