------------------------------ MODULE KernelImage ----------------------------
(* skl_linux(): the zero page and the headers behind it, how the kernel's   *)
(* entry is found in the image and what of the image is measured. Memory is *)
(* as it was when it was first read: iommu_setup() comes before.           *)
EXTENDS SklPc, Integers

CONSTANTS
  Word,       \* 2^32
  Paragraph,  \* what syssize counts in, 16 bytes
  Images,     \* the zero pages to consider, as of boot_params
  Offsets     \* and what the headers in the kernel may hold

ASSUME KernelImageAssumption ==
  /\ Word \in Nat \ {0} /\ Paragraph \in Nat
  /\ Offsets \subseteq 0 .. Word - 1
  /\ Images \subseteq [code32_start : 0 .. Word - 1, syssize : 0 .. Word - 1,
                       payload_offset : 0 .. Word - 1, payload_length : 0 .. Word - 1]

VARIABLES
  bp,        \* the zero page
  mle_entry, \* pm_kernel_entry
  kernel     \* what is measured as the kernel: [from, len]

imagevars == <<bp, mle_entry, kernel>>

U32(n) == n % Word
SizeOf(b) == U32(b.syssize * Paragraph)

\* Variant: an offset that is unsigned is not expected to lead below the start.
IsBelowEnd(b, p) ==
  /\ p < U32(b.code32_start + SizeOf(b))
  /\ ~ /\ p >= U32(b.code32_start + b.payload_offset)
       /\ p < U32(b.code32_start + b.payload_offset + b.payload_length)

(* is_in_kernel(): every bound is a sum of 32 bits.                        *)
IsInKernel(b, p) ==
  /\ p >= b.code32_start
  /\ p < U32(b.code32_start + SizeOf(b))
  /\ ~ /\ p >= U32(b.code32_start + b.payload_offset)
       /\ p < U32(b.code32_start + b.payload_offset + b.payload_length)

(* get_kernel_info(), get_mle_hdr() and get_kernel_entry(): where the next  *)
(* header, or the entry, is, if it is in the kernel. A header that is not   *)
(* what it should be ends it as well.                                      *)
Follow(b, from, to, p) ==
  \/ IsInKernel(b, p) /\ Goto(from, to)
  \/ Goto(from, "reboot")

GetKernelInfo ==
  /\ bp' \in Images
  /\ \E offset \in Offsets :
       Follow(bp', "skl_linux", "mle_header", U32(bp'.code32_start + offset))
  /\ UNCHANGED <<mle_entry, kernel>>

GetMleHeader ==
  /\ \E offset \in Offsets :
       Follow(bp, "mle_header", "sl_stub_entry", U32(bp.code32_start + offset))
  /\ UNCHANGED imagevars

GetKernelEntry ==
  /\ \E offset \in Offsets :
       LET p == U32(bp.code32_start + offset) IN
       /\ IF IsInKernel(bp, p) THEN Goto("sl_stub_entry", "measure_linux")
          ELSE Goto("sl_stub_entry", "reboot")
       /\ mle_entry' = p
  /\ UNCHANGED <<bp, kernel>>

MeasureImage ==
  /\ Goto("measure_linux", "dump")
  /\ kernel' = [from |-> bp.code32_start, len |-> SizeOf(bp)]
  /\ UNCHANGED <<bp, mle_entry>>

NoImage == [code32_start |-> 0, syssize |-> 0, payload_offset |-> 0, payload_length |-> 0]

ImageInit == bp = NoImage /\ mle_entry = 0 /\ kernel = [from |-> 0, len |-> 0]

ImageNext == (GetKernelInfo \/ GetMleHeader \/ GetKernelEntry \/ MeasureImage) /\ UNCHANGED protocol
=============================================================================
