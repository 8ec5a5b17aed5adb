------------------------------- MODULE Multiboot -----------------------------
(* skl_multiboot2(): the walks over the multiboot information (MBI), what   *)
(* they make it measure, and the check that comes last. Tags are aligned,   *)
(* so that addresses count from the MBI in units of eight bytes, sizes in   *)
(* bytes. What is there is chosen when it is first read, and then stays.   *)
EXTENDS SklPc, Integers, Sequences

CONSTANTS
  Limit,     \* 2^32
  MbiTop,    \* bound: only end tags after this unit
  MbiLens,   \* the total sizes to consider,
  TagSizes,  \* the sizes of tags,
  Entries,   \* the addresses of the kernel, where zero is unknown,
  KSizes     \* and its sizes, the same

ASSUME MultibootAssumption ==
  /\ Limit \in Nat \ {0} /\ MbiTop \in Nat
  /\ MbiLens \cup TagSizes \cup Entries \cup KSizes \subseteq 0 .. Limit - 1

END == [type |-> "END", size |-> 8]

\* To a loop that does not look for its type a tag is any other tag.
MbiTag == [type : {"END", "MODULE", "LOAD_BASE_ADDR", "ELF_SECTIONS"}, size : TagSizes]

VARIABLES
  mbi,           \* the tags that have been read
  tag,           \* the tag that is looked at
  mbi_len,
  kernel_entry,
  kernel_size,
  measured,      \* the kernel that was measured: its address and size
  mods           \* the tags whose modules were measured, in that order

mbivars == <<mbi, tag, mbi_len, kernel_entry, kernel_size, measured, mods>>

Tags(u) == IF u \in DOMAIN mbi THEN {mbi[u]} ELSE IF u > MbiTop THEN {END} ELSE MbiTag

(* multiboot_next_tag(): the addition and the mask are of 32 bits.         *)
NextMbiTag(u, g) == u + ((g.size + 7) % Limit) \div 8

\* Tag u is g, in this step and from now on.
Reads(u, g) == g \in Tags(u) /\ mbi' = Learn(mbi, u, g)

MeasureMbi ==
  /\ Goto("skl_multiboot2", "find_kernel")
  /\ mbi_len' \in MbiLens /\ kernel_entry' \in Entries /\ kernel_size' \in KSizes
  /\ tag' = 1
  /\ UNCHANGED <<mbi, measured, mods, protocol>>

(* An iteration of the first loop: a base address replaces an entry that is *)
(* unknown; the sections may or may not give a size that is.               *)
FindKernel ==
  /\ Goto("find_kernel", "find_kernel")
  /\ kernel_entry = 0 \/ kernel_size = 0
  /\ \E g \in Tags(tag) :
       /\ g.type # "END"
       /\ Reads(tag, g)
       /\ IF kernel_entry = 0 /\ g.type = "LOAD_BASE_ADDR"
          THEN kernel_entry' \in Entries ELSE UNCHANGED kernel_entry
       /\ IF kernel_size = 0 /\ g.type = "ELF_SECTIONS"
          THEN kernel_size' \in KSizes \cup {0} ELSE UNCHANGED kernel_size
       /\ tag' = NextMbiTag(tag, g)
  /\ UNCHANGED <<mbi_len, measured, mods, protocol>>

EndsFirstLoop ==
  \E g \in Tags(tag) :
    /\ g.type = "END" \/ (kernel_entry # 0 /\ kernel_size # 0)
    /\ Reads(tag, g)

\* Variant: the second loop goes on from where the first one ended.
MeasureKernelAndGoOn ==
  /\ Goto("find_kernel", "modules")
  /\ EndsFirstLoop
  /\ measured' = [from |-> kernel_entry, len |-> kernel_size]
  /\ UNCHANGED <<tag, mbi_len, kernel_entry, kernel_size, mods, protocol>>

MeasureKernel ==
  /\ Goto("find_kernel", "modules")
  /\ EndsFirstLoop
  /\ measured' = [from |-> kernel_entry, len |-> kernel_size]
  /\ tag' = 1
  /\ UNCHANGED <<mbi_len, kernel_entry, kernel_size, mods, protocol>>

(* An iteration of the second one. Bound: a tag that is its own successor,  *)
(* whose module is measured again and again, is noted MbiTop + 1 times.     *)
MeasureModule ==
  /\ Goto("modules", "modules")
  /\ \E g \in Tags(tag) :
       /\ g.type # "END"
       /\ Reads(tag, g)
       /\ mods' = IF g.type = "MODULE" /\ Len(mods) <= MbiTop THEN Append(mods, tag) ELSE mods
       /\ tag' = NextMbiTag(tag, g)
  /\ UNCHANGED <<mbi_len, kernel_entry, kernel_size, measured, protocol>>

(* The safety checks.                                                      *)
CheckMbi ==
  /\ \E g \in Tags(tag) :
       /\ g.type = "END"
       /\ Reads(tag, g)
       /\ IF g.size = 8 /\ 8 * NextMbiTag(tag, g) <= mbi_len
          THEN Goto("modules", "dump") /\ protocol' = "MULTIBOOT2"
          ELSE Goto("modules", "reboot") /\ UNCHANGED protocol
  /\ UNCHANGED <<tag, mbi_len, kernel_entry, kernel_size, measured, mods>>

MbiInit ==
  /\ mbi = <<>> /\ tag = 0 /\ mbi_len = 0 /\ kernel_entry = 0 /\ kernel_size = 0
  /\ measured = [from |-> 0, len |-> 0] /\ mods = <<>>

MbiNext == MeasureMbi \/ FindKernel \/ MeasureKernel \/ MeasureModule \/ CheckMbi

-----------------------------------------------------------------------------
\* The list: what every set holds that has the first tag, and with a tag its
\* successor.
IsClosed(S) ==
  /\ 1 \in S
  /\ \A u \in S \cap DOMAIN mbi : mbi[u].type # "END" => NextMbiTag(u, mbi[u]) \in S

List == {u \in DOMAIN mbi : \A S \in SUBSET (DOMAIN mbi \cup {tag}) : IsClosed(S) => u \in S}

(* When the kernel is handed an MBI, each of the modules it lists has been  *)
(* measured, once and in the order of the list, whatever the walk for the   *)
(* kernel did before, and the whole list is within the length that was      *)
(* measured as the MBI's (main.c:395-396, 423-447).                        *)
ModulesOnce ==
  protocol = "MULTIBOOT2" =>
    /\ {mods[i] : i \in DOMAIN mods} = {u \in List : mbi[u].type = "MODULE"}
    /\ \A i, j \in DOMAIN mods : i < j => mods[i] < mods[j]
    /\ \A u \in List : 8 * NextMbiTag(u, mbi[u]) <= mbi_len
=============================================================================
