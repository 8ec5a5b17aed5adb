------------------------------- MODULE SklTags -------------------------------
(* The bootloader's tags: skl_main()'s checks of the list, and every walk   *)
(* over it with next_of_type() and next_of_class() until the kernel is      *)
(* entered.                                                                *)
(*                                                                         *)
(* Addresses and lengths count in headers of two bytes. The SLB, from the   *)
(* data on, is SKL's alone; memory after it is not, and any read of it may  *)
(* find something else. What the SLB holds is chosen when it is first read. *)
EXTENDS SklPc, Integers

CONSTANTS
  Data,    \* address of bootloader_data
  SlbEnd,  \* _start + SLB_SIZE
  Sizes,   \* the sizes of the data to consider
  Lens     \* and the lengths of tags

ASSUME TagsAssumption ==
  /\ Data \in Nat \ {0} /\ SlbEnd \in Nat
  /\ Sizes \subseteq Nat /\ Lens \subseteq Nat

\* Tags of classes that are not looked for are TAGS_SIZE's like.
BootTypes == {"BOOT_LINUX", "BOOT_MB2", "BOOT_UNKNOWN"}
Types == BootTypes \cup {"END", "TAGS_SIZE", "EVENT_LOG", "SKL_HASH"}
Header == [type : Types, len : Lens]
TagsSizeLen == 2  \* sizeof(struct skl_tag_tags_size)
NULL == 0

VARIABLES
  size,    \* bootloader_data.size
  tags,    \* the headers in the SLB that have been read
  t,       \* the pointer that walks, or what the walk returned
  goal,    \* the type, or the class, it looks for
  back,    \* where it returns to
  boot,    \* the boot tag
  acted,   \* all tags SKL acted upon
  valid    \* the checks were passed

walking == <<t, goal, back>>
tagvars == <<size, tags, walking, boot, acted, valid>>

EndOfTags == Data + size

Read(a) == IF a \in DOMAIN tags THEN {tags[a]} ELSE Header

\* What is read in the SLB stays.
Keep(k, a, h) == IF a \in Data .. SlbEnd - 1 THEN Learn(k, a, h) ELSE k

-----------------------------------------------------------------------------
(* next_tag() *)
NextTag(a, h) == IF a + h.len < EndOfTags THEN a + h.len ELSE NULL

Matches(type) ==
  IF goal = "BOOT_CLASS" THEN type \in BootTypes ELSE type = goal

(* One iteration of next_of_type() or next_of_class(). They use the pointer *)
(* of next_tag() unchecked: after NULL the walk is through what memory holds *)
(* at address zero, and "lost", the end of the model, stands for all that   *)
(* may come of it.                                                         *)
Walk ==
  /\ pc = "walk"
  /\ \E h \in Read(t) :
       LET n == NextTag(t, h) IN
       \/ /\ h.type = "END"
          /\ tags' = Keep(tags, t, h)
          /\ t' = NULL /\ pc' = back
       \/ /\ h.type # "END" /\ n = NULL
          /\ tags' = Keep(tags, t, h)
          /\ t' = NULL /\ pc' = "lost"
       \/ /\ h.type # "END" /\ n # NULL
          /\ \E g \in (IF n = t THEN {h} ELSE Read(n)) :
               /\ tags' = Keep(Keep(tags, t, h), n, g)
               /\ t' = n
               /\ pc' = IF Matches(g.type) THEN back ELSE "walk"
  /\ UNCHANGED <<size, goal, back, boot, acted, valid>>

\* A call for tags after a.
Find(a, what, from, ret) ==
  Goto(from, "walk") /\ t' = a /\ goal' = what /\ back' = ret

-----------------------------------------------------------------------------
\* Variant: the data may go on after the SLB.
CheckStartOnly ==
  \E h \in Read(Data) :
    /\ tags' = Keep(tags, Data, h)
    /\ IF h.type = "TAGS_SIZE" /\ h.len = TagsSizeLen
       THEN Find(Data, "END", "skl_main", "end_tag")
       ELSE Goto("skl_main", "reboot") /\ UNCHANGED walking
    /\ UNCHANGED <<size, boot, acted, valid>>

(* skl_main()'s checks: the first tag and the size...                      *)
CheckStart ==
  \E h \in Read(Data) :
    /\ tags' = Keep(tags, Data, h)
    /\ IF h.type = "TAGS_SIZE" /\ h.len = TagsSizeLen /\ EndOfTags <= SlbEnd
       THEN Find(Data, "END", "skl_main", "end_tag")
       ELSE Goto("skl_main", "reboot") /\ UNCHANGED walking
    /\ UNCHANGED <<size, boot, acted, valid>>

(* ... and the last tag.                                                   *)
CheckEnd ==
  /\ pc = "end_tag"
  /\ \E h \in Read(t) :
       /\ tags' = Keep(tags, t, h)
       /\ valid' = (t # NULL /\ t + h.len = EndOfTags)
  /\ pc' = IF valid' THEN "event_log" ELSE "reboot"
  /\ UNCHANGED <<size, walking, boot, acted>>

(* event_log_init(): exactly one tag says where the log is, and those with  *)
(* a digest of SKL are looked through until there are enough. Module        *)
(* EventLog has what is done with them.                                    *)
FindLog ==
  /\ Find(Data, "EVENT_LOG", "event_log", "log_tag")
  /\ UNCHANGED <<size, tags, boot, acted, valid>>

FindOtherLog ==
  /\ IF t = NULL THEN Goto("log_tag", "measure") /\ UNCHANGED <<walking, acted>>
     ELSE Find(t, "EVENT_LOG", "log_tag", "log_tags") /\ acted' = acted \cup {t}
  /\ UNCHANGED <<size, tags, boot, valid>>

FindHash ==
  /\ \/ t = NULL /\ Find(Data, "SKL_HASH", "log_tags", "hash_tag")
     \/ Goto("log_tags", "measure") /\ UNCHANGED walking
  /\ UNCHANGED <<size, tags, boot, acted, valid>>

\* Variant: the search starts over at every tag.
UseHashFromStart ==
  /\ \/ t # NULL /\ Find(Data, "SKL_HASH", "hash_tag", "hash_tag")
     \/ Goto("hash_tag", "measure") /\ UNCHANGED walking
  /\ acted' = acted \cup ({t} \ {NULL})
  /\ UNCHANGED <<size, tags, boot, valid>>

UseHash ==
  /\ \/ t # NULL /\ Find(t, "SKL_HASH", "hash_tag", "hash_tag")
     \/ Goto("hash_tag", "measure") /\ UNCHANGED walking
  /\ acted' = acted \cup ({t} \ {NULL})
  /\ UNCHANGED <<size, tags, boot, valid>>

(* The data is measured, size bytes from its start, and the boot tag found. *)
MeasureAndFindBoot ==
  /\ Find(Data, "BOOT_CLASS", "measure", "boot_tag")
  /\ UNCHANGED <<size, tags, boot, acted, valid>>

FindOtherBoot ==
  /\ IF t = NULL THEN Goto("boot_tag", "reboot") /\ UNCHANGED <<walking, boot, acted>>
     ELSE /\ Find(t, "BOOT_CLASS", "boot_tag", "boot_tags")
          /\ boot' = t
          /\ acted' = acted \cup {t}
  /\ UNCHANGED <<size, tags, valid>>

Dispatch ==
  /\ pc = "boot_tags"
  /\ \E h \in Read(boot) :
       /\ tags' = Keep(tags, boot, h)
       /\ pc' = CASE t # NULL -> "reboot"
                  [] t = NULL /\ h.type = "BOOT_LINUX" -> "skl_linux"
                  [] t = NULL /\ h.type = "BOOT_MB2" -> "skl_multiboot2"
                  [] OTHER -> "reboot"
  /\ UNCHANGED <<size, walking, boot, acted, valid>>

(* The log is dumped before skl_main() returns.                            *)
FindLogAgain ==
  /\ Find(Data, "EVENT_LOG", "dump", "canary")
  /\ UNCHANGED <<size, tags, boot, acted, valid>>

TagsInit ==
  /\ size \in Sizes /\ tags = <<>>
  /\ t = NULL /\ goal = "END" /\ back = "end_tag"
  /\ boot = NULL /\ acted = {} /\ valid = FALSE

TagsNext ==
  \/ Walk \/ CheckStart \/ CheckEnd \/ FindLog \/ FindOtherLog \/ FindHash \/ UseHash
  \/ MeasureAndFindBoot \/ FindOtherBoot \/ Dispatch \/ FindLogAgain

-----------------------------------------------------------------------------
(* Once the checks are passed no walk leaves the list, and all that SKL acts*)
(* upon is in the SLB and part of the data that was measured, to the end of *)
(* its tag (main.c:469-477, 488, tags.h:93-115).                            *)
ActsOnMeasured ==
  /\ valid => pc # "lost"
  /\ \A a \in acted :
       /\ a \in DOMAIN tags
       /\ a >= Data /\ a + tags[a].len <= EndOfTags
=============================================================================
