------------------------------- MODULE BootPath ------------------------------
(* The whole way from SKINIT to the kernel's first instruction, as one      *)
(* thread takes it: head.S, the checks and walks of skl_main(), the kernel  *)
(* found by skl_linux() or skl_multiboot2(), and head.S again. The modules  *)
(* hand over to each other by pc; TPM, log and IOMMU are SklMain's subject. *)
EXTENDS SklEntry, SklTags, KernelImage, Multiboot

vars == <<pc, protocol, cpu, tagvars, imagevars, mbivars>>

Init ==
  /\ EntryInit /\ TagsInit /\ ImageInit /\ MbiInit

\* The canary at the stack's end; then skl_main() returns a structure of two
\* pointers, in RAX and RDX.
CheckCanary ==
  /\ \/ Goto("canary", "returned")
        /\ cpu' = [cpu EXCEPT !.ax = "entry",
                              !.dx = IF protocol = "MULTIBOOT2" THEN "mbi" ELSE "zero_page"]
     \/ Goto("canary", "reboot") /\ UNCHANGED cpu
  /\ UNCHANGED <<protocol, tagvars, imagevars, mbivars>>

\* die() does not return, and SKL is over when the kernel runs.
Over == pc \in {"reboot", "kernel"}

Next ==
  \/ EntryNext /\ UNCHANGED <<tagvars, imagevars, mbivars>>
  \/ TagsNext /\ UNCHANGED <<protocol, cpu, imagevars, mbivars>>
  \/ ImageNext /\ UNCHANGED <<cpu, tagvars, mbivars>>
  \/ MbiNext /\ UNCHANGED <<cpu, tagvars, imagevars>>
  \/ CheckCanary

\* One thread with interrupts off: while there is a next instruction it runs.
Spec == Init /\ [][Next]_vars /\ WF_vars(Next)

-----------------------------------------------------------------------------
(* The kernel starts in the state both protocols ask for, with the registers*)
(* of the one that was followed, and what it runs was measured: Linux' entry*)
(* is inside of the image, whatever the 32-bit sums in the zero page did,   *)
(* and multiboot's is where the measured kernel starts                     *)
(* (main.c:78-86, 323-325, 417-418, head.S:183-194).                        *)
KernelEntered ==
  pc = "kernel" =>
    /\ ~cpu.pg /\ ~cpu.pae /\ ~cpu.lme /\ cpu.cs = "cs32" /\ cpu.ds = "flat"
    /\ cpu.idt = "empty" /\ cpu.flags = "clear"
    /\ protocol = "LINUX_BOOT" =>
         /\ cpu.bx = "entry" /\ cpu.si = "zero_page" /\ cpu.dx = "base"
         /\ mle_entry >= kernel.from /\ mle_entry < kernel.from + kernel.len
    /\ protocol = "MULTIBOOT2" =>
         /\ cpu.si = "entry" /\ cpu.bx = "mbi" /\ cpu.ax = "magic"
         /\ kernel_entry = measured.from

\* A tag that is its own successor catches every walk.
Stuck ==
  \/ \E a \in DOMAIN tags : tags[a].type # "END" /\ tags[a].len = 0
  \/ \E u \in DOMAIN mbi : mbi[u].type # "END" /\ NextMbiTag(u, mbi[u]) = u

(* The walks over lists that can be walked come to an end: SKL gives up, or *)
(* the kernel is entered (tags.h:93-115, multiboot2.h:101-106).             *)
Ends == <>(Over \/ pc = "lost" \/ Stuck)
=============================================================================
