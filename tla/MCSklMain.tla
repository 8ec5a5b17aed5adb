------------------------------ MODULE MCSklMain -----------------------------
(* Values for model-checking SklMain: the event log's structures have their *)
(* real sizes, the address space is scaled down.                           *)
EXTENDS SklMain

MCIdSize == [TPM12 |-> 73, TPM20 |-> 57]
MCEvSize == [TPM12 |-> 32, TPM20 |-> 72]
MCFirstOff == [TPM12 |-> 48, TPM20 |-> 89]
MCOffBase == [TPM12 |-> 57, TPM20 |-> 0]
MCAddrs == {2000}
\* Too small for any log, room for some events but not for all, and ample.
MCSizes == {100, 269, 900}
MCTexts == {BootDataText, KernelText, MbiText, ModText}

\* Every kind of boot tag; for multiboot with and without entry and size.
AllBoots ==
  {b \in Boot :
     /\ ~b.tags => b.kind = "linux"
     /\ b.kind # "mb2" => ~b.entry /\ ~b.size
     /\ b.entry = b.size}

\* No module; two, with and without the tags the first loop looks for; and
\* a list that does not end where it should.
AllMBIs ==
  {[mods |-> 0, base |-> TRUE, elf |-> TRUE, safe |-> TRUE],
   [mods |-> 2, base |-> TRUE, elf |-> TRUE, safe |-> TRUE],
   [mods |-> 2, base |-> TRUE, elf |-> FALSE, safe |-> TRUE],
   [mods |-> 1, base |-> FALSE, elf |-> TRUE, safe |-> TRUE],
   [mods |-> 1, base |-> TRUE, elf |-> TRUE, safe |-> FALSE]}

\* With a TPM that may fail at any command: no malformed input, at most two
\* modules.
FewBoots == {b \in AllBoots : b.tags /\ b.kind \in {"linux", "mb2"} /\ ~b.entry}
FewMBIs ==
  {[mods |-> n, base |-> n > 0, elf |-> n > 0, safe |-> TRUE] : n \in 0 .. 2}

MCBoots == [r \in BOOLEAN |-> IF r THEN AllBoots ELSE FewBoots]
MCMBIs == [r \in BOOLEAN |-> IF r THEN AllMBIs ELSE FewMBIs]
=============================================================================
