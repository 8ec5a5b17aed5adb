------------------------------ MODULE TpmBuff -------------------------------
(* The command buffer of tpm_buff.c, on which commands are built and into  *)
(* which responses are read. Pointers are offsets from head; a buffer is   *)
(*   head      head is set                                                 *)
(*   truesize  its size                                                    *)
(*   len, tail what is in use                                              *)
(*   locked    reserved                                                    *)
(* (data and end are never read.)                                          *)
EXTENDS Integers

CONSTANT HdrLen  \* sizeof(struct tpm_header)

ASSUME HeaderAssumption == HdrLen \in Nat \ {0}

Null == -1

Buffer == [head : BOOLEAN, truesize : Nat, len : Nat, tail : Nat \cup {Null},
           locked : BOOLEAN]

NullBuff == [head |-> FALSE, truesize |-> 0, len |-> 0, tail |-> Null,
             locked |-> FALSE]

(* tpmb_reserve(): refused, with NULL, while the buffer is locked.         *)
Reserve(b) == [b EXCEPT !.len = HdrLen, !.tail = HdrLen, !.locked = TRUE]

(* tpmb_free() *)
Free(b) == [b EXCEPT !.len = 0, !.tail = Null, !.locked = FALSE]

(* tpmb_put() returns NULL if the bytes do not fit. *)
CanPut(b, size) == b.len + size <= b.truesize

Put(b, size) ==
  IF CanPut(b, size)
  THEN [b EXCEPT !.tail = @ + size, !.len = @ + size]
  ELSE b

(* tpmb_trim() *)
Trim(b, size) ==
  LET n == IF b.len < size THEN b.len ELSE size
  IN  [b EXCEPT !.tail = @ - n, !.len = @ - n]

(* alloc_tpmbuff(): a TIS buffer that was not released is only reset, at   *)
(* its old size.                                                           *)
Alloc(b, size) ==
  [head |-> TRUE, truesize |-> IF b.head THEN b.truesize ELSE size, len |-> 0,
   tail |-> Null, locked |-> FALSE]

(* free_tpmbuff() *)
Release(b) == [b EXCEPT !.head = FALSE]
=============================================================================
