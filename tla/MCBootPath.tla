------------------------------ MODULE MCBootPath -----------------------------
EXTENDS BootPath

\* An image that ends in memory, one whose end wraps around, one whose payload
\* does, and one whose length does.
Image(start, paragraphs, poff, plen) ==
  [code32_start |-> start, syssize |-> paragraphs, payload_offset |-> poff, payload_length |-> plen]
MCImages == {Image(2, 5, 2, 4), Image(10, 4, 2, 2), Image(10, 3, 2, 6), Image(2, 9, 0, 0)}
=============================================================================
