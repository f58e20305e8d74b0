------------------------------- MODULE Bytes --------------------------------
(***************************************************************************)
(* Numbers as bytes, most significant first, as amf.c reads and writes     *)
(* them; a byte is a number below 256.                                     *)
(***************************************************************************)
EXTENDS Integers, Sequences

From(s, i) == SubSeq(s, i, Len(s))
BE2(n) == <<n \div 256, n % 256>>
BE4(n) == <<n \div 16777216, (n \div 65536) % 256, (n \div 256) % 256, n % 256>>
Value2(s) == s[1] * 256 + s[2]
Value4(s) == (s[1] * 256 + s[2]) * 65536 + s[3] * 256 + s[4]
=============================================================================
