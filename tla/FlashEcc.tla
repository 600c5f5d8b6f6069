------------------------------ MODULE FlashEcc ------------------------------
(***************************************************************************)
(* The code over a block of a flash page (ecc_digest and buffer_digest of  *)
(* meta/recipes-devtools/qemu/qemu-helper/raw2flash.c), and what whoever   *)
(* reads the flash can tell from it.  A byte is the set of its bits that   *)
(* are 1; a block comes as the pairs <<index, byte>> of the bytes that are *)
(* not 0, as those count for nothing.                                      *)
(***************************************************************************)
EXTENDS Naturals, FiniteSets, FiniteSetsExt

Bits  == 0 .. 7
Block == 0 .. 255
Xor(a, b)  == (a \ b) \cup (b \ a)
Byte(n)    == { b \in Bits : (n \div 2 ^ b) % 2 = 1 }
Inverted(b) == Bits \ b

(* The table of 256 is the sum of its entries for one bit.                  *)
precalc == [ b \in Bits |-> Byte(CASE b = 0 -> 85  [] b = 1 -> 86  [] b = 2 -> 89  [] b = 3 -> 90
                                   [] b = 4 -> 101 [] b = 5 -> 102 [] b = 6 -> 105 [] b = 7 -> 106) ]
ecc_precalc(byte) == FoldSet(LAMBDA b, sum : Xor(precalc[b], sum), {}, byte)

ecc_digest_OneParity(s, at, byte) ==
  LET idx == ecc_precalc(byte)
  IN [ cp  |-> Xor(s.cp, idx \ {6, 7}),
       lp0 |-> IF 6 \in idx THEN Xor(s.lp0, Byte(at)) ELSE s.lp0,
       lp1 |-> IF 6 \in idx THEN Xor(s.lp1, Byte(at)) ELSE s.lp1 ]

ecc_digest(s, at, byte) ==
  LET idx == ecc_precalc(byte)
  IN [ cp  |-> Xor(s.cp, idx \ {6, 7}),
       lp0 |-> IF 6 \in idx THEN Xor(s.lp0, Inverted(Byte(at))) ELSE s.lp0,
       lp1 |-> IF 6 \in idx THEN Xor(s.lp1, Byte(at)) ELSE s.lp1 ]

(* The four bits of both line parities from "from" on, in turns.            *)
Interleaved(s, from) ==
  { 2 * (b - from) : b \in s.lp0 \cap from .. from + 3 } \cup
  { 2 * (b - from) + 1 : b \in s.lp1 \cap from .. from + 3 }

buffer_digest(block) ==
  LET s == FoldSet(LAMBDA e, sum : ecc_digest(sum, e[1], e[2]), [ cp |-> {}, lp0 |-> {}, lp1 |-> {} ], block)
  IN << Inverted(Interleaved(s, 0)), Inverted(Interleaved(s, 4)),
        { b + 2 : b \in (0 .. 5) \ s.cp } \cup {0, 1} >>

-----------------------------------------------------------------------------
(* What the reader makes of the code on the flash and that of the bytes it  *)
(* has read: nothing is wrong; or in each pair of bits one differs, and the *)
(* upper ones say which bit of which byte; or more is wrong than one bit.   *)
Upper(byte)  == { b \div 2 : b \in { c \in byte : c % 2 = 1 } }
Number(bits) == FoldSet(LAMBDA b, n : n + 2 ^ b, 0, bits)

Verdict(stored, computed) ==
  LET wrong == << Xor(stored[1], computed[1]), Xor(stored[2], computed[2]), Xor(stored[3], computed[3]) >>
      OneOfEach(byte, pairs) == \A k \in pairs : Cardinality(byte \cap {2 * k, 2 * k + 1}) = 1
  IN IF \A k \in 1 .. 3 : wrong[k] = {} THEN <<"right">>
     ELSE IF OneOfEach(wrong[1], 0 .. 3) /\ OneOfEach(wrong[2], 0 .. 3) /\ OneOfEach(wrong[3], 1 .. 3)
     THEN <<"bit", Number(Upper(wrong[1])) + 16 * Number(Upper(wrong[2])), Number(Upper(wrong[3])) \div 2>>
     ELSE <<"more">>

(* The block after the given bits, pairs <<index, bit>>, were turned.       *)
Turned(block, wrong) ==
  LET ByteAt(bl, i) == UNION { e[2] : e \in { x \in bl : x[1] = i } }
      Turn(w, bl)   == { e \in bl : e[1] # w[1] } \cup { <<w[1], Xor(ByteAt(bl, w[1]), {w[2]})>> }
  IN FoldSet(Turn, block, wrong)

(* The code of a block tells a reader of one wrong bit which it is, and of  *)
(* two that they are more than one; and a byte of erased flash counts for   *)
(* nothing, so the code of an erased block is that of an erased page.       *)
BitsLocated(block, wrong) ==
  /\ Verdict(buffer_digest(block), buffer_digest(Turned(block, wrong))) =
       CASE Cardinality(wrong) = 0 -> <<"right">>
         [] Cardinality(wrong) = 1 -> LET w == CHOOSE w \in wrong : TRUE IN <<"bit", w[1], w[2]>>
         [] Cardinality(wrong) = 2 -> <<"more">>
  /\ wrong = {} => \A i \in Block : buffer_digest({ <<i, Bits>> }) = << Bits, Bits, Bits >>
=============================================================================
