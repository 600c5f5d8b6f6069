------------------------------ MODULE RawFlash ------------------------------
(***************************************************************************)
(* raw2flash and flash2raw (meta/recipes-devtools/qemu/qemu-helper/        *)
(* raw2flash.c): an image from a pipe is made into the contents of a NAND  *)
(* flash, pages with their spare bytes, and back.  A read gives any number *)
(* of the bytes asked for, up to what is left, and none at the end.  Sizes *)
(* are constants, and the data are their positions in the image: the       *)
(* second partition is what the first is, then what follows.               *)
(***************************************************************************)
EXTENDS Integers, Sequences, SequencesExt

CONSTANTS
  Header,            (* bytes in front of the image: 0x10                    *)
  PartitionStart,    (* PARTITION_START, in whole blocks                     *)
  EccBytes,          (* bytes of a block with one code: 0x100                *)
  BlocksPerPage,     (* page_size / eccbytes                                 *)
  RomSize,           (* romsize, in whole pages                              *)
  MaxRead,           (* the most that is read ahead: 0x800                   *)
  Sizes              (* how much there may be to read                        *)

ASSUME FlashAssumption ==
  /\ Header \in Nat
  /\ EccBytes \in Nat \ {0} /\ BlocksPerPage \in Nat \ {0}
  /\ PartitionStart \in Nat /\ \E n \in 1 .. PartitionStart : PartitionStart = n * EccBytes
  /\ RomSize \in Nat /\ \E n \in 1 .. RomSize : RomSize = n * (EccBytes * BlocksPerPage)
  /\ MaxRead \in Nat /\ EccBytes <= MaxRead
  /\ Sizes \subseteq Nat

VARIABLES
  size,              (* the bytes that are to be read                        *)
  pos,               (* those that have been read                            *)
  step,              (* where the programs are                               *)
  jffs, buffer, partition, count,
  eccbyte,           (* blocks of this page whose codes are in ecc_payload   *)
  formatted,         (* ecc_payload has the markers of jffs2_format          *)
  flash,             (* the pages: data, and the markers of the spare bytes  *)
  raw,               (* what flash2raw has written                           *)
  pages              (* the pages it has read                                *)

fvars == <<size, pos, step, jffs, buffer, partition, count, eccbyte, formatted, flash, raw, pages>>

Erased  == 0         (* 0xff                                                 *)
Garbage == -1        (* what malloc gave                                     *)

(* The bytes of a read that asks for n.                                     *)
CouldRead(n) ==
  LET most == IF size - pos < n THEN size - pos ELSE n
  IN { [k \in 1 .. m |-> pos + k] : m \in (IF most = 0 THEN {0} ELSE 1 .. most) }

Filled(n, byte) == [k \in 1 .. n |-> byte]

(* The header is skipped by one read, however much that gives.              *)
SkipHeader ==
  /\ step = "header"
  /\ \E bytes \in CouldRead(Header) : pos' = pos + Len(bytes)
  /\ step' = "jffs"
  /\ UNCHANGED <<size, jffs, buffer, partition, count, eccbyte, formatted, flash, raw, pages>>

ReadJffs ==
  /\ step = "jffs"
  /\ IF Len(jffs) = PartitionStart
     THEN /\ step' = "fill"
          /\ UNCHANGED <<pos, jffs>>
     ELSE \E bytes \in CouldRead(PartitionStart - Len(jffs)) :
            /\ pos' = pos + Len(bytes)
            /\ step' = IF bytes = <<>> THEN "fill" ELSE step
            /\ jffs' = jffs \o IF bytes = <<>> THEN Filled(PartitionStart - Len(jffs), Garbage) ELSE bytes
  /\ UNCHANGED <<size, buffer, partition, count, eccbyte, formatted, flash, raw, pages>>

-----------------------------------------------------------------------------
(* buffer_fill.  The first partition, and its copy.                         *)
FillFromJffs ==
  /\ step = "fill" /\ count < RomSize /\ count < 2 * PartitionStart
  /\ LET from == IF count < PartitionStart THEN count ELSE count - PartitionStart
     IN buffer' = SubSeq(jffs, from + 1, from + EccBytes)
  /\ partition' = IF count < PartitionStart THEN 0 ELSE 1
  /\ step' = "put"
  /\ UNCHANGED <<size, pos, jffs, count, eccbyte, formatted, flash, raw, pages>>

(* The rest of the second: a block, from as many reads as that takes; at    *)
(* the end, what has come is padded, and nothing is erased flash.           *)
FillFromInput_Short ==
  /\ step = "fill" /\ count < RomSize /\ count >= 2 * PartitionStart
  /\ partition < 2
  /\ IF Len(buffer) >= EccBytes
     THEN /\ step' = "put" /\ partition' = 1
          /\ UNCHANGED <<pos, buffer>>
     ELSE \E bytes \in CouldRead(MaxRead - Len(buffer)) :
            /\ pos' = pos + Len(bytes)
            /\ LET got == buffer \o bytes
               IN buffer' = IF Len(got) < EccBytes THEN got \o Filled(EccBytes - Len(got), Erased) ELSE got
            /\ partition' = IF bytes = <<>> /\ buffer = <<>> THEN 2 ELSE 1
            /\ step' = "put"
  /\ UNCHANGED <<size, jffs, count, eccbyte, formatted, flash, raw, pages>>

FillFromInput ==
  /\ step = "fill" /\ count < RomSize /\ count >= 2 * PartitionStart
  /\ partition < 2
  /\ IF Len(buffer) >= EccBytes
     THEN /\ step' = "put" /\ partition' = 1
          /\ UNCHANGED <<pos, buffer>>
     ELSE \E bytes \in CouldRead(MaxRead - Len(buffer)) :
            /\ pos' = pos + Len(bytes)
            /\ buffer' = buffer \o IF bytes = <<>> THEN Filled(EccBytes - Len(buffer), Erased) ELSE bytes
            /\ partition' = IF bytes = <<>> /\ buffer = <<>> THEN 2 ELSE 1
            /\ step' = IF bytes = <<>> THEN "put" ELSE step
  /\ UNCHANGED <<size, jffs, count, eccbyte, formatted, flash, raw, pages>>

FillErased ==
  /\ step = "fill" /\ count < RomSize /\ count >= 2 * PartitionStart
  /\ partition = 2
  /\ buffer' = Filled(EccBytes, Erased)
  /\ step' = "put"
  /\ UNCHANGED <<size, pos, jffs, partition, count, eccbyte, formatted, flash, raw, pages>>

(* A block is written; with the last of its page go the spare bytes, and    *)
(* those of the next page are prepared.                                     *)
Put ==
  /\ step = "put"
  /\ LET block    == SubSeq(buffer, 1, EccBytes)
         pageEnds == eccbyte + 1 >= BlocksPerPage
     IN /\ flash' = IF eccbyte = 0
                    THEN Append(flash, [ data |-> block, formatted |-> pageEnds /\ formatted ])
                    ELSE [flash EXCEPT ![Len(flash)] =
                            [ data |-> @.data \o block, formatted |-> pageEnds /\ formatted ]]
        /\ eccbyte' = IF pageEnds THEN 0 ELSE eccbyte + 1
        /\ formatted' = IF pageEnds THEN partition < 2 ELSE formatted
  /\ buffer' = SubSeq(buffer, EccBytes + 1, Len(buffer))
  /\ count' = count + EccBytes
  /\ step' = "fill"
  /\ UNCHANGED <<size, pos, jffs, partition, raw, pages>>

(* flash2raw, on what raw2flash has written: a page's data are written and  *)
(* its spare bytes are read and forgotten.                                  *)
Convert ==
  /\ step = "fill" /\ count = RomSize
  /\ step' = "back"
  /\ UNCHANGED <<size, pos, jffs, buffer, partition, count, eccbyte, formatted, flash, raw, pages>>

PageBack ==
  /\ step = "back" /\ Len(raw) < RomSize
  /\ raw' = raw \o flash[pages + 1].data
  /\ pages' = pages + 1
  /\ UNCHANGED <<size, pos, step, jffs, buffer, partition, count, eccbyte, formatted, flash>>

Over == step = "back" /\ Len(raw) = RomSize

FlashInit ==
  /\ size \in Sizes
  /\ pos = 0 /\ step = "header" /\ jffs = <<>> /\ buffer = <<>> /\ partition = 0 /\ count = 0
  /\ eccbyte = 0 /\ formatted = TRUE /\ flash = <<>> /\ raw = <<>> /\ pages = 0

FlashNext ==
  SkipHeader \/ ReadJffs \/ FillFromJffs \/ FillFromInput \/ FillErased \/ Put \/ Convert \/ PageBack

FlashSpec == FlashInit /\ [][FlashNext]_fvars

-----------------------------------------------------------------------------
(* However the bytes come, and whatever their number: the header apart, the *)
(* flash has the start of the image twice, then the rest as far as there is *)
(* room, then erased bytes; every page with bytes of the image is marked as *)
(* jffs2 has it; and flash2raw gives back the same.  That the header comes  *)
(* in one piece, and that the image is no shorter than the partition table, *)
(* the program takes for granted.                                           *)
Image(k) == IF k <= PartitionStart THEN Header + k
            ELSE LET from == Header + k - PartitionStart IN IF from <= size THEN from ELSE Erased

FlashWhole ==
  (Over /\ size >= Header + PartitionStart /\ jffs[1] = Header + 1) =>
    /\ raw = [k \in 1 .. RomSize |-> Image(k)]
    /\ \A p \in DOMAIN flash : (\E b \in ToSet(flash[p].data) : b # Erased) => flash[p].formatted
=============================================================================
