--------------------------- MODULE PriorityBitmap ---------------------------
(***************************************************************************)
(* The 16-bit word ready_primap of kernel/task.c and its search by halves  *)
(* and a table, which the other modules replace by a set of priorities and *)
(* its minimum.                                                            *)
(***************************************************************************)
EXTENDS Integers, Sequences, FiniteSetsExt

CONSTANT MaxBit   \* TNUM_TPRI - 1: the word has 16 bits
ASSUME MaxBitAssumption == MaxBit \in 0 .. 15

VARIABLES ready_primap,  \* the word, a uint16_t
          nonEmpty       \* the priorities whose lists are not empty

bvars == << ready_primap, nonEmpty >>

PRIMAP_BIT(pri) == 2 ^ pri

\* bitmap & PRIMAP_BIT(pri) is not zero.
IsSet(bitmap, pri) == (bitmap \div PRIMAP_BIT(pri)) % 2 = 1

\* Mutant: += in the place of |=.
primap_set_adds(bitmap, pri) == (bitmap + PRIMAP_BIT(pri)) % 2 ^ 16

primap_set(bitmap, pri) ==
  IF IsSet(bitmap, pri) THEN bitmap ELSE (bitmap + PRIMAP_BIT(pri)) % 2 ^ 16

primap_clear(bitmap, pri) ==
  IF IsSet(bitmap, pri) THEN bitmap - PRIMAP_BIT(pri) ELSE bitmap

bitmap_search_table == << 0, 1, 0, 2, 0, 1, 0, 3, 0, 1, 0, 2, 0, 1, 0 >>

\* The first index of the table is 1 here and 0 in the code, which subtracts 1.
bitmap_search(bitmap) ==
  LET lowByte == bitmap % 256 = 0
      byte    == IF lowByte THEN bitmap \div 256 ELSE bitmap
      lowHalf == byte % 16 = 0
      half    == IF lowHalf THEN byte \div 16 ELSE byte
  IN  (IF lowByte THEN 8 ELSE 0) + (IF lowHalf THEN 4 ELSE 0)
        + bitmap_search_table[half % 16]

BitmapInit == ready_primap = 0 /\ nonEmpty = {}

\* The first task enters the list of pri, the last one leaves it.
Fill(pri) ==
  /\ ready_primap' = primap_set(ready_primap, pri)
  /\ nonEmpty' = nonEmpty \cup {pri}

Drain(pri) ==
  /\ pri \in nonEmpty
  /\ ready_primap' = primap_clear(ready_primap, pri)
  /\ nonEmpty' = nonEmpty \ {pri}

BitmapNext == \E pri \in 0 .. MaxBit : Fill(pri) \/ Drain(pri)

\* The word is zero exactly when every list is empty (primap_empty), and the
\* search finds the highest priority whose list is not empty, for every word.
SearchFindsHighest ==
  IF ready_primap = 0 THEN nonEmpty = {}
  ELSE nonEmpty # {} /\ bitmap_search(ready_primap) = Min(nonEmpty)
=============================================================================
