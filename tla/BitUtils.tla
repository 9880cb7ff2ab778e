------------------------------ MODULE BitUtils ------------------------------
(***************************************************************************)
(* Instruction words and the helpers of bitutils.h the decoder reads them  *)
(* with.  A 32-bit word is the integer with the same two's complement bits *)
(* (so -2^31 .. 2^31 - 1), because that is the range TLC computes with;    *)
(* \div rounds towards minus infinity, which makes it a shift of the bits. *)
(***************************************************************************)
EXTENDS Integers, Sequences, TLC

\* bitRange<start, end>(bits).  The shift is done in two halves so that no
\* power of two above 2^30 is ever formed.
bitRange(w, start, end) ==
    ((w \div 2^(start \div 2)) \div 2^(start - start \div 2)) % 2^(end - start + 1)

\* testBit<pos>(bits)
testBit(w, pos) == bitRange(w, pos, pos) = 1

\* The word whose top byte is hi and whose other 24 bits are lo.
Word(hi, lo) == (IF hi > 127 THEN hi - 256 ELSE hi) * 2^24 + lo

\* The value a decoder leaves in inst.id when it allocates no instruction.
INVALID == "INVALID"

\* The arm of a switch for k: names is a 0-based list of the arms.
Arm(names, k) == names[k + 1]

\* The arm of a switch with a default arm (or none) that is INVALID.
ArmOf(arms, k) == IF k \in DOMAIN arms THEN arms[k] ELSE INVALID

\* The suffix that every arm of a switch takes, INVALID excepted.
Suffixed(id, suffix) == IF id = INVALID THEN INVALID ELSE id \o suffix

\* _64 or _32 by bit 31 (the locals is64 and sf of the decode functions).
Sf(w) == IF testBit(w, 31) THEN "_64" ELSE "_32"
=============================================================================
