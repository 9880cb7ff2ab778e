------------------------------- MODULE Decode -------------------------------
(***************************************************************************)
(* decode/decode.cpp: the two decoders.  decode walks a decision tree (the *)
(* Decode* modules); decode2 scans the table of instructions.inl (module   *)
(* InstructionTable) and keeps the last row that matches.  test() runs     *)
(* both over every 32-bit word and reports the words on which they differ. *)
(***************************************************************************)
EXTENDS DecodeDPImm, DecodeDPReg, DecodeSystem, DecodeFloat, DecodeSIMD, DecodeLoadStore, InstructionTable, FiniteSetsExt

CONSTANT Words(_)       \* the words test() visits among those with a given top byte

\* op0 = 110, op1 = 1xxx: unconditional branch (register).
BranchRegister(w) ==
    LET opc == bitRange(w, 21, 24)
        arms == 0 :> "BR" @@ 1 :> "BLR" @@ 2 :> "RET" @@ 4 :> "ERET" @@ 5 :> "DRPS"
    IN  IF \/ bitRange(w, 16, 20) # 31 \/ bitRange(w, 10, 15) # 0 \/ bitRange(w, 0, 4) # 0
           \/ opc \in {4, 5} /\ bitRange(w, 5, 9) # 31
        THEN INVALID
        ELSE ArmOf(arms, opc)

decodeSystemOrBranch(w) ==
    LET op0 == bitRange(w, 29, 31)
        op1 == bitRange(w, 22, 25)
    IN  CASE op0 = 2 -> IF op1 >= 8 \/ testBit(w, 4) \/ testBit(w, 24) THEN INVALID ELSE "B_cond"
          [] op0 = 6 -> CASE op1 > 7 -> BranchRegister(w)
                          [] op1 < 4 -> decodeExceptionGenerating(w)
                          [] op1 = 4 -> decodeSystem(w)
                          [] OTHER -> INVALID
          [] op0 \in {0, 4} -> IF testBit(w, 31) THEN "BL" ELSE "B"
          [] op0 \in {1, 5} -> IF op1 < 8 THEN (IF testBit(w, 24) THEN "CBNZ" ELSE "CBZ") \o Sf(w)
                               ELSE IF testBit(w, 24) THEN "TBNZ" ELSE "TBZ"
          [] op0 \in {3, 7} -> INVALID

\* Mutant: the scalar SIMD instructions with bit 29 clear fall to the default arm.
MutantFloatOrSIMD(w) ==
    CASE bitRange(w, 28, 31) \in {1, 3, 9, 11} -> decodeFloat(w)
      [] bitRange(w, 28, 31) \in {0, 2, 4, 6, 7} -> decodeSIMD(w)
      [] OTHER -> INVALID

decodeFloatOrSIMD(w) ==
    CASE bitRange(w, 28, 31) \in {1, 3, 9, 11} -> decodeFloat(w)
      [] bitRange(w, 28, 31) \in {0, 2, 4, 5, 6, 7} -> decodeSIMD(w)
      [] OTHER -> INVALID

decode(w) ==
    LET opcodeType == bitRange(w, 25, 28) IN
    CASE opcodeType < 4 -> INVALID
      [] opcodeType \in {8, 9} -> decodeDPImm(w)
      [] opcodeType \in {10, 11} -> decodeSystemOrBranch(w)
      [] opcodeType \in {4, 6, 12, 14} -> decodeLoadStore(w)
      [] opcodeType \in {5, 13} -> decodeDPReg(w)
      [] opcodeType \in {7, 15} -> decodeFloatOrSIMD(w)

\* Whether the top byte of a word leaves the row possible.
MatchesPage(page, row) ==
    \A f \in row.fields : f[2] >= 24 =>
        IF f[1] >= 24 THEN bitRange(page, f[1] - 24, f[2] - 24) = f[3]
        ELSE bitRange(page, 0, f[2] - 24) = f[3] \div 2^(24 - f[1])

\* gInstructionDecodeTable, as init() fills it: each row with its place.  Only
\* the rows that the top byte of a word leaves possible are ever compared.
gInstructionDecodeTable(page) ==
    UNION {{<<i, row>> : row \in {r \in Sections[i] : MatchesPage(page, r)}} : i \in DOMAIN Sections}

\* Mutant: the lists of forbidden fields are not looked at.
MutantMatches(w, row) == \A f \in row.fields : bitRange(w, f[1], f[2]) = f[3]

Matches(w, row) ==
    /\ \A f \in row.fields : bitRange(w, f[1], f[2]) = f[3]
    /\ \A mask \in row.notAllClear : \E b \in mask : testBit(w, b)
    /\ \A mask \in row.notAllSet : \E b \in mask : ~testBit(w, b)

\* Mutant: the scan stops at the first row that matches.
MutantDecode2(w, table) ==
    LET hits == {entry \in table : Matches(w, entry[2])}
    IN  IF hits = {} THEN INVALID ELSE (CHOOSE h \in hits : \A g \in hits : g[1] >= h[1])[2].id

\* Every matching row overwrites inst.id, so the last one decides.
decode2(w, table) ==
    LET hits == {entry \in table : Matches(w, entry[2])}
    IN  IF hits = {} THEN INVALID ELSE (CHOOSE h \in hits : \A g \in hits : g[1] <= h[1])[2].id

-----------------------------------------------------------------------------
VARIABLES
    page,       \* the top byte of the next words of the loop, 256 when it is over
    decoded,    \* the ids that decode has returned
    reported,   \* the pairs of differing ids that were logged
    interrupt   \* DEBUG_BREAK_INTERRUPT was sent to core 0

vars == <<page, decoded, reported, interrupt>>

Init == page = 0 /\ decoded = {} /\ reported = {} /\ interrupt = FALSE

\* Mutant: the loop runs once more after the last word.
MutantTestPage ==
    /\ page <= 256
    /\ page' = page + 1
    /\ UNCHANGED <<decoded, reported, interrupt>>

\* The iterations of the loop over the words with one top byte.  lastError1
\* and lastError2 only keep a pair from being logged twice in a row.
TestPage ==
    /\ page < 256
    /\ page' = page + 1
    /\ \E table \in {gInstructionDecodeTable(page)} :
       \E ids \in {{<<decode(w), decode2(w, table)>> : w \in Words(page)}} :
          /\ reported' = reported \cup {p \in ids : p[1] # p[2]}
          /\ decoded' = decoded \cup {p[1] : p \in ids}
    /\ UNCHANGED interrupt

TestEnd ==
    /\ page = 256
    /\ ~interrupt
    /\ interrupt' = TRUE
    /\ UNCHANGED <<page, decoded, reported>>

Next == TestPage \/ TestEnd

Spec == Init /\ [][Next]_vars

\* What test() keeps has its type: it stops behind the last word and meets no
\* instruction that the table does not name (decode.cpp:233).
TypeOK ==
    /\ page \in 0 .. 256
    /\ decoded \subseteq {INVALID} \cup {row.id : row \in Table}
    /\ reported \subseteq decoded \X (decoded \cup {INVALID} \cup {row.id : row \in Table})
    /\ interrupt \in BOOLEAN

\* What test() is there to show: the decision tree and the table give a word the
\* same instruction, so it has nothing to log (decode.cpp:243).  test() visits all
\* words; here they are those of Words, a grid and the border of every row.
DecodersAgree == reported = {}

\* The order of the table decides nothing but the hints: when two rows match a
\* word, one of them is HINT and the other is a later row.  (decode2 keeps the
\* last match; a new row that overlaps another would silently win or lose.)
OnlyHintOverlaps ==
    LET table == gInstructionDecodeTable(page % 256) IN
    \A w \in Words(page % 256) :
        LET hits == {e \in table : Matches(w, e[2])}
        IN  \A g, h \in hits : g[1] <= h[1] /\ g # h => g[2].id = "HINT" /\ g[1] < h[1]

\* When the loop is over, every instruction of the table has been decoded from
\* some word: no arm of the decision tree hides another and no row is dead.
EveryInstructionDecodes == interrupt => {row.id : row \in Table} \subseteq decoded
=============================================================================
