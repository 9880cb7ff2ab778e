---------------------------- MODULE MessageProofs ----------------------------
(***************************************************************************)
(* The layout of messages, for every number of handles and descriptors.    *)
(* doIpcCall reads back what a game packed, and a game finds in a reply    *)
(* what construct put there: the parts of a message are a concatenation,   *)
(* and each is read at the sum of the lengths of the parts before it.      *)
(***************************************************************************)
EXTENDS Ipc, SequenceLemmas, SequenceTheorems, TLAPS

\* A part of a message, at an offset.
Holds(words, offset, part) ==
    /\ offset + Len(part) <= Len(words)
    /\ \A k \in 1 .. Len(part) : words[offset + k] = part[k]

\* Two parts in a row are words.
LEMMA Joined ==
  ASSUME NEW a \in Seq(Nat), NEW b \in Seq(Nat)
  PROVE  a \o b \in Seq(Nat) /\ Len(a \o b) = Len(a) + Len(b) /\ Len(a) \in Nat /\ Len(b) \in Nat
BY ConcatProperties

\* A message holds itself.
LEMMA HoldsAll == ASSUME NEW w \in Seq(Nat) PROVE Holds(w, 0, w)
BY DEF Holds

\* Of two parts in a row, the second follows the first.
LEMMA HoldsParts ==
  ASSUME NEW w \in Seq(Nat), NEW a \in Seq(Nat), NEW b \in Seq(Nat), NEW offset \in Nat,
         Holds(w, offset, a \o b)
  PROVE  Holds(w, offset, a) /\ Holds(w, offset + Len(a), b)
<1>1. /\ Len(a \o b) = Len(a) + Len(b) /\ Len(a) \in Nat /\ Len(b) \in Nat /\ Len(w) \in Nat
      /\ \A k \in 1 .. Len(a) : (a \o b)[k] = a[k]
      /\ \A k \in 1 .. Len(b) : (a \o b)[Len(a) + k] = b[k]
  OBVIOUS
<1>2. /\ offset + (Len(a) + Len(b)) <= Len(w)
      /\ \A k \in 1 .. Len(a) + Len(b) : w[offset + k] = (a \o b)[k]
  BY <1>1 DEF Holds
<1>3. Holds(w, offset, a)
  <2>1. \A k \in 1 .. Len(a) : k \in 1 .. Len(a) + Len(b)
    BY <1>1
  <2>2. \A k \in 1 .. Len(a) : w[offset + k] = a[k]
    BY <1>1, <1>2, <2>1, Zenon
  <2>3. offset + Len(a) <= Len(w)
    BY <1>1, <1>2
  <2> QED BY <2>2, <2>3 DEF Holds
<1>4. Holds(w, offset + Len(a), b)
  <2>1. \A k \in 1 .. Len(b) : /\ Len(a) + k \in 1 .. Len(a) + Len(b)
                               /\ offset + (Len(a) + k) = (offset + Len(a)) + k
    BY <1>1
  <2>2. \A k \in 1 .. Len(b) : w[(offset + Len(a)) + k] = b[k]
    BY <1>1, <1>2, <2>1
  <2> QED BY <1>1, <1>2, <2>2 DEF Holds
<1> QED BY <1>3, <1>4

\* A header of four words.
LEMMA FourWords ==
  ASSUME NEW a \in Nat, NEW b \in Nat, NEW c \in Nat, NEW d \in Nat
  PROVE  /\ <<a, b, c, d>> \in Seq(Nat) /\ Len(<<a, b, c, d>>) = 4
         /\ <<a, b, c, d>>[1] = a /\ <<a, b, c, d>>[2] = b /\ <<a, b, c, d>>[3] = c
OBVIOUS

\* The words of a part.
LEMMA HoldsWord ==
  ASSUME NEW w \in Seq(Nat), NEW part \in Seq(Nat), NEW offset \in Nat, Holds(w, offset, part),
         NEW k \in 1 .. Len(part)
  PROVE  Word(w, offset + k - 1) = part[k] /\ part[k] \in Nat
<1>1. offset + k - 1 < Len(w) /\ offset + k - 1 + 1 = offset + k
  BY DEF Holds
<1>2. w[offset + k] = part[k] /\ part[k] \in Nat
  BY DEF Holds
<1>3. Word(w, offset + k - 1) = w[offset + k - 1 + 1]
  BY <1>1 DEF Word
<1> QED BY <1>1, <1>2, <1>3

----------------------------------------------------------------------------
(* Descriptors.                                                            *)

\* A sequence is the function of its elements.
LEMMA Elements == ASSUME NEW S, NEW s \in Seq(S) PROVE s = [k \in 1 .. Len(s) |-> s[k]]
OBVIOUS

\* The words that hold fields of a descriptor: the parts they are made of, what is
\* read from them, how they are put together.
XParts(size, a, b) == size \in Nat /\ size < Bit16 /\ a \in 0 .. 15 /\ b \in 0 .. 7
ABWParts(a, c, b, f) == a \in 0 .. 15 /\ c \in 0 .. 15 /\ b \in 0 .. 7 /\ f \in 0 .. 3
XReads(word, size, a, b) ==
    /\ word \in Nat /\ bitRange(word, Bit12, 16) = a /\ bitRange(word, Bit6, 8) = b
    /\ bitRange(word, Bit16, Bit16) = size
ABWReads(word, a, c, b, f) ==
    /\ word \in Nat /\ bitRange(word, Bit28, 16) = a /\ bitRange(word, 4, 8) = b
    /\ bitRange(word, Bit24, 16) = c /\ bitRange(word, 1, 4) = f
XFields(size, a, b) == size * Bit16 + a * Bit12 + b * Bit6 + Counter
ABWFields(a, c, b, f) == a * Bit28 + c * Bit24 + b * 4 + f
CFields(size, high) == size * Bit16 + high
XWord(d) == XFields(d.size, d.high % 16, d.high \div 16)
ABWWord(d) == ABWFields(d.high % 16, d.sizeHigh, d.high \div 16, d.flags)
CWord(d) == CFields(d.size, d.high)

\* The upper bits of an address, split in two and put together.
LEMMA SplitHigh ==
  ASSUME NEW high \in 0 .. 127
  PROVE  /\ high % 16 \in 0 .. 15 /\ high \div 16 \in 0 .. 7
         /\ (high % 16) + 16 * (high \div 16) = high
OBVIOUS

\* The fields of a word of an X descriptor are found where they were put.
LEMMA XBits ==
  ASSUME NEW size, NEW a, NEW b, XParts(size, a, b)
  PROVE  XReads(XFields(size, a, b), size, a, b)
<1> USE DEF XParts
<1>0. PICK word : word = XFields(size, a, b)
  OBVIOUS
<1>1. word \in Nat /\ word = size * Bit16 + a * Bit12 + b * Bit6 + 5
  BY <1>0, SMT DEF XFields, Counter, Bit6, Bit12, Bit16
<1>2. word \div Bit12 = size * 16 + a
  BY <1>1, SMT DEF Bit6, Bit12, Bit16
<1>3. word \div Bit6 = size * 1024 + a * 64 + b
  BY <1>1, SMT DEF Bit6, Bit12, Bit16
<1>4. word \div Bit16 = size
  BY <1>1, SMT DEF Bit6, Bit12, Bit16
<1>5. (size * 16 + a) % 16 = a /\ (size * 1024 + a * 64 + b) % 8 = b /\ size % Bit16 = size
  BY SMT DEF Bit16
<1> QED BY <1>0, <1>1, <1>2, <1>3, <1>4, <1>5, SMT DEF bitRange, XReads

\* So are those of the third word of an A, B or W descriptor.
LEMMA ABWBits ==
  ASSUME NEW a, NEW c, NEW b, NEW f, ABWParts(a, c, b, f)
  PROVE  ABWReads(ABWFields(a, c, b, f), a, c, b, f)
<1> USE DEF ABWParts
<1>0. PICK word : word = ABWFields(a, c, b, f)
  OBVIOUS
<1>1. word \in Nat /\ word = a * Bit28 + c * Bit24 + b * 4 + f
  BY <1>0, SMT DEF ABWFields, Bit24, Bit28
<1>2. word \div Bit28 = a
  BY <1>1, SMT DEF Bit24, Bit28
<1>3. word \div Bit24 = a * 16 + c
  BY <1>1, SMT DEF Bit24, Bit28
<1>4. word \div 4 = a * 67108864 + c * 4194304 + b
  BY <1>1, SMT DEF Bit24, Bit28
<1>5. word \div 1 = word /\ word % 4 = f
  BY <1>1, SMT DEF Bit24, Bit28
<1>6. a % 16 = a /\ (a * 16 + c) % 16 = c /\ (a * 67108864 + c * 4194304 + b) % 8 = b
  BY SMT
<1> QED BY <1>0, <1>1, <1>2, <1>3, <1>4, <1>5, <1>6, SMT DEF bitRange, ABWReads

\* And those of the second word of a C descriptor.
LEMMA CBits ==
  ASSUME NEW size \in Nat, size < Bit16, NEW high \in 0 .. 127
  PROVE  /\ CFields(size, high) \in Nat
         /\ bitRange(CFields(size, high), 1, Bit16) = high
         /\ bitRange(CFields(size, high), Bit16, Bit16) = size
<1>0. PICK word : word = CFields(size, high)
  OBVIOUS
<1>1. word \in Nat /\ word = size * Bit16 + high
  BY <1>0, SMT DEF CFields, Bit16
<1>2. word \div 1 = word /\ word % Bit16 = high /\ word \div Bit16 = size /\ size % Bit16 = size
  BY <1>1, SMT DEF Bit16
<1> QED BY <1>0, <1>1, <1>2, SMT DEF bitRange

\* The fields of an X or C descriptor, and what is read from its words.
LEMMA StaticFields ==
  ASSUME NEW ds \in Seq(StaticDescriptors), NEW k \in 1 .. Len(ds)
  PROVE  /\ ds[k] = [low |-> ds[k].low, high |-> ds[k].high, size |-> ds[k].size]
         /\ ds[k].low \in Nat /\ XWord(ds[k]) \in Nat /\ CWord(ds[k]) \in Nat
         /\ bitRange(XWord(ds[k]), Bit12, 16) + 16 * bitRange(XWord(ds[k]), Bit6, 8) = ds[k].high
         /\ bitRange(XWord(ds[k]), Bit16, Bit16) = ds[k].size
         /\ bitRange(CWord(ds[k]), 1, Bit16) = ds[k].high
         /\ bitRange(CWord(ds[k]), Bit16, Bit16) = ds[k].size
<1>1. PICK d \in StaticDescriptors : d = ds[k]
  OBVIOUS
<1>2. /\ d = [low |-> d.low, high |-> d.high, size |-> d.size]
      /\ d.low \in Nat /\ d.high \in 0 .. 127 /\ d.size \in Nat /\ d.size < Bit16
  <2>1. d.low \in Nat /\ d.high \in 0 .. 127 /\ d.size \in 0 .. Bit16 - 1
    BY DEF StaticDescriptors
  <2>2. d = [low |-> d.low, high |-> d.high, size |-> d.size]
    BY DEF StaticDescriptors
  <2>3. d.size \in Nat /\ d.size < Bit16
    <3>1. Bit16 \in Nat
      BY SMT DEF Bit16
    <3> QED BY <2>1, <3>1
  <2> QED BY <2>1, <2>2, <2>3
<1>3. PICK lo \in 0 .. 15, hi \in 0 .. 7 : lo = d.high % 16 /\ hi = d.high \div 16 /\ lo + 16 * hi = d.high
  BY <1>2, SplitHigh
<1>4. XWord(d) = XFields(d.size, lo, hi)
  BY <1>3 DEF XWord
<1>5. /\ XWord(d) \in Nat /\ bitRange(XWord(d), Bit12, 16) = lo /\ bitRange(XWord(d), Bit6, 8) = hi
      /\ bitRange(XWord(d), Bit16, Bit16) = d.size
  <2>1. XParts(d.size, lo, hi)
    BY <1>2, Zenon DEF XParts
  <2>2. XReads(XFields(d.size, lo, hi), d.size, lo, hi)
    BY <2>1, XBits, Zenon
  <2> QED BY <1>4, <2>2 DEF XReads
<1>6. /\ CWord(d) \in Nat /\ bitRange(CWord(d), 1, Bit16) = d.high
      /\ bitRange(CWord(d), Bit16, Bit16) = d.size
  BY <1>2, CBits DEF CWord
<1> QED BY <1>1, <1>2, <1>3, <1>5, <1>6

\* The fields of an A, B or W descriptor, and what is read from its third word.
LEMMA BufferFields ==
  ASSUME NEW ds \in Seq(BufferDescriptors), NEW k \in 1 .. Len(ds)
  PROVE  /\ ds[k] = [low |-> ds[k].low, high |-> ds[k].high, size |-> ds[k].size,
                     sizeHigh |-> ds[k].sizeHigh, flags |-> ds[k].flags]
         /\ ds[k].low \in Nat /\ ds[k].size \in Nat /\ ABWWord(ds[k]) \in Nat
         /\ bitRange(ABWWord(ds[k]), Bit28, 16) + 16 * bitRange(ABWWord(ds[k]), 4, 8) = ds[k].high
         /\ bitRange(ABWWord(ds[k]), Bit24, 16) = ds[k].sizeHigh
         /\ bitRange(ABWWord(ds[k]), 1, 4) = ds[k].flags
<1>1. PICK d \in BufferDescriptors : d = ds[k]
  OBVIOUS
<1>2. /\ d = [low |-> d.low, high |-> d.high, size |-> d.size, sizeHigh |-> d.sizeHigh,
              flags |-> d.flags]
      /\ d.low \in Nat /\ d.high \in 0 .. 127 /\ d.size \in Nat /\ d.sizeHigh \in 0 .. 15
      /\ d.flags \in 0 .. 3
  BY DEF BufferDescriptors
<1>3. PICK lo \in 0 .. 15, hi \in 0 .. 7 : lo = d.high % 16 /\ hi = d.high \div 16 /\ lo + 16 * hi = d.high
  BY <1>2, SplitHigh
<1>4. ABWWord(d) = ABWFields(lo, d.sizeHigh, hi, d.flags)
  BY <1>3 DEF ABWWord
<1>5. /\ ABWWord(d) \in Nat
      /\ bitRange(ABWWord(d), Bit28, 16) = lo /\ bitRange(ABWWord(d), 4, 8) = hi
      /\ bitRange(ABWWord(d), Bit24, 16) = d.sizeHigh /\ bitRange(ABWWord(d), 1, 4) = d.flags
  <2>1. ABWParts(lo, d.sizeHigh, hi, d.flags)
    BY <1>2, Zenon DEF ABWParts
  <2>2. ABWReads(ABWFields(lo, d.sizeHigh, hi, d.flags), lo, d.sizeHigh, hi, d.flags)
    BY <2>1, ABWBits, Zenon
  <2> QED BY <1>4, <2>2 DEF ABWReads
<1> QED BY <1>1, <1>2, <1>3, <1>5

\* The words of n descriptors of two words each.
LEMMA PackedTwo ==
  ASSUME NEW n \in Nat, NEW j \in 1 .. 2 * n
  PROVE  /\ ((j - 1) \div 2) + 1 \in 1 .. n
         /\ ((j - 1) % 2) + 1 \in {1, 2}
OBVIOUS

\* The words of n descriptors of three words each.
LEMMA PackedThree ==
  ASSUME NEW n \in Nat, NEW j \in 1 .. 3 * n
  PROVE  /\ ((j - 1) \div 3) + 1 \in 1 .. n
         /\ ((j - 1) % 3) + 1 \in {1, 2, 3}
OBVIOUS

\* X descriptors, packed.
LEMMA PackedX ==
  ASSUME NEW ds \in Seq(StaticDescriptors)
  PROVE  LET p == Packed(2, PackX, ds)
         IN  /\ p \in Seq(Nat) /\ Len(p) = 2 * Len(ds)
             /\ \A k \in 1 .. Len(ds) : /\ p[2 * (k - 1) + 1] = XWord(ds[k])
                                        /\ p[2 * (k - 1) + 2] = ds[k].low
<1> DEFINE p == Packed(2, PackX, ds)
           n == Len(ds)
<1>1. n \in Nat
  OBVIOUS
<1>2. p = [j \in 1 .. 2 * n |-> PackX(ds[((j - 1) \div 2) + 1])[((j - 1) % 2) + 1]]
  BY DEF Packed
<1> HIDE DEF p
<1>3. \A k \in 1 .. n : /\ PackX(ds[k])[1] = XWord(ds[k]) /\ PackX(ds[k])[1] \in Nat
                        /\ PackX(ds[k])[2] = ds[k].low /\ PackX(ds[k])[2] \in Nat
  <2>1. \A k \in 1 .. n : ds[k].low \in Nat /\ XWord(ds[k]) \in Nat
    BY StaticFields
  <2> QED BY <2>1 DEF PackX, XWord, XFields
<1>4. \A j \in 1 .. 2 * n : p[j] \in Nat
  BY <1>1, <1>2, <1>3, PackedTwo
<1>5. \A k \in 1 .. n : /\ 2 * (k - 1) + 1 \in 1 .. 2 * n /\ 2 * (k - 1) + 2 \in 1 .. 2 * n
                        /\ (((2 * (k - 1) + 1) - 1) \div 2) + 1 = k
                        /\ (((2 * (k - 1) + 1) - 1) % 2) + 1 = 1
                        /\ (((2 * (k - 1) + 2) - 1) \div 2) + 1 = k
                        /\ (((2 * (k - 1) + 2) - 1) % 2) + 1 = 2
  BY <1>1
<1>6. p \in Seq(Nat) /\ Len(p) = 2 * n
  <2>1. 2 * n \in Nat
    BY <1>1
  <2> QED BY <1>2, <1>4, <2>1
<1>7. \A k \in 1 .. n : /\ p[2 * (k - 1) + 1] = PackX(ds[k])[1]
                        /\ p[2 * (k - 1) + 2] = PackX(ds[k])[2]
  BY <1>2, <1>5
<1> QED BY <1>3, <1>6, <1>7 DEF p

\* C descriptors, packed.
LEMMA PackedC ==
  ASSUME NEW ds \in Seq(StaticDescriptors)
  PROVE  LET p == Packed(2, PackC, ds)
         IN  /\ p \in Seq(Nat) /\ Len(p) = 2 * Len(ds)
             /\ \A k \in 1 .. Len(ds) : /\ p[2 * (k - 1) + 1] = ds[k].low
                                        /\ p[2 * (k - 1) + 2] = CWord(ds[k])
<1> DEFINE p == Packed(2, PackC, ds)
           n == Len(ds)
<1>1. n \in Nat
  OBVIOUS
<1>2. p = [j \in 1 .. 2 * n |-> PackC(ds[((j - 1) \div 2) + 1])[((j - 1) % 2) + 1]]
  BY DEF Packed
<1> HIDE DEF p
<1>3. \A k \in 1 .. n : /\ PackC(ds[k])[1] = ds[k].low /\ PackC(ds[k])[1] \in Nat
                        /\ PackC(ds[k])[2] = CWord(ds[k]) /\ PackC(ds[k])[2] \in Nat
  <2>1. \A k \in 1 .. n : ds[k].low \in Nat /\ CWord(ds[k]) \in Nat
    BY StaticFields
  <2> QED BY <2>1 DEF PackC, CWord, CFields
<1>4. \A j \in 1 .. 2 * n : p[j] \in Nat
  BY <1>1, <1>2, <1>3, PackedTwo
<1>5. \A k \in 1 .. n : /\ 2 * (k - 1) + 1 \in 1 .. 2 * n /\ 2 * (k - 1) + 2 \in 1 .. 2 * n
                        /\ (((2 * (k - 1) + 1) - 1) \div 2) + 1 = k
                        /\ (((2 * (k - 1) + 1) - 1) % 2) + 1 = 1
                        /\ (((2 * (k - 1) + 2) - 1) \div 2) + 1 = k
                        /\ (((2 * (k - 1) + 2) - 1) % 2) + 1 = 2
  BY <1>1
<1>6. p \in Seq(Nat) /\ Len(p) = 2 * n
  <2>1. 2 * n \in Nat
    BY <1>1
  <2> QED BY <1>2, <1>4, <2>1
<1>7. \A k \in 1 .. n : /\ p[2 * (k - 1) + 1] = PackC(ds[k])[1]
                        /\ p[2 * (k - 1) + 2] = PackC(ds[k])[2]
  BY <1>2, <1>5
<1> QED BY <1>3, <1>6, <1>7 DEF p

\* A, B and W descriptors, packed.
LEMMA PackedABW ==
  ASSUME NEW ds \in Seq(BufferDescriptors)
  PROVE  LET p == Packed(3, PackABW, ds)
         IN  /\ p \in Seq(Nat) /\ Len(p) = 3 * Len(ds)
             /\ \A k \in 1 .. Len(ds) : /\ p[3 * (k - 1) + 1] = ds[k].size
                                        /\ p[3 * (k - 1) + 2] = ds[k].low
                                        /\ p[3 * (k - 1) + 3] = ABWWord(ds[k])
<1> DEFINE p == Packed(3, PackABW, ds)
           n == Len(ds)
<1>1. n \in Nat
  OBVIOUS
<1>2. p = [j \in 1 .. 3 * n |-> PackABW(ds[((j - 1) \div 3) + 1])[((j - 1) % 3) + 1]]
  BY DEF Packed
<1> HIDE DEF p
<1>3. \A k \in 1 .. n : /\ PackABW(ds[k])[1] = ds[k].size /\ PackABW(ds[k])[1] \in Nat
                        /\ PackABW(ds[k])[2] = ds[k].low /\ PackABW(ds[k])[2] \in Nat
                        /\ PackABW(ds[k])[3] = ABWWord(ds[k]) /\ PackABW(ds[k])[3] \in Nat
  <2>1. \A k \in 1 .. n : ds[k].low \in Nat /\ ds[k].size \in Nat /\ ABWWord(ds[k]) \in Nat
    BY BufferFields
  <2> QED BY <2>1 DEF PackABW, ABWWord, ABWFields
<1>4. \A j \in 1 .. 3 * n : p[j] \in Nat
  BY <1>1, <1>2, <1>3, PackedThree
<1>5. \A k \in 1 .. n : /\ 3 * (k - 1) + 1 \in 1 .. 3 * n /\ 3 * (k - 1) + 2 \in 1 .. 3 * n
                        /\ 3 * (k - 1) + 3 \in 1 .. 3 * n
                        /\ (((3 * (k - 1) + 1) - 1) \div 3) + 1 = k
                        /\ (((3 * (k - 1) + 1) - 1) % 3) + 1 = 1
                        /\ (((3 * (k - 1) + 2) - 1) \div 3) + 1 = k
                        /\ (((3 * (k - 1) + 2) - 1) % 3) + 1 = 2
                        /\ (((3 * (k - 1) + 3) - 1) \div 3) + 1 = k
                        /\ (((3 * (k - 1) + 3) - 1) % 3) + 1 = 3
  BY <1>1
<1>6. p \in Seq(Nat) /\ Len(p) = 3 * n
  <2>1. 3 * n \in Nat
    BY <1>1
  <2> QED BY <1>2, <1>4, <2>1
<1>7. \A k \in 1 .. n : /\ p[3 * (k - 1) + 1] = PackABW(ds[k])[1]
                        /\ p[3 * (k - 1) + 2] = PackABW(ds[k])[2]
                        /\ p[3 * (k - 1) + 3] = PackABW(ds[k])[3]
  BY <1>2, <1>5
<1> QED BY <1>3, <1>6, <1>7 DEF p

\* The X descriptors are read back.
LEMMA ReadX ==
  ASSUME NEW ds \in Seq(StaticDescriptors), NEW msg, NEW offset \in Nat, msg.words \in Seq(Nat),
         msg.numStaticIn = Len(ds), Holds(msg.words, offset, Packed(2, PackX, ds))
  PROVE  StaticInDescriptors(msg, offset) = ds
<1>1. PICK p : p = Packed(2, PackX, ds)
  OBVIOUS
<1>2. PICK w \in Seq(Nat) : w = msg.words
  OBVIOUS
<1>3. /\ p \in Seq(Nat) /\ Len(p) = 2 * Len(ds) /\ Holds(w, offset, p)
      /\ \A k \in 1 .. Len(ds) : /\ p[2 * (k - 1) + 1] = XWord(ds[k])
                                 /\ p[2 * (k - 1) + 2] = ds[k].low
  BY <1>1, <1>2, PackedX
<1>4. ASSUME NEW k \in 1 .. Len(ds)
      PROVE  /\ Word(w, offset + 2 * (k - 1)) = XWord(ds[k])
             /\ Word(w, offset + 2 * (k - 1) + 1) = ds[k].low
  <2>1. /\ 2 * (k - 1) + 1 \in 1 .. Len(p) /\ 2 * (k - 1) + 2 \in 1 .. Len(p)
        /\ offset + (2 * (k - 1) + 1) - 1 = offset + 2 * (k - 1)
        /\ offset + (2 * (k - 1) + 2) - 1 = offset + 2 * (k - 1) + 1
    BY <1>3
  <2>2. /\ Word(w, offset + (2 * (k - 1) + 1) - 1) = p[2 * (k - 1) + 1]
        /\ Word(w, offset + (2 * (k - 1) + 2) - 1) = p[2 * (k - 1) + 2]
    BY <1>3, <2>1, HoldsWord
  <2> QED BY <1>3, <2>1, <2>2
<1>5. \A k \in 1 .. Len(ds) :
        ds[k] = [low  |-> Word(w, offset + 2 * (k - 1) + 1),
                 high |-> bitRange(Word(w, offset + 2 * (k - 1)), Bit12, 16)
                            + 16 * bitRange(Word(w, offset + 2 * (k - 1)), Bit6, 8),
                 size |-> bitRange(Word(w, offset + 2 * (k - 1)), Bit16, Bit16)]
  <2> SUFFICES ASSUME NEW k \in 1 .. Len(ds)
               PROVE  ds[k] = [low  |-> Word(w, offset + 2 * (k - 1) + 1),
                               high |-> bitRange(Word(w, offset + 2 * (k - 1)), Bit12, 16)
                                          + 16 * bitRange(Word(w, offset + 2 * (k - 1)), Bit6, 8),
                               size |-> bitRange(Word(w, offset + 2 * (k - 1)), Bit16, Bit16)]
    OBVIOUS
  <2>1. /\ ds[k] = [low |-> ds[k].low, high |-> ds[k].high, size |-> ds[k].size]
        /\ bitRange(XWord(ds[k]), Bit12, 16) + 16 * bitRange(XWord(ds[k]), Bit6, 8) = ds[k].high
        /\ bitRange(XWord(ds[k]), Bit16, Bit16) = ds[k].size
    BY StaticFields, Zenon
  <2>2. /\ Word(w, offset + 2 * (k - 1)) = XWord(ds[k])
        /\ Word(w, offset + 2 * (k - 1) + 1) = ds[k].low
    BY <1>4
  <2> QED BY <2>1, <2>2, Zenon
<1>6. ds = [k \in 1 .. Len(ds) |-> ds[k]]
  BY Elements
<1> QED BY <1>2, <1>5, <1>6 DEF StaticInDescriptors

\* The A, B and W descriptors are read back.
LEMMA ReadABW ==
  ASSUME NEW ds \in Seq(BufferDescriptors), NEW msg, NEW offset \in Nat, msg.words \in Seq(Nat),
         Holds(msg.words, offset, Packed(3, PackABW, ds))
  PROVE  RegularDescriptors(msg, Len(ds), offset) = ds
<1>1. PICK p : p = Packed(3, PackABW, ds)
  OBVIOUS
<1>2. PICK w \in Seq(Nat) : w = msg.words
  OBVIOUS
<1>3. /\ p \in Seq(Nat) /\ Len(p) = 3 * Len(ds) /\ Holds(w, offset, p)
      /\ \A k \in 1 .. Len(ds) : /\ p[3 * (k - 1) + 1] = ds[k].size
                                 /\ p[3 * (k - 1) + 2] = ds[k].low
                                 /\ p[3 * (k - 1) + 3] = ABWWord(ds[k])
  BY <1>1, <1>2, PackedABW
<1>4. ASSUME NEW k \in 1 .. Len(ds)
      PROVE  /\ Word(w, offset + 3 * (k - 1)) = ds[k].size
             /\ Word(w, offset + 3 * (k - 1) + 1) = ds[k].low
             /\ Word(w, offset + 3 * (k - 1) + 2) = ABWWord(ds[k])
  <2>1. /\ 3 * (k - 1) + 1 \in 1 .. Len(p) /\ 3 * (k - 1) + 2 \in 1 .. Len(p)
        /\ 3 * (k - 1) + 3 \in 1 .. Len(p)
        /\ offset + (3 * (k - 1) + 1) - 1 = offset + 3 * (k - 1)
        /\ offset + (3 * (k - 1) + 2) - 1 = offset + 3 * (k - 1) + 1
        /\ offset + (3 * (k - 1) + 3) - 1 = offset + 3 * (k - 1) + 2
    <3>1. PICK n \in Nat : n = Len(ds)
      OBVIOUS
    <3>2. Len(p) = 3 * n /\ k \in 1 .. n
      BY <1>3, <3>1
    <3> QED BY <3>1, <3>2
  <2>2. \A j \in 1 .. Len(p) : Word(w, offset + j - 1) = p[j]
    BY <1>3, HoldsWord
  <2>3. /\ Word(w, offset + (3 * (k - 1) + 1) - 1) = p[3 * (k - 1) + 1]
        /\ Word(w, offset + (3 * (k - 1) + 2) - 1) = p[3 * (k - 1) + 2]
        /\ Word(w, offset + (3 * (k - 1) + 3) - 1) = p[3 * (k - 1) + 3]
    BY <2>1, <2>2, Zenon
  <2> QED BY <1>3, <2>1, <2>3
<1>5. \A k \in 1 .. Len(ds) :
        ds[k] = [low      |-> Word(w, offset + 3 * (k - 1) + 1),
                 high     |-> bitRange(Word(w, offset + 3 * (k - 1) + 2), Bit28, 16)
                                + 16 * bitRange(Word(w, offset + 3 * (k - 1) + 2), 4, 8),
                 size     |-> Word(w, offset + 3 * (k - 1)),
                 sizeHigh |-> bitRange(Word(w, offset + 3 * (k - 1) + 2), Bit24, 16),
                 flags    |-> bitRange(Word(w, offset + 3 * (k - 1) + 2), 1, 4)]
  <2> SUFFICES ASSUME NEW k \in 1 .. Len(ds)
               PROVE  ds[k] =
                        [low      |-> Word(w, offset + 3 * (k - 1) + 1),
                         high     |-> bitRange(Word(w, offset + 3 * (k - 1) + 2), Bit28, 16)
                                        + 16 * bitRange(Word(w, offset + 3 * (k - 1) + 2), 4, 8),
                         size     |-> Word(w, offset + 3 * (k - 1)),
                         sizeHigh |-> bitRange(Word(w, offset + 3 * (k - 1) + 2), Bit24, 16),
                         flags    |-> bitRange(Word(w, offset + 3 * (k - 1) + 2), 1, 4)]
    OBVIOUS
  <2>1. /\ ds[k] = [low |-> ds[k].low, high |-> ds[k].high, size |-> ds[k].size,
                    sizeHigh |-> ds[k].sizeHigh, flags |-> ds[k].flags]
        /\ bitRange(ABWWord(ds[k]), Bit28, 16) + 16 * bitRange(ABWWord(ds[k]), 4, 8) = ds[k].high
        /\ bitRange(ABWWord(ds[k]), Bit24, 16) = ds[k].sizeHigh
        /\ bitRange(ABWWord(ds[k]), 1, 4) = ds[k].flags
    BY BufferFields, Zenon
  <2>2. /\ Word(w, offset + 3 * (k - 1)) = ds[k].size
        /\ Word(w, offset + 3 * (k - 1) + 1) = ds[k].low
        /\ Word(w, offset + 3 * (k - 1) + 2) = ABWWord(ds[k])
    BY <1>4
  <2> QED BY <2>1, <2>2, Zenon
<1>6. ds = [k \in 1 .. Len(ds) |-> ds[k]]
  BY Elements
<1> QED BY <1>2, <1>5, <1>6 DEF RegularDescriptors

\* The C descriptors of memory below 4 GB are read back.
LEMMA ReadC ==
  ASSUME NEW ds \in Seq(StaticDescriptors), NEW msg, NEW start \in Nat, msg.words \in Seq(Nat),
         msg.wordCount \in Nat, Holds(msg.words, start + msg.wordCount, Packed(2, PackC, ds)),
         \A k \in 1 .. Len(ds) : ds[k].high = 0,
         Len(ds) = IF msg.cFlags < 2 THEN 0 ELSE IF msg.cFlags = 2 THEN 1 ELSE msg.cFlags - 2
  PROVE  StaticOutDescriptors(msg, start) = ds
<1>1. PICK p : p = Packed(2, PackC, ds)
  OBVIOUS
<1>2. PICK w \in Seq(Nat) : w = msg.words
  OBVIOUS
<1>3. PICK offset \in Nat : offset = start + msg.wordCount
  OBVIOUS
<1>4. /\ p \in Seq(Nat) /\ Len(p) = 2 * Len(ds) /\ Holds(w, offset, p)
      /\ \A k \in 1 .. Len(ds) : /\ p[2 * (k - 1) + 1] = ds[k].low
                                 /\ p[2 * (k - 1) + 2] = CWord(ds[k])
  BY <1>1, <1>2, <1>3, PackedC
<1>5. ASSUME NEW k \in 1 .. Len(ds)
      PROVE  /\ Word(w, offset + 2 * (k - 1)) = ds[k].low
             /\ Word(w, offset + 2 * (k - 1) + 1) = CWord(ds[k])
  <2>1. /\ 2 * (k - 1) + 1 \in 1 .. Len(p) /\ 2 * (k - 1) + 2 \in 1 .. Len(p)
        /\ offset + (2 * (k - 1) + 1) - 1 = offset + 2 * (k - 1)
        /\ offset + (2 * (k - 1) + 2) - 1 = offset + 2 * (k - 1) + 1
    BY <1>4
  <2>2. /\ Word(w, offset + (2 * (k - 1) + 1) - 1) = p[2 * (k - 1) + 1]
        /\ Word(w, offset + (2 * (k - 1) + 2) - 1) = p[2 * (k - 1) + 2]
    BY <1>4, <2>1, HoldsWord
  <2> QED BY <1>4, <2>1, <2>2
<1>6. \A k \in 1 .. Len(ds) :
        ds[k] = [low  |-> Word(w, offset + 2 * (k - 1))
                            + bitRange(Word(w, offset + 2 * (k - 1) + 1), 1, Bit16),
                 high |-> 0,
                 size |-> bitRange(Word(w, offset + 2 * (k - 1) + 1), Bit16, Bit16)]
  <2> SUFFICES ASSUME NEW k \in 1 .. Len(ds)
               PROVE  ds[k] = [low  |-> Word(w, offset + 2 * (k - 1))
                                          + bitRange(Word(w, offset + 2 * (k - 1) + 1), 1, Bit16),
                               high |-> 0,
                               size |-> bitRange(Word(w, offset + 2 * (k - 1) + 1), Bit16, Bit16)]
    OBVIOUS
  <2>1. /\ ds[k] = [low |-> ds[k].low, high |-> ds[k].high, size |-> ds[k].size]
        /\ ds[k].low \in Nat /\ bitRange(CWord(ds[k]), 1, Bit16) = ds[k].high
        /\ bitRange(CWord(ds[k]), Bit16, Bit16) = ds[k].size
    BY StaticFields, Zenon
  <2>2. /\ Word(w, offset + 2 * (k - 1)) = ds[k].low
        /\ Word(w, offset + 2 * (k - 1) + 1) = CWord(ds[k])
    BY <1>5
  <2>3. ds[k].high = 0 /\ ds[k].low + 0 = ds[k].low
    BY <2>1
  <2> QED BY <2>1, <2>2, <2>3, Zenon
<1>7. ds = [k \in 1 .. Len(ds) |-> ds[k]]
  BY Elements
<1> QED BY <1>2, <1>3, <1>6, <1>7 DEF StaticOutDescriptors

----------------------------------------------------------------------------
(* Requests.                                                               *)

\* What a game sends: a type, a command and its arguments, on a domain or not, with
\* handles and descriptors.
IsRequest(r) ==
    /\ r.domainCmd \in Nat /\ r.object \in Nat /\ r.cmdId \in Nat /\ r.args \in Seq(Nat)
    /\ IsShape(r.shape)

\* The parts of the header, in their order.
HasHandles(s) == s.pid \/ s.copied # << >> \/ s.moved # << >>
HandleWord(s) == IF HasHandles(s) THEN <<0>> ELSE << >>
PidWords(s) == IF s.pid THEN <<PID, 0>> ELSE << >>
ToHandles(s) == <<0, 0>> \o HandleWord(s)
ToCopied(s) == ToHandles(s) \o PidWords(s)
ToMoved(s) == ToCopied(s) \o s.copied
ToX(s) == ToMoved(s) \o s.moved
ToA(s) == ToX(s) \o Packed(2, PackX, s.X)
ToB(s) == ToA(s) \o Packed(3, PackABW, s.A)
ToW(s) == ToB(s) \o Packed(3, PackABW, s.B)
Header(s) == ToW(s) \o Packed(3, PackABW, s.W)

\* The parts of the raw data.
Padding(s) == PadTo4(Len(Header(s)))
DomainWords(r) == IF r.domainCmd # 0 THEN <<r.domainCmd, r.object, 0, 0>> ELSE << >>
ToCommand(r) == Zeros(Padding(r.shape)) \o DomainWords(r)
ToArgs(r) == ToCommand(r) \o <<SFCI, 0, r.cmdId, 0>>
ToPadding(r) == ToArgs(r) \o r.args
ToSizes(r) == ToPadding(r) \o Zeros(4 - Padding(r.shape))
RawData(r) == ToSizes(r) \o Zeros((Len(r.shape.C) + 1) \div 2)
Message(r) == Header(r.shape) \o RawData(r) \o Packed(2, PackC, r.shape.C)

\* The fields of a packed request.
LEMMA PackFields ==
  ASSUME NEW r
  PROVE  LET s == r.shape
             msg == Pack(r)
         IN  /\ msg.type = r.type /\ msg.numStaticIn = Len(s.X) /\ msg.numSend = Len(s.A)
             /\ msg.numRecv = Len(s.B) /\ msg.numTrans = Len(s.W)
             /\ msg.wordCount = Len(RawData(r))
             /\ msg.cFlags = (IF s.C = << >> THEN 0 ELSE IF s.single THEN 2 ELSE 2 + Len(s.C))
             /\ msg.handleDescriptor = HasHandles(s) /\ msg.sendPid = s.pid
             /\ msg.copy = Len(s.copied) /\ msg.move = Len(s.moved)
             /\ msg.words = Message(r)
BY DEF Pack, Message, RawData, ToSizes, ToPadding, ToArgs, ToCommand, DomainWords, Padding, Header,
       ToW, ToB, ToA, ToX, ToMoved, ToCopied, ToHandles, PidWords, HandleWord, HasHandles

\* Padding.
LEMMA PadFacts == ASSUME NEW n \in Nat PROVE PadTo4(n) \in 0 .. 3
BY DEF PadTo4

\* The words of the sizes of the C buffers.
LEMMA SizeWords == ASSUME NEW n \in Nat PROVE (n + 1) \div 2 \in Nat
OBVIOUS

\* Zeros are words.
LEMMA ZerosFacts == ASSUME NEW n \in Nat PROVE Zeros(n) \in Seq(Nat) /\ Len(Zeros(n)) = n
BY DEF Zeros

\* The lengths of the parts of the header.
LEMMA HeaderLengths ==
  ASSUME NEW s, IsShape(s)
  PROVE  /\ HandleWord(s) \in Seq(Nat) /\ Len(HandleWord(s)) = (IF HasHandles(s) THEN 1 ELSE 0)
         /\ PidWords(s) \in Seq(Nat) /\ Len(PidWords(s)) = (IF s.pid THEN 2 ELSE 0)
         /\ ToHandles(s) \in Seq(Nat) /\ Len(ToHandles(s)) = 2 + (IF HasHandles(s) THEN 1 ELSE 0)
         /\ ToCopied(s) \in Seq(Nat) /\ Len(ToCopied(s)) = Len(ToHandles(s)) + (IF s.pid THEN 2 ELSE 0)
         /\ ToMoved(s) \in Seq(Nat) /\ Len(ToMoved(s)) = Len(ToCopied(s)) + Len(s.copied)
         /\ ToX(s) \in Seq(Nat) /\ Len(ToX(s)) = Len(ToMoved(s)) + Len(s.moved)
         /\ ToA(s) \in Seq(Nat) /\ Len(ToA(s)) = Len(ToX(s)) + 2 * Len(s.X)
         /\ ToB(s) \in Seq(Nat) /\ Len(ToB(s)) = Len(ToA(s)) + 3 * Len(s.A)
         /\ ToW(s) \in Seq(Nat) /\ Len(ToW(s)) = Len(ToB(s)) + 3 * Len(s.B)
         /\ Header(s) \in Seq(Nat) /\ Len(Header(s)) = Len(ToW(s)) + 3 * Len(s.W)
<1>1. /\ s.pid \in BOOLEAN /\ s.copied \in Seq(Nat) /\ s.moved \in Seq(Nat)
      /\ s.X \in Seq(StaticDescriptors) /\ s.A \in Seq(BufferDescriptors) /\ s.B \in Seq(BufferDescriptors)
      /\ s.W \in Seq(BufferDescriptors)
  BY DEF IsShape
<1>2. HandleWord(s) \in Seq(Nat) /\ Len(HandleWord(s)) = (IF HasHandles(s) THEN 1 ELSE 0)
  BY DEF HandleWord
<1>3. PidWords(s) \in Seq(Nat) /\ Len(PidWords(s)) = (IF s.pid THEN 2 ELSE 0)
  BY DEF PidWords, PID
<1>4. ToHandles(s) \in Seq(Nat) /\ Len(ToHandles(s)) = 2 + Len(HandleWord(s))
  <2>1. <<0, 0>> \in Seq(Nat) /\ Len(<<0, 0>>) = 2
    OBVIOUS
  <2> QED BY <1>2, <2>1, Joined DEF ToHandles
<1>5. ToCopied(s) \in Seq(Nat) /\ Len(ToCopied(s)) = Len(ToHandles(s)) + Len(PidWords(s))
  BY <1>3, <1>4, Joined DEF ToCopied
<1>6. ToMoved(s) \in Seq(Nat) /\ Len(ToMoved(s)) = Len(ToCopied(s)) + Len(s.copied)
  BY <1>1, <1>5, Joined DEF ToMoved
<1>7. ToX(s) \in Seq(Nat) /\ Len(ToX(s)) = Len(ToMoved(s)) + Len(s.moved)
  BY <1>1, <1>6, Joined DEF ToX
<1>8. ToA(s) \in Seq(Nat) /\ Len(ToA(s)) = Len(ToX(s)) + 2 * Len(s.X)
  <2>1. Packed(2, PackX, s.X) \in Seq(Nat) /\ Len(Packed(2, PackX, s.X)) = 2 * Len(s.X)
    BY <1>1, PackedX
  <2> QED BY <1>7, <2>1, Joined DEF ToA
<1>9. ToB(s) \in Seq(Nat) /\ Len(ToB(s)) = Len(ToA(s)) + 3 * Len(s.A)
  <2>1. Packed(3, PackABW, s.A) \in Seq(Nat) /\ Len(Packed(3, PackABW, s.A)) = 3 * Len(s.A)
    BY <1>1, PackedABW
  <2> QED BY <1>8, <2>1, Joined DEF ToB
<1>10. ToW(s) \in Seq(Nat) /\ Len(ToW(s)) = Len(ToB(s)) + 3 * Len(s.B)
  <2>1. Packed(3, PackABW, s.B) \in Seq(Nat) /\ Len(Packed(3, PackABW, s.B)) = 3 * Len(s.B)
    BY <1>1, PackedABW
  <2> QED BY <1>9, <2>1, Joined DEF ToW
<1>11. Header(s) \in Seq(Nat) /\ Len(Header(s)) = Len(ToW(s)) + 3 * Len(s.W)
  <2>1. Packed(3, PackABW, s.W) \in Seq(Nat) /\ Len(Packed(3, PackABW, s.W)) = 3 * Len(s.W)
    BY <1>1, PackedABW
  <2> QED BY <1>10, <2>1, Joined DEF Header
<1> QED BY <1>2, <1>3, <1>4, <1>5, <1>6, <1>7, <1>8, <1>9, <1>10, <1>11

\* The lengths of the parts of the raw data.
LEMMA RawLengths ==
  ASSUME NEW r, IsRequest(r)
  PROVE  /\ Padding(r.shape) \in Nat /\ 4 - Padding(r.shape) \in Nat /\ Len(Header(r.shape)) \in Nat
         /\ DomainWords(r) \in Seq(Nat) /\ Len(DomainWords(r)) = (IF r.domainCmd # 0 THEN 4 ELSE 0)
         /\ ToCommand(r) \in Seq(Nat) /\ Len(ToCommand(r)) = Padding(r.shape) + Len(DomainWords(r))
         /\ ToArgs(r) \in Seq(Nat) /\ Len(ToArgs(r)) = Len(ToCommand(r)) + 4
         /\ ToPadding(r) \in Seq(Nat) /\ Len(ToPadding(r)) = Len(ToArgs(r)) + Len(r.args)
         /\ ToSizes(r) \in Seq(Nat) /\ RawData(r) \in Seq(Nat) /\ Message(r) \in Seq(Nat)
         /\ Len(RawData(r)) \in Nat /\ Len(RawData(r)) >= Len(r.args)
<1>1. /\ r.domainCmd \in Nat /\ r.object \in Nat /\ r.cmdId \in Nat /\ r.args \in Seq(Nat)
      /\ IsShape(r.shape) /\ r.shape.C \in Seq(StaticDescriptors)
  BY DEF IsRequest, IsShape
<1>2. Header(r.shape) \in Seq(Nat) /\ Len(Header(r.shape)) \in Nat
  <2>1. Header(r.shape) \in Seq(Nat)
    BY <1>1, HeaderLengths
  <2> QED BY <2>1
<1>3. Padding(r.shape) \in 0 .. 3
  BY <1>2, PadFacts DEF Padding
<1>4. DomainWords(r) \in Seq(Nat) /\ Len(DomainWords(r)) = (IF r.domainCmd # 0 THEN 4 ELSE 0)
  <2>1. /\ <<r.domainCmd, r.object, 0, 0>> \in Seq(Nat) /\ Len(<<r.domainCmd, r.object, 0, 0>>) = 4
        /\ << >> \in Seq(Nat) /\ Len(<< >>) = 0
    BY <1>1
  <2> QED BY <2>1 DEF DomainWords
<1>5. ToCommand(r) \in Seq(Nat) /\ Len(ToCommand(r)) = Padding(r.shape) + Len(DomainWords(r))
  <2>1. Padding(r.shape) \in Nat
    BY <1>3
  <2>2. Zeros(Padding(r.shape)) \in Seq(Nat) /\ Len(Zeros(Padding(r.shape))) = Padding(r.shape)
    BY <2>1, ZerosFacts
  <2> QED BY <1>4, <2>2, Joined DEF ToCommand
<1>6. ToArgs(r) \in Seq(Nat) /\ Len(ToArgs(r)) = Len(ToCommand(r)) + 4
  <2>1. <<SFCI, 0, r.cmdId, 0>> \in Seq(Nat) /\ Len(<<SFCI, 0, r.cmdId, 0>>) = 4
    BY <1>1 DEF SFCI
  <2> QED BY <1>5, <2>1, Joined DEF ToArgs
<1>7. ToPadding(r) \in Seq(Nat) /\ Len(ToPadding(r)) = Len(ToArgs(r)) + Len(r.args)
  BY <1>1, <1>6, Joined DEF ToPadding
<1>8. ToSizes(r) \in Seq(Nat) /\ Len(ToSizes(r)) >= Len(ToPadding(r))
  <2>1. 4 - Padding(r.shape) \in Nat
    BY <1>3
  <2>2. PICK z : z = Zeros(4 - Padding(r.shape)) /\ z \in Seq(Nat)
    BY <2>1, ZerosFacts
  <2>3. /\ ToPadding(r) \o z \in Seq(Nat) /\ Len(ToPadding(r) \o z) = Len(ToPadding(r)) + Len(z)
        /\ Len(ToPadding(r)) \in Nat /\ Len(z) \in Nat
    BY <1>7, <2>2, Joined
  <2>4. ToSizes(r) = ToPadding(r) \o z
    BY <2>2 DEF ToSizes
  <2> QED BY <2>3, <2>4
<1>9. RawData(r) \in Seq(Nat) /\ Len(RawData(r)) >= Len(ToSizes(r))
  <2>1. (Len(r.shape.C) + 1) \div 2 \in Nat
    <3>1. Len(r.shape.C) \in Nat
      BY <1>1
    <3> QED BY <3>1, SizeWords
  <2>2. PICK z : z = Zeros((Len(r.shape.C) + 1) \div 2) /\ z \in Seq(Nat)
    BY <2>1, ZerosFacts
  <2>3. /\ ToSizes(r) \o z \in Seq(Nat) /\ Len(ToSizes(r) \o z) = Len(ToSizes(r)) + Len(z)
        /\ Len(ToSizes(r)) \in Nat /\ Len(z) \in Nat
    BY <1>8, <2>2, Joined
  <2>4. RawData(r) = ToSizes(r) \o z
    BY <2>2 DEF RawData
  <2> QED BY <2>3, <2>4
<1>10. Message(r) \in Seq(Nat)
  <2>1. Packed(2, PackC, r.shape.C) \in Seq(Nat)
    BY <1>1, PackedC
  <2>2. Header(r.shape) \o RawData(r) \in Seq(Nat)
    BY <1>2, <1>9, Joined
  <2> QED BY <2>1, <2>2, Joined DEF Message
<1>11. Padding(r.shape) \in Nat /\ 4 - Padding(r.shape) \in Nat
  BY <1>3
<1>12. Len(RawData(r)) \in Nat /\ Len(RawData(r)) >= Len(r.args)
  <2>1. /\ Len(ToArgs(r)) \in Nat /\ Len(r.args) \in Nat /\ Len(ToPadding(r)) \in Nat
        /\ Len(ToSizes(r)) \in Nat /\ Len(RawData(r)) \in Nat
    <3>1. /\ ToArgs(r) \in Seq(Nat) /\ r.args \in Seq(Nat) /\ ToPadding(r) \in Seq(Nat)
          /\ ToSizes(r) \in Seq(Nat) /\ RawData(r) \in Seq(Nat)
      BY <1>1, <1>6, <1>7, <1>8, <1>9
    <3>2. \A seq \in Seq(Nat) : Len(seq) \in Nat
      OBVIOUS
    <3> QED BY <3>1, <3>2
  <2>2. Len(ToPadding(r)) >= Len(r.args)
    BY <1>7, <2>1
  <2> QED BY <1>8, <1>9, <2>1, <2>2
<1> QED BY <1>2, <1>4, <1>5, <1>6, <1>7, <1>8, <1>9, <1>10, <1>11, <1>12

\* Where the parts of a request are.
LEMMA RequestLayout ==
  ASSUME NEW r, IsRequest(r)
  PROVE  LET s == r.shape
             w == Message(r)
             h == Len(Header(s))
         IN  /\ Holds(w, 0, <<0, 0>>)
             /\ Holds(w, Len(ToHandles(s)), PidWords(s))
             /\ Holds(w, Len(ToCopied(s)), s.copied) /\ Holds(w, Len(ToMoved(s)), s.moved)
             /\ Holds(w, Len(ToX(s)), Packed(2, PackX, s.X))
             /\ Holds(w, Len(ToA(s)), Packed(3, PackABW, s.A))
             /\ Holds(w, Len(ToB(s)), Packed(3, PackABW, s.B))
             /\ Holds(w, Len(ToW(s)), Packed(3, PackABW, s.W))
             /\ Holds(w, h + Len(RawData(r)), Packed(2, PackC, s.C))
             /\ Holds(w, h + Padding(s), DomainWords(r))
             /\ Holds(w, h + Len(ToCommand(r)), <<SFCI, 0, r.cmdId, 0>>)
             /\ Holds(w, h + Len(ToArgs(r)), r.args)
<1> DEFINE s == r.shape
           w == Message(r)
           h == Len(Header(s))
<1>1. /\ IsShape(s) /\ s.copied \in Seq(Nat) /\ s.moved \in Seq(Nat) /\ s.X \in Seq(StaticDescriptors)
      /\ s.A \in Seq(BufferDescriptors) /\ s.B \in Seq(BufferDescriptors) /\ s.W \in Seq(BufferDescriptors)
      /\ s.C \in Seq(StaticDescriptors) /\ r.cmdId \in Nat /\ r.args \in Seq(Nat)
  BY DEF IsRequest, IsShape
<1>2. /\ HandleWord(s) \in Seq(Nat) /\ PidWords(s) \in Seq(Nat) /\ ToHandles(s) \in Seq(Nat)
      /\ ToCopied(s) \in Seq(Nat) /\ ToMoved(s) \in Seq(Nat) /\ ToX(s) \in Seq(Nat)
      /\ ToA(s) \in Seq(Nat) /\ ToB(s) \in Seq(Nat) /\ ToW(s) \in Seq(Nat)
      /\ Header(s) \in Seq(Nat)
  BY <1>1, HeaderLengths
<1>3. /\ DomainWords(r) \in Seq(Nat) /\ ToCommand(r) \in Seq(Nat) /\ ToArgs(r) \in Seq(Nat)
      /\ ToPadding(r) \in Seq(Nat) /\ ToSizes(r) \in Seq(Nat) /\ RawData(r) \in Seq(Nat)
      /\ w \in Seq(Nat) /\ h \in Nat /\ Padding(s) \in Nat
  BY RawLengths
<1>4. /\ Packed(2, PackX, s.X) \in Seq(Nat) /\ Packed(3, PackABW, s.A) \in Seq(Nat)
      /\ Packed(3, PackABW, s.B) \in Seq(Nat) /\ Packed(3, PackABW, s.W) \in Seq(Nat)
      /\ Packed(2, PackC, s.C) \in Seq(Nat)
  BY <1>1, PackedX, PackedABW, PackedC
<1>5. ASSUME NEW a \in Seq(Nat), NEW b \in Seq(Nat), Holds(w, 0, a \o b)
      PROVE  Holds(w, 0, a) /\ Holds(w, Len(a), b)
  BY <1>3, <1>5, HoldsParts
<1> HIDE DEF s, w, h
<1>6. Holds(w, 0, Header(s) \o RawData(r)) /\ Holds(w, Len(Header(s) \o RawData(r)), Packed(2, PackC, s.C))
  <2>1. Holds(w, 0, (Header(s) \o RawData(r)) \o Packed(2, PackC, s.C))
    BY <1>3, HoldsAll DEF Message, w, s
  <2>2. Header(s) \o RawData(r) \in Seq(Nat)
    BY <1>2, <1>3, Joined
  <2> QED BY <1>4, <1>5, <2>1, <2>2
<1>7. Len(Header(s) \o RawData(r)) = h + Len(RawData(r))
  BY <1>2, <1>3, Joined DEF h
<1>8. Holds(w, 0, Header(s)) /\ Holds(w, h, RawData(r))
  BY <1>2, <1>3, <1>5, <1>6 DEF h
<1>9. Holds(w, 0, ToW(s)) /\ Holds(w, Len(ToW(s)), Packed(3, PackABW, s.W))
  BY <1>2, <1>4, <1>5, <1>8 DEF Header
<1>10. Holds(w, 0, ToB(s)) /\ Holds(w, Len(ToB(s)), Packed(3, PackABW, s.B))
  BY <1>2, <1>4, <1>5, <1>9 DEF ToW
<1>11. Holds(w, 0, ToA(s)) /\ Holds(w, Len(ToA(s)), Packed(3, PackABW, s.A))
  BY <1>2, <1>4, <1>5, <1>10 DEF ToB
<1>12. Holds(w, 0, ToX(s)) /\ Holds(w, Len(ToX(s)), Packed(2, PackX, s.X))
  BY <1>2, <1>4, <1>5, <1>11 DEF ToA
<1>13. Holds(w, 0, ToMoved(s)) /\ Holds(w, Len(ToMoved(s)), s.moved)
  BY <1>1, <1>2, <1>5, <1>12 DEF ToX
<1>14. Holds(w, 0, ToCopied(s)) /\ Holds(w, Len(ToCopied(s)), s.copied)
  BY <1>1, <1>2, <1>5, <1>13 DEF ToMoved
<1>15. Holds(w, 0, ToHandles(s)) /\ Holds(w, Len(ToHandles(s)), PidWords(s))
  BY <1>2, <1>5, <1>14 DEF ToCopied
<1>16. Holds(w, 0, <<0, 0>>)
  <2>1. <<0, 0>> \in Seq(Nat)
    OBVIOUS
  <2> QED BY <1>2, <1>5, <1>15, <2>1 DEF ToHandles
\* The raw data.
<1>17. ASSUME NEW a \in Seq(Nat), NEW b \in Seq(Nat), Holds(w, h, a \o b)
       PROVE  Holds(w, h, a) /\ Holds(w, h + Len(a), b)
  BY <1>3, <1>17, HoldsParts
<1>18. Holds(w, h, ToSizes(r))
  <2>1. Zeros((Len(s.C) + 1) \div 2) \in Seq(Nat)
    <3>1. Len(s.C) \in Nat
      BY <1>1
    <3> QED BY <3>1, SizeWords, ZerosFacts
  <2> QED BY <1>3, <1>8, <1>17, <2>1 DEF RawData, s
<1>19. Holds(w, h, ToPadding(r))
  <2>1. Zeros(4 - Padding(s)) \in Seq(Nat)
    <3>1. 4 - Padding(s) \in Nat
      BY RawLengths DEF s
    <3> QED BY <3>1, ZerosFacts
  <2> QED BY <1>3, <1>17, <1>18, <2>1 DEF ToSizes, s
<1>20. Holds(w, h, ToArgs(r)) /\ Holds(w, h + Len(ToArgs(r)), r.args)
  BY <1>1, <1>3, <1>17, <1>19 DEF ToPadding
<1>21. Holds(w, h, ToCommand(r)) /\ Holds(w, h + Len(ToCommand(r)), <<SFCI, 0, r.cmdId, 0>>)
  <2>1. <<SFCI, 0, r.cmdId, 0>> \in Seq(Nat)
    BY <1>1 DEF SFCI
  <2> QED BY <1>3, <1>17, <1>20, <2>1 DEF ToArgs
<1>22. Holds(w, h + Padding(s), DomainWords(r))
  <2>1. Zeros(Padding(s)) \in Seq(Nat) /\ Len(Zeros(Padding(s))) = Padding(s)
    BY <1>3, ZerosFacts
  <2>2. Holds(w, h, Zeros(Padding(s)) \o DomainWords(r))
    BY <1>21 DEF ToCommand, s
  <2> QED BY <1>3, <1>17, <2>1, <2>2
<1> QED BY <1>6, <1>7, <1>9, <1>10, <1>11, <1>12, <1>13, <1>14, <1>15, <1>16, <1>20, <1>21, <1>22
        DEF s, w, h

\* What a copied handle stands for.
Handle(h) == CASE h = CURRENT_PROCESS -> gCurrentProcess
               [] h = CURRENT_THREAD -> mainThread
               [] OTHER -> h

\* The copied and moved handles are read back.
LEMMA ReadHandles ==
  ASSUME NEW hs \in Seq(Nat), NEW msg, NEW offset \in Nat, msg.words \in Seq(Nat),
         Holds(msg.words, offset, hs)
  PROVE  /\ msg.copy = Len(hs) => CopiedHandles(msg, offset) = [k \in DOMAIN hs |-> Handle(hs[k])]
         /\ msg.move = Len(hs) => MovedHandles(msg, offset) = hs
<1>1. PICK w \in Seq(Nat) : w = msg.words
  OBVIOUS
<1>2. \A k \in 1 .. Len(hs) : Word(w, offset + k - 1) = hs[k]
  BY <1>1, HoldsWord
<1>3. DOMAIN hs = 1 .. Len(hs) /\ hs = [k \in 1 .. Len(hs) |-> hs[k]]
  BY Elements
<1>4. ASSUME msg.copy = Len(hs) PROVE CopiedHandles(msg, offset) = [k \in DOMAIN hs |-> Handle(hs[k])]
  <2>1. \A h : Handle(h) = IF h = CURRENT_PROCESS THEN gCurrentProcess
                           ELSE IF h = CURRENT_THREAD THEN mainThread ELSE h
    BY DEF Handle, CURRENT_PROCESS, CURRENT_THREAD
  <2>2. CopiedHandles(msg, offset) = [k \in 1 .. Len(hs) |-> Handle(Word(w, offset + k - 1))]
    BY <1>1, <1>4, <2>1 DEF CopiedHandles
  <2> QED BY <1>2, <1>3, <2>2
<1>5. ASSUME msg.move = Len(hs) PROVE MovedHandles(msg, offset) = hs
  BY <1>1, <1>2, <1>3, <1>5 DEF MovedHandles
<1> QED BY <1>4, <1>5

\* doIpcCall finds the handles and descriptors of a request, and where its raw data starts.
LEMMA ParseReads ==
  ASSUME NEW r, IsRequest(r), \A k \in DOMAIN r.shape.C : r.shape.C[k].high = 0
  PROVE  /\ Parse(Pack(r)).shape = [r.shape EXCEPT !.copied = [k \in DOMAIN @ |-> Handle(@[k])]]
         /\ Parse(Pack(r)).offset = Len(Header(r.shape)) + Padding(r.shape)
<1>1. PICK msg : msg = Pack(r)
  OBVIOUS
<1>2. PICK s : s = r.shape
  OBVIOUS
<1>3. /\ msg.numStaticIn = Len(s.X) /\ msg.numSend = Len(s.A) /\ msg.numRecv = Len(s.B)
      /\ msg.numTrans = Len(s.W) /\ msg.wordCount = Len(RawData(r))
      /\ msg.copy = Len(s.copied) /\ msg.move = Len(s.moved)
      /\ msg.words = Message(r)
  BY <1>1, <1>2, PackFields
<1>4. msg.handleDescriptor = HasHandles(s) /\ msg.sendPid = s.pid
  BY <1>1, <1>2, PackFields
<1>5. msg.cFlags = (IF s.C = << >> THEN 0 ELSE IF s.single THEN 2 ELSE 2 + Len(s.C))
  BY <1>1, <1>2, PackFields
<1>6. /\ IsShape(s) /\ s.pid \in BOOLEAN /\ s.copied \in Seq(Nat) /\ s.moved \in Seq(Nat)
      /\ s.X \in Seq(StaticDescriptors) /\ s.A \in Seq(BufferDescriptors) /\ s.B \in Seq(BufferDescriptors)
      /\ s.W \in Seq(BufferDescriptors) /\ s.C \in Seq(StaticDescriptors) /\ s.single \in BOOLEAN
      /\ s.single => Len(s.C) = 1
  BY <1>2 DEF IsRequest, IsShape
<1>7. PICK w \in Seq(Nat) : w = msg.words
  BY <1>3, RawLengths
<1>8. /\ Holds(w, Len(ToHandles(s)), PidWords(s))
      /\ Holds(w, Len(ToCopied(s)), s.copied) /\ Holds(w, Len(ToMoved(s)), s.moved)
      /\ Holds(w, Len(ToX(s)), Packed(2, PackX, s.X))
      /\ Holds(w, Len(ToA(s)), Packed(3, PackABW, s.A))
      /\ Holds(w, Len(ToB(s)), Packed(3, PackABW, s.B))
      /\ Holds(w, Len(ToW(s)), Packed(3, PackABW, s.W))
      /\ Holds(w, Len(Header(s)) + Len(RawData(r)), Packed(2, PackC, s.C))
  BY <1>2, <1>3, <1>7, RequestLayout
\* The offsets doIpcCall counts up are the lengths of the parts.
<1> DEFINE afterHeader == 2 + (IF msg.handleDescriptor THEN 1 ELSE 0)
           sendPid == msg.handleDescriptor /\ msg.sendPid
           copyAt == afterHeader + (IF sendPid THEN 2 ELSE 0)
           moveAt == copyAt + msg.copy
           xAt == moveAt + msg.move
           aAt == xAt + 2 * msg.numStaticIn
           bAt == aAt + 3 * msg.numSend
           wAt == bAt + 3 * msg.numRecv
           rawAt == wAt + 3 * msg.numTrans
<1>9. /\ Parse(msg).shape =
             [pid |-> sendPid /\ Word(msg.words, 3) = PID,
              copied |-> CopiedHandles(msg, copyAt), moved |-> MovedHandles(msg, moveAt),
              X |-> StaticInDescriptors(msg, xAt),
              A |-> RegularDescriptors(msg, msg.numSend, aAt),
              B |-> RegularDescriptors(msg, msg.numRecv, bAt),
              W |-> RegularDescriptors(msg, msg.numTrans, wAt),
              C |-> StaticOutDescriptors(msg, rawAt),
              single |-> msg.cFlags = 2]
      /\ Parse(msg).offset = Aligned(rawAt)
  BY DEF Parse
<1>10. sendPid = s.pid
  BY <1>4, <1>6 DEF HasHandles
<1>11. afterHeader = Len(ToHandles(s)) /\ copyAt = Len(ToCopied(s))
  BY <1>4, <1>6, <1>10, HeaderLengths
<1> HIDE DEF afterHeader, sendPid, copyAt
<1>12. moveAt = Len(ToMoved(s))
  BY <1>3, <1>6, <1>11, HeaderLengths
<1> HIDE DEF moveAt
<1>13. xAt = Len(ToX(s))
  BY <1>3, <1>6, <1>12, HeaderLengths
<1> HIDE DEF xAt
<1>14. aAt = Len(ToA(s))
  BY <1>3, <1>6, <1>13, HeaderLengths
<1> HIDE DEF aAt
<1>15. bAt = Len(ToB(s))
  BY <1>3, <1>6, <1>14, HeaderLengths
<1> HIDE DEF bAt
<1>16. wAt = Len(ToW(s))
  BY <1>3, <1>6, <1>15, HeaderLengths
<1> HIDE DEF wAt
<1>17. rawAt = Len(Header(s))
  BY <1>3, <1>6, <1>16, HeaderLengths
<1> HIDE DEF rawAt
<1>18. /\ Len(ToHandles(s)) \in Nat /\ Len(ToCopied(s)) \in Nat /\ Len(ToMoved(s)) \in Nat
       /\ Len(ToX(s)) \in Nat /\ Len(ToA(s)) \in Nat /\ Len(ToB(s)) \in Nat
       /\ Len(ToW(s)) \in Nat /\ Len(Header(s)) \in Nat /\ msg.wordCount \in Nat
  <2>1. /\ ToHandles(s) \in Seq(Nat) /\ ToCopied(s) \in Seq(Nat) /\ ToMoved(s) \in Seq(Nat)
        /\ ToX(s) \in Seq(Nat) /\ ToA(s) \in Seq(Nat) /\ ToB(s) \in Seq(Nat)
        /\ ToW(s) \in Seq(Nat) /\ Header(s) \in Seq(Nat) /\ RawData(r) \in Seq(Nat)
    BY <1>6, HeaderLengths, RawLengths
  <2>2. \A seq \in Seq(Nat) : Len(seq) \in Nat
    OBVIOUS
  <2> QED BY <1>3, <2>1, <2>2
\* Each part is read where it is.
<1>19. (sendPid /\ Word(msg.words, 3) = PID) = s.pid
  <2>1. CASE s.pid
    <3>1. HasHandles(s) /\ Len(ToHandles(s)) = 3
      BY <1>6, <2>1, HeaderLengths DEF HasHandles
    <3>2. PidWords(s) = <<PID, 0>>
      BY <2>1 DEF PidWords
    <3>3. Holds(w, 3, <<PID, 0>>) /\ <<PID, 0>> \in Seq(Nat) /\ 1 \in 1 .. Len(<<PID, 0>>)
      BY <1>8, <3>1, <3>2 DEF PID
    <3>4. PICK pid \in Seq(Nat) : pid = <<PID, 0>>
      BY <3>3
    <3>5. pid[1] = PID /\ 3 + 1 - 1 = 3 /\ 3 \in Nat
      BY <3>4
    <3>6. Word(w, 3 + 1 - 1) = pid[1]
      <4>1. Holds(w, 3, pid) /\ 1 \in 1 .. Len(pid)
        BY <3>3, <3>4
      <4> QED BY <3>5, <4>1, HoldsWord, Zenon
    <3> QED BY <1>7, <1>10, <2>1, <3>5, <3>6
  <2>2. CASE ~s.pid
    BY <1>6, <1>10, <2>2
  <2> QED BY <2>1, <2>2
<1>20. /\ CopiedHandles(msg, copyAt) = [k \in DOMAIN s.copied |-> Handle(s.copied[k])]
       /\ MovedHandles(msg, moveAt) = s.moved
  <2>1. CopiedHandles(msg, copyAt) = [k \in DOMAIN s.copied |-> Handle(s.copied[k])]
    <3>1. /\ Holds(msg.words, copyAt, s.copied) /\ copyAt \in Nat /\ msg.words \in Seq(Nat)
          /\ msg.copy = Len(s.copied) /\ s.copied \in Seq(Nat)
      BY <1>3, <1>6, <1>7, <1>8, <1>11, <1>18
    <3> QED BY <3>1, ReadHandles
  <2>2. MovedHandles(msg, moveAt) = s.moved
    <3>1. /\ Holds(msg.words, moveAt, s.moved) /\ moveAt \in Nat /\ msg.words \in Seq(Nat)
          /\ msg.move = Len(s.moved) /\ s.moved \in Seq(Nat)
      BY <1>3, <1>6, <1>7, <1>8, <1>12, <1>18
    <3> QED BY <3>1, ReadHandles
  <2> QED BY <2>1, <2>2
<1>21. StaticInDescriptors(msg, xAt) = s.X
  <2>1. /\ Holds(msg.words, xAt, Packed(2, PackX, s.X)) /\ xAt \in Nat /\ msg.words \in Seq(Nat)
        /\ msg.numStaticIn = Len(s.X) /\ s.X \in Seq(StaticDescriptors)
    BY <1>3, <1>6, <1>7, <1>8, <1>13, <1>18
  <2> QED BY <2>1, ReadX
<1>22. /\ RegularDescriptors(msg, msg.numSend, aAt) = s.A
       /\ RegularDescriptors(msg, msg.numRecv, bAt) = s.B
       /\ RegularDescriptors(msg, msg.numTrans, wAt) = s.W
  <2>1. RegularDescriptors(msg, Len(s.A), aAt) = s.A
    <3>1. /\ Holds(msg.words, aAt, Packed(3, PackABW, s.A)) /\ aAt \in Nat
          /\ msg.words \in Seq(Nat) /\ s.A \in Seq(BufferDescriptors)
      BY <1>6, <1>7, <1>8, <1>14, <1>18
    <3> QED BY <3>1, ReadABW
  <2>2. RegularDescriptors(msg, Len(s.B), bAt) = s.B
    <3>1. /\ Holds(msg.words, bAt, Packed(3, PackABW, s.B)) /\ bAt \in Nat
          /\ msg.words \in Seq(Nat) /\ s.B \in Seq(BufferDescriptors)
      BY <1>6, <1>7, <1>8, <1>15, <1>18
    <3> QED BY <3>1, ReadABW
  <2>3. RegularDescriptors(msg, Len(s.W), wAt) = s.W
    <3>1. /\ Holds(msg.words, wAt, Packed(3, PackABW, s.W)) /\ wAt \in Nat
          /\ msg.words \in Seq(Nat) /\ s.W \in Seq(BufferDescriptors)
      BY <1>6, <1>7, <1>8, <1>16, <1>18
    <3> QED BY <3>1, ReadABW
  <2> QED BY <1>3, <2>1, <2>2, <2>3
<1>23. Len(s.C) \in Nat /\ (s.C = << >> <=> Len(s.C) = 0)
  BY <1>6
<1>24. /\ Len(s.C) = IF msg.cFlags < 2 THEN 0 ELSE IF msg.cFlags = 2 THEN 1 ELSE msg.cFlags - 2
       /\ (msg.cFlags = 2) <=> s.single
  <2>1. CASE s.C = << >>
    <3>1. ~s.single /\ msg.cFlags = 0 /\ Len(s.C) = 0
      BY <1>6, <1>23, <1>5, <2>1
    <3>2. 0 < 2 /\ 0 # 2
      OBVIOUS
    <3> QED BY <3>1, <3>2
  <2>2. CASE s.C # << >> /\ s.single
    <3>1. s.single /\ msg.cFlags = 2 /\ Len(s.C) = 1
      BY <1>6, <1>5, <2>2
    <3>2. ~(2 < 2)
      OBVIOUS
    <3> QED BY <3>1, <3>2
  <2>3. CASE s.C # << >> /\ ~s.single
    <3>1. ~s.single /\ msg.cFlags = 2 + Len(s.C)
      BY <1>6, <1>5, <2>3
    <3>2. PICK n \in Nat \ {0} : n = Len(s.C)
      BY <1>23, <2>3
    <3>3. ~(2 + n < 2) /\ 2 + n # 2 /\ 2 + n - 2 = n
      OBVIOUS
    <3> QED BY <3>1, <3>2, <3>3
  <2> QED BY <2>1, <2>2, <2>3
<1>25. (msg.cFlags = 2) = s.single
  BY <1>6, <1>24
<1>26. StaticOutDescriptors(msg, rawAt) = s.C
  <2>1. \A k \in 1 .. Len(s.C) : s.C[k].high = 0
    BY <1>2, <1>6
  <2> QED BY <1>3, <1>6, <1>7, <1>8, <1>17, <1>18, <1>24, <2>1, ReadC
<1>27. s = [pid |-> s.pid, copied |-> s.copied, moved |-> s.moved, X |-> s.X, A |-> s.A,
            B |-> s.B, W |-> s.W, C |-> s.C, single |-> s.single]
  BY <1>6 DEF IsShape
<1>28. Parse(msg).shape =
         [pid |-> s.pid, copied |-> [k \in DOMAIN s.copied |-> Handle(s.copied[k])],
          moved |-> s.moved, X |-> s.X, A |-> s.A, B |-> s.B, W |-> s.W, C |-> s.C,
          single |-> s.single]
  BY <1>9, <1>19, <1>20, <1>21, <1>22, <1>25, <1>26
<1>29. Parse(msg).shape = [s EXCEPT !.copied = [k \in DOMAIN @ |-> Handle(@[k])]]
  <2>1. PICK hs : hs = [k \in DOMAIN s.copied |-> Handle(s.copied[k])]
    OBVIOUS
  <2>2. [s EXCEPT !.copied = hs] =
         [pid |-> s.pid, copied |-> hs, moved |-> s.moved, X |-> s.X, A |-> s.A, B |-> s.B,
          W |-> s.W, C |-> s.C, single |-> s.single]
    BY <1>27
  <2> QED BY <1>28, <2>1, <2>2
<1>30. Parse(msg).offset = Len(Header(s)) + Padding(s)
  BY <1>9, <1>17 DEF Aligned, Padding
<1> QED BY <1>1, <1>2, <1>29, <1>30

\* doIpcCall finds the domain header, the command and its arguments, if the session is a
\* domain exactly when the game takes it for one.
LEMMA RawReads ==
  ASSUME NEW r, IsRequest(r), NEW isDomain, (isDomain /\ r.type # 5) <=> r.domainCmd # 0
  PROVE  LET info == ParseRaw(Pack(r), Len(Header(r.shape)) + Padding(r.shape), isDomain)
         IN  /\ info.domain <=> r.domainCmd # 0
             /\ info.domainCmd = r.domainCmd
             /\ r.domainCmd # 0 => info.object = r.object
             /\ info.cmdId = r.cmdId
             /\ SubSeq(info.argData, 1, Len(r.args)) = r.args
<1>1. PICK msg : msg = Pack(r)
  OBVIOUS
<1>2. PICK h \in Nat : h = Len(Header(r.shape))
  BY RawLengths
<1>3. PICK pad \in Nat : pad = Padding(r.shape)
  BY RawLengths
<1>4. PICK w \in Seq(Nat) : w = Message(r)
  BY RawLengths
<1>5. msg.type = r.type /\ msg.wordCount = Len(RawData(r)) /\ msg.words = w
  BY <1>1, <1>4, PackFields
<1>6. /\ r.domainCmd \in Nat /\ r.object \in Nat /\ r.cmdId \in Nat /\ r.args \in Seq(Nat)
      /\ Len(r.args) \in Nat
  BY DEF IsRequest
<1>7. PICK d \in Nat : d = IF r.domainCmd # 0 THEN 4 ELSE 0
  OBVIOUS
<1>8. /\ Len(ToCommand(r)) = pad + d /\ Len(ToArgs(r)) = pad + d + 4
      /\ Len(RawData(r)) \in Nat /\ Len(RawData(r)) >= Len(r.args)
  BY <1>3, <1>7, RawLengths
<1>9. PICK raw \in Nat : raw = h + pad + d
  OBVIOUS
<1>10. /\ Holds(w, h + pad, DomainWords(r))
       /\ Holds(w, raw, <<SFCI, 0, r.cmdId, 0>>)
       /\ Holds(w, raw + 4, r.args)
  <2>1. h + Len(ToCommand(r)) = raw /\ h + Len(ToArgs(r)) = raw + 4
    BY <1>8, <1>9
  <2> QED BY <1>2, <1>3, <1>4, <2>1, RequestLayout
<1> DEFINE domain == isDomain /\ msg.type # 5
           info == ParseRaw(msg, h + pad, isDomain)
<1>11. domain <=> r.domainCmd # 0
  BY <1>5
<1>12. h + pad + (IF domain THEN 4 ELSE 0) = raw
  BY <1>7, <1>9, <1>11
<1>13. /\ info.domain <=> domain
       /\ info.domainCmd = (IF domain THEN Word(w, h + pad) ELSE 0)
       /\ info.object = (IF domain THEN Word(w, h + pad + 1) ELSE 0)
       /\ info.cmdId = Word(w, raw + 2)
       /\ info.argData = [k \in 1 .. Len(RawData(r)) |-> Word(w, raw + 3 + k)]
  BY <1>5, <1>12 DEF ParseRaw
<1> HIDE DEF domain, info
<1>14. info.cmdId = r.cmdId
  <2>1. PICK c : c = <<SFCI, 0, r.cmdId, 0>>
    OBVIOUS
  <2>2. c \in Seq(Nat) /\ c[3] = r.cmdId /\ Len(c) = 4
    BY <1>6, <2>1, FourWords DEF SFCI
  <2>3. Holds(w, raw, c) /\ 3 \in 1 .. Len(c) /\ raw + 3 - 1 = raw + 2
    BY <1>10, <2>1, <2>2
  <2>4. Word(w, raw + 3 - 1) = c[3]
    BY <2>2, <2>3, HoldsWord
  <2> QED BY <1>13, <2>2, <2>3, <2>4
<1>15. ASSUME r.domainCmd # 0 PROVE info.domainCmd = r.domainCmd /\ info.object = r.object
  <2>1. PICK c : c = <<r.domainCmd, r.object, 0, 0>> /\ DomainWords(r) = c
    BY <1>15 DEF DomainWords
  <2>2. c \in Seq(Nat) /\ c[1] = r.domainCmd /\ c[2] = r.object /\ Len(c) = 4
    BY <1>6, <2>1, FourWords
  <2>3. /\ Holds(w, h + pad, c) /\ 1 \in 1 .. Len(c) /\ 2 \in 1 .. Len(c)
        /\ h + pad + 1 - 1 = h + pad /\ h + pad + 2 - 1 = h + pad + 1 /\ h + pad \in Nat
    BY <1>10, <2>1, <2>2
  <2>4. Word(w, h + pad + 1 - 1) = c[1] /\ Word(w, h + pad + 2 - 1) = c[2]
    BY <2>2, <2>3, HoldsWord
  <2>5. Word(w, h + pad) = r.domainCmd /\ Word(w, h + pad + 1) = r.object
    BY <2>2, <2>3, <2>4
  <2> QED BY <1>11, <1>13, <1>15, <2>5
<1>16. ASSUME r.domainCmd = 0 PROVE info.domainCmd = r.domainCmd
  BY <1>11, <1>13, <1>16
<1>17. SubSeq(info.argData, 1, Len(r.args)) = r.args
  <2>1. PICK n \in Nat : n = Len(r.args)
    BY <1>6
  <2>2. PICK m \in Nat : m = Len(RawData(r)) /\ n <= m
    BY <1>8, <2>1
  <2>3. \A k \in 1 .. n : k \in 1 .. m /\ raw + 3 + k = raw + 4 + k - 1
    BY <2>2
  <2>4. \A k \in 1 .. n : info.argData[k] = r.args[k]
    <3>1. Holds(w, raw + 4, r.args) /\ raw + 4 \in Nat /\ r.args \in Seq(Nat)
      BY <1>6, <1>10
    <3>2. \A k \in 1 .. Len(r.args) : Word(w, raw + 4 + k - 1) = r.args[k]
      <4>1. PICK at \in Nat, args \in Seq(Nat) : at = raw + 4 /\ args = r.args
        BY <3>1
      <4>2. Holds(w, at, args)
        BY <3>1, <4>1
      <4>3. \A k \in 1 .. Len(args) : Word(w, at + k - 1) = args[k]
        BY <4>2, HoldsWord
      <4> QED BY <4>1, <4>3
    <3> QED BY <1>13, <2>1, <2>2, <2>3, <3>2
  <2>5. SubSeq(info.argData, 1, n) = [k \in 1 .. n |-> info.argData[k]]
    <3>1. PICK f : f = info.argData
      OBVIOUS
    <3>2. \A k \in 1 .. n : 1 + k - 1 = k
      OBVIOUS
    <3>3. 1 + n - 1 = n
      OBVIOUS
    <3>4. SubSeq(f, 1, n) = [k \in 1 .. n |-> f[k]]
      BY <3>2, <3>3
    <3> QED BY <3>1, <3>4
  <2>6. r.args = [k \in 1 .. n |-> r.args[k]]
    BY <1>6, <2>1, Elements
  <2> QED BY <2>1, <2>4, <2>5, <2>6
<1>18. info = ParseRaw(Pack(r), Len(Header(r.shape)) + Padding(r.shape), isDomain)
  BY <1>1, <1>2, <1>3 DEF info
<1> QED BY <1>11, <1>13, <1>14, <1>15, <1>16, <1>17, <1>18

----------------------------------------------------------------------------
(* Replies.                                                                *)

IsAnswer(a) ==
    /\ a = Answer(a.error, a.data, a.copied, a.moved)
    /\ a.error \in Nat /\ a.data \in Seq(Nat) /\ a.copied \in Seq(Nat) /\ a.moved \in Seq(Nat)

\* What construct writes: the moved handles follow the data on a domain.
ReplyData(isDomain, a) == IF isDomain THEN a.data \o a.moved ELSE a.data
ReplyMoved(isDomain, a) == IF isDomain THEN << >> ELSE a.moved
ReplyHandles(isDomain, a) == a.copied # << >> \/ ReplyMoved(isDomain, a) # << >>
ReplyHead(isDomain, a) ==
    <<0, 0>> \o (IF ReplyHandles(isDomain, a)
                 THEN <<0>> \o a.copied \o ReplyMoved(isDomain, a) ELSE << >>)
ReplyAligned(isDomain, a) ==
    ReplyHead(isDomain, a) \o Zeros(PadTo4(Len(ReplyHead(isDomain, a))))
ReplyDomain(isDomain, a) == IF isDomain THEN <<Len(a.moved), 0, 0, 0>> ELSE << >>
ReplyStart(isDomain, a) == ReplyAligned(isDomain, a) \o ReplyDomain(isDomain, a)
ReplyResult(isDomain, a) == ReplyStart(isDomain, a) \o <<SFCO, 0, a.error, 0>>
ReplyWords(isDomain, a) == ReplyResult(isDomain, a) \o ReplyData(isDomain, a)

\* The fields of a reply the game reads.
LEMMA ReplyFields ==
  ASSUME NEW isDomain, NEW a
  PROVE  LET reply == Construct(isDomain, a)
         IN  /\ reply.handleDescriptor = ReplyHandles(isDomain, a)
             /\ reply.copy = Len(a.copied) /\ reply.move = Len(ReplyMoved(isDomain, a))
             /\ reply.words = ReplyWords(isDomain, a)
BY DEF Construct, ReplyWords, ReplyResult, ReplyStart, ReplyDomain, ReplyAligned, ReplyHead,
       ReplyHandles, ReplyMoved, ReplyData

\* Where the parts of a reply are.
LEMMA ReplyLayout ==
  ASSUME NEW isDomain \in BOOLEAN, NEW a, IsAnswer(a)
  PROVE  LET w == ReplyWords(isDomain, a)
             moved == ReplyMoved(isDomain, a)
             handlesAt == IF ReplyHandles(isDomain, a) THEN 3 ELSE 2
             start == handlesAt + Len(a.copied) + Len(moved)
             at == start + PadTo4(start)
             raw == IF isDomain THEN at + 4 ELSE at
         IN  /\ w \in Seq(Nat) /\ moved \in Seq(Nat) /\ start \in Nat /\ at \in Nat /\ raw \in Nat
             /\ Holds(w, handlesAt, a.copied) /\ Holds(w, handlesAt + Len(a.copied), moved)
             /\ Holds(w, at, ReplyDomain(isDomain, a))
             /\ Holds(w, raw, <<SFCO, 0, a.error, 0>>)
             /\ Holds(w, raw + 4, ReplyData(isDomain, a))
<1>1. PICK c : c = a.copied /\ c \in Seq(Nat)
  BY DEF IsAnswer
<1>2. PICK m : m = ReplyMoved(isDomain, a) /\ m \in Seq(Nat)
  <2>1. << >> \in Seq(Nat) /\ a.moved \in Seq(Nat)
    BY DEF IsAnswer
  <2> QED BY <2>1 DEF ReplyMoved
<1>3. PICK d : d = ReplyData(isDomain, a) /\ d \in Seq(Nat)
  <2>1. a.data \in Seq(Nat) /\ a.data \o a.moved \in Seq(Nat)
    BY Joined DEF IsAnswer
  <2> QED BY <2>1 DEF ReplyData
<1>4. PICK head : head = ReplyHead(isDomain, a)
  OBVIOUS
<1>5. PICK hs \in {2, 3} : hs = IF ReplyHandles(isDomain, a) THEN 3 ELSE 2
  OBVIOUS
<1>6. <<0, 0>> \in Seq(Nat) /\ Len(<<0, 0>>) = 2 /\ <<0>> \in Seq(Nat) /\ Len(<<0>>) = 1
  OBVIOUS
<1>7. Len(c) \in Nat /\ Len(m) \in Nat
  BY <1>1, <1>2
\* The header, with and without handles.
<1>8. /\ head \in Seq(Nat) /\ Len(head) = hs + Len(c) + Len(m)
      /\ \A w \in Seq(Nat) : Holds(w, 0, head) => Holds(w, hs, c) /\ Holds(w, hs + Len(c), m)
  <2>1. CASE ReplyHandles(isDomain, a)
    <3>1. PICK first : first = <<0>> \o c /\ first \in Seq(Nat) /\ Len(first) = 1 + Len(c)
      <4>1. PICK z \in Seq(Nat) : z = <<0>> /\ Len(z) = 1
        BY <1>6
      <4>2. z \o c \in Seq(Nat) /\ Len(z \o c) = Len(z) + Len(c)
        BY <1>1, Joined
      <4> QED BY <4>1, <4>2
    <3>2. PICK rest : rest = first \o m /\ rest \in Seq(Nat) /\ Len(rest) = Len(first) + Len(m)
      BY <1>2, <3>1, Joined
    <3>3. head = <<0, 0>> \o rest
      BY <1>1, <1>2, <1>4, <2>1, <3>1, <3>2 DEF ReplyHead
    <3>4. head \in Seq(Nat) /\ Len(head) = 2 + Len(rest)
      BY <1>6, <3>2, <3>3, Joined
    <3>5. hs = 3 /\ Len(head) = hs + Len(c) + Len(m)
      BY <1>5, <1>7, <2>1, <3>1, <3>2, <3>4
    <3>6. ASSUME NEW w \in Seq(Nat), Holds(w, 0, head)
          PROVE  Holds(w, hs, c) /\ Holds(w, hs + Len(c), m)
      <4>1. Holds(w, 0 + Len(<<0, 0>>), rest)
        BY <1>6, <3>2, <3>3, <3>6, HoldsParts
      <4>2. Holds(w, 2, first \o m)
        BY <1>6, <3>2, <4>1
      <4>3. Holds(w, 2, first) /\ Holds(w, 2 + Len(first), m)
        BY <1>2, <3>1, <4>2, HoldsParts
      <4>4. Holds(w, 2 + Len(<<0>>), c)
        BY <1>1, <1>6, <3>1, <4>3, HoldsParts
      <4>5. 2 + Len(<<0>>) = 3 /\ 2 + Len(first) = 3 + Len(c)
        BY <1>6, <1>7, <3>1
      <4> QED BY <3>5, <4>3, <4>4, <4>5
    <3> QED BY <3>4, <3>5, <3>6
  <2>2. CASE ~ReplyHandles(isDomain, a)
    <3>1. c = << >> /\ m = << >> /\ Len(c) = 0 /\ Len(m) = 0 /\ hs = 2
      BY <1>1, <1>2, <1>5, <2>2 DEF ReplyHandles
    <3>2. << >> \in Seq(Nat) /\ Len(<< >>) = 0 /\ head = <<0, 0>> \o << >>
      BY <1>4, <2>2 DEF ReplyHead
    <3>3. head \in Seq(Nat) /\ Len(head) = 2
      BY <1>6, <3>2, Joined
    <3>4. \A w \in Seq(Nat) : Holds(w, 0, head) => Holds(w, 2, << >>)
      BY <3>2, <3>3 DEF Holds
    <3> QED BY <3>1, <3>3, <3>4
  <2> QED BY <2>1, <2>2
<1>9. PICK start \in Nat : start = hs + Len(c) + Len(m)
  BY <1>7
<1>10. PICK pad \in Nat : pad = PadTo4(start)
  BY PadFacts
<1>11. PICK z : z = Zeros(pad) /\ z \in Seq(Nat) /\ Len(z) = pad
  BY ZerosFacts
<1>12. PICK al : al = head \o z /\ al \in Seq(Nat) /\ Len(al) = start + pad
  <2>1. head \o z \in Seq(Nat) /\ Len(head \o z) = Len(head) + Len(z)
    BY <1>8, <1>11, Joined
  <2>2. Len(head) = start /\ Len(z) = pad
    BY <1>8, <1>9, <1>11
  <2> QED BY <2>1, <2>2
<1>13. PICK dom : /\ dom = ReplyDomain(isDomain, a) /\ dom \in Seq(Nat)
                  /\ Len(dom) = IF isDomain THEN 4 ELSE 0
  <2>1. Len(a.moved) \in Nat
    BY DEF IsAnswer
  <2>2. /\ <<Len(a.moved), 0, 0, 0>> \in Seq(Nat) /\ Len(<<Len(a.moved), 0, 0, 0>>) = 4
        /\ << >> \in Seq(Nat) /\ Len(<< >>) = 0
    BY <2>1, FourWords
  <2>3. /\ ReplyDomain(isDomain, a) \in Seq(Nat)
        /\ Len(ReplyDomain(isDomain, a)) = IF isDomain THEN 4 ELSE 0
    <3>1. CASE isDomain
      BY <2>2, <3>1 DEF ReplyDomain
    <3>2. CASE ~isDomain
      BY <2>2, <3>2 DEF ReplyDomain
    <3> QED BY <3>1, <3>2
  <2> QED BY <2>3
<1>14. PICK before : before = al \o dom /\ before \in Seq(Nat) /\ Len(before) = start + pad + Len(dom)
  <2>1. al \o dom \in Seq(Nat) /\ Len(al \o dom) = Len(al) + Len(dom)
    BY <1>12, <1>13, Joined
  <2> QED BY <1>12, <2>1
<1>15. PICK res : res = <<SFCO, 0, a.error, 0>> /\ res \in Seq(Nat) /\ Len(res) = 4
  <2>1. a.error \in Nat /\ SFCO \in Nat
    BY DEF IsAnswer, SFCO
  <2>2. <<SFCO, 0, a.error, 0>> \in Seq(Nat) /\ Len(<<SFCO, 0, a.error, 0>>) = 4
    BY <2>1, FourWords
  <2> QED BY <2>2
<1>16. PICK upto : upto = before \o res /\ upto \in Seq(Nat) /\ Len(upto) = Len(before) + 4
  <2>1. before \o res \in Seq(Nat) /\ Len(before \o res) = Len(before) + Len(res)
    BY <1>14, <1>15, Joined, Zenon
  <2> QED BY <1>15, <2>1
<1>17. PICK w : w = upto \o d /\ w \in Seq(Nat)
  BY <1>3, <1>16, Joined
<1>18. w = ReplyWords(isDomain, a)
  BY <1>3, <1>4, <1>8, <1>9, <1>10, <1>11, <1>12, <1>13, <1>14, <1>15, <1>16, <1>17
     DEF ReplyWords, ReplyResult, ReplyStart, ReplyAligned
<1>19. Holds(w, 0, upto) /\ Holds(w, 0 + Len(upto), d)
  <2>1. Holds(w, 0, upto \o d)
    BY <1>17, HoldsAll
  <2> QED BY <1>3, <1>16, <1>17, <2>1, HoldsParts
<1>20. Holds(w, 0, before) /\ Holds(w, 0 + Len(before), res)
  BY <1>14, <1>15, <1>16, <1>17, <1>19, HoldsParts
<1>21. Holds(w, 0, al) /\ Holds(w, 0 + Len(al), dom)
  BY <1>12, <1>13, <1>14, <1>17, <1>20, HoldsParts
<1>22. Holds(w, 0, head)
  BY <1>8, <1>11, <1>12, <1>17, <1>21, HoldsParts
<1>23. Holds(w, hs, c) /\ Holds(w, hs + Len(c), m)
  BY <1>8, <1>17, <1>22
<1>24. PICK at \in Nat : at = start + pad
  OBVIOUS
<1>25. PICK raw \in Nat : raw = IF isDomain THEN at + 4 ELSE at
  OBVIOUS
<1>26. 0 + Len(al) = at /\ 0 + Len(before) = raw /\ 0 + Len(upto) = raw + 4
  <2>1. Len(dom) = 4 \/ Len(dom) = 0
    BY <1>13
  <2>2. Len(before) = raw
    BY <1>13, <1>14, <1>24, <1>25
  <2> QED BY <1>12, <1>16, <1>24, <2>2
<1>27. Holds(w, at, dom) /\ Holds(w, raw, res) /\ Holds(w, raw + 4, d)
  BY <1>19, <1>20, <1>21, <1>26
<1> QED BY <1>1, <1>2, <1>3, <1>5, <1>9, <1>10, <1>13, <1>15, <1>17, <1>18, <1>23, <1>24, <1>25, <1>27

\* Handles and words read one after the other are the part.
LEMMA ReadPart ==
  ASSUME NEW w \in Seq(Nat), NEW part \in Seq(Nat), NEW offset \in Nat, Holds(w, offset, part)
  PROVE  [k \in 1 .. Len(part) |-> Word(w, offset + k - 1)] = part
<1>1. \A k \in 1 .. Len(part) : Word(w, offset + k - 1) = part[k]
  BY HoldsWord
<1>2. part = [k \in 1 .. Len(part) |-> part[k]]
  BY Elements
<1> QED BY <1>1, <1>2

\* The game finds the answer in the reply, if the session is a domain exactly when the
\* game takes it for one.
LEMMA ReplyRead ==
  ASSUME NEW isDomain \in BOOLEAN, NEW a, IsAnswer(a)
  PROVE  Unpack(Construct(isDomain, a), isDomain, Len(a.data)) = a
<1>1. PICK reply : reply = Construct(isDomain, a)
  OBVIOUS
<1>2. PICK w : w = ReplyWords(isDomain, a)
  OBVIOUS
<1>3. PICK m : m = ReplyMoved(isDomain, a)
  OBVIOUS
<1>4. PICK hs \in Nat : hs = IF ReplyHandles(isDomain, a) THEN 3 ELSE 2
  OBVIOUS
<1>5. PICK start : start = hs + Len(a.copied) + Len(m)
  OBVIOUS
<1>6. PICK at : at = start + PadTo4(start)
  OBVIOUS
<1>7. PICK raw : raw = IF isDomain THEN at + 4 ELSE at
  OBVIOUS
<1>8. /\ w \in Seq(Nat) /\ m \in Seq(Nat) /\ at \in Nat /\ raw \in Nat
      /\ Holds(w, hs, a.copied) /\ Holds(w, hs + Len(a.copied), m)
      /\ Holds(w, at, ReplyDomain(isDomain, a))
      /\ Holds(w, raw, <<SFCO, 0, a.error, 0>>)
      /\ Holds(w, raw + 4, ReplyData(isDomain, a))
  BY <1>2, <1>3, <1>4, <1>5, <1>6, <1>7, ReplyLayout
<1>9. /\ reply.copy = Len(a.copied) /\ reply.move = Len(m) /\ reply.words = w
      /\ (IF reply.handleDescriptor THEN 3 ELSE 2) = hs
  BY <1>1, <1>2, <1>3, <1>4, ReplyFields
<1>10. /\ a.error \in Nat /\ a.data \in Seq(Nat) /\ a.copied \in Seq(Nat) /\ a.moved \in Seq(Nat)
       /\ Len(a.data) \in Nat /\ Len(a.copied) \in Nat /\ Len(a.moved) \in Nat
  <2>1. \A seq \in Seq(Nat) : Len(seq) \in Nat
    OBVIOUS
  <2> QED BY <2>1 DEF IsAnswer
<1> DEFINE objects == IF isDomain THEN Word(w, at) ELSE 0
           dataLen == Len(a.data)
           u == Unpack(reply, isDomain, dataLen)
<1>11. u = [error  |-> Word(w, raw + 2),
            data   |-> [k \in 1 .. dataLen |-> Word(w, raw + 3 + k)],
            copied |-> [k \in 1 .. Len(a.copied) |-> Word(w, hs + k - 1)],
            moved  |-> IF isDomain
                       THEN [k \in 1 .. objects |-> Word(w, raw + 3 + dataLen + k)]
                       ELSE [k \in 1 .. Len(m) |-> Word(w, hs + Len(a.copied) + k - 1)],
            magic  |-> Word(w, raw)]
  <2> DEFINE handlesAt == IF reply.handleDescriptor THEN 3 ELSE 2
             begin == handlesAt + reply.copy + reply.move
             at2 == begin + PadTo4(begin)
             raw2 == IF isDomain THEN at2 + 4 ELSE at2
  <2>1. handlesAt = hs /\ begin = start
    BY <1>5, <1>9
  <2>2. at2 = at /\ raw2 = raw
    BY <1>6, <1>7, <2>1
  <2>3. u = [error  |-> Word(reply.words, raw2 + 2),
             data   |-> [k \in 1 .. dataLen |-> Word(reply.words, raw2 + 3 + k)],
             copied |-> [k \in 1 .. reply.copy |-> Word(reply.words, handlesAt + k - 1)],
             moved  |-> IF isDomain
                        THEN [k \in 1 .. IF isDomain THEN Word(reply.words, at2) ELSE 0 |->
                                 Word(reply.words, raw2 + 3 + dataLen + k)]
                        ELSE [k \in 1 .. reply.move |->
                                 Word(reply.words, handlesAt + reply.copy + k - 1)],
             magic  |-> Word(reply.words, raw2)]
    BY DEF Unpack
  <2> HIDE DEF handlesAt, begin, at2, raw2, u
  <2> QED BY <1>9, <2>1, <2>2, <2>3
<1>12. Word(w, raw) = SFCO /\ Word(w, raw + 2) = a.error
  <2>1. PICK c : c = <<SFCO, 0, a.error, 0>>
    OBVIOUS
  <2>2. SFCO \in Nat
    BY DEF SFCO
  <2>3. c \in Seq(Nat) /\ c[1] = SFCO /\ c[3] = a.error /\ Len(c) = 4
    BY <1>10, <2>1, <2>2, FourWords
  <2>4. Holds(w, raw, c) /\ 1 \in 1 .. Len(c) /\ 3 \in 1 .. Len(c)
    BY <1>8, <2>1, <2>3
  <2>5. raw + 1 - 1 = raw /\ raw + 3 - 1 = raw + 2
    BY <1>8
  <2>6. Word(w, raw + 1 - 1) = c[1] /\ Word(w, raw + 3 - 1) = c[3]
    <3>1. w \in Seq(Nat) /\ raw \in Nat /\ c \in Seq(Nat)
      BY <1>8, <2>3
    <3>2. Word(w, raw + 1 - 1) = c[1]
      BY <2>4, <3>1, HoldsWord
    <3>3. Word(w, raw + 3 - 1) = c[3]
      BY <2>4, <3>1, HoldsWord
    <3> QED BY <3>2, <3>3
  <2> QED BY <2>3, <2>5, <2>6
<1>13. [k \in 1 .. Len(a.copied) |-> Word(w, hs + k - 1)] = a.copied
  BY <1>8, <1>10, ReadPart
<1>14. /\ [k \in 1 .. dataLen |-> Word(w, raw + 3 + k)] = a.data
       /\ isDomain => [k \in 1 .. Len(a.moved) |-> Word(w, raw + 3 + dataLen + k)] = a.moved
  <2>1. /\ Holds(w, raw + 4, a.data)
        /\ isDomain => Holds(w, raw + 4 + dataLen, a.moved)
    <3>1. CASE isDomain
      <4>1. Holds(w, raw + 4, a.data \o a.moved) /\ raw + 4 \in Nat
        BY <1>8, <3>1 DEF ReplyData
      <4> QED BY <1>8, <1>10, <4>1, HoldsParts
    <3>2. CASE ~isDomain
      BY <1>8, <3>2 DEF ReplyData
    <3> QED BY <3>1, <3>2
  <2>2. \A k \in Nat : raw + 3 + k = raw + 4 + k - 1 /\ raw + 3 + dataLen + k = raw + 4 + dataLen + k - 1
    <3>1. \A b, l, k \in Nat : b + 3 + k = b + 4 + k - 1 /\ b + 3 + l + k = b + 4 + l + k - 1
      OBVIOUS
    <3>2. raw \in Nat /\ dataLen \in Nat
      BY <1>8, <1>10
    <3> HIDE DEF dataLen
    <3> QED BY <3>1, <3>2
  <2>3. [k \in 1 .. dataLen |-> Word(w, raw + 4 + k - 1)] = a.data
    <3>1. raw + 4 \in Nat
      BY <1>8
    <3> QED BY <1>8, <1>10, <2>1, <3>1, ReadPart
  <2>4. ASSUME isDomain PROVE [k \in 1 .. Len(a.moved) |-> Word(w, raw + 4 + dataLen + k - 1)] = a.moved
    <3>1. raw + 4 + dataLen \in Nat
      <4>1. PICK b, l \in Nat : b = raw /\ l = dataLen
        BY <1>8, <1>10
      <4>2. b + 4 + l \in Nat
        OBVIOUS
      <4> QED BY <4>1, <4>2, Zenon
    <3>2. w \in Seq(Nat) /\ a.moved \in Seq(Nat) /\ Holds(w, raw + 4 + dataLen, a.moved)
      BY <1>8, <1>10, <2>1, <2>4
    <3> QED BY <3>1, <3>2, ReadPart, Zenon
  <2>5. \A k \in 1 .. dataLen : k \in Nat
    OBVIOUS
  <2>6. \A k \in 1 .. Len(a.moved) : k \in Nat
    OBVIOUS
  <2>7. [k \in 1 .. dataLen |-> Word(w, raw + 3 + k)] = [k \in 1 .. dataLen |-> Word(w, raw + 4 + k - 1)]
    BY <2>2, <2>5
  <2>8. [k \in 1 .. Len(a.moved) |-> Word(w, raw + 3 + dataLen + k)]
          = [k \in 1 .. Len(a.moved) |-> Word(w, raw + 4 + dataLen + k - 1)]
    BY <2>2, <2>6
  <2> QED BY <2>3, <2>4, <2>7, <2>8
<1>15. CASE isDomain
  <2>1. objects = Len(a.moved)
    <3>1. PICK c : c = <<Len(a.moved), 0, 0, 0>>
      OBVIOUS
    <3>2. c \in Seq(Nat) /\ c[1] = Len(a.moved) /\ Len(c) = 4
      BY <1>10, <3>1, FourWords
    <3>3. Holds(w, at, c) /\ 1 \in 1 .. Len(c) /\ at + 1 - 1 = at
      BY <1>8, <1>15, <3>1, <3>2 DEF ReplyDomain
    <3>4. Word(w, at + 1 - 1) = c[1]
      <4>1. w \in Seq(Nat) /\ at \in Nat
        BY <1>8
      <4> QED BY <3>2, <3>3, <4>1, HoldsWord, Zenon
    <3> QED BY <1>15, <3>2, <3>3, <3>4
  <2>2. u = [error |-> a.error, data |-> a.data, copied |-> a.copied, moved |-> a.moved, magic |-> SFCO]
    BY <1>11, <1>12, <1>13, <1>14, <1>15, <2>1
  <2> QED BY <1>1, <2>2 DEF IsAnswer, Answer
<1>16. CASE ~isDomain
  <2>1. m = a.moved
    BY <1>3, <1>16 DEF ReplyMoved
  <2>2. [k \in 1 .. Len(m) |-> Word(w, hs + Len(a.copied) + k - 1)] = m
    <3>1. hs + Len(a.copied) \in Nat
      BY <1>10
    <3> QED BY <1>8, <3>1, ReadPart
  <2>3. u = [error |-> a.error, data |-> a.data, copied |-> a.copied, moved |-> a.moved, magic |-> SFCO]
    BY <1>11, <1>12, <1>13, <1>14, <1>16, <2>1, <2>2
  <2> QED BY <1>1, <2>3 DEF IsAnswer, Answer
<1> QED BY <1>15, <1>16

----------------------------------------------------------------------------
(* The tables of the services.  What a function answers with has a type    *)
(* because each of the 45 tables registers functions of a few kinds, and   *)
(* each interface a function opens is one of the 45.                       *)

\* A function, by its parts.
Func(data, opens, copied, moved, error, needs, does) ==
    [data |-> data, opens |-> opens, copied |-> copied, moved |-> moved, error |-> error,
     needs |-> needs, does |-> does]

\* The names of the numbers that are handed out as handles.
Fakes == {"event", "native", "query", "sharedMemory"}
IsFunc(f) ==
    /\ f = Func(f.data, f.opens, f.copied, f.moved, f.error, f.needs, f.does)
    /\ f.data \in Nat /\ f.error \in Nat /\ f.opens \in Seq(DOMAIN Interfaces)
    /\ f.copied \in Seq(Fakes) /\ f.moved \in Seq(Fakes)

Typed(funcs) == \A f \in funcs : IsFunc(f[2])
IsTable(t) ==
    /\ DOMAIN t \in SUBSET Nat
    /\ \A k \in DOMAIN t : t[k].id \in Nat /\ IsFunc(t[k].func)

\* The fields of a function.
LEMMA FuncFields ==
  ASSUME NEW a, NEW b, NEW c, NEW d, NEW e, NEW g, NEW h
  PROVE  LET f == Func(a, b, c, d, e, g, h)
         IN  /\ f.data = a /\ f.opens = b /\ f.copied = c /\ f.moved = d /\ f.error = e
             /\ f.needs = g /\ f.does = h
BY DEF Func

\* A function of typed parts is one.
LEMMA FuncTyped ==
  ASSUME NEW a \in Nat, NEW b \in Seq(DOMAIN Interfaces), NEW c \in Seq(Fakes), NEW d \in Seq(Fakes),
         NEW e \in Nat, NEW g, NEW h
  PROVE  IsFunc(Func(a, b, c, d, e, g, h))
<1>1. PICK f : f = Func(a, b, c, d, e, g, h)
  OBVIOUS
<1>2. /\ f.data = a /\ f.opens = b /\ f.copied = c /\ f.moved = d /\ f.error = e
      /\ f.needs = g /\ f.does = h
  BY <1>1, FuncFields
<1> QED BY <1>1, <1>2 DEF IsFunc

\* A part of a function may be replaced.
LEMMA FuncWith ==
  ASSUME NEW f, IsFunc(f)
  PROVE  /\ \A x \in Nat : IsFunc([f EXCEPT !.data = x])
         /\ \A x \in Seq(DOMAIN Interfaces) : IsFunc([f EXCEPT !.opens = x])
         /\ \A x \in Seq(Fakes) : IsFunc([f EXCEPT !.copied = x])
         /\ \A x \in Seq(Fakes) : IsFunc([f EXCEPT !.moved = x])
         /\ \A x : IsFunc([f EXCEPT !.needs = x])
         /\ \A x : IsFunc([f EXCEPT !.does = x])
<1>1. PICK a, b, c, d, e, g, h :
        /\ f = Func(a, b, c, d, e, g, h)
        /\ a \in Nat /\ b \in Seq(DOMAIN Interfaces) /\ c \in Seq(Fakes) /\ d \in Seq(Fakes) /\ e \in Nat
  BY DEF IsFunc
<1>2. ASSUME NEW x \in Nat PROVE IsFunc([f EXCEPT !.data = x])
  <2>1. [f EXCEPT !.data = x] = Func(x, b, c, d, e, g, h)
    BY <1>1 DEF Func
  <2>2. IsFunc(Func(x, b, c, d, e, g, h))
    BY <1>1, FuncTyped
  <2> QED BY <2>1, <2>2, Zenon
<1>3. ASSUME NEW x \in Seq(DOMAIN Interfaces) PROVE IsFunc([f EXCEPT !.opens = x])
  <2>1. [f EXCEPT !.opens = x] = Func(a, x, c, d, e, g, h)
    BY <1>1 DEF Func
  <2>2. IsFunc(Func(a, x, c, d, e, g, h))
    BY <1>1, FuncTyped
  <2> QED BY <2>1, <2>2, Zenon
<1>4. ASSUME NEW x \in Seq(Fakes) PROVE IsFunc([f EXCEPT !.copied = x])
  <2>1. [f EXCEPT !.copied = x] = Func(a, b, x, d, e, g, h)
    BY <1>1 DEF Func
  <2>2. IsFunc(Func(a, b, x, d, e, g, h))
    BY <1>1, FuncTyped
  <2> QED BY <2>1, <2>2, Zenon
<1>5. ASSUME NEW x \in Seq(Fakes) PROVE IsFunc([f EXCEPT !.moved = x])
  <2>1. [f EXCEPT !.moved = x] = Func(a, b, c, x, e, g, h)
    BY <1>1 DEF Func
  <2>2. IsFunc(Func(a, b, c, x, e, g, h))
    BY <1>1, FuncTyped
  <2> QED BY <2>1, <2>2, Zenon
<1>6. ASSUME NEW x PROVE IsFunc([f EXCEPT !.needs = x])
  <2>1. [f EXCEPT !.needs = x] = Func(a, b, c, d, e, x, h)
    BY <1>1 DEF Func
  <2>2. IsFunc(Func(a, b, c, d, e, x, h))
    BY <1>1, FuncTyped
  <2> QED BY <2>1, <2>2, Zenon
<1>7. ASSUME NEW x PROVE IsFunc([f EXCEPT !.does = x])
  <2>1. [f EXCEPT !.does = x] = Func(a, b, c, d, e, g, x)
    BY <1>1 DEF Func
  <2>2. IsFunc(Func(a, b, c, d, e, g, x))
    BY <1>1, FuncTyped
  <2> QED BY <2>1, <2>2, Zenon
<1> QED BY <1>2, <1>3, <1>4, <1>5, <1>6, <1>7

\* The functions the tables are written with.
LEMMA FuncKinds ==
  /\ IsFunc(Nothing)
  /\ \A bytes \in Nat : \A f : IsFunc(f) => IsFunc(AlsoAnswers(bytes, f))
  /\ \A bytes \in Nat : IsFunc(Answers(bytes))
  /\ \A i \in DOMAIN Interfaces : IsFunc(Opens(i))
  /\ \A fake \in Fakes : IsFunc(Copies(fake)) /\ IsFunc(Moves(fake))
  /\ \A d, f : IsFunc(f) => IsFunc(Needs(d, f)) /\ IsFunc(Acts(d, f))
<1>1. IsFunc(Nothing)
  <2>1. Nothing = Func(0, << >>, << >>, << >>, 0, {}, "nothing")
    BY DEF Nothing, Func
  <2>2. 0 \in Nat /\ << >> \in Seq(DOMAIN Interfaces) /\ << >> \in Seq(Fakes)
    OBVIOUS
  <2> QED BY <2>1, <2>2, FuncTyped
<1>2. ASSUME NEW bytes \in Nat, NEW f, IsFunc(f) PROVE IsFunc(AlsoAnswers(bytes, f))
  BY <1>2, FuncWith DEF AlsoAnswers
<1>3. \A bytes \in Nat : IsFunc(Answers(bytes))
  BY <1>1, <1>2 DEF Answers
<1>4. \A i \in DOMAIN Interfaces : IsFunc(Opens(i))
  <2>1. \A i \in DOMAIN Interfaces : <<i>> \in Seq(DOMAIN Interfaces)
    OBVIOUS
  <2> QED BY <1>1, <2>1, FuncWith DEF Opens
<1>5. \A fake \in Fakes : IsFunc(Copies(fake)) /\ IsFunc(Moves(fake))
  <2>1. \A fake \in Fakes : <<fake>> \in Seq(Fakes)
    OBVIOUS
  <2> QED BY <1>1, <2>1, FuncWith DEF Copies, Moves
<1>6. ASSUME NEW d, NEW f, IsFunc(f) PROVE IsFunc(Needs(d, f)) /\ IsFunc(Acts(d, f))
  BY <1>6, FuncWith DEF Needs, Acts
<1> QED BY <1>1, <1>2, <1>3, <1>4, <1>5, <1>6

\* A table of typed functions; an id without one gets a stub.
LEMMA RegisterTyped ==
  ASSUME NEW ids \in Seq(Nat), NEW funcs, Typed(funcs)
  PROVE  IsTable(Register(ids, funcs))
<1> DEFINE F(id) == IF \E f \in funcs : f[1] = id THEN (CHOOSE f \in funcs : f[1] = id)[2] ELSE Nothing
<1>1. ASSUME NEW id PROVE IsFunc(F(id))
  <2>1. CASE \E f \in funcs : f[1] = id
    <3>1. PICK g : g = CHOOSE f \in funcs : f[1] = id
      OBVIOUS
    <3>2. g \in funcs
      BY <2>1, <3>1
    <3> QED BY <2>1, <3>1, <3>2 DEF Typed
  <2>2. CASE ~\E f \in funcs : f[1] = id
    BY <2>2, FuncKinds
  <2> QED BY <2>1, <2>2
<1>2. Register(ids, funcs) = [k \in DOMAIN ids |-> [id |-> ids[k], func |-> F(ids[k])]]
  BY DEF Register
<1> HIDE DEF F
<1>3. DOMAIN ids = 1 .. Len(ids) /\ Len(ids) \in Nat /\ \A k \in DOMAIN ids : ids[k] \in Nat
  OBVIOUS
<1>4. DOMAIN ids \in SUBSET Nat
  BY <1>3
<1> QED BY <1>1, <1>2, <1>3, <1>4 DEF IsTable

\* The interfaces that functions open and that are registered are known.
LEMMA KnownInterfaces ==
  {"IAccountServiceForApplication", "IAddOnContentManager", "IAllSystemAppletProxiesService",
   "IAppletResource", "IApplicationDisplayService", "IApplicationFunctions",
   "IApplicationProxy", "IApplicationProxyService", "IApplicationRootService",
   "IAudioController", "ICommonStateGetter", "IDebugFunctions", "IDisplayController",
   "IFileSystemProxy", "IGeneralService", "IHOSBinderDriver", "IHidServer",
   "ILibraryAppletCreator", "ILibraryAppletProxy", "ILogService", "ILogger", "IManager",
   "IManagerDisplayService", "IManagerForApplication", "IManagerRootService", "INvDrvServices",
   "IParentalControlServiceFactory", "IProcessWindingController", "IProfile", "ISelfController",
   "ISession", "ISettingsServer", "ISteadyClock", "IStorageAccessor", "ISystemClock",
   "ISystemDisplayService", "ISystemRootService", "ITimeZoneService", "IWindowController",
   "SmService", "am_IStorage", "fssrv_IStorage", "nifm_IStaticService", "time_IStaticService"} \subseteq DOMAIN Interfaces
BY DEF Interfaces

\* The table of every interface.
LEMMA TablesTyped == \A i \in DOMAIN Interfaces : IsTable(Interfaces[i])
<1>1. IsTable(SmService)
  <2>1. <<0, 1, 2, 3>> \in Seq(Nat)
    OBVIOUS
  <2>2. Typed(SmServiceFuncs)
    BY FuncKinds, KnownInterfaces DEF SmServiceFuncs, Typed, Fakes
  <2> QED BY <2>1, <2>2, RegisterTyped, Zenon DEF SmService
<1>2. IsTable(IAccountServiceForApplication)
  <2> DEFINE ids == <<0, 1, 2, 3, 4, 5, 6, 50, 51, 100, 101, 102, 110, 111, 120>>
  <2>1. ids \in Seq(Nat)
    OBVIOUS
  <2>2. Typed(IAccountServiceForApplicationFuncs)
    BY FuncKinds, KnownInterfaces DEF IAccountServiceForApplicationFuncs, Typed, Fakes
  <2>3. IAccountServiceForApplication = Register(ids, IAccountServiceForApplicationFuncs)
    BY DEF IAccountServiceForApplication
  <2> HIDE DEF ids
  <2> QED BY <2>1, <2>2, <2>3, RegisterTyped
<1>3. IsTable(IManagerForApplication)
  <2> DEFINE ids == <<0, 1, 2, 3, 130, 150>>
  <2>1. ids \in Seq(Nat)
    OBVIOUS
  <2>2. Typed(NoFuncs)
    BY FuncKinds, KnownInterfaces DEF NoFuncs, Typed, Fakes
  <2>3. IManagerForApplication = Register(ids, NoFuncs)
    BY DEF IManagerForApplication
  <2> HIDE DEF ids
  <2> QED BY <2>1, <2>2, <2>3, RegisterTyped
<1>4. IsTable(INotifier)
  <2>1. <<0>> \in Seq(Nat)
    OBVIOUS
  <2>2. Typed(NoFuncs)
    BY FuncKinds, KnownInterfaces DEF NoFuncs, Typed, Fakes
  <2> QED BY <2>1, <2>2, RegisterTyped, Zenon DEF INotifier
<1>5. IsTable(IProfile)
  <2>1. <<0, 1, 10, 11>> \in Seq(Nat)
    OBVIOUS
  <2>2. Typed(IProfileFuncs)
    BY FuncKinds, KnownInterfaces DEF IProfileFuncs, Typed, Fakes
  <2> QED BY <2>1, <2>2, RegisterTyped, Zenon DEF IProfile
<1>6. IsTable(IAllSystemAppletProxiesService)
  <2> DEFINE ids == <<100, 200, 201, 300, 350, 400>>
  <2>1. ids \in Seq(Nat)
    OBVIOUS
  <2>2. Typed(IAllSystemAppletProxiesServiceFuncs)
    BY FuncKinds, KnownInterfaces DEF IAllSystemAppletProxiesServiceFuncs, Typed, Fakes
  <2>3. IAllSystemAppletProxiesService = Register(ids, IAllSystemAppletProxiesServiceFuncs)
    BY DEF IAllSystemAppletProxiesService
  <2> HIDE DEF ids
  <2> QED BY <2>1, <2>2, <2>3, RegisterTyped
<1>7. IsTable(IApplicationFunctions)
  <2> DEFINE ids == <<1, 10, 11, 20, 21, 22, 23, 24, 25, 26, 30, 31, 32, 33, 40, 50, 60, 65, 66,
                    67, 70, 71>>
  <2>1. ids \in Seq(Nat)
    OBVIOUS
  <2>2. Typed(IApplicationFunctionsFuncs)
    BY FuncKinds, KnownInterfaces DEF IApplicationFunctionsFuncs, Typed, Fakes
  <2>3. IApplicationFunctions = Register(ids, IApplicationFunctionsFuncs)
    BY DEF IApplicationFunctions
  <2> HIDE DEF ids
  <2> QED BY <2>1, <2>2, <2>3, RegisterTyped
<1>8. IsTable(IApplicationProxy)
  <2> DEFINE ids == <<0, 1, 2, 3, 4, 10, 11, 20, 1000>>
  <2>1. ids \in Seq(Nat)
    OBVIOUS
  <2>2. Typed(IApplicationProxyFuncs)
    BY FuncKinds, KnownInterfaces DEF IApplicationProxyFuncs, Typed, Fakes
  <2>3. IApplicationProxy = Register(ids, IApplicationProxyFuncs)
    BY DEF IApplicationProxy
  <2> HIDE DEF ids
  <2> QED BY <2>1, <2>2, <2>3, RegisterTyped
<1>9. IsTable(IApplicationProxyService)
  <2>1. <<0>> \in Seq(Nat)
    OBVIOUS
  <2>2. Typed(IApplicationProxyServiceFuncs)
    BY FuncKinds, KnownInterfaces DEF IApplicationProxyServiceFuncs, Typed, Fakes
  <2> QED BY <2>1, <2>2, RegisterTyped, Zenon DEF IApplicationProxyService
<1>10. IsTable(IAudioController)
  <2>1. <<0, 1, 2, 3, 4>> \in Seq(Nat)
    OBVIOUS
  <2>2. Typed(NoFuncs)
    BY FuncKinds, KnownInterfaces DEF NoFuncs, Typed, Fakes
  <2> QED BY <2>1, <2>2, RegisterTyped, Zenon DEF IAudioController
<1>11. IsTable(ICommonStateGetter)
  <2> DEFINE ids == <<0, 1, 2, 3, 4, 5, 6, 7, 8, 9, 10, 11, 12, 13, 20, 30, 31, 40, 50, 51, 55,
                    60, 61>>
  <2>1. ids \in Seq(Nat)
    OBVIOUS
  <2>2. Typed(ICommonStateGetterFuncs)
    BY FuncKinds, KnownInterfaces DEF ICommonStateGetterFuncs, Typed, Fakes
  <2>3. ICommonStateGetter = Register(ids, ICommonStateGetterFuncs)
    BY DEF ICommonStateGetter
  <2> HIDE DEF ids
  <2> QED BY <2>1, <2>2, <2>3, RegisterTyped
<1>12. IsTable(IDebugFunctions)
  <2>1. <<0, 1, 10, 20>> \in Seq(Nat)
    OBVIOUS
  <2>2. Typed(NoFuncs)
    BY FuncKinds, KnownInterfaces DEF NoFuncs, Typed, Fakes
  <2> QED BY <2>1, <2>2, RegisterTyped, Zenon DEF IDebugFunctions
<1>13. IsTable(IDisplayController)
  <2>1. <<0, 1, 2, 3, 4, 5, 6, 7, 8, 10, 11, 12, 13, 14, 15, 16, 17, 18, 20, 21>> \in Seq(Nat)
    OBVIOUS
  <2>2. Typed(NoFuncs)
    BY FuncKinds, KnownInterfaces DEF NoFuncs, Typed, Fakes
  <2> QED BY <2>1, <2>2, RegisterTyped, Zenon DEF IDisplayController
<1>14. IsTable(ILibraryAppletCreator)
  <2>1. <<0, 1, 2, 10, 11, 12>> \in Seq(Nat)
    OBVIOUS
  <2>2. Typed(NoFuncs)
    BY FuncKinds, KnownInterfaces DEF NoFuncs, Typed, Fakes
  <2> QED BY <2>1, <2>2, RegisterTyped, Zenon DEF ILibraryAppletCreator
<1>15. IsTable(ILibraryAppletProxy)
  <2> DEFINE ids == <<0, 1, 2, 3, 4, 10, 11, 20, 1000>>
  <2>1. ids \in Seq(Nat)
    OBVIOUS
  <2>2. Typed(ILibraryAppletProxyFuncs)
    BY FuncKinds, KnownInterfaces DEF ILibraryAppletProxyFuncs, Typed, Fakes
  <2>3. ILibraryAppletProxy = Register(ids, ILibraryAppletProxyFuncs)
    BY DEF ILibraryAppletProxy
  <2> HIDE DEF ids
  <2> QED BY <2>1, <2>2, <2>3, RegisterTyped
<1>16. IsTable(IProcessWindingController)
  <2>1. <<0, 11, 21, 22, 23, 30, 40>> \in Seq(Nat)
    OBVIOUS
  <2>2. Typed(NoFuncs)
    BY FuncKinds, KnownInterfaces DEF NoFuncs, Typed, Fakes
  <2> QED BY <2>1, <2>2, RegisterTyped, Zenon DEF IProcessWindingController
<1>17. IsTable(ISelfController)
  <2> DEFINE ids == <<0, 1, 2, 3, 4, 9, 10, 11, 12, 13, 14, 15, 16, 17, 18, 19, 40, 50, 51, 60,
                    61, 62, 63, 64, 65, 66, 67>>
  <2>1. ids \in Seq(Nat)
    OBVIOUS
  <2>2. Typed(ISelfControllerFuncs)
    BY FuncKinds, KnownInterfaces DEF ISelfControllerFuncs, Typed, Fakes
  <2>3. ISelfController = Register(ids, ISelfControllerFuncs)
    BY DEF ISelfController
  <2> HIDE DEF ids
  <2> QED BY <2>1, <2>2, <2>3, RegisterTyped
<1>18. IsTable(am_IStorage)
  <2>1. <<0, 1>> \in Seq(Nat)
    OBVIOUS
  <2>2. Typed(am_IStorageFuncs)
    BY FuncKinds, KnownInterfaces DEF am_IStorageFuncs, Typed, Fakes
  <2> QED BY <2>1, <2>2, RegisterTyped, Zenon DEF am_IStorage
<1>19. IsTable(IStorageAccessor)
  <2>1. <<0, 10, 11>> \in Seq(Nat)
    OBVIOUS
  <2>2. Typed(IStorageAccessorFuncs)
    BY FuncKinds, KnownInterfaces DEF IStorageAccessorFuncs, Typed, Fakes
  <2> QED BY <2>1, <2>2, RegisterTyped, Zenon DEF IStorageAccessor
<1>20. IsTable(IWindowController)
  <2>1. <<0, 1, 10, 11, 12>> \in Seq(Nat)
    OBVIOUS
  <2>2. Typed(IWindowControllerFuncs)
    BY FuncKinds, KnownInterfaces DEF IWindowControllerFuncs, Typed, Fakes
  <2> QED BY <2>1, <2>2, RegisterTyped, Zenon DEF IWindowController
<1>21. IsTable(IAddOnContentManager)
  <2>1. <<0, 1, 2, 3, 4, 5, 6, 7>> \in Seq(Nat)
    OBVIOUS
  <2>2. Typed(NoFuncs)
    BY FuncKinds, KnownInterfaces DEF NoFuncs, Typed, Fakes
  <2> QED BY <2>1, <2>2, RegisterTyped, Zenon DEF IAddOnContentManager
<1>22. IsTable(IManager)
  <2>1. <<0, 1>> \in Seq(Nat)
    OBVIOUS
  <2>2. Typed(IManagerFuncs)
    BY FuncKinds, KnownInterfaces DEF IManagerFuncs, Typed, Fakes
  <2> QED BY <2>1, <2>2, RegisterTyped, Zenon DEF IManager
<1>23. IsTable(ISession)
  <2>1. <<0, 0>> \in Seq(Nat)
    OBVIOUS
  <2>2. Typed(ISessionFuncs)
    BY FuncKinds, KnownInterfaces DEF ISessionFuncs, Typed, Fakes
  <2> QED BY <2>1, <2>2, RegisterTyped, Zenon DEF ISession
<1>24. IsTable(IFileSystemProxy)
  <2> DEFINE ids == <<1, 2, 7, 8, 9, 11, 12, 13, 17, 18, 19, 21, 22, 23, 24, 25, 26, 27, 30, 31,
                    32, 51, 52, 53, 57, 58, 59, 60, 61, 80, 100, 110, 200, 201, 202, 203, 400,
                    500, 501, 600, 601, 602, 603, 604, 605, 606, 607, 607, 609, 610, 620, 800,
                    1000, 1001, 1002, 1003, 1004, 1005, 1006>>
  <2>1. ids \in Seq(Nat)
    OBVIOUS
  <2>2. Typed(IFileSystemProxyFuncs)
    BY FuncKinds, KnownInterfaces DEF IFileSystemProxyFuncs, Typed, Fakes
  <2>3. IFileSystemProxy = Register(ids, IFileSystemProxyFuncs)
    BY DEF IFileSystemProxy
  <2> HIDE DEF ids
  <2> QED BY <2>1, <2>2, <2>3, RegisterTyped
<1>25. IsTable(fssrv_IStorage)
  <2>1. <<0, 1, 2, 3, 4>> \in Seq(Nat)
    OBVIOUS
  <2>2. Typed(fssrv_IStorageFuncs)
    BY FuncKinds, KnownInterfaces DEF fssrv_IStorageFuncs, Typed, Fakes
  <2> QED BY <2>1, <2>2, RegisterTyped, Zenon DEF fssrv_IStorage
<1>26. IsTable(IAppletResource)
  <2>1. <<0>> \in Seq(Nat)
    OBVIOUS
  <2>2. Typed(IAppletResourceFuncs)
    BY FuncKinds, KnownInterfaces DEF IAppletResourceFuncs, Typed, Fakes
  <2> QED BY <2>1, <2>2, RegisterTyped, Zenon DEF IAppletResource
<1>27. IsTable(IHidServer)
  <2> DEFINE ids == <<0, 1, 11, 21, 31, 40, 41, 51, 55, 56, 58, 59, 60, 61, 62, 63, 64, 65, 66,
                    67, 68, 69, 70, 71, 72, 73, 74, 75, 76, 77, 78, 79, 80, 81, 82, 91, 100,
                    101, 102, 103, 104, 106, 107, 108, 120, 121, 122, 123, 124, 125, 126, 127,
                    128, 129, 130, 131, 132, 200, 201, 202, 203, 204, 205, 206, 300, 301, 302,
                    400, 401, 402, 1000, 1001>>
  <2>1. ids \in Seq(Nat)
    OBVIOUS
  <2>2. Typed(IHidServerFuncs)
    BY FuncKinds, KnownInterfaces DEF IHidServerFuncs, Typed, Fakes
  <2>3. IHidServer = Register(ids, IHidServerFuncs)
    BY DEF IHidServer
  <2> HIDE DEF ids
  <2> QED BY <2>1, <2>2, <2>3, RegisterTyped
<1>28. IsTable(ILogService)
  <2>1. <<0>> \in Seq(Nat)
    OBVIOUS
  <2>2. Typed(ILogServiceFuncs)
    BY FuncKinds, KnownInterfaces DEF ILogServiceFuncs, Typed, Fakes
  <2> QED BY <2>1, <2>2, RegisterTyped, Zenon DEF ILogService
<1>29. IsTable(ILogger)
  <2>1. <<0, 1>> \in Seq(Nat)
    OBVIOUS
  <2>2. Typed(ILoggerFuncs)
    BY FuncKinds, KnownInterfaces DEF ILoggerFuncs, Typed, Fakes
  <2> QED BY <2>1, <2>2, RegisterTyped, Zenon DEF ILogger
<1>30. IsTable(IGeneralService)
  <2>1. <<1, 2, 4, 5, 6, 7, 8, 9, 10, 11, 12, 13, 14, 15, 16, 17, 18, 19, 20, 21, 22, 23, 24,
        25, 26, 27, 28, 29, 30, 31, 32, 33>> \in Seq(Nat)
    OBVIOUS
  <2>2. Typed(NoFuncs)
    BY FuncKinds, KnownInterfaces DEF NoFuncs, Typed, Fakes
  <2> QED BY <2>1, <2>2, RegisterTyped, Zenon DEF IGeneralService
<1>31. IsTable(nifm_IStaticService)
  <2>1. <<4, 5>> \in Seq(Nat)
    OBVIOUS
  <2>2. Typed(nifm_IStaticServiceFuncs)
    BY FuncKinds, KnownInterfaces DEF nifm_IStaticServiceFuncs, Typed, Fakes
  <2> QED BY <2>1, <2>2, RegisterTyped, Zenon DEF nifm_IStaticService
<1>32. IsTable(IParentalControlServiceFactory)
  <2>1. <<0>> \in Seq(Nat)
    OBVIOUS
  <2>2. Typed(IParentalControlServiceFactoryFuncs)
    BY FuncKinds, KnownInterfaces DEF IParentalControlServiceFactoryFuncs, Typed, Fakes
  <2> QED BY <2>1, <2>2, RegisterTyped, Zenon DEF IParentalControlServiceFactory
<1>33. IsTable(ISettingsServer)
  <2>1. <<0, 1, 3, 4>> \in Seq(Nat)
    OBVIOUS
  <2>2. Typed(ISettingsServerFuncs)
    BY FuncKinds, KnownInterfaces DEF ISettingsServerFuncs, Typed, Fakes
  <2> QED BY <2>1, <2>2, RegisterTyped, Zenon DEF ISettingsServer
<1>34. IsTable(time_IStaticService)
  <2> DEFINE ids == <<0, 1, 2, 3, 4, 100, 101, 200>>
  <2>1. ids \in Seq(Nat)
    OBVIOUS
  <2>2. Typed(time_IStaticServiceFuncs)
    BY FuncKinds, KnownInterfaces DEF time_IStaticServiceFuncs, Typed, Fakes
  <2>3. time_IStaticService = Register(ids, time_IStaticServiceFuncs)
    BY DEF time_IStaticService
  <2> HIDE DEF ids
  <2> QED BY <2>1, <2>2, <2>3, RegisterTyped
<1>35. IsTable(ISteadyClock)
  <2> DEFINE ids == <<0, 2, 3, 100, 101, 102, 200, 201>>
  <2>1. ids \in Seq(Nat)
    OBVIOUS
  <2>2. Typed(NoFuncs)
    BY FuncKinds, KnownInterfaces DEF NoFuncs, Typed, Fakes
  <2>3. ISteadyClock = Register(ids, NoFuncs)
    BY DEF ISteadyClock
  <2> HIDE DEF ids
  <2> QED BY <2>1, <2>2, <2>3, RegisterTyped
<1>36. IsTable(ISystemClock)
  <2>1. <<0, 1, 2, 3>> \in Seq(Nat)
    OBVIOUS
  <2>2. Typed(ISystemClockFuncs)
    BY FuncKinds, KnownInterfaces DEF ISystemClockFuncs, Typed, Fakes
  <2> QED BY <2>1, <2>2, RegisterTyped, Zenon DEF ISystemClock
<1>37. IsTable(ITimeZoneService)
  <2> DEFINE ids == <<0, 1, 2, 3, 4, 5, 100, 101, 201, 202>>
  <2>1. ids \in Seq(Nat)
    OBVIOUS
  <2>2. Typed(ITimeZoneServiceFuncs)
    BY FuncKinds, KnownInterfaces DEF ITimeZoneServiceFuncs, Typed, Fakes
  <2>3. ITimeZoneService = Register(ids, ITimeZoneServiceFuncs)
    BY DEF ITimeZoneService
  <2> HIDE DEF ids
  <2> QED BY <2>1, <2>2, <2>3, RegisterTyped
<1>38. IsTable(IApplicationDisplayService)
  <2> DEFINE ids == <<100, 101, 102, 103, 1000, 1010, 1011, 1020, 1101, 1102, 2020, 2021, 2030,
                    2031, 2101, 2450, 2451, 2460, 5202, 5203>>
  <2>1. ids \in Seq(Nat)
    OBVIOUS
  <2>2. Typed(IApplicationDisplayServiceFuncs)
    BY FuncKinds, KnownInterfaces DEF IApplicationDisplayServiceFuncs, Typed, Fakes, CreateStrayLayer
  <2>3. IApplicationDisplayService = Register(ids, IApplicationDisplayServiceFuncs)
    BY DEF IApplicationDisplayService
  <2> HIDE DEF ids
  <2> QED BY <2>1, <2>2, <2>3, RegisterTyped
<1>39. IsTable(IApplicationRootService)
  <2>1. <<0>> \in Seq(Nat)
    OBVIOUS
  <2>2. Typed(NoFuncs)
    BY FuncKinds, KnownInterfaces DEF NoFuncs, Typed, Fakes
  <2> QED BY <2>1, <2>2, RegisterTyped, Zenon DEF IApplicationRootService
<1>40. IsTable(IManagerDisplayService)
  <2> DEFINE ids == <<1102, 2010, 2011, 2050, 2051, 2052, 2053, 2054, 2055, 2300, 2301, 2302,
                    2402, 4201, 4203, 4205, 6000, 6001, 6002, 7000, 8000, 8100>>
  <2>1. ids \in Seq(Nat)
    OBVIOUS
  <2>2. Typed(IManagerDisplayServiceFuncs)
    BY FuncKinds, KnownInterfaces DEF IManagerDisplayServiceFuncs, Typed, Fakes
  <2>3. IManagerDisplayService = Register(ids, IManagerDisplayServiceFuncs)
    BY DEF IManagerDisplayService
  <2> HIDE DEF ids
  <2> QED BY <2>1, <2>2, <2>3, RegisterTyped
<1>41. IsTable(IManagerRootService)
  <2>1. <<2, 3>> \in Seq(Nat)
    OBVIOUS
  <2>2. Typed(IManagerRootServiceFuncs)
    BY FuncKinds, KnownInterfaces DEF IManagerRootServiceFuncs, Typed, Fakes
  <2> QED BY <2>1, <2>2, RegisterTyped, Zenon DEF IManagerRootService
<1>42. IsTable(ISystemDisplayService)
  <2> DEFINE ids == <<1200, 1202, 1203, 1204, 2201, 2203, 2204, 2205, 2207, 2209, 2312, 2400,
                    2401, 2402, 3000, 3001, 3002, 3200, 3201, 3202, 3203, 3204, 3205, 3206,
                    3207, 3208, 3209, 3210, 3211, 3214, 3215, 3216, 3217>>
  <2>1. ids \in Seq(Nat)
    OBVIOUS
  <2>2. Typed(ISystemDisplayServiceFuncs)
    BY FuncKinds, KnownInterfaces DEF ISystemDisplayServiceFuncs, Typed, Fakes
  <2>3. ISystemDisplayService = Register(ids, ISystemDisplayServiceFuncs)
    BY DEF ISystemDisplayService
  <2> HIDE DEF ids
  <2> QED BY <2>1, <2>2, <2>3, RegisterTyped
<1>43. IsTable(ISystemRootService)
  <2>1. <<1, 3>> \in Seq(Nat)
    OBVIOUS
  <2>2. Typed(ISystemRootServiceFuncs)
    BY FuncKinds, KnownInterfaces DEF ISystemRootServiceFuncs, Typed, Fakes
  <2> QED BY <2>1, <2>2, RegisterTyped, Zenon DEF ISystemRootService
<1>44. IsTable(IHOSBinderDriver)
  <2>1. <<0, 1, 2, 3>> \in Seq(Nat)
    OBVIOUS
  <2>2. Typed(IHOSBinderDriverFuncs)
    BY FuncKinds, KnownInterfaces DEF IHOSBinderDriverFuncs, Typed, Fakes
  <2> QED BY <2>1, <2>2, RegisterTyped, Zenon DEF IHOSBinderDriver
<1>45. IsTable(INvDrvServices)
  <2>1. <<0, 1, 2, 3, 4, 5, 6, 7, 8, 9, 10, 11, 12, 13>> \in Seq(Nat)
    OBVIOUS
  <2>2. Typed(INvDrvServicesFuncs)
    BY FuncKinds, KnownInterfaces DEF INvDrvServicesFuncs, Typed, Fakes
  <2> QED BY <2>1, <2>2, RegisterTyped, Zenon DEF INvDrvServices
<1>46. \A i \in DOMAIN Interfaces : Interfaces[i] \in {SmService, IAccountServiceForApplication, IManagerForApplication, INotifier,
          IProfile, IAllSystemAppletProxiesService, IApplicationFunctions, IApplicationProxy,
          IApplicationProxyService, IAudioController, ICommonStateGetter, IDebugFunctions,
          IDisplayController, ILibraryAppletCreator, ILibraryAppletProxy,
          IProcessWindingController, ISelfController, am_IStorage, IStorageAccessor,
          IWindowController, IAddOnContentManager, IManager, ISession, IFileSystemProxy,
          fssrv_IStorage, IAppletResource, IHidServer, ILogService, ILogger, IGeneralService,
          nifm_IStaticService, IParentalControlServiceFactory, ISettingsServer,
          time_IStaticService, ISteadyClock, ISystemClock, ITimeZoneService,
          IApplicationDisplayService, IApplicationRootService, IManagerDisplayService,
          IManagerRootService, ISystemDisplayService, ISystemRootService, IHOSBinderDriver,
          INvDrvServices}
  BY DEF Interfaces
<1> QED BY <1>1, <1>2, <1>3, <1>4, <1>5, <1>6, <1>7, <1>8, <1>9, <1>10, <1>11, <1>12, <1>13, <1>14, <1>15, <1>16, <1>17, <1>18, <1>19, <1>20, <1>21, <1>22, <1>23, <1>24, <1>25, <1>26, <1>27, <1>28, <1>29, <1>30, <1>31, <1>32, <1>33, <1>34, <1>35, <1>36, <1>37, <1>38, <1>39, <1>40, <1>41, <1>42, <1>43, <1>44, <1>45, <1>46

\* The function a table finds for a command it knows is one of the table's.
LEMMA FindsFunction ==
  ASSUME NEW interface \in DOMAIN Interfaces, NEW cmdId, Knows(interface, cmdId)
  PROVE  IsFunc(FindFunction(interface, cmdId))
<1>1. PICK t : t = Interfaces[interface]
  OBVIOUS
<1>2. IsTable(t)
  BY <1>1, TablesTyped
<1>3. PICK S : S = {k \in DOMAIN t : t[k].id = cmdId}
  OBVIOUS
<1>4. S \in SUBSET Nat /\ S # {} /\ S = Entries(interface, cmdId)
  BY <1>1, <1>2, <1>3 DEF IsTable, Knows, Entries
<1>5. Min(S) \in S
  BY <1>4, MinIsLeast
<1>6. FindFunction(interface, cmdId) = t[Min(S)].func
  BY <1>1, <1>4 DEF FindFunction, Min
<1> QED BY <1>2, <1>3, <1>5, <1>6 DEF IsTable

\* Commands are numbers, and known.
LEMMA CommandFacts ==
  ASSUME NEW interface \in DOMAIN Interfaces, NEW id \in Commands(interface)
  PROVE  id \in Nat /\ Knows(interface, id)
<1>1. PICK k \in DOMAIN Interfaces[interface] : id = Interfaces[interface][k].id
  BY DEF Commands
<1>2. id \in Nat
  BY <1>1, TablesTyped DEF IsTable
<1> QED BY <1>1, <1>2 DEF Knows, Entries

\* Ports and services are interfaces.
LEMMA KnownServices ==
  /\ \A name \in DOMAIN gRegisteredServices : gRegisteredServices[name] \in DOMAIN Interfaces
  /\ \A name \in DOMAIN gNamedPorts : gNamedPorts[name] \in DOMAIN Interfaces
<1>1. \A r \in Registrations : r[2] \in DOMAIN Interfaces
  BY KnownInterfaces DEF Registrations
<1>2. ASSUME NEW name \in DOMAIN gRegisteredServices
      PROVE  gRegisteredServices[name] \in DOMAIN Interfaces
  <2>1. name \in {r[1] : r \in Registrations}
    BY DEF gRegisteredServices
  <2>2. PICK c : c = CHOOSE r \in Registrations : r[1] = name
    OBVIOUS
  <2>3. c \in Registrations
    BY <2>1, <2>2
  <2>4. gRegisteredServices[name] = c[2]
    BY <2>1, <2>2 DEF gRegisteredServices
  <2> QED BY <1>1, <2>3, <2>4
<1>3. \A name \in DOMAIN gNamedPorts : gNamedPorts[name] \in DOMAIN Interfaces
  BY KnownInterfaces DEF gNamedPorts
<1> QED BY <1>2, <1>3

=============================================================================
