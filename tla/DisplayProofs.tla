---------------------------- MODULE DisplayProofs ----------------------------
(***************************************************************************)
(* The graphics thread shows whole frames and leaves the game its buffers, *)
(* for any number of layers, objects, slots and frames.  Neither invariant *)
(* is inductive.  They need that ids and handles are positions (Ids), that *)
(* no two buffers share a slot or memory (Layout), that the memory of a    *)
(* queued buffer holds its frame (Queued), and that the buffer being shown *)
(* stays in its queue as it was copied (Shown).                            *)
(***************************************************************************)
EXTENDS Display, SequenceLemmas, SequenceTheorems, FiniteSetTheorems, TLAPS

GraphicBuffers == [status : {"FREE", "DEQUEUED", "QUEUED"}, slot : Slots,
                   nvmapHandle : Nat, offset : Nat, frame : Nat]
Queues == [id : Nat, buffers : Seq(GraphicBuffers)]
Addresses == {Address(h) + o : h \in 1 .. MaxObjects, o \in 0 .. MaxBuffers - 1}

TypeInv ==
    /\ gMapObjects \in Seq([handle : Nat, addr : Nat])
    /\ layers \in Seq([id : Nat, bufferId : Nat])
    /\ buffers \in Seq(Queues)
    /\ pixels \in [Addresses -> Nat]
    /\ held \subseteq Nat \X Slots
    /\ pc \in {"loop", "layer", "upper", "lower", "free"}
    /\ at \in Nat /\ end \in Nat
    /\ screen \in [upper : Nat, lower : Nat]

\* Ids and handles count up from the first one: they are positions.
Ids ==
    /\ Len(buffers) = Len(layers)
    /\ \A k \in 1 .. Len(layers) : /\ layers[k].id = FirstLayer + (k - 1)
                                   /\ layers[k].bufferId = FirstBuffer + (k - 1)
                                   /\ buffers[k].id = FirstBuffer + (k - 1)
    /\ Len(gMapObjects) <= MaxObjects
    /\ \A h \in 1 .. Len(gMapObjects) : /\ gMapObjects[h].handle = h
                                        /\ gMapObjects[h].addr \in {NULL, Address(h)}

\* The positions of all buffers, and the buffer at one of them.
Places == {p \in Nat \X Nat : /\ p[1] \in 1 .. Len(buffers)
                              /\ p[2] \in 1 .. Len(buffers[p[1]].buffers)}
B(p) == buffers[p[1]].buffers[p[2]]
Memory(b) == Address(b.nvmapHandle) + b.offset

\* The slots whose buffers lie in an object.
SlotsIn(h) == {s \in (1 .. Len(buffers)) \X Slots :
                 \E p \in Places : p[1] = s[1] /\ B(p).slot = s[2] /\ B(p).nvmapHandle = h}

Layout ==
    /\ \A p \in Places :
          /\ B(p).nvmapHandle \in 1 .. Len(gMapObjects)
          /\ gMapObjects[B(p).nvmapHandle].addr = Address(B(p).nvmapHandle)
          /\ B(p).offset < MaxBuffers
          /\ B(p).offset < Cardinality(SlotsIn(B(p).nvmapHandle))
    /\ \A p, q \in Places : p # q => /\ p[1] = q[1] => B(p).slot # B(q).slot
                                     /\ Memory(B(p)) # Memory(B(q))

Held == \A h \in held : \E p \in Places :
            p[1] = h[1] /\ B(p).slot = h[2] /\ B(p).status = "DEQUEUED"

Queued == \A p \in Places : B(p).status = "QUEUED" => pixels[Memory(B(p))] = B(p).frame

Shown ==
    /\ end <= Len(layers)
    /\ pc \in {"layer", "upper", "lower", "free"} => at \in 1 .. Len(layers)
    /\ pc \in {"upper", "lower", "free"} =>
          \E p \in Places : p[1] = at /\ B(p) = queuedBuffer /\ B(p).status = "QUEUED"
    /\ pc \in {"lower", "free"} => screen.upper = queuedBuffer.frame
    /\ pc = "free" => screen.lower = queuedBuffer.frame

IInv == TypeInv /\ Ids /\ Layout /\ Held /\ Queued /\ Shown

----------------------------------------------------------------------------
(* Lookups.                                                                *)

\* The lookups on explicit vectors: the provers read these at both ends of a step.
PosOfId(s, id) == SelectInSeq(s, LAMBDA e : e.id = id)
PosOfHandle(s, handle) == SelectInSeq(s, LAMBDA e : e.handle = handle)
PosOfSlot(s, slot) == SelectInSeq(s, LAMBDA e : e.slot = slot)
PosOfStatus(s, status) == SelectInSeq(s, LAMBDA e : e.status = status)

\* Each finds an element that fits if there is one, and 0 otherwise.
LEMMA Lookups ==
  ASSUME NEW s, Len(s) \in Nat, NEW v
  PROVE  /\ \/ PosOfId(s, v) \in 1 .. Len(s) /\ s[PosOfId(s, v)].id = v
            \/ PosOfId(s, v) = 0 /\ \A i \in 1 .. Len(s) : s[i].id # v
         /\ \/ PosOfHandle(s, v) \in 1 .. Len(s) /\ s[PosOfHandle(s, v)].handle = v
            \/ PosOfHandle(s, v) = 0 /\ \A i \in 1 .. Len(s) : s[i].handle # v
         /\ \/ PosOfSlot(s, v) \in 1 .. Len(s) /\ s[PosOfSlot(s, v)].slot = v
            \/ PosOfSlot(s, v) = 0 /\ \A i \in 1 .. Len(s) : s[i].slot # v
         /\ \/ PosOfStatus(s, v) \in 1 .. Len(s) /\ s[PosOfStatus(s, v)].status = v
            \/ PosOfStatus(s, v) = 0 /\ \A i \in 1 .. Len(s) : s[i].status # v
<1>1. ASSUME NEW T \in SUBSET (1 .. Len(s)), T # {} PROVE Min(T) \in T
  BY <1>1, MinIsLeast
<1>2. PosOfId(s, v) = LET T == {i \in 1 .. Len(s) : s[i].id = v} IN IF T # {} THEN Min(T) ELSE 0
  BY DEF PosOfId, SelectInSeq
<1>3. PosOfHandle(s, v) = LET T == {i \in 1 .. Len(s) : s[i].handle = v} IN IF T # {} THEN Min(T) ELSE 0
  BY DEF PosOfHandle, SelectInSeq
<1>4. PosOfSlot(s, v) = LET T == {i \in 1 .. Len(s) : s[i].slot = v} IN IF T # {} THEN Min(T) ELSE 0
  BY DEF PosOfSlot, SelectInSeq
<1>5. PosOfStatus(s, v) = LET T == {i \in 1 .. Len(s) : s[i].status = v} IN IF T # {} THEN Min(T) ELSE 0
  BY DEF PosOfStatus, SelectInSeq
<1> HIDE DEF PosOfId, PosOfHandle, PosOfSlot, PosOfStatus
<1>6. \/ PosOfId(s, v) \in 1 .. Len(s) /\ s[PosOfId(s, v)].id = v
      \/ PosOfId(s, v) = 0 /\ \A i \in 1 .. Len(s) : s[i].id # v
  <2> DEFINE T == {i \in 1 .. Len(s) : s[i].id = v}
  <2>1. CASE T = {}
    BY <1>2, <2>1
  <2>2. CASE T # {}
    BY <1>1, <1>2, <2>2
  <2> QED BY <2>1, <2>2
<1>7. \/ PosOfHandle(s, v) \in 1 .. Len(s) /\ s[PosOfHandle(s, v)].handle = v
      \/ PosOfHandle(s, v) = 0 /\ \A i \in 1 .. Len(s) : s[i].handle # v
  <2> DEFINE T == {i \in 1 .. Len(s) : s[i].handle = v}
  <2>1. CASE T = {}
    BY <1>3, <2>1
  <2>2. CASE T # {}
    BY <1>1, <1>3, <2>2
  <2> QED BY <2>1, <2>2
<1>8. \/ PosOfSlot(s, v) \in 1 .. Len(s) /\ s[PosOfSlot(s, v)].slot = v
      \/ PosOfSlot(s, v) = 0 /\ \A i \in 1 .. Len(s) : s[i].slot # v
  <2> DEFINE T == {i \in 1 .. Len(s) : s[i].slot = v}
  <2>1. CASE T = {}
    BY <1>4, <2>1
  <2>2. CASE T # {}
    BY <1>1, <1>4, <2>2
  <2> QED BY <2>1, <2>2
<1>9. \/ PosOfStatus(s, v) \in 1 .. Len(s) /\ s[PosOfStatus(s, v)].status = v
      \/ PosOfStatus(s, v) = 0 /\ \A i \in 1 .. Len(s) : s[i].status # v
  <2> DEFINE T == {i \in 1 .. Len(s) : s[i].status = v}
  <2>1. CASE T = {}
    BY <1>5, <2>1
  <2>2. CASE T # {}
    BY <1>1, <1>5, <2>2
  <2> QED BY <2>1, <2>2
<1> QED BY <1>6, <1>7, <1>8, <1>9

\* Ids and handles are positions, so the lookups return them.
LEMMA Positions ==
  ASSUME TypeInv, Ids
  PROVE  /\ \A k \in 1 .. Len(layers) : /\ OpenLayer(layers[k].id) = layers[k].bufferId
                                        /\ getBufferQueue(layers[k].bufferId) = k
         /\ \A h \in 1 .. Len(gMapObjects) : lookupNvmapObject(h) = h
<1>1. ASSUME NEW k \in 1 .. Len(layers) PROVE OpenLayer(layers[k].id) = layers[k].bufferId
  <2>1. getLayer(layers[k].id) = PosOfId(layers, layers[k].id)
    BY DEF getLayer, PosOfId
  <2>2. PosOfId(layers, layers[k].id) = k
    <3>1. Len(layers) \in Nat
      BY DEF TypeInv
    <3>2. \E i \in 1 .. Len(layers) :
             PosOfId(layers, layers[k].id) = i /\ layers[i].id = layers[k].id
      BY <3>1, Lookups
    <3> QED BY <3>1, <3>2 DEF Ids, FirstLayer
  <2> QED BY <2>1, <2>2 DEF OpenLayer
<1>2. ASSUME NEW k \in 1 .. Len(layers) PROVE getBufferQueue(layers[k].bufferId) = k
  <2>1. getBufferQueue(layers[k].bufferId) = PosOfId(buffers, layers[k].bufferId)
    BY DEF getBufferQueue, PosOfId
  <2>2. PosOfId(buffers, layers[k].bufferId) = k
    <3>1. Len(buffers) \in Nat
      BY DEF TypeInv
    <3>2. k \in 1 .. Len(buffers) /\ buffers[k].id = layers[k].bufferId
      BY DEF Ids
    <3>3. \E i \in 1 .. Len(buffers) :
             PosOfId(buffers, layers[k].bufferId) = i /\ buffers[i].id = layers[k].bufferId
      BY <3>1, <3>2, Lookups
    <3> QED BY <3>1, <3>2, <3>3 DEF Ids, FirstBuffer
  <2> QED BY <2>1, <2>2
<1>3. ASSUME NEW h \in 1 .. Len(gMapObjects) PROVE lookupNvmapObject(h) = h
  <2>1. lookupNvmapObject(h) = PosOfHandle(gMapObjects, h)
    BY DEF lookupNvmapObject, PosOfHandle
  <2>2. PosOfHandle(gMapObjects, h) = h
    <3>1. Len(gMapObjects) \in Nat
      BY DEF TypeInv
    <3> QED BY <3>1, Lookups, SMTT(30) DEF Ids
  <2> QED BY <2>1, <2>2
<1> QED BY <1>1, <1>2, <1>3

\* The buffers at the places are graphic buffers.
LEMMA BufferTypes ==
  ASSUME TypeInv
  PROVE  /\ Len(buffers) \in Nat /\ DOMAIN buffers = 1 .. Len(buffers)
         /\ \A q \in 1 .. Len(buffers) : /\ buffers[q].buffers \in Seq(GraphicBuffers)
                                         /\ buffers[q] \in Queues
         /\ \A p \in Places : B(p) \in GraphicBuffers
         /\ \A p \in Places : p = <<p[1], p[2]>> /\ p[1] \in 1 .. Len(buffers)
<1>1. \A q \in 1 .. Len(buffers) : buffers[q] \in Queues
  BY DEF TypeInv
<1> QED BY <1>1, SMTT(30) DEF TypeInv, Queues, Places, B

\* The lookups inside a queue find places.
LEMMA Finds ==
  ASSUME TypeInv, NEW q \in 1 .. Len(buffers), NEW v
  PROVE  /\ \/ <<q, AtSlot(q, v)>> \in Places /\ B(<<q, AtSlot(q, v)>>).slot = v
            \/ AtSlot(q, v) = 0 /\ \A p \in Places : p[1] = q => B(p).slot # v
         /\ \/ <<q, FreeBuffer(q)>> \in Places /\ B(<<q, FreeBuffer(q)>>).status = "FREE"
            \/ FreeBuffer(q) = 0
         /\ \/ /\ <<q, getQueuedBuffer(q)>> \in Places
               /\ B(<<q, getQueuedBuffer(q)>>).status = "QUEUED"
            \/ getQueuedBuffer(q) = 0
<1> DEFINE s == buffers[q].buffers
<1>1. Len(s) \in Nat /\ \A i \in 1 .. Len(s) : <<q, i>> \in Places /\ B(<<q, i>>) = s[i]
  BY BufferTypes DEF Places, B
<1>2. \A p \in Places : p[1] = q => p[2] \in 1 .. Len(s) /\ B(p) = s[p[2]]
  BY DEF Places, B
<1>3. /\ AtSlot(q, v) = PosOfSlot(s, v)
      /\ FreeBuffer(q) = PosOfStatus(s, "FREE")
      /\ getQueuedBuffer(q) = PosOfStatus(s, "QUEUED")
  BY DEF AtSlot, FreeBuffer, getQueuedBuffer, PosOfSlot, PosOfStatus
<1> HIDE DEF s
<1> QED BY <1>1, <1>2, <1>3, Lookups, SMTT(30)

\* Slots are distinct in a queue: the lookup by slot returns the place of the buffer.
LEMMA SlotPlace ==
  ASSUME TypeInv, Layout, NEW p \in Places
  PROVE  AtSlot(p[1], B(p).slot) = p[2]
<1>1. p[1] \in 1 .. Len(buffers) /\ p = <<p[1], p[2]>>
  BY BufferTypes
<1>2. <<p[1], AtSlot(p[1], B(p).slot)>> \in Places /\ B(<<p[1], AtSlot(p[1], B(p).slot)>>).slot = B(p).slot
  BY <1>1, Finds
<1>3. <<p[1], AtSlot(p[1], B(p).slot)>> = p
  BY <1>2 DEF Layout
<1> QED BY <1>1, <1>3

\* UsedOf, which counts with lookups, is the set of slots with a buffer in the object.
LEMMA UsedOfIs ==
  ASSUME TypeInv, Layout, NEW h
  PROVE  UsedOf(h) = SlotsIn(h)
<1>1. DOMAIN buffers = 1 .. Len(buffers)
  BY BufferTypes
<1>2. ASSUME NEW s \in UsedOf(h) PROVE s \in SlotsIn(h)
  <2>1. /\ s \in (1 .. Len(buffers)) \X Slots
        /\ AtSlot(s[1], s[2]) # 0
        /\ B(<<s[1], AtSlot(s[1], s[2])>>).nvmapHandle = h
    BY <1>1, <1>2 DEF UsedOf, B
  <2>2. /\ <<s[1], AtSlot(s[1], s[2])>> \in Places
        /\ B(<<s[1], AtSlot(s[1], s[2])>>).slot = s[2]
    BY <2>1, Finds
  <2> QED BY <2>1, <2>2 DEF SlotsIn
<1>3. ASSUME NEW s \in SlotsIn(h) PROVE s \in UsedOf(h)
  <2>1. PICK p \in Places : p[1] = s[1] /\ B(p).slot = s[2] /\ B(p).nvmapHandle = h
    BY <1>3 DEF SlotsIn
  <2>2. AtSlot(s[1], s[2]) = p[2] /\ p[2] # 0
    BY <2>1, SlotPlace DEF Places
  <2>3. s \in (DOMAIN buffers) \X Slots
    BY <1>1, <1>3 DEF SlotsIn
  <2> QED BY <2>1, <2>2, <2>3 DEF UsedOf, B
<1> QED BY <1>2, <1>3

\* The slots in an object are finitely many.
LEMMA SlotsInFinite ==
  ASSUME TypeInv, NEW h
  PROVE  IsFiniteSet(SlotsIn(h)) /\ Cardinality(SlotsIn(h)) \in Nat
<1>1. Len(buffers) \in Nat
  BY BufferTypes
<1>2. IsFiniteSet((1 .. Len(buffers)) \X Slots)
  <2>1. IsFiniteSet(1 .. Len(buffers)) /\ IsFiniteSet(Slots)
    BY <1>1, FS_Interval, DisplayAssumption
  <2> QED BY <2>1, FS_Product, Zenon
<1>3. SlotsIn(h) \in SUBSET ((1 .. Len(buffers)) \X Slots)
  BY DEF SlotsIn
<1> QED BY <1>2, <1>3, FS_Subset, FS_CardinalityType

----------------------------------------------------------------------------
(* One buffer changes.                                                     *)

\* A step puts b at place p and moves nothing.
Sets(p, b) ==
    /\ buffers' \in Seq(Queues)
    /\ Len(buffers') = Len(buffers)
    /\ \A k \in 1 .. Len(buffers) : /\ buffers'[k].id = buffers[k].id
                                    /\ Len(buffers'[k].buffers) = Len(buffers[k].buffers)
    /\ \A q \in Places : B(q)' = IF q = p THEN b ELSE B(q)

\* An assignment to a buffer inside the vectors does that.
LEMMA AssignmentSets ==
  ASSUME TypeInv, NEW p \in Places, NEW b \in GraphicBuffers,
         buffers' = [buffers EXCEPT ![p[1]].buffers[p[2]] = b]
  PROVE  Sets(p, b)
<1> DEFINE s == buffers[p[1]].buffers
           t == [s EXCEPT ![p[2]] = b]
           u == [buffers[p[1]] EXCEPT !.buffers = t]
<1>1. /\ buffers \in Seq(Queues) /\ p[1] \in 1 .. Len(buffers) /\ p[2] \in 1 .. Len(s)
      /\ s \in Seq(GraphicBuffers) /\ buffers[p[1]] \in Queues /\ p = <<p[1], p[2]>>
  BY BufferTypes DEF TypeInv, Places
<1>2. buffers' = [buffers EXCEPT ![p[1]] = u]
  OBVIOUS
<1> HIDE DEF s
<1>3. t \in Seq(GraphicBuffers) /\ Len(t) = Len(s) /\ \A i \in 1 .. Len(s) : t[i] = IF i = p[2] THEN b ELSE s[i]
  BY <1>1
<1> HIDE DEF t
<1>4. u \in Queues /\ u.id = buffers[p[1]].id /\ u.buffers = t
  BY <1>1, <1>3 DEF Queues
<1> HIDE DEF u
<1>5. /\ buffers' \in Seq(Queues) /\ Len(buffers') = Len(buffers)
      /\ \A k \in 1 .. Len(buffers) : buffers'[k] = IF k = p[1] THEN u ELSE buffers[k]
  <2> DEFINE w == [buffers EXCEPT ![p[1]] = u]
  <2>1. /\ w \in Seq(Queues) /\ Len(w) = Len(buffers)
        /\ \A k \in 1 .. Len(buffers) : w[k] = IF k = p[1] THEN u ELSE buffers[k]
    <3>1. buffers \in Seq(Queues) /\ p[1] \in 1 .. Len(buffers) /\ u \in Queues
      BY <1>1, <1>4
    <3> QED BY ONLY <3>1, SeqUpdate
  <2> HIDE DEF w
  <2>2. buffers' = w
    BY <1>2 DEF w
  <2> QED BY ONLY <2>1, <2>2
<1>6. ASSUME NEW q \in Places PROVE B(q)' = IF q = p THEN b ELSE B(q)
  <2>1. q = <<q[1], q[2]>> /\ q[1] \in 1 .. Len(buffers) /\ q[2] \in 1 .. Len(buffers[q[1]].buffers)
    BY BufferTypes DEF Places
  <2> QED BY <1>1, <1>3, <1>4, <1>5, <2>1 DEF B, s
<1>7. ASSUME NEW k \in 1 .. Len(buffers)
      PROVE  buffers'[k].id = buffers[k].id /\ Len(buffers'[k].buffers) = Len(buffers[k].buffers)
  BY <1>3, <1>4, <1>5 DEF s
<1> QED BY <1>5, <1>6, <1>7 DEF Sets

\* The two record forms the actions use, as assignments of one buffer.
LEMMA FieldSets ==
  ASSUME TypeInv, NEW p \in Places, NEW v \in {"FREE", "DEQUEUED", "QUEUED"}, NEW f \in Nat
  PROVE  /\ buffers' = [buffers EXCEPT ![p[1]].buffers[p[2]].status = v]
               => Sets(p, [B(p) EXCEPT !.status = v])
         /\ buffers' = [buffers EXCEPT ![p[1]].buffers[p[2]] = [@ EXCEPT !.status = v, !.frame = f]]
               => Sets(p, [B(p) EXCEPT !.status = v, !.frame = f])
<1>1. B(p) \in GraphicBuffers
  BY BufferTypes
<1>2. [B(p) EXCEPT !.status = v] \in GraphicBuffers /\ [B(p) EXCEPT !.status = v, !.frame = f] \in GraphicBuffers
  BY <1>1 DEF GraphicBuffers
<1>3. [buffers EXCEPT ![p[1]].buffers[p[2]].status = v]
        = [buffers EXCEPT ![p[1]].buffers[p[2]] = [B(p) EXCEPT !.status = v]]
  BY DEF B
<1>4. [buffers EXCEPT ![p[1]].buffers[p[2]] = [@ EXCEPT !.status = v, !.frame = f]]
        = [buffers EXCEPT ![p[1]].buffers[p[2]] = [B(p) EXCEPT !.status = v, !.frame = f]]
  BY DEF B
<1>5. /\ buffers' = [buffers EXCEPT ![p[1]].buffers[p[2]] = [B(p) EXCEPT !.status = v]]
           => Sets(p, [B(p) EXCEPT !.status = v])
      /\ buffers' = [buffers EXCEPT ![p[1]].buffers[p[2]] = [B(p) EXCEPT !.status = v, !.frame = f]]
           => Sets(p, [B(p) EXCEPT !.status = v, !.frame = f])
  BY <1>2, AssignmentSets, SMTT(30)
<1> QED BY <1>3, <1>4, <1>5, Zenon

\* No buffer is added or moved, and objects keep their memory: the layout stays.
LEMMA LayoutStays ==
  ASSUME TypeInv, Layout, Places' = Places,
         \A p \in Places : /\ B(p)'.slot = B(p).slot
                           /\ B(p)'.nvmapHandle = B(p).nvmapHandle
                           /\ B(p)'.offset = B(p).offset,
         1 .. Len(buffers) \subseteq 1 .. Len(buffers'),
         \A h \in 1 .. Len(gMapObjects) :
            /\ h \in 1 .. Len(gMapObjects')
            /\ gMapObjects[h].addr = Address(h) => gMapObjects'[h].addr = Address(h)
  PROVE  Layout' /\ \A p \in Places : Memory(B(p))' = Memory(B(p))
<1>1. ASSUME NEW h PROVE SlotsIn(h)' = SlotsIn(h)
  <2>1. \A p \in Places : p[1] \in 1 .. Len(buffers)
    BY BufferTypes
  <2> QED BY <2>1 DEF SlotsIn
<1>2. ASSUME NEW p \in Places PROVE Memory(B(p))' = Memory(B(p))
  BY DEF Memory, Address
<1>3. ASSUME NEW p \in Places
      PROVE  /\ B(p)'.nvmapHandle \in 1 .. Len(gMapObjects')
             /\ gMapObjects'[B(p)'.nvmapHandle].addr = Address(B(p)'.nvmapHandle)
             /\ B(p)'.offset < MaxBuffers
             /\ B(p)'.offset < Cardinality(SlotsIn(B(p).nvmapHandle)')
  <2>1. /\ B(p).nvmapHandle \in 1 .. Len(gMapObjects)
        /\ gMapObjects[B(p).nvmapHandle].addr = Address(B(p).nvmapHandle)
        /\ B(p).offset < MaxBuffers
        /\ B(p).offset < Cardinality(SlotsIn(B(p).nvmapHandle))
    BY DEF Layout
  <2>2. SlotsIn(B(p).nvmapHandle)' = SlotsIn(B(p).nvmapHandle)
    BY <1>1
  <2> QED BY <2>1, <2>2
<1>4. ASSUME NEW p \in Places, NEW q \in Places, p # q
      PROVE  /\ p[1] = q[1] => B(p)'.slot # B(q)'.slot
             /\ Memory(B(p))' # Memory(B(q))'
  BY <1>2, <1>4 DEF Layout
<1> QED BY <1>2, <1>3, <1>4 DEF Layout

\* In particular where the vectors are unchanged.
LEMMA LayoutFrame ==
  ASSUME TypeInv, Layout, UNCHANGED <<buffers, gMapObjects>>
  PROVE  Layout' /\ Places' = Places /\ \A p \in Places : B(p)' = B(p)
<1>1. Places' = Places /\ \A p \in Places : B(p)' = B(p)
  BY DEF Places, B
<1> QED BY <1>1, LayoutStays

\* A change of status and frame moves no buffer: the layout stays.
LEMMA SetsKeepsLayout ==
  ASSUME TypeInv, Ids, Layout, NEW p \in Places, NEW b, Sets(p, b),
         b.slot = B(p).slot, b.nvmapHandle = B(p).nvmapHandle, b.offset = B(p).offset,
         UNCHANGED <<gMapObjects, layers>>
  PROVE  Places' = Places /\ Ids' /\ Layout'
<1>1. Places' = Places
  BY DEF Sets, Places
<1>2. \A q \in Places : /\ B(q)'.slot = B(q).slot
                        /\ B(q)'.nvmapHandle = B(q).nvmapHandle
                        /\ B(q)'.offset = B(q).offset
  BY DEF Sets
<1>3. Ids'
  BY DEF Ids, Sets
<1>4. Layout'
  BY <1>1, <1>2, LayoutStays DEF Sets
<1> QED BY <1>1, <1>3, <1>4

\* The address of a buffer of a queue is its memory, and there are pixels there.
LEMMA AddressIs ==
  ASSUME TypeInv, Ids, Layout, NEW p \in Places
  PROVE  AddressOf(B(p)) = Memory(B(p)) /\ Memory(B(p)) \in Addresses
<1>1. /\ B(p).nvmapHandle \in 1 .. Len(gMapObjects)
      /\ gMapObjects[B(p).nvmapHandle].addr = Address(B(p).nvmapHandle)
      /\ B(p).offset < MaxBuffers
  BY DEF Layout
<1>2. lookupNvmapObject(B(p).nvmapHandle) = B(p).nvmapHandle
  BY <1>1, Positions
<1>3. B(p).offset \in 0 .. MaxBuffers - 1
  BY <1>1, BufferTypes, DisplayAssumption, SMTT(30) DEF GraphicBuffers
<1>4. B(p).nvmapHandle \in 1 .. MaxObjects
  BY <1>1, DisplayAssumption DEF TypeInv, Ids
<1> QED BY <1>1, <1>2, <1>3, <1>4 DEF AddressOf, Memory, Addresses

----------------------------------------------------------------------------
(* The invariant holds at first and every action keeps it.                 *)

\* Initially there are no objects, layers or buffers.
LEMMA InitIInv == Init => IInv
<1> SUFFICES ASSUME Init PROVE IInv
  OBVIOUS
<1>1. TypeInv
  BY DEF Init, TypeInv, NoFrame, Addresses, gameVars
<1>2. Places = {}
  BY DEF Init, Places
<1>3. Ids
  BY DisplayAssumption DEF Init, Ids
<1> QED BY <1>1, <1>2, <1>3 DEF Init, IInv, Layout, Held, Queued, Shown

\* A new object has the next handle and no memory yet.
LEMMA StepIocCreate == ASSUME IInv, IocCreate PROVE IInv'
<1> USE DEF IInv
<1>1. /\ Len(gMapObjects') = Len(gMapObjects) + 1
      /\ \A h \in 1 .. Len(gMapObjects) : gMapObjects'[h] = gMapObjects[h]
      /\ gMapObjects'[Len(gMapObjects) + 1] = [handle |-> Len(gMapObjects) + 1, addr |-> NULL]
      /\ gMapObjects' \in Seq([handle : Nat, addr : Nat])
      /\ UNCHANGED <<layers, buffers, held, pixels, pc, at, end, queuedBuffer, screen>>
  BY DEF IocCreate, Game, TypeInv, NULL, drawVars, gameVars
<1>2. TypeInv'
  BY <1>1 DEF TypeInv
<1>3. Ids'
  BY <1>1, DisplayAssumption DEF Ids, IocCreate, TypeInv
<1>4. Places' = Places /\ \A p \in Places : B(p)' = B(p)
  BY <1>1 DEF Places, B
<1>5. Layout'
  <2>1. Len(gMapObjects) \in Nat
    BY DEF TypeInv
  <2> QED BY <1>1, <1>4, <2>1, LayoutStays
<1>6. Held' /\ Queued' /\ Shown'
  BY <1>1, <1>4 DEF Held, Queued, Shown, Memory
<1> QED BY <1>2, <1>3, <1>5, <1>6

\* IocAlloc gives an object its own memory, the same one if it is called again.
LEMMA StepIocAlloc ==
  ASSUME IInv, NEW k \in DOMAIN gMapObjects, IocAlloc(gMapObjects[k].handle) PROVE IInv'
<1> USE DEF IInv
<1>1. k \in 1 .. Len(gMapObjects) /\ gMapObjects[k].handle = k /\ lookupNvmapObject(k) = k
  BY Positions DEF TypeInv, Ids
<1>2. /\ gMapObjects' = [gMapObjects EXCEPT ![k].addr = Address(k)]
      /\ UNCHANGED <<layers, buffers, held, pixels, pc, at, end, queuedBuffer, screen>>
  BY <1>1 DEF IocAlloc, Game, drawVars, gameVars
<1>3. /\ Len(gMapObjects') = Len(gMapObjects)
      /\ \A h \in 1 .. Len(gMapObjects) :
            /\ gMapObjects'[h].handle = gMapObjects[h].handle
            /\ gMapObjects'[h].addr = IF h = k THEN Address(k) ELSE gMapObjects[h].addr
      /\ gMapObjects' \in Seq([handle : Nat, addr : Nat])
  <2> DEFINE x == [gMapObjects[k] EXCEPT !.addr = Address(k)]
  <2>1. gMapObjects \in Seq([handle : Nat, addr : Nat]) /\ k \in 1 .. Len(gMapObjects)
    BY <1>1 DEF TypeInv
  <2>2. x \in [handle : Nat, addr : Nat] /\ x.handle = gMapObjects[k].handle /\ x.addr = Address(k)
    <3>1. gMapObjects[k] \in [handle : Nat, addr : Nat]
      BY ONLY <2>1, ElementOfSeq, Zenon
    <3>2. Len(gMapObjects) \in Nat /\ k \in Nat
      BY <2>1
    <3>3. Address(k) \in Nat
      BY <3>2 DEF Address
    <3> QED BY <3>1, <3>3
  <2>3. gMapObjects' = [gMapObjects EXCEPT ![k] = x]
    BY <1>2
  <2> HIDE DEF x
  <2> QED BY <2>1, <2>2, <2>3
<1>4. TypeInv'
  BY <1>2, <1>3 DEF TypeInv
<1>5. Ids'
  BY <1>2, <1>3 DEF Ids
<1>6. Places' = Places /\ \A p \in Places : B(p)' = B(p)
  BY <1>2 DEF Places, B
<1>7. Layout'
  BY <1>2, <1>3, <1>6, LayoutStays
<1>8. Held' /\ Queued' /\ Shown'
  BY <1>2, <1>6 DEF Held, Queued, Shown, Memory
<1> QED BY <1>4, <1>5, <1>7, <1>8

\* A new layer has the next ids, and a queue without buffers.
LEMMA StepCreateLayer == ASSUME IInv, createLayer PROVE IInv'
<1> USE DEF IInv
<1> DEFINE n == Len(layers)
<1>1. /\ n \in Nat /\ Len(buffers) = n
      /\ layers \in Seq([id : Nat, bufferId : Nat]) /\ buffers \in Seq(Queues)
  BY DEF TypeInv, Ids
<1>2. /\ layers' = Append(layers, [id |-> FirstLayer + n, bufferId |-> FirstBuffer + n])
      /\ buffers' = Append(buffers, [id |-> FirstBuffer + n, buffers |-> << >>])
      /\ UNCHANGED <<gMapObjects, held, pixels, pc, at, end, queuedBuffer, screen>>
  BY <1>1 DEF createLayer, Game, drawVars, gameVars
<1>3. [id |-> FirstBuffer + n, buffers |-> << >>] \in Queues
  BY <1>1 DEF Queues, FirstBuffer
<1>4. /\ layers' \in Seq([id : Nat, bufferId : Nat]) /\ Len(layers') = n + 1
      /\ \A k \in 1 .. n : layers'[k] = layers[k]
      /\ layers'[n + 1] = [id |-> FirstLayer + n, bufferId |-> FirstBuffer + n]
  BY <1>1, <1>2 DEF FirstLayer, FirstBuffer
<1>5. /\ buffers' \in Seq(Queues) /\ Len(buffers') = n + 1
      /\ \A k \in 1 .. n : buffers'[k] = buffers[k]
      /\ buffers'[n + 1] = [id |-> FirstBuffer + n, buffers |-> << >>]
  BY <1>1, <1>2, <1>3
<1> HIDE DEF n
<1>6. TypeInv'
  BY <1>2, <1>4, <1>5 DEF TypeInv
<1>7. Ids'
  BY <1>1, <1>2, <1>4, <1>5 DEF Ids, n
<1>8. Places' = Places /\ \A p \in Places : B(p)' = B(p)
  BY <1>1, <1>5 DEF Places, B
<1>9. Layout'
  BY <1>1, <1>2, <1>5, <1>8, LayoutStays
<1>10. Held' /\ Queued' /\ Shown'
  <2>1. Held'
    BY <1>2, <1>8 DEF Held
  <2>2. Queued'
    BY <1>2, <1>8 DEF Queued, Memory
  <2>3. 1 .. Len(layers) \subseteq 1 .. Len(layers')
    BY <1>1, <1>4 DEF n
  <2>4. end' <= Len(layers')
    BY <1>1, <1>2, <1>4 DEF TypeInv, Shown, n
  <2>5. Shown'
    BY <1>2, <1>8, <2>3, <2>4 DEF Shown
  <2> QED BY <2>1, <2>2, <2>5
<1> QED BY <1>6, <1>7, <1>9, <1>10

\* Offsets are below 10, so different objects and offsets have different addresses.
LEMMA AddressesApart ==
  ASSUME NEW g \in Nat, NEW h \in Nat, NEW m \in Nat, NEW n \in Nat, m < 10, n < 10,
         g # h \/ m # n
  PROVE  Address(g) + m # Address(h) + n
BY DEF Address

\* A new buffer gets a slot and memory of its own: its offset is the number of slots
\* in the object, which the offsets of the others are below.
LEMMA StepSetPreallocated ==
  ASSUME IInv, NEW q \in 1 .. Len(buffers), NEW slot \in Slots, NEW j \in DOMAIN gMapObjects,
         setPreallocatedBuffer(q, slot, gMapObjects[j].handle)
  PROVE  IInv'
<1> USE DEF IInv
<1> DEFINE s == buffers[q].buffers
           c == Cardinality(SlotsIn(j))
           b == GraphicBuffer(slot, j, c)
<1>0. PICK new : new = <<q, Len(s) + 1>>
  OBVIOUS
<1>1. /\ j \in 1 .. Len(gMapObjects) /\ gMapObjects[j].handle = j /\ lookupNvmapObject(j) = j
      /\ j \in Nat
  <2>1. j \in 1 .. Len(gMapObjects) /\ Len(gMapObjects) \in Nat
    BY DEF TypeInv
  <2>2. gMapObjects[j].handle = j
    BY <2>1 DEF Ids
  <2>3. lookupNvmapObject(j) = j
    BY <2>1, Positions
  <2> QED BY <2>1, <2>2, <2>3
<1>2. /\ AtSlot(q, slot) = 0
      /\ gMapObjects[j].addr # NULL
      /\ UsedOf(j) = SlotsIn(j) /\ c \in Nat /\ c < MaxBuffers /\ IsFiniteSet(SlotsIn(j))
      /\ buffers' = [buffers EXCEPT ![q].buffers = Append(@, b)]
      /\ UNCHANGED <<gMapObjects, layers, held, pixels, pc, at, end, queuedBuffer, screen>>
  <2>1. UsedOf(j) = SlotsIn(j) /\ c \in Nat /\ IsFiniteSet(SlotsIn(j))
    BY UsedOfIs, SlotsInFinite
  <2>2. setPreallocatedBuffer(q, slot, j)
    BY <1>1
  <2> QED BY <1>1, <2>1, <2>2 DEF setPreallocatedBuffer, Game, drawVars, gameVars
<1>3. gMapObjects[j].addr = Address(j)
  BY <1>1, <1>2 DEF Ids
<1>4. /\ buffers \in Seq(Queues) /\ buffers[q] \in Queues /\ s \in Seq(GraphicBuffers)
      /\ Len(buffers) \in Nat /\ Len(s) \in Nat
  BY BufferTypes, SMTT(30) DEF TypeInv
<1>5. b \in GraphicBuffers
  BY <1>1, <1>2 DEF GraphicBuffer, GraphicBuffers, NoFrame
<1>6. b.slot = slot /\ b.nvmapHandle = j /\ b.offset = c /\ b.status = "FREE"
  BY DEF GraphicBuffer
<1> HIDE DEF b, c
<1>7. /\ Append(s, b) \in Seq(GraphicBuffers) /\ Len(Append(s, b)) = Len(s) + 1
      /\ \A i \in 1 .. Len(s) : Append(s, b)[i] = s[i]
      /\ Append(s, b)[Len(s) + 1] = b
  BY <1>4, <1>5
<1>8. /\ buffers' \in Seq(Queues) /\ Len(buffers') = Len(buffers)
      /\ \A k \in 1 .. Len(buffers) : buffers'[k].id = buffers[k].id
      /\ \A k \in 1 .. Len(buffers) : k # q => buffers'[k] = buffers[k]
      /\ buffers'[q].buffers = Append(s, b)
  <2> DEFINE u == [buffers[q] EXCEPT !.buffers = Append(s, b)]
  <2>1. u \in Queues /\ u.id = buffers[q].id /\ u.buffers = Append(s, b)
    BY <1>4, <1>7 DEF Queues
  <2>2. buffers' = [buffers EXCEPT ![q] = u]
    BY <1>2
  <2> HIDE DEF u
  <2> QED BY ONLY <1>4, <2>1, <2>2, q \in 1 .. Len(buffers)
<1>9. /\ Places' = Places \cup {new} /\ new \notin Places
      /\ \A p \in Places : B(p)' = B(p)
      /\ B(new)' = b
  <2>1. new \in Places' /\ new \notin Places /\ B(new)' = b
    <3>1. new \in Nat \X Nat /\ new[1] = q /\ new[2] = Len(s) + 1
      BY <1>0, <1>4
    <3>2. buffers'[new[1]].buffers[new[2]] = b /\ new[2] \in 1 .. Len(buffers'[new[1]].buffers)
      BY <1>4, <1>7, <1>8, <3>1
    <3>3. new \in Places'
      BY <1>8, <3>1, <3>2 DEF Places
    <3>4. new \notin Places
      BY <1>4, <3>1 DEF Places
    <3> QED BY <3>2, <3>3, <3>4 DEF B
  <2>2. ASSUME NEW p \in Places PROVE p \in Places' /\ B(p)' = B(p)
    BY <1>4, <1>7, <1>8 DEF Places, B
  <2>3. ASSUME NEW p \in Places', p \notin Places PROVE p = new
    <3>1. p \in Nat \X Nat /\ p[1] \in 1 .. Len(buffers) /\ p[2] \in 1 .. Len(buffers'[p[1]].buffers)
      BY <1>8 DEF Places
    <3>2. p[1] = q
      BY <1>8, <2>3, <3>1 DEF Places
    <3>3. p[2] = Len(s) + 1
      BY <1>4, <1>7, <1>8, <2>3, <3>1, <3>2 DEF Places
    <3> QED BY <1>0, <3>1, <3>2, <3>3
  <2> QED BY <2>1, <2>2, <2>3
<1>10. \A p \in Places : p[1] = q => B(p).slot # slot
  <2>1. <<q, 0>> \notin Places
    BY DEF Places
  <2> QED BY <1>2, <2>1, Finds
<1> HIDE DEF s
<1>11. SlotsIn(j)' = SlotsIn(j) \cup {<<q, slot>>}
  <2>1. new[1] = q /\ B(new)'.slot = slot /\ B(new)'.nvmapHandle = j /\ new \in Places'
    BY <1>0, <1>6, <1>9
  <2>2. <<q, slot>> \in SlotsIn(j)'
    BY <1>8, <2>1 DEF SlotsIn
  <2>3. ASSUME NEW r \in SlotsIn(j) PROVE r \in SlotsIn(j)'
    BY <1>8, <1>9 DEF SlotsIn
  <2>4. ASSUME NEW r \in SlotsIn(j)' PROVE r \in SlotsIn(j) \cup {<<q, slot>>}
    <3>1. /\ r \in (1 .. Len(buffers)) \X Slots
          /\ \E p \in Places' : p[1] = r[1] /\ B(p)'.slot = r[2] /\ B(p)'.nvmapHandle = j
      BY <1>8 DEF SlotsIn
    <3>2. PICK p \in Places' : p[1] = r[1] /\ B(p)'.slot = r[2] /\ B(p)'.nvmapHandle = j
      BY <3>1
    <3>3. CASE p = new
      BY <2>1, <3>1, <3>2, <3>3
    <3>4. CASE p \in Places
      BY <1>9, <3>1, <3>2, <3>4 DEF SlotsIn
    <3> QED BY <1>9, <3>3, <3>4
  <2> QED BY <2>2, <2>3, <2>4
<1>12. <<q, slot>> \notin SlotsIn(j)
  BY <1>10 DEF SlotsIn
<1>13. Cardinality(SlotsIn(j)') = c + 1
  BY <1>2, <1>11, <1>12, FS_AddElement DEF c
<1>14. \A h : h # j => SlotsIn(h)' = SlotsIn(h)
  BY <1>0, <1>6, <1>8, <1>9 DEF SlotsIn
<1>15. TypeInv'
  BY <1>2, <1>8 DEF TypeInv
<1>16. Ids'
  BY <1>2, <1>8 DEF Ids
<1>17. ASSUME NEW p \in Places
       PROVE  p[1] = q => B(p).slot # slot
  BY <1>10
<1>18. ASSUME NEW p \in Places PROVE Memory(B(p)) # Memory(b)
  <2>1. /\ B(p).nvmapHandle \in Nat /\ B(p).offset \in Nat /\ MaxBuffers \in 0 .. 9
    BY BufferTypes, DisplayAssumption DEF GraphicBuffers
  <2>2. B(p).offset < MaxBuffers /\ (B(p).nvmapHandle = j => B(p).offset < c)
    BY DEF Layout, c
  <2>3. B(p).nvmapHandle # j \/ B(p).offset # c
    BY <1>2, <2>1, <2>2
  <2>4. /\ Memory(B(p)) = Address(B(p).nvmapHandle) + B(p).offset
        /\ Memory(b) = Address(j) + c
    BY <1>6 DEF Memory
  <2> QED BY <1>1, <1>2, <2>1, <2>2, <2>3, <2>4, AddressesApart, SMTT(30)
<1>19. ASSUME NEW p \in Places'
       PROVE  /\ B(p)'.nvmapHandle \in 1 .. Len(gMapObjects')
              /\ gMapObjects'[B(p)'.nvmapHandle].addr = Address(B(p)'.nvmapHandle)
              /\ B(p)'.offset < MaxBuffers
              /\ B(p)'.offset < Cardinality(SlotsIn(B(p).nvmapHandle)')
  <2>1. CASE p = new
    BY <1>1, <1>2, <1>3, <1>6, <1>9, <1>13, <2>1
  <2>2. CASE p \in Places
    <3>1. /\ B(p).nvmapHandle \in 1 .. Len(gMapObjects)
          /\ gMapObjects[B(p).nvmapHandle].addr = Address(B(p).nvmapHandle)
          /\ B(p).offset < MaxBuffers
          /\ B(p).offset < Cardinality(SlotsIn(B(p).nvmapHandle))
          /\ B(p).offset \in Nat
      BY <2>2, BufferTypes DEF Layout, GraphicBuffers
    <3>2. B(p).offset < Cardinality(SlotsIn(B(p).nvmapHandle)')
      <4>1. PICK h : h = B(p).nvmapHandle
        OBVIOUS
      <4>2. h = B(p)'.nvmapHandle
        BY <1>9, <2>2, <4>1
      <4>3. B(p).offset < Cardinality(SlotsIn(h)')
        BY <1>2, <1>13, <1>14, <3>1, <4>1 DEF c
      <4> QED BY <4>2, <4>3
    <3> QED BY <1>2, <1>9, <2>2, <3>1, <3>2
  <2> QED BY <1>9, <2>1, <2>2
<1>20. ASSUME NEW p \in Places', NEW r \in Places', p # r
       PROVE  /\ p[1] = r[1] => B(p)'.slot # B(r)'.slot
              /\ Memory(B(p))' # Memory(B(r))'
  <2>1. \A o \in Places : Memory(B(o))' = Memory(B(o))
    BY <1>9 DEF Memory
  <2>2. Memory(B(new))' = Memory(b)
    BY <1>9 DEF Memory
  <2> QED BY <1>0, <1>6, <1>9, <1>17, <1>18, <1>20, <2>1, <2>2 DEF Layout
<1>21. Layout'
  BY <1>19, <1>20 DEF Layout
<1>22. Held' /\ Queued' /\ Shown'
  <2>1. Held'
    BY <1>2, <1>9 DEF Held
  <2>2. Queued'
    BY <1>2, <1>6, <1>9 DEF Queued, Memory
  <2>3. Shown'
    BY <1>2, <1>9 DEF Shown
  <2> QED BY <2>1, <2>2, <2>3
<1> QED BY <1>15, <1>16, <1>21, <1>22

\* dequeueBuffer takes a free buffer: neither one the game holds nor the one shown.
LEMMA StepDequeue ==
  ASSUME IInv, NEW q \in 1 .. Len(buffers), dequeueBuffer(q)
  PROVE  IInv'
<1> USE DEF IInv
<1>1. UNCHANGED <<gMapObjects, layers, pixels, pc, at, end, queuedBuffer, screen>>
  BY DEF dequeueBuffer, Game, drawVars
<1>2. CASE FreeBuffer(q) = 0
  <2>1. UNCHANGED <<buffers, held>>
    BY <1>2 DEF dequeueBuffer
  <2>2. TypeInv' /\ Ids' /\ Held' /\ Queued' /\ Shown'
    BY <1>1, <2>1, ZenonT(40) DEF TypeInv, Ids, Held, Queued, Shown, Places, B, Memory
  <2>3. Layout'
    BY <1>1, <2>1, LayoutFrame
  <2> QED BY <2>2, <2>3
<1>3. CASE FreeBuffer(q) # 0
  <2>1. PICK p \in Places : p = <<q, FreeBuffer(q)>> /\ B(p).status = "FREE"
    BY <1>3, Finds
  <2>2. PICK b : b = [B(p) EXCEPT !.status = "DEQUEUED"]
    OBVIOUS
  <2>3. B(p) \in GraphicBuffers
    BY BufferTypes
  <2>4. /\ b.status = "DEQUEUED" /\ b.slot = B(p).slot
        /\ b.nvmapHandle = B(p).nvmapHandle /\ b.offset = B(p).offset
    BY <2>2, <2>3 DEF GraphicBuffers
  <2>5. p[1] = q /\ p[2] = FreeBuffer(q)
    BY <2>1
  <2>6. /\ buffers' = [buffers EXCEPT ![p[1]].buffers[p[2]].status = "DEQUEUED"]
        /\ held' = held \cup {<<q, B(p).slot>>}
    BY <1>3, <2>5 DEF dequeueBuffer, B
  <2>7. Sets(p, b)
    BY <2>2, <2>6, FieldSets
  <2>8. Places' = Places /\ Ids' /\ Layout'
    BY <1>1, <2>4, <2>7, SetsKeepsLayout
  <2>9. TypeInv'
    <3>1. <<q, B(p).slot>> \in Nat \X Slots
      BY <2>3, BufferTypes DEF GraphicBuffers
    <3> QED BY <1>1, <2>6, <2>7, <3>1 DEF TypeInv, Sets
  <2>10. \A r \in Places : B(r)' = IF r = p THEN b ELSE B(r)
    BY <2>7 DEF Sets
  <2>11. Held'
    <3>1. ASSUME NEW h \in held
          PROVE  \E r \in Places : r[1] = h[1] /\ B(r)'.slot = h[2] /\ B(r)'.status = "DEQUEUED"
      BY <2>1, <2>10 DEF Held
    <3>2. B(p)'.slot = B(p).slot /\ B(p)'.status = "DEQUEUED"
      BY <2>4, <2>10
    <3> QED BY <2>5, <2>6, <2>8, <3>1, <3>2 DEF Held
  <2>12. Queued'
    BY <1>1, <2>4, <2>8, <2>10 DEF Queued, Memory
  <2>13. Shown'
    BY <1>1, <2>1, <2>8, <2>10 DEF Shown
  <2> QED BY <2>8, <2>9, <2>11, <2>12, <2>13
<1> QED BY <1>2, <1>3

\* The buffer at a slot the game holds is dequeued, and the lookups find it.
LEMMA HeldPlace ==
  ASSUME IInv, NEW h \in held
  PROVE  \E p \in Places : /\ p[1] = h[1] /\ B(p).slot = h[2] /\ B(p).status = "DEQUEUED"
                           /\ AtSlot(h[1], h[2]) = p[2] /\ h = <<h[1], h[2]>>
                           /\ AddressOf(buffers[h[1]].buffers[AtSlot(h[1], h[2])]) = Memory(B(p))
<1> USE DEF IInv
<1>1. PICK p \in Places : p[1] = h[1] /\ B(p).slot = h[2] /\ B(p).status = "DEQUEUED"
  BY DEF Held
<1>2. AtSlot(h[1], h[2]) = p[2]
  BY <1>1, SlotPlace
<1>3. AddressOf(B(p)) = Memory(B(p))
  BY AddressIs
<1>4. h = <<h[1], h[2]>>
  BY DEF TypeInv
<1> QED BY <1>1, <1>2, <1>3, <1>4 DEF B

\* Drawing changes the pixels of a dequeued buffer only.
LEMMA StepDrawPart ==
  ASSUME IInv, NEW h \in held, DrawPart(h[1], h[2])
  PROVE  IInv'
<1> USE DEF IInv
<1>1. PICK p \in Places :
        /\ B(p).status = "DEQUEUED"
        /\ AddressOf(buffers[h[1]].buffers[AtSlot(h[1], h[2])]) = Memory(B(p))
  BY HeldPlace
<1>2. /\ pixels' = [pixels EXCEPT ![Memory(B(p))] = NoFrame]
      /\ UNCHANGED <<gMapObjects, layers, buffers, held, pc, at, end, queuedBuffer, screen>>
  BY <1>1 DEF DrawPart, Game, drawVars
<1>3. TypeInv'
  BY <1>2 DEF TypeInv, NoFrame
<1>4. Places' = Places /\ \A r \in Places : B(r)' = B(r)
  BY <1>2 DEF Places, B
<1>5. Ids' /\ Held' /\ Shown'
  <2>1. Ids'
    BY <1>2 DEF Ids
  <2>2. Held'
    BY <1>2, <1>4 DEF Held
  <2>3. Shown'
    BY <1>2, <1>4 DEF Shown
  <2> QED BY <2>1, <2>2, <2>3
<1>6. Layout'
  BY <1>2, <1>4, LayoutStays
<1>7. \A r \in Places : r # p => pixels'[Memory(B(r))] = pixels[Memory(B(r))]
  <2>1. \A r \in Places : Memory(B(r)) \in Addresses /\ (r # p => Memory(B(r)) # Memory(B(p)))
    BY AddressIs DEF Layout
  <2> QED BY <1>2, <2>1 DEF TypeInv
<1>8. Queued'
  BY <1>1, <1>4, <1>7 DEF Queued, Memory
<1> QED BY <1>3, <1>5, <1>6, <1>8

\* queueBuffer hands over a dequeued buffer with the frame in its memory.
LEMMA StepQueue ==
  ASSUME IInv, NEW h \in held, NEW frame \in Frames, queueBuffer(h[1], h[2], frame)
  PROVE  IInv'
<1> USE DEF IInv
<1>1. PICK p \in Places :
        /\ p[1] = h[1] /\ B(p).slot = h[2] /\ B(p).status = "DEQUEUED"
        /\ AtSlot(h[1], h[2]) = p[2] /\ h = <<h[1], h[2]>>
        /\ AddressOf(buffers[h[1]].buffers[AtSlot(h[1], h[2])]) = Memory(B(p))
  BY HeldPlace
<1>2. /\ pixels' = [pixels EXCEPT ![Memory(B(p))] = frame]
      /\ buffers' = [buffers EXCEPT ![p[1]].buffers[p[2]] =
                       [@ EXCEPT !.status = "QUEUED", !.frame = frame]]
      /\ held' = held \ {h}
      /\ UNCHANGED <<gMapObjects, layers, pc, at, end, queuedBuffer, screen>>
  BY <1>1 DEF queueBuffer, Game, drawVars
<1>3. PICK b : b = [B(p) EXCEPT !.status = "QUEUED", !.frame = frame]
  OBVIOUS
<1>4. B(p) \in GraphicBuffers /\ frame \in Nat
  BY BufferTypes, DisplayAssumption
<1>5. /\ b.status = "QUEUED" /\ b.frame = frame /\ b.slot = B(p).slot
      /\ b.nvmapHandle = B(p).nvmapHandle /\ b.offset = B(p).offset
  BY <1>3, <1>4 DEF GraphicBuffers
<1>6. Sets(p, b)
  BY <1>2, <1>3, <1>4, FieldSets
<1>7. Places' = Places /\ Ids' /\ Layout' /\ \A r \in Places : B(r)' = IF r = p THEN b ELSE B(r)
  BY <1>2, <1>5, <1>6, SetsKeepsLayout DEF Sets
<1>8. TypeInv'
  BY <1>2, <1>4, <1>6 DEF TypeInv, Sets
<1>9. Held'
  <2>1. ASSUME NEW g \in held'
        PROVE  \E r \in Places : r[1] = g[1] /\ B(r)'.slot = g[2] /\ B(r)'.status = "DEQUEUED"
    <3>1. g \in held /\ g # h /\ g = <<g[1], g[2]>>
      BY <1>2 DEF TypeInv
    <3>2. PICK r \in Places : r[1] = g[1] /\ B(r).slot = g[2] /\ B(r).status = "DEQUEUED"
      BY <3>1 DEF Held
    <3>3. r # p
      BY <1>1, <3>1, <3>2
    <3> QED BY <1>7, <3>2, <3>3
  <2> QED BY <1>7, <2>1 DEF Held
<1>10. Queued'
  <2>1. \A r \in Places : Memory(B(r)) \in Addresses /\ (r # p => Memory(B(r)) # Memory(B(p)))
    BY AddressIs DEF Layout
  <2>2. \A r \in Places : pixels'[Memory(B(r))] = IF r = p THEN frame ELSE pixels[Memory(B(r))]
    BY <1>2, <2>1 DEF TypeInv
  <2>3. \A r \in Places : Memory(B(r))' = Memory(B(r))
    BY <1>5, <1>7 DEF Memory
  <2> QED BY <1>5, <1>7, <2>2, <2>3 DEF Queued
<1>11. Shown'
  BY <1>1, <1>2, <1>7 DEF Shown
<1> QED BY <1>7, <1>8, <1>9, <1>10, <1>11

\* The graphics thread only looks: the game's state stays, and so do the vectors.
LEMMA DrawFrame ==
  ASSUME IInv, UNCHANGED <<gMapObjects, layers, held, pixels, buffers>>
  PROVE  /\ Places' = Places /\ \A p \in Places : B(p)' = B(p)
         /\ Ids' /\ Layout' /\ Held' /\ Queued'
<1> USE DEF IInv
<1>1. Layout' /\ Places' = Places /\ \A p \in Places : B(p)' = B(p)
  BY LayoutFrame
<1>2. Ids' /\ Held' /\ Queued'
  BY <1>1 DEF Ids, Held, Queued, Memory
<1> QED BY <1>1, <1>2

\* The walk begins at a layer.
LEMMA StepDrawBegins == ASSUME IInv, DrawBegins PROVE IInv'
<1> USE DEF IInv
<1>1. /\ UNCHANGED <<gMapObjects, layers, held, pixels, buffers, queuedBuffer, screen>>
      /\ layers # << >> /\ pc' = "layer" /\ at' = 1 /\ end' = Len(layers)
  BY DEF DrawBegins, Draws, gameVars
<1>2. TypeInv'
  BY <1>1 DEF TypeInv
<1>3. Shown'
  BY <1>1 DEF Shown, TypeInv
<1> QED BY <1>1, <1>2, <1>3, DrawFrame

\* The next layer is a layer.
LEMMA NextLayerShown ==
  ASSUME TypeInv, Shown, NextLayer, UNCHANGED <<layers>>
  PROVE  /\ Shown'
         /\ pc' \in {"loop", "layer", "upper", "lower", "free"} /\ at' \in Nat /\ end' \in Nat
<1>1. PICK n \in Nat : n = Len(layers) /\ n = Len(layers)'
  BY DEF TypeInv
<1>2. at \in Nat /\ end \in Nat /\ end <= n
  BY <1>1 DEF TypeInv, Shown
<1>3. CASE at < end
  <2>1. pc' = "layer" /\ at' = at + 1 /\ end' = end
    BY <1>3 DEF NextLayer
  <2>2. at' \in 1 .. n /\ end' <= n /\ at' \in Nat /\ end' \in Nat
    BY <1>2, <1>3, <2>1
  <2>3. pc' \notin {"upper", "lower", "free"}
    BY <2>1
  <2> QED BY <1>1, <2>1, <2>2, <2>3 DEF Shown
<1>4. CASE ~(at < end)
  <2>1. pc' = "loop" /\ at' = 1 /\ end' = 0
    BY <1>4 DEF NextLayer
  <2>2. end' <= n /\ at' \in Nat /\ end' \in Nat
    BY <1>1, <2>1
  <2>3. pc' \notin {"layer", "upper", "lower", "free"}
    BY <2>1
  <2> QED BY <1>1, <2>1, <2>2, <2>3 DEF Shown
<1> QED BY <1>3, <1>4

\* What getQueuedBuffer returns is a queued buffer of the layer's queue.
LEMMA StepDrawLooks == ASSUME IInv, DrawLooks PROVE IInv'
<1> USE DEF IInv
<1>1. /\ UNCHANGED <<gMapObjects, layers, held, pixels, buffers, screen>>
      /\ pc = "layer"
  BY DEF DrawLooks, Draws, gameVars
<1>2. QueueAt = at /\ at \in 1 .. Len(buffers)
  BY <1>1, Positions DEF QueueAt, Shown, Ids
<1>3. CASE getQueuedBuffer(QueueAt) = 0
  <2>1. NextLayer
    BY <1>3 DEF DrawLooks
  <2> QED BY <1>1, <2>1, NextLayerShown, DrawFrame DEF TypeInv
<1>4. CASE getQueuedBuffer(QueueAt) # 0
  <2>1. PICK p \in Places : p = <<at, getQueuedBuffer(at)>> /\ B(p).status = "QUEUED"
    BY <1>2, <1>4, Finds
  <2>2. pc' = "upper" /\ at' = at /\ end' = end /\ queuedBuffer' = B(p)
    BY <1>2, <1>4, <2>1 DEF DrawLooks, B
  <2>3. TypeInv'
    BY <1>1, <2>2 DEF TypeInv
  <2>4. p \in Places' /\ B(p)' = B(p)
    BY <1>1, DrawFrame
  <2>5. Shown'
    <3>1. at' \in 1 .. Len(layers') /\ end' <= Len(layers')
      BY <1>1, <1>2, <2>2 DEF Ids, Shown
    <3>2. p[1] = at' /\ B(p)' = queuedBuffer' /\ B(p)'.status = "QUEUED"
      BY <2>1, <2>2, <2>4
    <3> QED BY <2>2, <2>4, <3>1, <3>2 DEF Shown
  <2> QED BY <1>1, <2>3, <2>5, DrawFrame
<1> QED BY <1>3, <1>4

\* The buffer shown is in its queue, so what is copied is its frame.
LEMMA ShownPixels ==
  ASSUME IInv, pc \in {"upper", "lower", "free"}
  PROVE  /\ pixels[AddressOf(queuedBuffer)] = queuedBuffer.frame
         /\ queuedBuffer.frame \in Nat
<1> USE DEF IInv
<1>1. PICK p \in Places : B(p) = queuedBuffer /\ B(p).status = "QUEUED"
  BY DEF Shown
<1>2. AddressOf(B(p)) = Memory(B(p)) /\ B(p) \in GraphicBuffers
  BY AddressIs, BufferTypes
<1>3. pixels[Memory(B(p))] = B(p).frame
  BY <1>1 DEF Queued
<1> QED BY <1>1, <1>2, <1>3 DEF GraphicBuffers

\* Both halves are copied from the buffer shown.
LEMMA StepCopy == ASSUME IInv, SetUpper \/ SetLower PROVE IInv'
<1> USE DEF IInv
<1>1. /\ UNCHANGED <<gMapObjects, layers, held, pixels, buffers, at, end, queuedBuffer>>
      /\ pc \in {"upper", "lower", "free"}
  BY DEF SetUpper, SetLower, Draws, gameVars
<1>2. pixels[AddressOf(queuedBuffer)] = queuedBuffer.frame /\ queuedBuffer.frame \in Nat
  BY <1>1, ShownPixels
<1>3. \/ /\ pc = "upper" /\ pc' = "lower"
         /\ screen' = [screen EXCEPT !.upper = queuedBuffer.frame]
      \/ /\ pc = "lower" /\ pc' = "free"
         /\ screen' = [screen EXCEPT !.lower = queuedBuffer.frame]
  BY <1>2 DEF SetUpper, SetLower
<1>4. TypeInv'
  BY <1>1, <1>2, <1>3 DEF TypeInv
<1>5. Shown'
  <2>1. Places' = Places /\ \A p \in Places : B(p)' = B(p)
    BY <1>1, DrawFrame
  <2>2. /\ pc' \in {"lower", "free"} => screen'.upper = queuedBuffer.frame
        /\ pc' = "free" => screen'.lower = queuedBuffer.frame
    BY <1>3 DEF TypeInv, Shown
  <2> QED BY <1>1, <2>1, <2>2 DEF Shown
<1> QED BY <1>1, <1>4, <1>5, DrawFrame

\* freeBuffer frees the buffer it has shown, which is queued still.
LEMMA StepFree == ASSUME IInv, freeBuffer PROVE IInv'
<1> USE DEF IInv
<1>1. /\ UNCHANGED <<gMapObjects, layers, held, pixels, screen>>
      /\ pc = "free" /\ NextLayer
  BY DEF freeBuffer, Draws, gameVars
<1>2. QueueAt = at
  BY <1>1, Positions DEF QueueAt, Shown
<1>3. PICK p \in Places : p[1] = at /\ B(p) = queuedBuffer /\ B(p).status = "QUEUED"
  BY <1>1 DEF Shown
<1>4. AtSlot(QueueAt, queuedBuffer.slot) = p[2]
  BY <1>2, <1>3, SlotPlace
<1>5. buffers' = [buffers EXCEPT ![p[1]].buffers[p[2]] = [@ EXCEPT !.status = "FREE", !.frame = NoFrame]]
  BY <1>2, <1>3, <1>4 DEF freeBuffer
<1>6. PICK b : b = [B(p) EXCEPT !.status = "FREE", !.frame = NoFrame]
  OBVIOUS
<1>7. B(p) \in GraphicBuffers /\ NoFrame \in Nat
  BY BufferTypes DEF NoFrame
<1>8. /\ b.status = "FREE" /\ b.slot = B(p).slot
      /\ b.nvmapHandle = B(p).nvmapHandle /\ b.offset = B(p).offset
  BY <1>6, <1>7 DEF GraphicBuffers
<1>9. Sets(p, b)
  BY <1>5, <1>6, <1>7, FieldSets
<1>10. Places' = Places /\ Ids' /\ Layout' /\ \A r \in Places : B(r)' = IF r = p THEN b ELSE B(r)
  BY <1>1, <1>8, <1>9, SetsKeepsLayout DEF Sets
<1>11. Shown' /\ TypeInv'
  BY <1>1, <1>9, NextLayerShown DEF TypeInv, Sets
<1>12. Held'
  BY <1>1, <1>3, <1>10 DEF Held
<1>13. Queued'
  BY <1>1, <1>8, <1>10 DEF Queued, Memory
<1> QED BY <1>10, <1>11, <1>12, <1>13

\* Every step keeps the invariant.
LEMMA StepIInv == IInv /\ [Next]_vars => IInv'
<1> SUFFICES ASSUME IInv, [Next]_vars PROVE IInv'
  OBVIOUS
<1>1. ASSUME NEW k \in DOMAIN gMapObjects, IocAlloc(gMapObjects[k].handle) PROVE IInv'
  BY <1>1, StepIocAlloc
<1>2. ASSUME NEW k \in DOMAIN layers PROVE
          getBufferQueue(OpenLayer(layers[k].id)) = k /\ k \in 1 .. Len(buffers)
  <2>1. k \in 1 .. Len(layers) /\ Len(layers) = Len(buffers)
    BY DEF IInv, TypeInv, Ids
  <2> QED BY <2>1, Positions DEF IInv
<1>3. ASSUME NEW k \in DOMAIN layers, NEW q \in {getBufferQueue(OpenLayer(layers[k].id))},
             \/ \E slot \in Slots, j \in DOMAIN gMapObjects :
                   setPreallocatedBuffer(q, slot, gMapObjects[j].handle)
             \/ dequeueBuffer(q)
      PROVE  IInv'
  <2>1. q \in 1 .. Len(buffers)
    BY <1>2
  <2> QED BY <1>3, <2>1, StepSetPreallocated, StepDequeue
<1>4. ASSUME NEW h \in held,
             \/ DrawPart(h[1], h[2])
             \/ \E frame \in Frames : queueBuffer(h[1], h[2], frame)
      PROVE  IInv'
  BY <1>4, StepDrawPart, StepQueue
<1>5. ASSUME draw PROVE IInv'
  BY <1>5, StepDrawBegins, StepDrawLooks, StepCopy, StepFree DEF draw
<1>6. ASSUME stop \/ UNCHANGED vars PROVE IInv'
  <2>1. UNCHANGED <<gMapObjects, layers, held, pixels, buffers, pc, at, end, queuedBuffer, screen>>
    BY <1>6 DEF stop, vars, gameVars, drawVars
  <2>2. Places' = Places /\ (\A p \in Places : B(p)' = B(p)) /\ Ids' /\ Layout' /\ Held' /\ Queued'
    BY <2>1, DrawFrame
  <2>3. TypeInv' /\ Shown'
    BY <2>1, <2>2 DEF IInv, TypeInv, Shown
  <2> QED BY <2>2, <2>3 DEF IInv
<1> QED
  BY <1>1, <1>3, <1>4, <1>5, <1>6, StepIocCreate, StepCreateLayer DEF Next

\* The inductive invariant of the display.
LEMMA Invariant == Spec => []IInv
BY InitIInv, StepIInv, PTL DEF Spec

----------------------------------------------------------------------------
(* Results.                                                                *)

\* draw shows one whole frame, the one that was queued in the buffer it found, however
\* the game's transactions interleave with its copy.
THEOREM WholeFrames == Spec => []ShowsWholeFrames
<1>1. IInv => ShowsWholeFrames
  BY DEF IInv, Shown, ShowsWholeFrames
<1> QED BY <1>1, Invariant, PTL

\* A buffer the game has dequeued stays dequeued until the game queues it: neither
\* freeBuffer nor a second dequeueBuffer takes it.
THEOREM GameBuffers == Spec => []GameKeepsItsBuffers
<1>1. ASSUME IInv, NEW h \in held
      PROVE  buffers[h[1]].buffers[AtSlot(h[1], h[2])].status = "DEQUEUED"
  <2>1. PICK p \in Places : /\ p[1] = h[1] /\ B(p).status = "DEQUEUED"
                            /\ AtSlot(h[1], h[2]) = p[2]
    BY <1>1, HeldPlace
  <2> QED BY <2>1 DEF B
<1>2. IInv => GameKeepsItsBuffers
  BY <1>1 DEF GameKeepsItsBuffers
<1> QED BY <1>2, Invariant, PTL

=============================================================================
