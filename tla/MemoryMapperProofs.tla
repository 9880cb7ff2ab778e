------------------------- MODULE MemoryMapperProofs -------------------------
(***************************************************************************)
(* The address space under any sequence of mappings, for any number of     *)
(* pages and frames: first the page table and the page allocator, where    *)
(* what the loop over the mappings does plays no part, as the pages a call *)
(* allocates are its arguments; then the list of mappings.                 *)
(***************************************************************************)
EXTENDS MemoryMapper, SequenceLemmas, FiniteSetTheorems, SequenceTheorems, TLAPS

PageType ==
  /\ calls \in 0 .. MaxCalls
  /\ frame \in [Pages -> Frames \cup {NULL}]
  /\ perm \in [Pages -> 0 .. MaxCalls]
  /\ owner \in [Pages -> 0 .. MaxCalls]
  /\ gFreePageList \in Seq(Frames)
  /\ locked \in BOOLEAN
  /\ state \in {"running", "cutting", "allocating", "protecting", "stopped", "hung"}

\* The call under way begins in the address space; between calls there is none.
RegionInv ==
  /\ region \in [first : Pages, size : 0 .. NumPages, done : 0 .. NumPages]
  /\ region.done <= region.size
  /\ state = "running" => region = NoRegion

\* No frame is in the free list twice.
FreeOnce ==
  \A i, j \in 1 .. Len(gFreePageList) : gFreePageList[i] = gFreePageList[j] => i = j

\* Once the list holds its mapping, the pages of the call under way belong to it; they
\* get their permissions at its end. The others have them.
CallInv ==
  /\ \A q \in Pages : frame[q] = NULL => perm[q] = NONE
  /\ \A q \in Pages : q \in RegionPages /\ state \notin {"cutting", "stopped"} => owner[q] = calls
  /\ \A q \in Pages : (q \notin RegionPages \/ state = "cutting") /\ frame[q] # NULL => perm[q] = owner[q]

PInv == PageType /\ RegionInv /\ FreeOnce /\ FramesAreOwnedOnce /\ CallInv

----------------------------------------------------------------------------
\* All frames are free at the start.
LEMMA InitPages == ASSUME Init PROVE PInv
<1> USE MapperAssumption
<1>1. /\ calls = 0 /\ frame = [p \in Pages |-> NULL] /\ perm = [p \in Pages |-> NONE]
      /\ owner = [p \in Pages |-> 0] /\ gFreePageList = [i \in 1 .. NumFrames |-> i]
      /\ locked = FALSE /\ region = NoRegion /\ state = "running"
  BY DEF Init
<1>2. /\ gFreePageList \in Seq(Frames) /\ Len(gFreePageList) = NumFrames
      /\ \A i \in 1 .. NumFrames : gFreePageList[i] = i
  BY <1>1 DEF Frames
<1>3. PageType
  <2>1. locked \in BOOLEAN
    BY <1>1, Zenon
  <2> QED BY <1>1, <1>2, <2>1 DEF PageType, NULL, NONE
<1>4. RegionInv /\ RegionPages = {}
  BY <1>1 DEF RegionInv, NoRegion, Pages, RegionPages
<1>5. FreeOnce
  BY <1>2 DEF FreeOnce
<1>6. FramesAreOwnedOnce
  <2>1. \A f : Contains(gFreePageList, f) <=> f \in Frames
    BY <1>2 DEF Contains, Frames
  <2> QED BY <1>1, <2>1 DEF FramesAreOwnedOnce, NULL, Frames
<1>7. CallInv
  BY <1>1, <1>4 DEF CallInv, NULL, NONE
<1> QED BY <1>3, <1>4, <1>5, <1>6, <1>7 DEF PInv

\* A call begins: the pages are as they were.
LEMMA AddPages ==
  ASSUME PInv, NEW p \in Pages, NEW n \in MinSize .. NumPages, AddMapping(p, n)
  PROVE  PInv'
<1> USE MapperAssumption
<1>1. /\ calls' = calls + 1 /\ region' = [first |-> p, size |-> n, done |-> 0]
      /\ state' = "cutting" /\ UNCHANGED <<frame, perm, gFreePageList, locked, owner>>
      /\ state = "running" /\ calls < MaxCalls
  BY DEF AddMapping, pageVars
<1>2. RegionPages = {}
  BY <1>1 DEF PInv, RegionInv, NoRegion, RegionPages
<1>3. PageType'
  BY <1>1 DEF PInv, PageType
<1>4. RegionInv'
  BY <1>1 DEF RegionInv, Pages
<1>5. FreeOnce' /\ FramesAreOwnedOnce'
  BY <1>1 DEF PInv, FreeOnce, FramesAreOwnedOnce
<1>6. CallInv'
  BY <1>1, <1>2 DEF PInv, CallInv
<1> QED BY <1>3, <1>4, <1>5, <1>6 DEF PInv

\* The end of the loop changes the owners of the pages of the call.
LEMMA InsertPages == ASSUME PInv, InsertMapping PROVE PInv'
<1> USE MapperAssumption
<1>1. /\ state = "cutting" /\ state' = "allocating"
      /\ UNCHANGED <<calls, region, frame, perm, gFreePageList, locked>>
      /\ owner' = [q \in Pages |-> IF q \in RegionPages THEN calls ELSE owner[q]]
  BY DEF InsertMapping, pageVars
<1>2. RegionPages' = RegionPages
  BY <1>1 DEF RegionPages
<1>3. PageType'
  BY <1>1 DEF PInv, PageType
<1>4. RegionInv' /\ FreeOnce' /\ FramesAreOwnedOnce'
  BY <1>1 DEF PInv, RegionInv, FreeOnce, FramesAreOwnedOnce
<1>5. CallInv'
  BY <1>1, <1>2 DEF PInv, CallInv
<1> QED BY <1>3, <1>4, <1>5 DEF PInv

\* An iteration of the loop leaves the pages alone.
LEMMA CutPages ==
  ASSUME PInv, UNCHANGED <<calls, owner, pageVars, region>>,
         state' = state \/ (state = "cutting" /\ state' = "stopped")
  PROVE  PInv'
<1>1. RegionPages' = RegionPages /\ UNCHANGED <<calls, owner, frame, perm, gFreePageList, locked, region>>
  BY DEF RegionPages, pageVars
<1>2. PageType' /\ RegionInv'
  BY <1>1 DEF PInv, PageType, RegionInv
<1>3. FreeOnce' /\ FramesAreOwnedOnce'
  BY <1>1 DEF PInv, FreeOnce, FramesAreOwnedOnce
<1>4. CallInv'
  BY <1>1 DEF PInv, CallInv
<1> QED BY <1>2, <1>3, <1>4 DEF PInv

\* allocateRegion's counter.
LEMMA NextPage ==
  ASSUME NEW r \in [first : Pages, size : 0 .. NumPages, done : 0 .. NumPages],
         r.done < r.size
  PROVE  LET s == [r EXCEPT !.done = @ + 1]
         IN  /\ s \in [first : Pages, size : 0 .. NumPages, done : 0 .. NumPages]
             /\ s.first = r.first /\ s.size = r.size /\ s.done = r.done + 1
<1>1. r.done + 1 \in 0 .. NumPages
  BY MapperAssumption
<1> QED BY <1>1

\* A page that needs a frame takes the first free one: it has one owner before and after.
LEMMA TakePages ==
  ASSUME PInv, NEW p \in Pages, p \in RegionPages, TakeFrame(p),
         region.done < region.size, UNCHANGED <<calls, owner>>, state = "allocating"
  PROVE  PInv'
<1> USE MapperAssumption
<1> DEFINE free == gFreePageList
<1>1. /\ frame[p] = NULL /\ free # << >> /\ free \in Seq(Frames) /\ Len(free) \in Nat
      /\ frame' = [frame EXCEPT ![p] = Head(free)] /\ free' = Tail(free)
      /\ region' = [region EXCEPT !.done = @ + 1] /\ UNCHANGED <<perm, locked, state>>
      /\ ~locked
  BY DEF TakeFrame, PInv, PageType
<1>2. /\ Len(free) >= 1 /\ Head(free) = free[1] /\ free[1] \in Frames
      /\ free' \in Seq(Frames) /\ Len(free') = Len(free) - 1
      /\ \A i \in 1 .. Len(free) - 1 : free'[i] = free[i + 1]
  BY <1>1
<1>3. PICK f \in Frames : f = free[1] /\ frame' = [frame EXCEPT ![p] = f]
  BY <1>1, <1>2
<1>4. f # NULL
  BY DEF Frames, NULL
<1>5. PageType'
  BY <1>1, <1>2, <1>3 DEF PInv, PageType
<1>6. RegionInv' /\ RegionPages' = RegionPages
  <2>1. /\ region'.first = region.first /\ region'.size = region.size /\ region'.done = region.done + 1
        /\ region' \in [first : Pages, size : 0 .. NumPages, done : 0 .. NumPages]
    BY <1>1, NextPage DEF PInv, RegionInv
  <2>2. state # "running"
    BY DEF PInv, RegionInv, NoRegion
  <2> QED BY <1>1, <2>1, <2>2 DEF PInv, RegionInv, RegionPages
<1>7. FreeOnce'
  <2>0. \A i \in 1 .. Len(free) - 1 : i + 1 \in 1 .. Len(free)
    BY <1>1
  <2>1. \A i, j \in 1 .. Len(free) - 1 : free[i + 1] = free[j + 1] => i + 1 = j + 1
    <3> HIDE DEF PInv
    <3>1. FreeOnce
      BY DEF PInv
    <3> QED BY <2>0, <3>1 DEF FreeOnce
  <2> QED BY <1>1, <1>2, <2>1 DEF FreeOnce
\* The list loses f and nothing else.
<1>8. \A x : Contains(free, x) <=> Contains(free', x) \/ x = f
  <2>1. \A i \in 1 .. Len(free) : i = 1 \/ i - 1 \in 1 .. Len(free) - 1
    BY <1>1
  <2>2. \A i \in 2 .. Len(free) : free[i] = free'[i - 1] /\ i - 1 \in 1 .. Len(free')
    BY <1>1, <1>2
  <2>3. \A i \in 1 .. Len(free') : free'[i] = free[i + 1] /\ i + 1 \in 1 .. Len(free)
    BY <1>1, <1>2
  <2>4. \A i \in 1 .. Len(free) : i = 1 \/ i \in 2 .. Len(free)
    BY <1>1
  <2>5. 1 \in 1 .. Len(free)
    BY <1>1, <1>2
  <2> HIDE DEF free
  <2> QED BY <1>3, <2>2, <2>3, <2>4, <2>5 DEF Contains
<1>9. ~Contains(free', f)
  <2>1. \A i \in 1 .. Len(free) - 1 : free[i + 1] # free[1]
    BY <1>1, <1>2 DEF PInv, FreeOnce
  <2> QED BY <1>2, <1>3, <2>1 DEF Contains
<1>10. FramesAreOwnedOnce'
  <2> HIDE DEF free
  <2>1. /\ \A q, r \in Pages : frame[q] = frame[r] /\ frame[q] # NULL => q = r
        /\ \A q \in Pages : ~Contains(free, frame[q])
        /\ \A g \in Frames : Contains(free, g) \/ \E q \in Pages : frame[q] = g
    BY DEF PInv, FramesAreOwnedOnce, free
  <2>2. \A q \in Pages : frame'[q] = IF q = p THEN f ELSE frame[q]
    BY <1>3 DEF PInv, PageType
  <2>3. \A q \in Pages : frame[q] # f
    BY <1>8, <2>1
  <2>4. \A q, r \in Pages : frame'[q] = frame'[r] /\ frame'[q] # NULL => q = r
    BY <2>1, <2>2, <2>3
  <2>5. \A q \in Pages : ~Contains(free', frame'[q])
    BY <1>8, <1>9, <2>1, <2>2
  <2>6. \A g \in Frames : Contains(free', g) \/ \E q \in Pages : frame'[q] = g
    <3>1. ASSUME NEW g \in Frames, ~Contains(free', g), g # f PROVE \E q \in Pages : frame'[q] = g
      <4>1. PICK q \in Pages : frame[q] = g
        BY <1>8, <2>1, <3>1
      <4>2. q # p
        BY <1>1, <4>1 DEF Frames, NULL
      <4> QED BY <2>2, <4>1, <4>2
    <3> QED BY <2>2, <3>1
  <2> QED BY <2>4, <2>5, <2>6 DEF FramesAreOwnedOnce, free
<1>11. CallInv'
  <2>1. \A q \in Pages : frame'[q] = IF q = p THEN f ELSE frame[q]
    BY <1>3 DEF PInv, PageType
  <2> QED BY <1>1, <1>4, <1>6, <2>1 DEF PInv, CallInv
<1> QED BY <1>5, <1>6, <1>7, <1>10, <1>11 DEF PInv

\* Each iteration of allocateRegion.
LEMMA AllocatePages ==
  ASSUME PInv, AllocateRegion
  PROVE  PInv'
<1> USE MapperAssumption
<1> DEFINE p == region.first + region.done
<1>1. p \in RegionPages /\ region.done < region.size /\ UNCHANGED <<calls, owner>>
      /\ state = "allocating"
  BY DEF AllocateRegion, listVars, PInv, RegionInv, Pages, RegionPages
<1>2. CASE p \in Pages /\ TakeFrame(p)
  BY <1>1, <1>2, TakePages
<1>3. CASE HasFrame(p)
  <2>1. /\ region' = [region EXCEPT !.done = @ + 1]
        /\ UNCHANGED <<frame, perm, gFreePageList, locked, state>>
    BY <1>3 DEF HasFrame, pageVars
  <2>2. /\ region'.first = region.first /\ region'.size = region.size /\ region'.done = region.done + 1
        /\ region' \in [first : Pages, size : 0 .. NumPages, done : 0 .. NumPages]
    BY <1>1, <2>1, NextPage DEF PInv, RegionInv
  <2>3. RegionPages' = RegionPages /\ RegionInv'
    BY <1>1, <2>1, <2>2 DEF PInv, RegionInv, RegionPages
  <2> QED BY <1>1, <2>1, <2>3
          DEF PInv, PageType, FreeOnce, FramesAreOwnedOnce, CallInv
<1>4. CASE NoFreePage(p) \/ WaitForLock \/ InvalidPage
  <2>1. /\ UNCHANGED <<frame, perm, gFreePageList, region>> /\ state' \in {"protecting", "hung"}
    BY <1>4 DEF NoFreePage, WaitForLock, InvalidPage, pageVars
  <2>2. RegionPages' = RegionPages /\ RegionInv'
    BY <2>1 DEF PInv, RegionInv, RegionPages
  <2>3. PageType'
    <3>1. locked' \in BOOLEAN
      BY <1>4, Zenon DEF NoFreePage, WaitForLock, InvalidPage, pageVars, PInv, PageType
    <3>2. state' \in {"protecting", "hung"}
      BY <1>4 DEF NoFreePage, WaitForLock, InvalidPage
    <3> QED BY <1>1, <2>1, <3>1, <3>2 DEF PInv, PageType
  <2> QED BY <1>1, <2>1, <2>2, <2>3
          DEF PInv, FreeOnce, FramesAreOwnedOnce, CallInv
<1> QED BY <1>2, <1>3, <1>4 DEF AllocateRegion, AllocatePage

\* protectRegion gives the pages of the call the permissions of their owner.
LEMMA ProtectPages ==
  ASSUME PInv, ProtectRegion
  PROVE  PInv'
<1> USE MapperAssumption
<1>1. /\ perm' = [q \in Pages |-> IF q \in RegionPages /\ frame[q] # NULL THEN calls ELSE perm[q]]
      /\ region' = NoRegion /\ UNCHANGED <<calls, frame, gFreePageList, locked, owner>>
      /\ state' = "running" /\ state \in {"protecting", "allocating"}
  BY DEF ProtectRegion, Protected, listVars
<1>2. RegionInv' /\ RegionPages' = {}
  BY <1>1 DEF RegionInv, NoRegion, Pages, RegionPages
<1>3. PageType'
  BY <1>1 DEF PInv, PageType
<1>4. CallInv'
  BY <1>1, <1>2 DEF PInv, CallInv
<1> QED BY <1>1, <1>2, <1>3, <1>4 DEF PInv, FreeOnce, FramesAreOwnedOnce

\* An iteration goes on or, in a debug build, stops.
LEMMA CutStates ==
  ASSUME CutMapping
  PROVE  /\ UNCHANGED <<calls, owner, pageVars, region>>
         /\ state = "cutting" /\ (state' = state \/ state' = "stopped")
BY DEF CutMapping, PassBy, CutEnd, CutStart, Split, Erase

\* Every step keeps the invariant.
LEMMA StepPages == ASSUME PInv, [Next]_vars PROVE PInv'
<1>1. ASSUME NEW p \in Pages, NEW n \in MinSize .. NumPages, AddMapping(p, n)
      PROVE  PInv'
  BY <1>1, AddPages
<1>2. CASE CutMapping
  BY <1>2, CutStates, CutPages
<1>3. CASE UNCHANGED vars
  BY <1>3, CutPages DEF vars, listVars
<1> QED BY <1>1, <1>2, <1>3, InsertPages, AllocatePages, ProtectPages DEF Next

\* The invariant holds in every reachable state.
LEMMA PagesInvariant == Spec => []PInv
<1>1. Init => PInv
  BY InitPages
<1>2. PInv /\ [Next]_vars => PInv'
  BY StepPages
<1> QED BY <1>1, <1>2, PTL DEF Spec

\* A frame belongs to one page or to the free list, never to two owners, and none is lost
\* (allocatePage), for any number of pages and frames, also when they run out half way
\* through a region.
THEOREM FramesOnce == Spec => []FramesAreOwnedOnce
<1>1. PInv => FramesAreOwnedOnce
  BY DEF PInv
<1> QED BY <1>1, PagesInvariant, PTL

\* Between calls an allocated page has the permissions of its latest mapping and a page
\* without a frame has none (addMapping, protectRegion), for any number of calls.
THEOREM LatestPermissions == Spec => []PermissionsFollow
<1>1. PInv => PermissionsFollow
  <2>1. ASSUME PInv, state = "running" PROVE RegionPages = {}
    BY <2>1 DEF PInv, RegionInv, NoRegion, RegionPages
  <2> QED BY <2>1 DEF PInv, CallInv, PermissionsFollow
<1> QED BY <1>1, PagesInvariant, PTL

----------------------------------------------------------------------------
(* The sort: a stable sort is a permutation that keeps the order of equal  *)
(* bases.                                                                  *)

Precedes(list, j, i) == list[j].base < list[i].base \/ (list[j].base = list[i].base /\ j <= i)
UpTo(list, i) == {j \in DOMAIN list : Precedes(list, j, i)}

\* The elements of a list of mappings.
LEMMA ListElements ==
  ASSUME NEW list \in Seq(Mappings)
  PROVE  /\ Len(list) \in Nat /\ DOMAIN list = 1 .. Len(list)
         /\ \A k \in 1 .. Len(list) :
              /\ list[k] \in Mappings /\ list[k].base \in Nat /\ list[k].size \in Nat
              /\ list[k].call \in 0 .. MaxCalls
<1>1. \A k \in 1 .. Len(list) : list[k] \in Mappings
  OBVIOUS
<1>2. \A m \in Mappings : m.base \in Nat /\ m.size \in Nat /\ m.call \in 0 .. MaxCalls
  BY DEF Mappings
<1> QED BY <1>1, <1>2

\* The position of an element is between 1 and the length of the list.
LEMMA RankRange ==
  ASSUME NEW list \in Seq(Mappings), NEW i \in 1 .. Len(list)
  PROVE  /\ Rank(list, i) = Cardinality(UpTo(list, i)) /\ IsFiniteSet(UpTo(list, i))
         /\ Rank(list, i) \in 1 .. Len(list) /\ i \in UpTo(list, i)
<1>1. Len(list) \in Nat /\ DOMAIN list = 1 .. Len(list)
  OBVIOUS
<1>2. IsFiniteSet(1 .. Len(list)) /\ Cardinality(1 .. Len(list)) = Len(list)
  BY <1>1, FS_Interval
<1>3. UpTo(list, i) \in SUBSET (1 .. Len(list)) /\ i \in UpTo(list, i)
  BY <1>1, ListElements DEF UpTo, Precedes
<1>4. IsFiniteSet(UpTo(list, i)) /\ Cardinality(UpTo(list, i)) <= Len(list)
  BY <1>2, <1>3, FS_Subset
<1>5. Cardinality(UpTo(list, i)) \in Nat /\ Cardinality(UpTo(list, i)) # 0
  BY <1>3, <1>4, FS_CardinalityType, FS_EmptySet
<1>6. Rank(list, i) = Cardinality(UpTo(list, i))
  BY DEF Rank, UpTo, Precedes
<1> QED BY <1>1, <1>3, <1>4, <1>5, <1>6

\* An element that precedes another goes to an earlier position.
LEMMA RankOrder ==
  ASSUME NEW list \in Seq(Mappings), NEW i \in 1 .. Len(list), NEW j \in 1 .. Len(list),
         j # i, Precedes(list, j, i)
  PROVE  Rank(list, j) < Rank(list, i)
<1>1. list[i].base \in Nat /\ list[j].base \in Nat /\ i \in Nat /\ j \in Nat
  BY ListElements
<1>2. i \notin UpTo(list, j)
  BY <1>1 DEF UpTo, Precedes
<1>3. \A k \in 1 .. Len(list) : list[k].base \in Nat
  BY ListElements
<1>4. UpTo(list, j) \in SUBSET UpTo(list, i)
  <2>1. ASSUME NEW k \in 1 .. Len(list), Precedes(list, k, j) PROVE Precedes(list, k, i)
    BY <1>1, <1>3, <2>1 DEF Precedes
  <2> QED BY <2>1 DEF UpTo
<1>5. UpTo(list, j) # UpTo(list, i)
  BY <1>2, RankRange
<1>6. /\ Cardinality(UpTo(list, j)) <= Cardinality(UpTo(list, i))
      /\ Cardinality(UpTo(list, i)) # Cardinality(UpTo(list, j))
  BY <1>4, <1>5, RankRange, FS_Subset
<1> QED BY <1>6, RankRange

\* Every position is some element's.
LEMMA RankOnto ==
  ASSUME NEW list \in Seq(Mappings), NEW k \in 1 .. Len(list)
  PROVE  \E i \in 1 .. Len(list) : Rank(list, i) = k
<1> DEFINE N == 1 .. Len(list)
           f == [i \in N |-> Rank(list, i)]
<1>1. f \in [N -> N]
  BY RankRange
<1>2. ASSUME NEW i \in N, NEW j \in N, i # j PROVE f[i] # f[j]
  <2>1. Precedes(list, i, j) \/ Precedes(list, j, i)
    BY <1>2, ListElements DEF Precedes
  <2>2. Rank(list, i) \in Nat /\ Rank(list, j) \in Nat
    BY RankRange
  <2> QED BY <1>2, <2>1, <2>2, RankOrder
<1>3. f \in Injection(N, N)
  BY <1>1, <1>2 DEF Injection, IsInjective
<1>4. IsFiniteSet(N)
  BY FS_Interval
<1>5. f \in Surjection(N, N)
  BY <1>3, <1>4, FS_Injection
<1> QED BY <1>5 DEF Surjection

\* The sorted list: what is at the position of an element is the element.
LEMMA SortedElements ==
  ASSUME NEW list \in Seq(Mappings)
  PROVE  /\ Sorted(list) \in Seq(Mappings) /\ Len(Sorted(list)) = Len(list)
         /\ \A i \in 1 .. Len(list) : Sorted(list)[Rank(list, i)] = list[i]
<1>1. DOMAIN list = 1 .. Len(list) /\ Len(list) \in Nat
  OBVIOUS
<1> DEFINE At(k) == CHOOSE i \in DOMAIN list : Rank(list, i) = k
<1>2. \A k \in 1 .. Len(list) : At(k) \in 1 .. Len(list) /\ Rank(list, At(k)) = k
  BY <1>1, RankOnto
<1>3. Sorted(list) = [k \in 1 .. Len(list) |-> list[At(k)]]
  BY <1>1 DEF Sorted
<1>4. \A i, j \in 1 .. Len(list) : Rank(list, i) = Rank(list, j) => i = j
  <2>1. ASSUME NEW i \in 1 .. Len(list), NEW j \in 1 .. Len(list), i # j
        PROVE  Rank(list, i) # Rank(list, j)
    <3>1. Precedes(list, i, j) \/ Precedes(list, j, i)
      BY <2>1, ListElements DEF Precedes
    <3>2. Rank(list, i) \in Nat /\ Rank(list, j) \in Nat
      BY RankRange
    <3> QED BY <2>1, <3>1, <3>2, RankOrder
  <2> QED BY <2>1
<1> HIDE DEF At
<1>5. Sorted(list) \in Seq(Mappings) /\ Len(Sorted(list)) = Len(list)
  BY <1>1, <1>2, <1>3
<1>6. ASSUME NEW i \in 1 .. Len(list) PROVE Sorted(list)[Rank(list, i)] = list[i]
  <2>1. Rank(list, i) \in 1 .. Len(list)
    BY RankRange
  <2>2. At(Rank(list, i)) = i
    BY <1>2, <1>4, <2>1
  <2> QED BY <1>3, <2>1, <2>2
<1> QED BY <1>5, <1>6

\* The sorted list is in the order of the bases.
LEMMA SortedInOrder ==
  ASSUME NEW list \in Seq(Mappings), NEW k \in 1 .. Len(list), NEW l \in 1 .. Len(list), k <= l
  PROVE  Sorted(list)[k].base <= Sorted(list)[l].base
<1>1. PICK i \in 1 .. Len(list) : Rank(list, i) = k
  BY RankOnto
<1>2. PICK j \in 1 .. Len(list) : Rank(list, j) = l
  BY RankOnto
<1>3. Sorted(list)[k] = list[i] /\ Sorted(list)[l] = list[j]
  BY <1>1, <1>2, SortedElements
<1>4. list[i].base \in Nat /\ list[j].base \in Nat
  BY ListElements
<1>5. CASE list[j].base < list[i].base
  <2>1. Rank(list, j) < Rank(list, i)
    BY <1>4, <1>5, RankOrder DEF Precedes
  <2> QED BY <1>1, <1>2, <2>1
<1> QED BY <1>3, <1>4, <1>5

----------------------------------------------------------------------------
(* The list of mappings. Between calls it is in the order of the bases. In *)
(* a call the loop has left nothing of the new interval to a mapping that  *)
(* begins before it: what it has not looked at yet is in order, so once it *)
(* erases a mapping, which begins in the new interval, all those behind do *)
(* not begin before it either, the one it skips included.                  *)

PageAligned(m) == \E b, n \in Nat : m.base = b * PAGE_SIZE /\ m.size = n * PAGE_SIZE
Clear(m) == m.base >= newBase \/ m.base + m.size <= newBase
SortedFrom(k) ==
  \A i, j \in 1 .. Len(gMappings) : k <= i /\ i <= j => gMappings[i].base <= gMappings[j].base

CutInv ==
  /\ \A i \in 1 .. Len(gMappings) : i < iter => Clear(gMappings[i])
  /\ SortedFrom(iter) \/ \A i \in 1 .. Len(gMappings) : Clear(gMappings[i])

ListInv ==
  /\ gMappings \in Seq(Mappings)
  /\ \A i \in 1 .. Len(gMappings) : PageAligned(gMappings[i])
  /\ iter \in 1 .. Len(gMappings) + 1
  /\ state \notin {"cutting", "stopped"} => SortedFrom(1)
  /\ state = "cutting" => CutInv

\* The new interval: its addresses begin and end with a page.
LEMMA NewInterval ==
  ASSUME PInv
  PROVE  /\ newBase \in Nat /\ newEnd + 1 \in Nat /\ newEnd \in Int /\ newEnd + 1 >= newBase
         /\ region.first \in Nat /\ region.size \in Nat /\ region.size * PAGE_SIZE \in Nat
         /\ newBase = region.first * PAGE_SIZE
         /\ newEnd + 1 = (region.first + region.size) * PAGE_SIZE
         /\ newEnd + 1 = newBase + region.size * PAGE_SIZE
<1>1. region.first \in Nat /\ region.size \in Nat
  BY MapperAssumption DEF PInv, RegionInv, Pages
<1> QED BY <1>1 DEF newBase, newEnd, PAGE_SIZE

\* A mapping cut down to what lies before base.
LEMMA BeforeFacts ==
  ASSUME NEW m \in Mappings, NEW base \in Nat, m.base <= base
  PROVE  LET x == Before(m, base)
         IN  x \in Mappings /\ x.base = m.base /\ x.size = base - m.base /\ x.call = m.call
<1>1. m.base \in Nat /\ base - m.base \in Nat
  BY DEF Mappings
<1> QED BY <1>1 DEF Before, Mappings

\* A mapping cut down to what lies after end.
LEMMA AfterFacts ==
  ASSUME NEW m \in Mappings, NEW end \in Int, end + 1 \in Nat, MapEnd(m) >= end
  PROVE  LET x == After(m, end)
         IN  x \in Mappings /\ x.base = end + 1 /\ x.size = MapEnd(m) - end /\ x.call = m.call
<1>1. m.base \in Nat /\ m.size \in Nat
  BY DEF Mappings
<1>2. MapEnd(m) - end \in Nat
  BY <1>1 DEF MapEnd
<1> QED BY <1>2 DEF After, Mappings

\* The piece in front of the new interval ends where it begins.
LEMMA BeforeIsClear ==
  ASSUME PInv, NEW m \in Mappings, PageAligned(m), m.base <= newBase
  PROVE  LET x == Before(m, newBase) IN x \in Mappings /\ PageAligned(x) /\ Clear(x)
<1> DEFINE x == Before(m, newBase)
<1>1. x \in Mappings /\ x.base = m.base /\ x.size = newBase - m.base /\ m.base \in Nat
  BY BeforeFacts, NewInterval DEF Mappings
<1>2. PICK b \in Nat, n \in Nat : m.base = b * PAGE_SIZE /\ m.size = n * PAGE_SIZE
  BY DEF PageAligned
<1> HIDE DEF x
<1>3. region.first - b \in Nat /\ x.size = (region.first - b) * PAGE_SIZE
  BY <1>1, <1>2, NewInterval DEF PAGE_SIZE
<1>4. PageAligned(x)
  BY <1>1, <1>2, <1>3 DEF PageAligned
<1>5. Clear(x)
  BY <1>1, NewInterval DEF Clear
<1> QED BY <1>1, <1>4, <1>5 DEF x

\* The piece behind the new interval begins behind it.
LEMMA AfterIsClear ==
  ASSUME PInv, NEW m \in Mappings, PageAligned(m), MapEnd(m) >= newEnd
  PROVE  LET x == After(m, newEnd) IN x \in Mappings /\ PageAligned(x) /\ Clear(x)
<1> DEFINE x == After(m, newEnd)
<1>1. /\ x \in Mappings /\ x.base = newEnd + 1 /\ x.size = MapEnd(m) - newEnd
      /\ m.base \in Nat /\ m.size \in Nat
  BY AfterFacts, NewInterval DEF Mappings
<1>2. PICK b \in Nat, n \in Nat : m.base = b * PAGE_SIZE /\ m.size = n * PAGE_SIZE
  BY DEF PageAligned
<1> HIDE DEF x
<1> DEFINE r == region.first + region.size
<1>3. r \in Nat /\ newEnd + 1 = r * PAGE_SIZE
  BY NewInterval
<1> HIDE DEF r
<1>4. b + n - r \in Nat /\ x.size = (b + n - r) * PAGE_SIZE
  BY <1>1, <1>2, <1>3, NewInterval DEF MapEnd, PAGE_SIZE
<1>5. PageAligned(x)
  BY <1>1, <1>3, <1>4 DEF PageAligned
<1>6. Clear(x)
  BY <1>1, NewInterval DEF Clear
<1> QED BY <1>1, <1>5, <1>6 DEF x

\* A mapping none of the cases is about needs no cut: one that begins before the new
\* interval and reaches into it reaches over a whole page of it.
LEMMA PassedIsClear ==
  ASSUME PInv, NEW m \in Mappings, PageAligned(m),
         MapEnd(m) < newBase \/ ~(EndsInside(m) \/ Covers(m) \/ Inside(m) \/ StartsInside(m))
  PROVE  Clear(m)
<1>1. PICK b \in Nat, n \in Nat : m.base = b * PAGE_SIZE /\ m.size = n * PAGE_SIZE
  BY DEF PageAligned
<1>2. m.base = 2 * b /\ m.size = 2 * n /\ newBase = 2 * region.first /\ region.first \in Nat
  BY <1>1, NewInterval DEF PAGE_SIZE
<1>3. 2 * b + 2 * n - 1 # 2 * region.first
  BY <1>2
<1> QED BY <1>2, <1>3, NewInterval DEF Clear, EndsInside, Covers, MapEnd

\* The first mapping.
LEMMA InitList == ASSUME Init PROVE ListInv
<1> DEFINE m == [base |-> 0, size |-> NumPages * PAGE_SIZE, call |-> 0]
<1>1. m \in Mappings /\ m.base = 0 * PAGE_SIZE /\ m.size = NumPages * PAGE_SIZE
  BY MapperAssumption DEF Mappings, PAGE_SIZE
<1>2. gMappings = <<m>> /\ iter = 1 /\ state = "running"
  BY DEF Init
<1> HIDE DEF m
<1>3. gMappings \in Seq(Mappings) /\ Len(gMappings) = 1 /\ gMappings[1] = m
  BY <1>1, <1>2
<1>4. m.base \in Nat
  BY <1>1 DEF Mappings
<1>5. SortedFrom(1)
  BY <1>3, <1>4 DEF SortedFrom
<1>6. PageAligned(m)
  BY <1>1, MapperAssumption DEF PageAligned
<1> QED BY <1>2, <1>3, <1>5, <1>6 DEF ListInv

\* A call begins at the head of a list in order.
LEMMA AddList ==
  ASSUME PInv, ListInv, NEW p, NEW n, AddMapping(p, n)
  PROVE  ListInv'
<1>1. /\ UNCHANGED gMappings /\ iter' = 1 /\ state' = "cutting"
      /\ gMappings \in Seq(Mappings) /\ SortedFrom(1)
  BY DEF AddMapping, ListInv
<1>2. Len(gMappings) \in Nat
  BY <1>1
<1>3. SortedFrom(iter)'
  BY <1>1 DEF SortedFrom
<1>4. CutInv'
  BY <1>1, <1>2, <1>3 DEF CutInv
<1> QED BY <1>1, <1>2, <1>4 DEF ListInv, PageAligned

\* An iteration that leaves in the place of the mapping one that needs no cut.
LEMMA ReplaceInList ==
  ASSUME ListInv, state = "cutting", iter <= Len(gMappings),
         NEW x \in Mappings, PageAligned(x), Clear(x),
         gMappings' = [gMappings EXCEPT ![iter] = x], iter' = iter + 1, UNCHANGED <<region, state>>
  PROVE  ListInv'
<1>1. /\ gMappings \in Seq(Mappings) /\ iter \in 1 .. Len(gMappings) /\ Len(gMappings) \in Nat
      /\ iter \in Nat /\ CutInv
  BY DEF ListInv
<1>2. /\ gMappings' \in Seq(Mappings) /\ Len(gMappings') = Len(gMappings)
      /\ \A k \in 1 .. Len(gMappings) : gMappings'[k] = IF k = iter THEN x ELSE gMappings[k]
  BY <1>1, SeqUpdate
<1>3. newBase' = newBase
  BY DEF newBase
<1>4. \A m : Clear(m)' <=> Clear(m)
  BY <1>3 DEF Clear
<1>5. \A i \in 1 .. Len(gMappings) : PageAligned(gMappings'[i])
  BY <1>1, <1>2 DEF ListInv
<1>6. \A i \in 1 .. Len(gMappings) : i < iter + 1 => Clear(gMappings'[i])
  BY <1>1, <1>2 DEF CutInv
<1>7. CASE SortedFrom(iter)
  <2>1. SortedFrom(iter)'
    BY <1>1, <1>2, <1>7 DEF SortedFrom
  <2> QED BY <1>1, <1>2, <1>4, <1>5, <1>6, <2>1 DEF ListInv, CutInv
<1>8. CASE \A i \in 1 .. Len(gMappings) : Clear(gMappings[i])
  <2>1. \A i \in 1 .. Len(gMappings) : Clear(gMappings'[i])
    BY <1>2, <1>8
  <2> QED BY <1>1, <1>2, <1>4, <1>5, <1>6, <2>1 DEF ListInv, CutInv
<1> QED BY <1>1, <1>7, <1>8 DEF CutInv

\* An iteration that also puts one to the front.
LEMMA SplitInList ==
  ASSUME ListInv, state = "cutting", iter <= Len(gMappings),
         NEW x \in Mappings, PageAligned(x), Clear(x), NEW y \in Mappings, PageAligned(y), Clear(y),
         gMappings' = <<y>> \o [gMappings EXCEPT ![iter] = x], iter' = iter + 2,
         UNCHANGED <<region, state>>
  PROVE  ListInv'
<1>1. /\ gMappings \in Seq(Mappings) /\ iter \in 1 .. Len(gMappings) /\ Len(gMappings) \in Nat
      /\ iter \in Nat /\ CutInv
  BY DEF ListInv
<1> DEFINE c == [gMappings EXCEPT ![iter] = x]
<1>2. /\ c \in Seq(Mappings) /\ Len(c) = Len(gMappings)
      /\ \A k \in 1 .. Len(gMappings) : c[k] = IF k = iter THEN x ELSE gMappings[k]
  BY <1>1, SeqUpdate
<1> HIDE DEF c
<1>3. /\ gMappings' \in Seq(Mappings) /\ Len(gMappings') = Len(gMappings) + 1 /\ gMappings'[1] = y
      /\ \A k \in 2 .. Len(gMappings) + 1 : gMappings'[k] = c[k - 1]
  <2>1. gMappings' = <<y>> \o c
    BY DEF c
  <2> QED BY <1>1, <1>2, <2>1
<1>4. \A k \in 2 .. Len(gMappings) + 1 :
        k - 1 \in 1 .. Len(gMappings) /\ gMappings'[k] = IF k - 1 = iter THEN x ELSE gMappings[k - 1]
  BY <1>1, <1>2, <1>3
<1>5. newBase' = newBase
  BY DEF newBase
<1>6. \A m : Clear(m)' <=> Clear(m)
  BY <1>5 DEF Clear
<1>7. \A k \in 1 .. Len(gMappings) + 1 : k = 1 \/ k \in 2 .. Len(gMappings) + 1
  BY <1>1
<1>8. \A i \in 1 .. Len(gMappings) + 1 : PageAligned(gMappings'[i])
  BY <1>3, <1>4, <1>7 DEF ListInv
<1>9. \A i \in 1 .. Len(gMappings) + 1 : i < iter + 2 => Clear(gMappings'[i])
  BY <1>1, <1>3, <1>4, <1>7 DEF CutInv
<1>10. CASE SortedFrom(iter)
  <2>1. SortedFrom(iter)'
    <3> SUFFICES ASSUME NEW i \in 1 .. Len(gMappings) + 1, NEW j \in 1 .. Len(gMappings) + 1,
                        iter + 2 <= i, i <= j
                 PROVE  gMappings'[i].base <= gMappings'[j].base
      BY <1>3 DEF SortedFrom
    <3>1. gMappings'[i] = gMappings[i - 1] /\ gMappings'[j] = gMappings[j - 1]
      BY <1>1, <1>4
    <3>2. /\ i - 1 \in 1 .. Len(gMappings) /\ j - 1 \in 1 .. Len(gMappings)
          /\ iter <= i - 1 /\ i - 1 <= j - 1
      BY <1>1
    <3> QED BY <1>10, <3>1, <3>2 DEF SortedFrom
  <2> QED BY <1>1, <1>3, <1>6, <1>8, <1>9, <2>1 DEF ListInv, CutInv
<1>11. CASE \A i \in 1 .. Len(gMappings) : Clear(gMappings[i])
  <2>1. \A i \in 1 .. Len(gMappings) + 1 : Clear(gMappings'[i])
    BY <1>3, <1>4, <1>7, <1>11
  <2> QED BY <1>1, <1>3, <1>6, <1>8, <1>9, <2>1 DEF ListInv, CutInv
<1> QED BY <1>1, <1>10, <1>11 DEF CutInv

\* An iteration that erases a mapping, which begins in the new interval: those behind it
\* in a list in order do, too, or begin later.
LEMMA EraseInList ==
  ASSUME PInv, ListInv, state = "cutting", iter <= Len(gMappings), Erase(gMappings[iter]),
         UNCHANGED region
  PROVE  ListInv'
<1>1. /\ gMappings \in Seq(Mappings) /\ iter \in 1 .. Len(gMappings) /\ Len(gMappings) \in Nat
      /\ iter \in Nat /\ CutInv
  BY DEF ListInv
<1>2. /\ gMappings' \in Seq(Mappings) /\ Len(gMappings') = Len(gMappings) - 1
      /\ \A k \in 1 .. Len(gMappings) - 1 :
           gMappings'[k] = IF k < iter THEN gMappings[k] ELSE gMappings[k + 1]
  BY <1>1, RemoveAtElements DEF Erase
<1>3. newBase' = newBase
  BY DEF newBase
<1>4. \A m : Clear(m)' <=> Clear(m)
  BY <1>3 DEF Clear
<1>5. gMappings[iter].base >= newBase
  BY DEF Erase, Inside
<1>6. \A i \in 1 .. Len(gMappings) : Clear(gMappings[i])
  <2>1. CASE SortedFrom(iter)
    <3>1. ASSUME NEW i \in 1 .. Len(gMappings), iter <= i PROVE Clear(gMappings[i])
      <4>1. gMappings[iter].base <= gMappings[i].base
        BY <1>1, <2>1, <3>1 DEF SortedFrom
      <4> QED BY <1>1, <1>5, <4>1, NewInterval, ListElements DEF Clear
    <3> QED BY <1>1, <3>1 DEF CutInv
  <2> QED BY <1>1, <2>1 DEF CutInv
<1>7. \A k \in 1 .. Len(gMappings) - 1 :
        \E i \in 1 .. Len(gMappings) : gMappings'[k] = gMappings[i]
  <2>1. \A k \in 1 .. Len(gMappings) - 1 : k \in 1 .. Len(gMappings) /\ k + 1 \in 1 .. Len(gMappings)
    BY <1>1
  <2> QED BY <1>2, <2>1
<1>8. \A k \in 1 .. Len(gMappings') : PageAligned(gMappings'[k]) /\ Clear(gMappings'[k])
  BY <1>2, <1>6, <1>7 DEF ListInv
<1>9. state' \in {"cutting", "stopped"} /\ iter' \in 1 .. Len(gMappings') + 1
  BY <1>1, <1>2 DEF Erase
<1> QED BY <1>1, <1>2, <1>4, <1>8, <1>9 DEF ListInv, CutInv

\* Each iteration of the loop.
LEMMA CutList ==
  ASSUME PInv, ListInv, CutMapping
  PROVE  ListInv'
<1>1. PICK m \in Mappings : m = gMappings[iter] /\ PageAligned(m)
  BY DEF CutMapping, ListInv
<1>2. /\ state = "cutting" /\ iter <= Len(gMappings) /\ UNCHANGED region
      /\ PassBy(m) \/ CutEnd(m) \/ CutStart(m) \/ Split(m) \/ Erase(m)
  BY <1>1 DEF CutMapping
<1>3. m.base \in Nat /\ m.size \in Nat /\ MapEnd(m) \in Int
  BY DEF Mappings, MapEnd
<1>4. CASE PassBy(m)
  <2>1. gMappings' = [gMappings EXCEPT ![iter] = m] /\ iter' = iter + 1 /\ UNCHANGED state
    BY <1>1, <1>4 DEF PassBy, ListInv
  <2>2. Clear(m)
    BY <1>1, <1>4, PassedIsClear DEF PassBy
  <2> QED BY <1>1, <1>2, <2>1, <2>2, ReplaceInList
<1>5. CASE CutEnd(m)
  <2>1. m.base <= newBase
    BY <1>3, <1>5, NewInterval DEF CutEnd, EndsInside, Covers
  <2> QED BY <1>1, <1>2, <1>5, <2>1, BeforeIsClear, ReplaceInList DEF CutEnd
<1>6. CASE CutStart(m)
  <2>1. MapEnd(m) >= newEnd
    BY <1>3, <1>6, NewInterval DEF CutStart, StartsInside, Covers
  <2> QED BY <1>1, <1>2, <1>6, <2>1, AfterIsClear, ReplaceInList DEF CutStart
<1>7. CASE Split(m)
  <2>1. m.base <= newBase /\ MapEnd(m) >= newEnd
    BY <1>7 DEF Split, Covers
  <2> QED BY <1>1, <1>2, <1>7, <2>1, BeforeIsClear, AfterIsClear, SplitInList DEF Split
<1>8. CASE Erase(m)
  BY <1>1, <1>2, <1>8, EraseInList
<1> QED BY <1>2, <1>4, <1>5, <1>6, <1>7, <1>8

\* The mapping of the call under way.
NewMapping == [base |-> newBase, size |-> region.size * PAGE_SIZE, call |-> calls]

\* It holds the addresses of its pages and no others.
LEMMA NewMappingFacts ==
  ASSUME PInv
  PROVE  /\ NewMapping \in Mappings /\ PageAligned(NewMapping)
         /\ NewMapping.base = newBase /\ NewMapping.call = calls
         /\ \A p \in Pages : Holds(NewMapping, p * PAGE_SIZE) <=> p \in RegionPages
<1>1. /\ NewMapping.base = newBase /\ NewMapping.size = region.size * PAGE_SIZE
      /\ NewMapping.call = calls
  BY DEF NewMapping
<1>2. NewMapping \in Mappings
  BY NewInterval DEF NewMapping, Mappings, PInv, PageType
<1>3. PageAligned(NewMapping)
  BY <1>1, NewInterval DEF PageAligned
<1>4. ASSUME NEW p \in Pages PROVE Holds(NewMapping, p * PAGE_SIZE) <=> p \in RegionPages
  BY <1>1, NewInterval, MapperAssumption DEF Holds, Pages, RegionPages, PAGE_SIZE
<1> QED BY <1>1, <1>2, <1>3, <1>4

\* What the sort behind the loop starts from.
LEMMA PushedFront ==
  ASSUME PInv, ListInv, InsertMapping
  PROVE  \E list \in Seq(Mappings) :
           /\ gMappings' = Sorted(list) /\ Len(list) = Len(gMappings) + 1
           /\ list[1] = NewMapping /\ \A k \in 1 .. Len(gMappings) : list[k + 1] = gMappings[k]
<1>1. gMappings \in Seq(Mappings) /\ Len(gMappings) \in Nat
  BY DEF ListInv
<1>2. gMappings' = Sorted(<<NewMapping>> \o gMappings)
  BY DEF InsertMapping, Inserted, NewMapping
<1>3. PICK m \in Mappings : m = NewMapping
  BY NewMappingFacts
<1>4. /\ <<m>> \o gMappings \in Seq(Mappings) /\ Len(<<m>> \o gMappings) = Len(gMappings) + 1
      /\ (<<m>> \o gMappings)[1] = m
      /\ \A k \in 1 .. Len(gMappings) : (<<m>> \o gMappings)[k + 1] = gMappings[k]
  BY <1>1
<1> QED BY <1>2, <1>3, <1>4

\* The end of the loop leaves a list in order.
LEMMA InsertList ==
  ASSUME PInv, ListInv, InsertMapping
  PROVE  ListInv'
<1>1. PICK list \in Seq(Mappings) :
        /\ gMappings' = Sorted(list) /\ Len(list) = Len(gMappings) + 1
        /\ list[1] = NewMapping /\ \A k \in 1 .. Len(gMappings) : list[k + 1] = gMappings[k]
  BY PushedFront
<1>2. gMappings' \in Seq(Mappings) /\ Len(gMappings') = Len(list) /\ Len(list) \in Nat
  BY <1>1, SortedElements
<1>3. iter' = 1 /\ state' = "allocating"
  BY DEF InsertMapping
<1>4. \A i \in 1 .. Len(list) : PageAligned(list[i])
  <2>1. ASSUME NEW i \in 1 .. Len(list), i # 1 PROVE PageAligned(list[i])
    <3>1. Len(gMappings) \in Nat
      BY DEF ListInv
    <3>2. i - 1 \in 1 .. Len(gMappings) /\ i = (i - 1) + 1
      BY <1>1, <2>1, <3>1
    <3>3. list[i] = gMappings[i - 1]
      BY <1>1, <3>2
    <3> QED BY <3>2, <3>3 DEF ListInv
  <2> QED BY <1>1, <2>1, NewMappingFacts
<1>5. \A k \in 1 .. Len(list) : PageAligned(Sorted(list)[k])
  <2> TAKE k \in 1 .. Len(list)
  <2>1. PICK i \in 1 .. Len(list) : Rank(list, i) = k
    BY RankOnto
  <2> QED BY <1>4, <2>1, SortedElements
<1>6. SortedFrom(1)'
  BY <1>1, <1>2, SortedInOrder DEF SortedFrom
<1> QED BY <1>1, <1>2, <1>3, <1>5, <1>6 DEF ListInv

\* The list stays as it is while the pages change.
LEMMA SameList ==
  ASSUME ListInv, UNCHANGED listVars, state \notin {"cutting", "stopped"}, state' # "cutting"
  PROVE  ListInv'
BY DEF ListInv, listVars, SortedFrom

\* Every step keeps the list's invariant.
LEMMA StepList == ASSUME PInv, ListInv, [Next]_vars PROVE ListInv'
<1>1. CASE \E p \in Pages, n \in MinSize .. NumPages : AddMapping(p, n)
  BY <1>1, AddList
<1>2. CASE AllocateRegion
  BY <1>2, SameList
  DEF AllocateRegion, AllocatePage, HasFrame, NoFreePage, TakeFrame, WaitForLock, InvalidPage, pageVars
<1>3. CASE ProtectRegion
  BY <1>3, SameList DEF ProtectRegion, listVars
<1>4. CASE UNCHANGED vars
  <2>1. UNCHANGED <<gMappings, iter, state, region>>
    BY <1>4 DEF vars, listVars
  <2> QED BY <2>1 DEF ListInv, CutInv, SortedFrom, Clear, newBase
<1> QED BY <1>1, <1>2, <1>3, <1>4, CutList, InsertList DEF Next

\* Both invariants hold in every reachable state.
LEMMA ListInvariant == Spec => [](PInv /\ ListInv)
<1>1. Init => PInv /\ ListInv
  BY InitPages, InitList
<1>2. PInv /\ ListInv /\ [Next]_vars => (PInv /\ ListInv)'
  BY StepPages, StepList
<1> QED BY <1>1, <1>2, PTL DEF Spec

\* The sizes the cases of addMapping's loop compute are never negative (the code's
\* unsigned ones do not wrap round), and its iterator stays in the list, for any number
\* of pages and calls.
THEOREM TypeCorrect == Spec => []TypeOK
<1>1. PInv /\ ListInv => TypeOK
  BY DEF PInv, PageType, RegionInv, ListInv, TypeOK
<1> QED BY <1>1, ListInvariant, PTL

----------------------------------------------------------------------------
(* What queries report.                                                    *)

\* The new mapping is the first in the sorted list that holds an address of its pages: an
\* older one that holds it begins in the new interval, and behind the new one in the list.
LEMMA InsertFinds ==
  ASSUME PInv, ListInv, InsertMapping, NEW p \in Pages, p \in RegionPages
  PROVE  FindsLatest(p)'
<1>1. PICK list \in Seq(Mappings) :
        /\ gMappings' = Sorted(list) /\ Len(list) = Len(gMappings) + 1
        /\ list[1] = NewMapping /\ \A k \in 1 .. Len(gMappings) : list[k + 1] = gMappings[k]
  BY PushedFront
<1>2. /\ gMappings \in Seq(Mappings) /\ Len(gMappings) \in Nat
      /\ \A k \in 1 .. Len(gMappings) : Clear(gMappings[k])
  BY DEF ListInv, CutInv, InsertMapping
<1>3. /\ gMappings' \in Seq(Mappings) /\ DOMAIN gMappings' = 1 .. Len(list)
      /\ \A i \in 1 .. Len(list) : gMappings'[Rank(list, i)] = list[i]
  BY <1>1, SortedElements
<1> DEFINE addr == p * PAGE_SIZE
           hits == {k \in 1 .. Len(list) : Holds(gMappings'[k], addr)}
<1>4. 1 \in 1 .. Len(list) /\ Rank(list, 1) \in 1 .. Len(list)
  BY <1>1, <1>2, RankRange
<1>5. Rank(list, 1) \in hits
  BY <1>1, <1>3, <1>4, NewMappingFacts
<1>6. hits \in SUBSET Nat
  OBVIOUS
<1>7. Min(hits) \in hits /\ Min(hits) <= Rank(list, 1)
  BY <1>5, <1>6, MinIsLeast
<1>8. PICK i \in 1 .. Len(list) : Rank(list, i) = Min(hits)
  BY <1>7, RankOnto
<1>9. list[i] = gMappings'[Min(hits)] /\ Holds(list[i], addr)
  BY <1>3, <1>7, <1>8
<1>10. i = 1
  <2> SUFFICES ASSUME i # 1 PROVE FALSE
    OBVIOUS
  <2>1. i - 1 \in 1 .. Len(gMappings) /\ i = (i - 1) + 1
    BY <1>1, <1>2
  <2>2. list[i] = gMappings[i - 1] /\ Clear(list[i])
    BY <1>1, <1>2, <2>1
  <2>3. addr >= newBase /\ addr \in Nat /\ newBase \in Nat
    BY NewInterval, MapperAssumption DEF Pages, RegionPages, PAGE_SIZE
  <2>4. list[i].base \in Nat /\ list[i].size \in Nat
    BY ListElements
  <2>5. list[i].base >= newBase
    BY <1>9, <2>2, <2>3, <2>4 DEF Clear, Holds
  <2>6. list[1].base = newBase
    BY <1>1, NewMappingFacts
  <2>7. Precedes(list, 1, i)
    BY <2>3, <2>4, <2>5, <2>6 DEF Precedes
  <2>8. Rank(list, 1) < Rank(list, i)
    BY <1>4, <2>7, RankOrder
  <2> QED BY <1>4, <1>7, <1>8, <2>8
<1>11. gMappings'[Min(hits)].call = calls
  BY <1>1, <1>9, <1>10, NewMappingFacts
<1>12. FindMapping(addr)' = calls
  <2>1. {k \in DOMAIN gMappings' : Holds(gMappings'[k], addr)} = hits
    BY <1>3
  <2> HIDE DEF hits, addr
  <2> QED BY <1>5, <1>11, <2>1 DEF FindMapping
<1>13. owner'[p] = calls
  BY DEF InsertMapping
<1> QED BY <1>12, <1>13 DEF FindsLatest

\* Nothing but the end of the loop changes an owner.
LEMMA OwnersChange ==
  ASSUME PInv, [Next]_vars, NEW p \in Pages, owner'[p] # owner[p]
  PROVE  InsertMapping /\ p \in RegionPages
<1>1. UNCHANGED owner \/ InsertMapping
  BY DEF Next, AddMapping, CutMapping, AllocateRegion, ProtectRegion, vars, listVars
<1>2. InsertMapping
  BY <1>1
<1> QED BY <1>2 DEF InsertMapping

\* svcQueryMemory reports a new mapping for all of its addresses (addMapping with
\* findMapping), although the loop leaves older mappings that overlap it, for any number
\* of pages and calls.
THEOREM NewMappingFound == Spec => NewMappingIsFound
<1>1. PInv /\ ListInv /\ [Next]_vars => [\A p \in Pages : owner'[p] # owner[p] => FindsLatest(p)']_vars
  BY OwnersChange, InsertFinds
<1> QED BY <1>1, ListInvariant, PTL DEF Spec, NewMappingIsFound

\* The calls with a mapping of page p.
Callers(list, p) == {m.call : m \in {n \in Range(list) : Holds(n, p * PAGE_SIZE)}}

\* What s maps at page p, t maps there, too.
Carries(s, t, p) ==
  \A k \in 1 .. Len(s) : Holds(s[k], p * PAGE_SIZE) =>
    \E l \in 1 .. Len(t) : Holds(t[l], p * PAGE_SIZE) /\ t[l].call = s[k].call

\* Two lists that carry over to each other have the same calls.
LEMMA SameCallers ==
  ASSUME NEW s \in Seq(Mappings), NEW t \in Seq(Mappings), NEW p, Carries(s, t, p), Carries(t, s, p)
  PROVE  Callers(s, p) = Callers(t, p)
<1>1. DOMAIN s = 1 .. Len(s) /\ DOMAIN t = 1 .. Len(t)
  OBVIOUS
<1>2. ASSUME NEW u \in Seq(Mappings), NEW v \in Seq(Mappings), Carries(u, v, p),
             DOMAIN u = 1 .. Len(u), DOMAIN v = 1 .. Len(v), NEW c \in Callers(u, p)
      PROVE  c \in Callers(v, p)
  <2>1. PICK n \in Range(u) : Holds(n, p * PAGE_SIZE) /\ n.call = c
    BY <1>2 DEF Callers
  <2>2. PICK k \in 1 .. Len(u) : u[k] = n
    BY <1>2 DEF Range
  <2>3. PICK l \in 1 .. Len(v) : Holds(v[l], p * PAGE_SIZE) /\ v[l].call = c
    BY <1>2, <2>1, <2>2 DEF Carries
  <2>4. v[l] \in Range(v)
    BY <1>2 DEF Range
  <2> QED BY <2>3, <2>4 DEF Callers
<1>3. Callers(s, p) \subseteq Callers(t, p)
  BY <1>1, <1>2
<1>4. Callers(t, p) \subseteq Callers(s, p)
  BY <1>1, <1>2
<1> QED BY <1>3, <1>4

\* The address of a page that is not in the new interval.
LEMMA Outside ==
  ASSUME PInv, NEW p \in Pages, p \notin RegionPages
  PROVE  p * PAGE_SIZE \in Nat /\ (p * PAGE_SIZE < newBase \/ p * PAGE_SIZE > newEnd)
<1>1. p \in Nat /\ region.first \in Nat /\ region.size \in Nat
  BY NewInterval, MapperAssumption DEF Pages
<1>2. p < region.first \/ p >= region.first + region.size
  BY <1>1 DEF RegionPages
<1> QED BY <1>1, <1>2 DEF newBase, newEnd, PAGE_SIZE

\* The loop's cases keep exactly what a mapping holds outside of the new interval.
LEMMA CutsAreExact ==
  ASSUME PInv, NEW m \in Mappings, NEW addr \in Nat, addr < newBase \/ addr > newEnd
  PROVE  /\ CutEnd(m) => (Holds(Before(m, newBase), addr) <=> Holds(m, addr))
         /\ CutStart(m) => (Holds(After(m, newEnd), addr) <=> Holds(m, addr))
         /\ Split(m) => (Holds(Before(m, newBase), addr) \/ Holds(After(m, newEnd), addr)
                           <=> Holds(m, addr))
         /\ Erase(m) => ~Holds(m, addr)
<1>1. m.base \in Nat /\ m.size \in Nat
  BY DEF Mappings
<1>2. ASSUME m.base <= newBase
      PROVE  Holds(Before(m, newBase), addr) <=> m.base <= addr /\ addr < newBase
  BY <1>1, <1>2, NewInterval, BeforeFacts DEF Holds
<1>3. ASSUME MapEnd(m) >= newEnd
      PROVE  Holds(After(m, newEnd), addr) <=> newEnd < addr /\ addr < m.base + m.size
  BY <1>1, <1>3, NewInterval, AfterFacts DEF Holds, MapEnd
<1>4. ASSUME CutEnd(m) PROVE Holds(Before(m, newBase), addr) <=> Holds(m, addr)
  <2>1. m.base <= newBase /\ MapEnd(m) <= newEnd /\ MapEnd(m) >= newBase
    BY <1>1, <1>4, NewInterval DEF CutEnd, EndsInside, Covers, MapEnd
  <2> QED BY <1>1, <1>2, <2>1, NewInterval DEF Holds, MapEnd
<1>5. ASSUME CutStart(m) PROVE Holds(After(m, newEnd), addr) <=> Holds(m, addr)
  <2>1. MapEnd(m) >= newEnd /\ m.base >= newBase /\ m.base <= newEnd + 1
    BY <1>1, <1>5, NewInterval DEF CutStart, StartsInside, Covers, MapEnd
  <2> QED BY <1>1, <1>3, <2>1, NewInterval DEF Holds, MapEnd
<1>6. ASSUME Split(m)
      PROVE  Holds(Before(m, newBase), addr) \/ Holds(After(m, newEnd), addr) <=> Holds(m, addr)
  <2>1. MapEnd(m) >= newEnd /\ m.base <= newBase /\ MapEnd(m) >= newBase
    BY <1>6 DEF Split, Covers
  <2> QED BY <1>1, <1>2, <1>3, <2>1, NewInterval DEF Holds, MapEnd
<1>7. ASSUME Erase(m) PROVE ~Holds(m, addr)
  <2>1. MapEnd(m) <= newEnd /\ m.base >= newBase
    BY <1>7 DEF Erase, Inside
  <2> QED BY <1>1, <2>1, NewInterval DEF Holds, MapEnd
<1> QED BY <1>4, <1>5, <1>6, <1>7

\* An iteration of the loop keeps the calls of every page that is not in the new interval.
LEMMA CutCallers ==
  ASSUME PInv, ListInv, CutMapping, NEW p \in Pages, p \notin RegionPages
  PROVE  Callers(gMappings', p) = Callers(gMappings, p)
<1> DEFINE addr == p * PAGE_SIZE
<1>1. PICK m \in Mappings : m = gMappings[iter]
  BY DEF CutMapping, ListInv
<1>2. /\ state = "cutting" /\ iter \in 1 .. Len(gMappings) /\ gMappings \in Seq(Mappings)
      /\ Len(gMappings) \in Nat
      /\ PassBy(m) \/ CutEnd(m) \/ CutStart(m) \/ Split(m) \/ Erase(m)
  BY <1>1 DEF CutMapping, ListInv
<1>3. addr \in Nat /\ (addr < newBase \/ addr > newEnd)
  BY Outside
<1> SUFFICES Carries(gMappings', gMappings, p) /\ Carries(gMappings, gMappings', p)
  <2>1. gMappings' \in Seq(Mappings)
    BY CutList DEF ListInv
  <2> QED BY <1>2, <2>1, SameCallers
<1>4. ASSUME NEW x \in Mappings, gMappings' = [gMappings EXCEPT ![iter] = x],
             x.call = m.call, Holds(x, addr) <=> Holds(m, addr)
      PROVE  Carries(gMappings', gMappings, p) /\ Carries(gMappings, gMappings', p)
  <2>1. /\ Len(gMappings') = Len(gMappings)
        /\ \A k \in 1 .. Len(gMappings) : gMappings'[k] = IF k = iter THEN x ELSE gMappings[k]
    BY <1>2, <1>4, SeqUpdate
  <2> QED BY <1>1, <1>4, <2>1 DEF Carries
<1>5. CASE PassBy(m)
  BY <1>5 DEF PassBy, Carries
<1>6. CASE CutEnd(m)
  <2>1. m.base <= newBase
    BY <1>6, NewInterval DEF CutEnd, EndsInside, Covers, Mappings
  <2>2. Before(m, newBase) \in Mappings /\ Before(m, newBase).call = m.call
    BY <2>1, BeforeFacts, NewInterval
  <2> QED BY <1>1, <1>3, <1>4, <1>6, <2>2, CutsAreExact DEF CutEnd
<1>7. CASE CutStart(m)
  <2>1. MapEnd(m) >= newEnd
    BY <1>7, NewInterval DEF CutStart, StartsInside, Covers, Mappings, MapEnd
  <2>2. After(m, newEnd) \in Mappings /\ After(m, newEnd).call = m.call
    BY <2>1, AfterFacts, NewInterval
  <2> QED BY <1>1, <1>3, <1>4, <1>7, <2>2, CutsAreExact DEF CutStart
<1>8. CASE Split(m)
  <2>1. PICK x \in Mappings : x = Before(m, newBase) /\ x.call = m.call
    BY <1>8, BeforeFacts, NewInterval DEF Split, Covers
  <2>2. PICK y \in Mappings : y = After(m, newEnd) /\ y.call = m.call
    BY <1>8, AfterFacts, NewInterval DEF Split, Covers
  <2>3. gMappings' = <<y>> \o [gMappings EXCEPT ![iter] = x]
    BY <1>8, <2>1, <2>2 DEF Split
  <2>4. Holds(x, addr) \/ Holds(y, addr) <=> Holds(m, addr)
    BY <1>3, <1>8, <2>1, <2>2, CutsAreExact
  <2>5. PICK s : s = [gMappings EXCEPT ![iter] = x]
    OBVIOUS
  <2>6. /\ s \in Seq(Mappings) /\ Len(s) = Len(gMappings)
        /\ \A k \in 1 .. Len(gMappings) : s[k] = IF k = iter THEN x ELSE gMappings[k]
    BY <1>2, <2>5, SeqUpdate
  <2>7. /\ Len(gMappings') = Len(gMappings) + 1 /\ gMappings'[1] = y
        /\ \A k \in 1 .. Len(gMappings) : gMappings'[k + 1] = s[k]
    BY <1>2, <2>3, <2>5, <2>6
  <2>8. ASSUME NEW k \in 1 .. Len(gMappings'), Holds(gMappings'[k], addr)
        PROVE  \E l \in 1 .. Len(gMappings) :
                 Holds(gMappings[l], addr) /\ gMappings[l].call = gMappings'[k].call
    <3>1. CASE k = 1 \/ k = iter + 1
      <4>1. gMappings'[k] = y \/ gMappings'[k] = x
        BY <1>2, <2>6, <2>7, <3>1
      <4>2. Holds(m, addr) /\ gMappings'[k].call = m.call
        BY <2>1, <2>2, <2>4, <2>8, <4>1
      <4> QED BY <1>1, <1>2, <4>2
    <3>2. CASE k # 1 /\ k # iter + 1
      <4>1. k - 1 \in 1 .. Len(gMappings) /\ k = (k - 1) + 1 /\ k - 1 # iter
        BY <1>2, <2>7, <3>2
      <4>2. gMappings'[k] = gMappings[k - 1]
        BY <2>6, <2>7, <4>1
      <4> QED BY <2>8, <4>1, <4>2
    <3> QED BY <3>1, <3>2
  <2>9. ASSUME NEW k \in 1 .. Len(gMappings), Holds(gMappings[k], addr)
        PROVE  \E l \in 1 .. Len(gMappings') :
                 Holds(gMappings'[l], addr) /\ gMappings'[l].call = gMappings[k].call
    <3>1. k + 1 \in 1 .. Len(gMappings') /\ 1 \in 1 .. Len(gMappings') /\ gMappings'[k + 1] = s[k]
      BY <1>2, <2>7
    <3>2. CASE k = iter
      BY <1>1, <2>1, <2>2, <2>4, <2>6, <2>7, <2>9, <3>1, <3>2
    <3>3. CASE k # iter
      BY <2>6, <2>9, <3>1, <3>3
    <3> QED BY <3>2, <3>3
  <2> QED BY <2>8, <2>9 DEF Carries
<1>9. CASE Erase(m)
  <2>1. ~Holds(m, addr)
    BY <1>3, <1>9, CutsAreExact
  <2>2. /\ Len(gMappings') = Len(gMappings) - 1
        /\ \A k \in 1 .. Len(gMappings) - 1 :
             gMappings'[k] = IF k < iter THEN gMappings[k] ELSE gMappings[k + 1]
    BY <1>2, <1>9, RemoveAtElements DEF Erase
  <2>3. Carries(gMappings, gMappings', p)
    <3> SUFFICES ASSUME NEW k \in 1 .. Len(gMappings), Holds(gMappings[k], addr)
                 PROVE  \E l \in 1 .. Len(gMappings') : gMappings'[l] = gMappings[k]
      BY DEF Carries
    <3>1. k # iter
      BY <1>1, <2>1
    <3>2. CASE k < iter
      <4>1. k \in 1 .. Len(gMappings) - 1 /\ gMappings'[k] = gMappings[k]
        BY <1>2, <2>2, <3>2
      <4> QED BY <2>2, <4>1
    <3>3. CASE k > iter
      <4>1. k - 1 \in 1 .. Len(gMappings) - 1 /\ gMappings'[k - 1] = gMappings[k]
        BY <1>2, <2>2, <3>3
      <4> QED BY <2>2, <4>1
    <3> QED BY <1>2, <3>1, <3>2, <3>3
  <2>4. Carries(gMappings', gMappings, p)
    <3>1. \A k \in 1 .. Len(gMappings) - 1 : k \in 1 .. Len(gMappings) /\ k + 1 \in 1 .. Len(gMappings)
      BY <1>2
    <3> QED BY <2>2, <3>1 DEF Carries
  <2> QED BY <2>3, <2>4
<1> QED BY <1>2, <1>5, <1>6, <1>7, <1>8, <1>9

\* So does the end of the loop.
LEMMA InsertCallers ==
  ASSUME PInv, ListInv, InsertMapping, NEW p \in Pages, p \notin RegionPages
  PROVE  Callers(gMappings', p) = Callers(gMappings, p)
<1> DEFINE addr == p * PAGE_SIZE
<1>1. PICK list \in Seq(Mappings) :
        /\ gMappings' = Sorted(list) /\ Len(list) = Len(gMappings) + 1
        /\ list[1] = NewMapping /\ \A k \in 1 .. Len(gMappings) : list[k + 1] = gMappings[k]
  BY PushedFront
<1>2. gMappings \in Seq(Mappings) /\ Len(gMappings) \in Nat
  BY DEF ListInv
<1>3. /\ gMappings' \in Seq(Mappings) /\ Len(gMappings') = Len(list)
      /\ \A i \in 1 .. Len(list) : gMappings'[Rank(list, i)] = list[i]
  BY <1>1, SortedElements
<1>4. ~Holds(list[1], addr)
  BY <1>1, NewMappingFacts
<1>5. Carries(gMappings', gMappings, p)
  <2> SUFFICES ASSUME NEW k \in 1 .. Len(gMappings'), Holds(gMappings'[k], addr)
               PROVE  \E l \in 1 .. Len(gMappings) : gMappings[l] = gMappings'[k]
    BY DEF Carries
  <2>1. PICK i \in 1 .. Len(list) : Rank(list, i) = k
    BY <1>3, RankOnto
  <2>2. gMappings'[k] = list[i] /\ i # 1
    BY <1>3, <1>4, <2>1
  <2>3. i - 1 \in 1 .. Len(gMappings) /\ i = (i - 1) + 1
    BY <1>1, <1>2, <2>2
  <2> QED BY <1>1, <2>2, <2>3
<1>6. Carries(gMappings, gMappings', p)
  <2> SUFFICES ASSUME NEW k \in 1 .. Len(gMappings)
               PROVE  \E l \in 1 .. Len(gMappings') : gMappings'[l] = gMappings[k]
    BY DEF Carries
  <2>1. k + 1 \in 1 .. Len(list)
    BY <1>1, <1>2
  <2>2. Rank(list, k + 1) \in 1 .. Len(list)
    BY <2>1, RankRange
  <2> QED BY <1>1, <1>3, <2>1, <2>2
<1> QED BY <1>2, <1>3, <1>5, <1>6, SameCallers

\* Every step leaves the calls and the owner of a page outside of the call under way.
LEMMA StepCallers ==
  ASSUME PInv, ListInv, [Next]_vars, NEW p \in Pages, p \notin RegionPages'
  PROVE  Callers(gMappings', p) = Callers(gMappings, p) /\ owner'[p] = owner[p]
<1>1. CASE CutMapping
  <2>1. UNCHANGED <<owner, region>>
    BY <1>1, CutStates
  <2>2. p \notin RegionPages
    BY <2>1 DEF RegionPages
  <2> QED BY <1>1, <2>1, <2>2, CutCallers
<1>2. CASE InsertMapping
  <2>1. UNCHANGED region /\ owner' = [q \in Pages |-> IF q \in RegionPages THEN calls ELSE owner[q]]
    BY <1>2 DEF InsertMapping
  <2>2. p \notin RegionPages
    BY <2>1 DEF RegionPages
  <2> QED BY <1>2, <2>1, <2>2, InsertCallers
<1>3. CASE UNCHANGED <<gMappings, owner>>
  BY <1>3
<1> QED BY <1>1, <1>2, <1>3 DEF Next, AddMapping, AllocateRegion, ProtectRegion, vars, listVars

\* A call leaves the pages outside of its region alone, for any number of pages and calls:
\* addMapping's loop cuts nothing but the new interval out of the old mappings, also where
\* it skips one, and the sort loses none.
THEOREM CallKeepsOthers == Spec => CallKeepsOtherMappings
<1>1. PInv /\ ListInv /\ [Next]_vars
        => [\A p \in Pages : Unambiguous(p) /\ p \notin RegionPages' => Unambiguous(p)']_vars
  BY StepCallers DEF Unambiguous, Callers
<1> QED BY <1>1, ListInvariant, PTL DEF Spec, CallKeepsOtherMappings
=============================================================================
