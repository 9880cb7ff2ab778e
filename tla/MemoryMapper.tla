---------------------------- MODULE MemoryMapper ----------------------------
(***************************************************************************)
(* The guest's address space: hle/kernel/memoryMapper.cpp (addMapping,     *)
(* findMapping) over the page table and the free page list of              *)
(* libcpu/src/mem.cpp. Every call comes from one host thread: the loader   *)
(* before the cores start, then the system calls of core 0.                *)
(*                                                                         *)
(* Addresses count half pages: an interval's last address is then never    *)
(* the first of another, as with the real page-aligned bytes. A mapping's  *)
(* type and permissions are the addMapping call it comes from, numbered    *)
(* 0 (launchGameCart's UNMAPPED region), 1, 2, ...; a page's permission is *)
(* the number of the call that set it, or NONE.                            *)
(*                                                                         *)
(* Undefined behaviour: addMapping's loop increments the iterator erase    *)
(* returns. After an erase of the last element that is the end of the      *)
(* list: a debug build stops, a release build goes round to the beginning  *)
(* (MSVC's list is circular).                                              *)
(***************************************************************************)
EXTENDS Integers, Sequences, SequencesExt, FiniteSets

CONSTANTS NumPages,   \* virtual pages
          NumFrames,  \* physical pages mem::init reserves
          MinSize,    \* the smallest region the guest maps, in pages (0: an empty heap)
          MaxCalls    \* bound on the number of addMapping calls after the first

ASSUME MapperAssumption ==
  /\ NumPages \in Nat \ {0} /\ NumFrames \in Nat /\ MaxCalls \in Nat
  /\ MinSize \in 0 .. 1

Pages == 0 .. NumPages - 1
Frames == 1 .. NumFrames
PAGE_SIZE == 2
NULL == 0     \* no frame
NONE == 0     \* Permission::NONE; call 0 has no other
RESERVED == -1  \* what findMapping reports for an address without a mapping

VARIABLES
  gMappings,      \* the list of mappings
  iter,           \* addMapping's iterator: a position of the list, or one past its end
  calls,          \* number of addMapping calls made, the one under way included
  frame,          \* frame[p]: gMainPageTable's pointer of page p
  perm,           \* perm[p]: its permission
  gFreePageList,  \* the free frames, next one first
  locked,         \* gPageAllocatorLock is held
  region,         \* the call under way: its first page, its pages, and how many are done
  state,          \* the calling thread: between calls, in one, stopped by a debug build, hung
  owner           \* history: owner[p] is the last call that mapped page p

listVars == <<gMappings, iter, owner>>
pageVars == <<frame, perm, gFreePageList, locked>>
vars == <<listVars, calls, pageVars, region, state>>

Mappings == [base : Nat, size : Nat, call : 0 .. MaxCalls]

TypeOK ==
  /\ gMappings \in Seq(Mappings)
  /\ iter \in 1 .. Len(gMappings) + 1
  /\ calls \in 0 .. MaxCalls
  /\ frame \in [Pages -> Frames \cup {NULL}]
  /\ perm \in [Pages -> 0 .. MaxCalls]
  /\ gFreePageList \in Seq(Frames)
  /\ locked \in BOOLEAN
  /\ region \in [first : Pages, size : 0 .. NumPages, done : 0 .. NumPages]
  /\ state \in {"running", "cutting", "allocating", "protecting", "stopped", "hung"}
  /\ owner \in [Pages -> 0 .. MaxCalls]

NoRegion == [first |-> 0, size |-> 0, done |-> 0]

\* mem::init has linked all frames, launchGameCart has made the first call.
Init ==
  /\ gMappings = << [base |-> 0, size |-> NumPages * PAGE_SIZE, call |-> 0] >>
  /\ iter = 1
  /\ calls = 0
  /\ frame = [p \in Pages |-> NULL]
  /\ perm = [p \in Pages |-> NONE]
  /\ gFreePageList = [i \in 1 .. NumFrames |-> i]
  /\ locked = FALSE
  /\ region = NoRegion
  /\ state = "running"
  /\ owner = [p \in Pages |-> 0]

----------------------------------------------------------------------------
(* The list.                                                               *)

MapEnd(m) == m.base + m.size - 1
Holds(m, addr) == m.base <= addr /\ addr < m.base + m.size

\* A mapping cut down to what lies before or after the new one. (Mutants: the
\* operands swapped; the base not moved.)
MutantBefore(m, base) == [m EXCEPT !.size = m.base - base]
Before(m, base) == [m EXCEPT !.size = base - m.base]
MutantAfter(m, end) == [m EXCEPT !.size = MapEnd(m) - end]
After(m, end) == [m EXCEPT !.base = end + 1, !.size = MapEnd(m) - end]

\* std::list::sort by base, which is stable: where the element at i goes.
Rank(list, i) ==
  Cardinality({j \in DOMAIN list :
                 list[j].base < list[i].base \/ (list[j].base = list[i].base /\ j <= i)})
Sorted(list) ==
  [k \in DOMAIN list |-> list[CHOOSE i \in DOMAIN list : Rank(list, i) = k]]

\* push_front of the new mapping, then the sort. (Mutant: push_back.)
MutantInserted(list, new) == Sorted(Append(list, new))
Inserted(list, new) == Sorted(<<new>> \o list)

\* findMapping: the call of the first mapping that contains addr.
FindMapping(addr) ==
  LET hits == {i \in DOMAIN gMappings : Holds(gMappings[i], addr)}
  IN  IF hits # {} THEN gMappings[Min(hits)].call ELSE RESERVED

----------------------------------------------------------------------------
(* addMapping(base, size, ...). The list changes first, then the pages,    *)
(* one after the other: the graphics thread reads the page table at the    *)
(* same time.                                                              *)

RegionPages == region.first .. region.first + region.size - 1
newBase == region.first * PAGE_SIZE
newEnd == (region.first + region.size) * PAGE_SIZE - 1

\* A call checks nothing: its region may reach beyond the last page.
AddMapping(p, n) ==
  /\ state = "running" /\ calls < MaxCalls
  /\ calls' = calls + 1
  /\ region' = [first |-> p, size |-> n, done |-> 0]
  /\ iter' = 1
  /\ state' = "cutting"
  /\ UNCHANGED <<gMappings, owner, pageVars>>

\* The cases of the loop, of a mapping m that does not end before the new one.
EndsInside(m) == MapEnd(m) > newBase /\ MapEnd(m) <= newEnd /\ m.base < newBase
Covers(m) == MapEnd(m) >= newEnd /\ m.base <= newBase
Inside(m) == MapEnd(m) <= newEnd /\ m.base >= newBase
StartsInside(m) == m.base >= newBase /\ m.base < newEnd /\ MapEnd(m) > newEnd

\* continue, or none of the cases
PassBy(m) ==
  /\ MapEnd(m) < newBase \/ ~(EndsInside(m) \/ Covers(m) \/ Inside(m) \/ StartsInside(m))
  /\ iter' = iter + 1
  /\ UNCHANGED <<gMappings, state>>

CutEnd(m) ==
  /\ MapEnd(m) >= newBase
  /\ EndsInside(m) \/ (Covers(m) /\ m.base # newBase /\ MapEnd(m) = newEnd)
  /\ gMappings' = [gMappings EXCEPT ![iter] = Before(m, newBase)]
  /\ iter' = iter + 1
  /\ UNCHANGED state

CutStart(m) ==
  /\ MapEnd(m) >= newBase
  /\ StartsInside(m) \/ (Covers(m) /\ m.base = newBase /\ MapEnd(m) # newEnd)
  /\ gMappings' = [gMappings EXCEPT ![iter] = After(m, newEnd)]
  /\ iter' = iter + 1
  /\ UNCHANGED state

\* The piece behind the new mapping goes to the front of the list.
Split(m) ==
  /\ MapEnd(m) >= newBase
  /\ Covers(m) /\ m.base # newBase /\ MapEnd(m) # newEnd
  /\ gMappings' = <<After(m, newEnd)>> \o [gMappings EXCEPT ![iter] = Before(m, newBase)]
  /\ iter' = iter + 2
  /\ UNCHANGED state

\* erase returns the next mapping and the loop increments past that one.
Erase(m) ==
  /\ MapEnd(m) >= newBase /\ Inside(m)
  /\ gMappings' = RemoveAt(gMappings, iter)
  /\ \/ iter < Len(gMappings) /\ iter' = iter + 1 /\ UNCHANGED state
     \/ iter = Len(gMappings) /\ iter' = 1 /\ state' \in {"cutting", "stopped"}

CutMapping ==
  /\ state = "cutting" /\ iter <= Len(gMappings)
  /\ LET m == gMappings[iter]
     IN  PassBy(m) \/ CutEnd(m) \/ CutStart(m) \/ Split(m) \/ Erase(m)
  /\ UNCHANGED <<calls, owner, pageVars, region>>

\* Behind the loop.
InsertMapping ==
  /\ state = "cutting" /\ iter > Len(gMappings)
  /\ gMappings' = Inserted(gMappings, [base |-> newBase, size |-> region.size * PAGE_SIZE,
                                       call |-> calls])
  /\ owner' = [q \in Pages |-> IF q \in RegionPages THEN calls ELSE owner[q]]
  /\ iter' = 1
  /\ state' = "allocating"
  /\ UNCHANGED <<calls, pageVars, region>>

\* allocatePage with gPageAllocatorLock free: the page has a frame; there is no
\* free frame, and the call returns false with the lock held; the page gets one.
HasFrame(p) ==
  /\ ~locked /\ frame[p] # NULL
  /\ region' = [region EXCEPT !.done = @ + 1]
  /\ UNCHANGED <<pageVars, state>>

NoFreePage(p) ==
  /\ ~locked /\ frame[p] = NULL /\ gFreePageList = << >>
  /\ locked' = TRUE
  /\ state' = "protecting"
  /\ UNCHANGED <<frame, perm, gFreePageList, region>>

\* (Mutant: the frame stays in the free list.)
MutantSharesFrame(p) ==
  /\ ~locked /\ frame[p] = NULL /\ gFreePageList # << >>
  /\ frame' = [frame EXCEPT ![p] = Head(gFreePageList)]
  /\ region' = [region EXCEPT !.done = @ + 1]
  /\ UNCHANGED <<perm, gFreePageList, locked, state>>

TakeFrame(p) ==
  /\ ~locked /\ frame[p] = NULL /\ gFreePageList # << >>
  /\ frame' = [frame EXCEPT ![p] = Head(gFreePageList)]
  /\ gFreePageList' = Tail(gFreePageList)
  /\ region' = [region EXCEPT !.done = @ + 1]
  /\ UNCHANGED <<perm, locked, state>>

\* The lock was left held: the caller waits for it for ever.
WaitForLock ==
  /\ locked
  /\ state' = "hung"
  /\ UNCHANGED <<pageVars, region>>

\* The page is not in the page table: an error before the lock is taken.
InvalidPage ==
  /\ state' = "protecting"
  /\ UNCHANGED <<pageVars, region>>

AllocatePage(p) ==
  \/ p \notin Pages /\ InvalidPage
  \/ p \in Pages /\ (HasFrame(p) \/ NoFreePage(p) \/ TakeFrame(p) \/ WaitForLock)

\* allocateRegion: one page after the other, until one fails.
AllocateRegion ==
  /\ state = "allocating" /\ region.done < region.size
  /\ AllocatePage(region.first + region.done)
  /\ UNCHANGED <<listVars, calls>>

\* protectRegion, whether all pages could be allocated or not: protectPage skips
\* a page that has no frame or is not in the page table. (Mutant: only up to the
\* page that failed.)
MutantProtected ==
  [q \in Pages |-> IF q \in region.first .. region.first + region.done - 1 /\ frame[q] # NULL
                   THEN calls ELSE perm[q]]
Protected == [q \in Pages |-> IF q \in RegionPages /\ frame[q] # NULL THEN calls ELSE perm[q]]

ProtectRegion ==
  /\ state = "protecting" \/ (state = "allocating" /\ region.done = region.size)
  /\ perm' = Protected
  /\ region' = NoRegion
  /\ state' = "running"
  /\ UNCHANGED <<listVars, calls, frame, gFreePageList, locked>>

Next ==
  \/ \E p \in Pages, n \in MinSize .. NumPages : (n = 0 => p > 0) /\ AddMapping(p, n)
  \/ CutMapping
  \/ InsertMapping
  \/ AllocateRegion
  \/ ProtectRegion

Spec == Init /\ [][Next]_vars

----------------------------------------------------------------------------
(* Properties.                                                             *)

\* "we know the space has no mapping" (memoryMapper.cpp:123): the piece that
\* is inserted behind a new mapping overlaps no other, because no two
\* mappings ever overlap.
MappingsAreDisjoint ==
  \A i, j \in DOMAIN gMappings : i < j =>
    \/ gMappings[i].base + gMappings[i].size <= gMappings[j].base
    \/ gMappings[j].base + gMappings[j].size <= gMappings[i].base

\* What a query of page p reports is its latest mapping.
FindsLatest(p) == FindMapping(p * PAGE_SIZE) = owner[p]

\* svcQueryMemory reports a new mapping for all of its addresses, although the
\* loop skips the mapping behind one it erases, so that older mappings may
\* overlap the new one (addMapping with findMapping).
NewMappingIsFound ==
  [][\A p \in Pages : owner'[p] # owner[p] => FindsLatest(p)']_vars

\* The only call with a mapping of page p is the latest one.
Unambiguous(p) ==
  {m.call : m \in {n \in Range(gMappings) : Holds(n, p * PAGE_SIZE)}} = {owner[p]}

\* A call leaves the other pages alone: the cases of the loop cut nothing but
\* the new interval out of the old mappings, and the sort loses none, so that
\* a page outside of it that only its latest call maps stays one.
CallKeepsOtherMappings ==
  [][\A p \in Pages : Unambiguous(p) /\ p \notin RegionPages' => Unambiguous(p)']_vars

\* The page table gives an allocated page the permissions of its latest
\* mapping, which is what svcQueryMemory should report, and a page without a
\* frame has none.
PermissionsFollow ==
  state = "running" =>
    \A p \in Pages : IF frame[p] = NULL THEN perm[p] = NONE
                     ELSE perm[p] = owner[p]

\* A frame belongs to one page or to the free list, never to two owners, and
\* none is lost.
FramesAreOwnedOnce ==
  /\ \A p, q \in Pages : frame[p] = frame[q] /\ frame[p] # NULL => p = q
  /\ \A p \in Pages : ~Contains(gFreePageList, frame[p])
  /\ \A f \in Frames : Contains(gFreePageList, f) \/ \E p \in Pages : frame[p] = f

=============================================================================
