---------------------------- MODULE HandleManager ----------------------------
(***************************************************************************)
(* The kernel's handle table (hle/kernel/handleManager.cpp): a vector of   *)
(* entries, and a map from the entries' compressed pointers to the         *)
(* objects.  Only core 0 runs guest code, so no two operations overlap.    *)
(* An object is put in the table once, when it is made, so the map holds   *)
(* the object itself.                                                      *)
(***************************************************************************)
EXTENDS Naturals, SequencesExt

CONSTANTS IdSpace,      \* handle ids are cut to uint16_t: 2^16 in the code
          MaxHandles    \* bound on the number of handles made

ASSUME HandleAssumption == IdSpace \in Nat \ {0} /\ MaxHandles \in Nat

VARIABLES gHandleTable,             \* vector of KHandleEntry
          gCompressedPointerMap,    \* compressed pointer -> object
          gHandleCounter,           \* the next handle, a uint32_t
          gCompressedpointerCounter

handleVars == <<gHandleTable, gCompressedPointerMap, gHandleCounter,
                gCompressedpointerCounter>>

handleId(handle) == handle % IdSpace

HandleInit ==
    /\ gHandleTable = << >>
    /\ gCompressedPointerMap = [pointer \in {} |-> 0]
    /\ gHandleCounter = 1
    /\ gCompressedpointerCounter = 0

NoObject == [type |-> "NO_TYPE", of |-> "none", isDomain |-> FALSE]

\* gCompressedPointerMap[pointer] = object
WithPointer(pointer, object) ==
    [p \in DOMAIN gCompressedPointerMap \cup {pointer} |->
        IF p = pointer THEN object ELSE gCompressedPointerMap[p]]

\* The counter is advanced before the entry takes its id.
MutantCreateHandle(object) ==
    /\ gHandleCounter <= MaxHandles
    /\ gHandleTable' =
         Append(gHandleTable, [handleId |-> handleId(gHandleCounter + 1),
                               objectCompressedPointer |-> gCompressedpointerCounter,
                               objectType |-> object.type])
    /\ gCompressedPointerMap' = WithPointer(gCompressedpointerCounter, object)
    /\ gHandleCounter' = gHandleCounter + 1
    /\ gCompressedpointerCounter' = gCompressedpointerCounter + 1

\* The caller gets gHandleCounter, the counter before the step.
createHandle(object) ==
    /\ gHandleCounter <= MaxHandles
    /\ gHandleTable' =
         Append(gHandleTable, [handleId |-> handleId(gHandleCounter),
                               objectCompressedPointer |-> gCompressedpointerCounter,
                               objectType |-> object.type])
    /\ gCompressedPointerMap' = WithPointer(gCompressedpointerCounter, object)
    /\ gHandleCounter' = gHandleCounter + 1
    /\ gCompressedpointerCounter' = gCompressedpointerCounter + 1

EntriesOf(handle) == {k \in DOMAIN gHandleTable : gHandleTable[k].handleId = handleId(handle)}

\* The first entry with the id.
EntryOf(handle) == CHOOSE k \in EntriesOf(handle) : \A j \in EntriesOf(handle) : k <= j

PointerOf(handle) == gHandleTable[EntryOf(handle)].objectCompressedPointer

lookupObject(handle) ==
    IF EntriesOf(handle) = {} THEN NoObject ELSE gCompressedPointerMap[PointerOf(handle)]

\* The last entry with the id is closed, not the first.
MutantCloseHandle(handle) ==
    LET last == CHOOSE k \in EntriesOf(handle) : \A j \in EntriesOf(handle) : k >= j
    IN  /\ IF EntriesOf(handle) = {}
           THEN UNCHANGED <<gHandleTable, gCompressedPointerMap>>
           ELSE /\ gCompressedPointerMap' =
                     [p \in DOMAIN gCompressedPointerMap
                              \ {gHandleTable[last].objectCompressedPointer} |->
                         gCompressedPointerMap[p]]
                /\ gHandleTable' = RemoveAt(gHandleTable, last)
        /\ UNCHANGED <<gHandleCounter, gCompressedpointerCounter>>

closeHandle(handle) ==
    /\ IF EntriesOf(handle) = {}
       THEN UNCHANGED <<gHandleTable, gCompressedPointerMap>>
       ELSE /\ gCompressedPointerMap' =
                 [p \in DOMAIN gCompressedPointerMap \ {PointerOf(handle)} |->
                     gCompressedPointerMap[p]]
            /\ gHandleTable' = RemoveAt(gHandleTable, EntryOf(handle))
    /\ UNCHANGED <<gHandleCounter, gCompressedpointerCounter>>

\* The object itself changes; every entry that names it sees the change.
SetIsDomain(handle) ==
    /\ gCompressedPointerMap' =
         [gCompressedPointerMap EXCEPT ![PointerOf(handle)].isDomain = TRUE]
    /\ UNCHANGED <<gHandleTable, gHandleCounter, gCompressedpointerCounter>>

----------------------------------------------------------------------------
(* The table as the set of the handles that are open: the compressed       *)
(* pointers number them in the order in which they were opened.            *)

OpenHandle(entry) ==
    LET object == gCompressedPointerMap[entry.objectCompressedPointer]
    IN  [serial |-> entry.objectCompressedPointer, id |-> entry.handleId,
         type |-> object.type, of |-> object.of]

OpenHandles == {OpenHandle(gHandleTable[k]) : k \in DOMAIN gHandleTable}
=============================================================================
