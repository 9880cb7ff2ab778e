------------------------------ MODULE IpcProofs ------------------------------
(***************************************************************************)
(* The handle table under every game, for any number of ids and handles.   *)
(* The vector of entries and the map of compressed pointers implement      *)
(* HandleTable because the entries are in the order of their pointers      *)
(* (Ordered), and a pointer is never used twice (Counters).  What the game *)
(* was told its handles stand for follows from the entries alone (Meant);  *)
(* with the layout of messages, so does that its requests arrive.          *)
(***************************************************************************)
EXTENDS MessageProofs

KTypes == {"PROCESS", "THREAD", "TRANSFER_MEM", "INTERFACE", "GPU_DEVICE"}
IsObject(o) ==
    /\ DOMAIN o = {"type", "of", "isDomain"} /\ o.type \in KTypes /\ o.isDomain \in BOOLEAN
    /\ o.type = "INTERFACE" => o.of \in DOMAIN Interfaces
EntryType == [handleId : 0 .. IdSpace - 1, objectCompressedPointer : Nat, objectType : KTypes]

Size == Len(gHandleTable)
Pointer(k) == gHandleTable[k].objectCompressedPointer

TableType ==
    /\ gHandleTable \in Seq(EntryType)
    /\ gCompressedPointerMap = [p \in DOMAIN gCompressedPointerMap |-> gCompressedPointerMap[p]]
    /\ \A p \in DOMAIN gCompressedPointerMap : IsObject(gCompressedPointerMap[p])

\* The two counters run in step, and the pointers in use are below the counter.
Counters ==
    /\ gCompressedpointerCounter \in Nat
    /\ gHandleCounter = gCompressedpointerCounter + 1
    /\ DOMAIN gCompressedPointerMap \subseteq 0 .. gCompressedpointerCounter - 1

\* The entries are in the order in which they were made.
Ordered ==
    /\ \A k \in 1 .. Size : Pointer(k) \in DOMAIN gCompressedPointerMap
    /\ \A j, k \in 1 .. Size : j < k => Pointer(j) < Pointer(k)

TInv == TableType /\ Counters /\ Ordered

----------------------------------------------------------------------------
(* What the game's calls do to the table.                                  *)

HandleStep ==
    \/ \E o : IsObject(o) /\ createHandle(o)
    \/ \E handle : closeHandle(handle)
    \/ \E handle : EntriesOf(handle) # {} /\ SetIsDomain(handle)
    \/ UNCHANGED handleVars

\* A call that makes one of the objects S, for the domain v or for none.
Makes(r, a, S, v) == [Says(r, a) EXCEPT !.makes = S, !.via = v]
MakesOne(r, a, S) == [Says(r, a) EXCEPT !.makes = S]

\* The fields of such a call.
LEMMA MakesFields ==
  \A r, a, objects, domain :
    LET m == Makes(r, a, objects, domain)
        o == MakesOne(r, a, objects)
    IN  /\ m.makes = objects /\ m.via = domain /\ m.converts = FALSE
        /\ m.reached = r /\ m.answer = a
        /\ o.makes = objects /\ o.via = 0 /\ o.converts = FALSE
        /\ o.reached = r /\ o.answer = a
BY DEF Says, Makes, MakesOne

\* The fields of a call that makes nothing.
LEMMA SaysFields ==
  /\ \A r, a : /\ Says(r, a).makes = {} /\ Says(r, a).via = 0 /\ Says(r, a).converts = FALSE
               /\ Says(r, a).reached = r /\ Says(r, a).answer = a
  /\ Unanswered.makes = {} /\ Unanswered.via = 0 /\ Unanswered.converts = FALSE
  /\ Unanswered.answers = FALSE
  /\ Undefined.makes = {} /\ Undefined.via = 0 /\ Undefined.converts = FALSE
  /\ Undefined.answers = FALSE
BY DEF Unanswered, Undefined, Says

\* New objects, none a domain.
LEMMA NewObjects ==
  /\ \A type \in KTypes \ {"INTERFACE"} : \A of : IsObject(Object(type, of)) /\ ~Object(type, of).isDomain
  /\ \A of \in DOMAIN Interfaces : /\ IsObject(Session(of)) /\ ~Session(of).isDomain
                                    /\ Session(of).type = "INTERFACE"
BY DEF IsObject, Object, Session, KTypes

\* An answer of words.
LEMMA Answered ==
  ASSUME NEW error \in Nat, NEW data \in Seq(Nat), NEW copied \in Seq(Nat), NEW moved \in Seq(Nat)
  PROVE  IsAnswer(Answer(error, data, copied, moved))
<1>1. PICK a : a = Answer(error, data, copied, moved)
  BY DEF Answer
<1>2. a.error = error /\ a.data = data /\ a.copied = copied /\ a.moved = moved
  BY <1>1 DEF Answer
<1> QED BY <1>1, <1>2 DEF IsAnswer

\* What the interface i does on its own or for the domain v: it makes objects, for the domain
\* or for none, and what it answers are words.
Good(does, i, v) ==
    /\ \A o \in does.makes : IsObject(o) /\ ~o.isDomain /\ (o.type = "INTERFACE" \/ does.via = 0)
    /\ does.via \in {0, v}
    /\ does.answers => IsAnswer(does.answer) /\ does.reached = i

\* A call that makes objects is good, and so is one that answers or fails.
LEMMA GoodCalls ==
  ASSUME NEW i, NEW v, NEW a, IsAnswer(a)
  PROVE  /\ Good(Says(i, a), i, v) /\ Good(Unanswered, i, v) /\ Good(Undefined, i, v)
         /\ \A objects, domain :
              (\A o \in objects : IsObject(o) /\ ~o.isDomain) =>
                 /\ Good(MakesOne(i, a, objects), i, v)
                 /\ domain \in {0, v} /\ (\A o \in objects : o.type = "INTERFACE") =>
                      Good(Makes(i, a, objects, domain), i, v)
<1>1. Good(Says(i, a), i, v) /\ Good(Unanswered, i, v) /\ Good(Undefined, i, v)
  BY SaysFields DEF Good
<1>2. ASSUME NEW objects, NEW domain, \A o \in objects : IsObject(o) /\ ~o.isDomain
      PROVE  /\ Good(MakesOne(i, a, objects), i, v)
             /\ domain \in {0, v} /\ (\A o \in objects : o.type = "INTERFACE") =>
                  Good(Makes(i, a, objects, domain), i, v)
  BY <1>2, MakesFields DEF Good
<1> QED BY <1>1, <1>2

\* What a function answers with are words, and what it hands out is an object, for a domain
\* only if the request came by one.
LEMMA FunctionMakes ==
  ASSUME NEW interface \in DOMAIN Interfaces, NEW cmdId, NEW param, NEW via, gHandleCounter \in Nat
  PROVE  /\ Good(handleSyncRequest(interface, cmdId, param, via), interface, via)
         /\ ~handleSyncRequest(interface, cmdId, param, via).converts
<1> DEFINE func == FindFunction(interface, cmdId)
           G(does) == Good(does, interface, via) /\ ~does.converts
<1>1. << >> \in Seq(Nat) /\ 0 \in Nat /\ 1 \in Nat
  OBVIOUS
<1>2. \A a : IsAnswer(a) => G(Says(interface, a))
  BY GoodCalls, SaysFields
<1>3. G(Unanswered) /\ G(Undefined)
  BY <1>1, Answered, GoodCalls, SaysFields
<1>4. ASSUME NEW a, NEW objects, NEW domain, IsAnswer(a), domain \in {0, via},
             \A o \in objects : IsObject(o) /\ ~o.isDomain
      PROVE  /\ G(MakesOne(interface, a, objects))
             /\ (\A o \in objects : o.type = "INTERFACE") => G(Makes(interface, a, objects, domain))
  BY <1>4, GoodCalls, MakesFields
<1>5. ASSUME NEW name PROVE G(GetService(interface, name, via))
  <2>1. PICK n \in Nat : n = gHandleCounter
    OBVIOUS
  <2>2. <<n>> \in Seq(Nat)
    OBVIOUS
  <2>3. IsAnswer(Answer(0, << >>, << >>, <<n>>)) /\ IsAnswer(Answer(1, << >>, << >>, << >>))
    BY <1>1, <2>2, Answered
  <2>4. CASE name \in DOMAIN gRegisteredServices
    <3>1. PICK x \in DOMAIN Interfaces : x = gRegisteredServices[name]
      BY <2>4, KnownServices
    <3>2. GetService(interface, name, via)
            = Makes(interface, Answer(0, << >>, << >>, <<n>>), {Session(x)}, via)
      BY <2>1, <2>4, <3>1 DEF GetService, Makes
    <3>3. \A o \in {Session(x)} : IsObject(o) /\ ~o.isDomain /\ o.type = "INTERFACE"
      BY NewObjects
    <3> QED BY <1>4, <2>3, <3>2, <3>3
  <2>5. CASE name \notin DOMAIN gRegisteredServices
    BY <1>2, <2>3, <2>5 DEF GetService
  <2> QED BY <2>4, <2>5
<1>6. ASSUME NEW device PROVE G(OpenDevice(interface, device))
  <2>1. PICK n \in Nat : n = gHandleCounter
    OBVIOUS
  <2>2. <<n, 0>> \in Seq(Nat) /\ <<0, 0>> \in Seq(Nat)
    OBVIOUS
  <2>3. IsAnswer(Answer(0, <<n, 0>>, << >>, << >>)) /\ IsAnswer(Answer(0, <<0, 0>>, << >>, << >>))
    BY <1>1, <2>2, Answered
  <2>4. CASE device \in DOMAIN DevicePaths
    <3>1. OpenDevice(interface, device)
            = MakesOne(interface, Answer(0, <<n, 0>>, << >>, << >>), {Object("GPU_DEVICE", device)})
      BY <2>1, <2>4 DEF OpenDevice, MakesOne
    <3>2. \A o \in {Object("GPU_DEVICE", device)} : IsObject(o) /\ ~o.isDomain
      BY NewObjects DEF KTypes
    <3> QED BY <1>4, <2>3, <3>1, <3>2
  <2>5. CASE device \notin DOMAIN DevicePaths
    BY <1>2, <2>3, <2>5 DEF OpenDevice
  <2> QED BY <2>4, <2>5
<1>7. ASSUME NEW fd, NEW id PROVE G(SendIoctl(interface, fd, id))
  <2>1. PICK e \in Nat : e = handleIoctl(lookupObject(fd).of, id)
    BY DEF handleIoctl, ERR_NOT_IMPLEMENTED
  <2>2. <<e>> \in Seq(Nat)
    OBVIOUS
  <2>3. IsAnswer(Answer(0, <<e>>, << >>, << >>))
    BY <1>1, <2>2, Answered
  <2> QED BY <1>2, <1>3, <2>1, <2>3 DEF SendIoctl
<1>8. ASSUME IsFunc(func) PROVE G(RunFunction(interface, func, via))
  <2>1. PICK S : S = {Session(func.opens[k]) : k \in DOMAIN func.opens}
    OBVIOUS
  <2>2. PICK v : v = IF func.does = "intoBuffer" THEN 0 ELSE via
    OBVIOUS
  <2>3. PICK data : data = DataWords(func.data)
    OBVIOUS
  <2>4. PICK copied : copied = [k \in DOMAIN func.copied |-> FakeHandle]
    OBVIOUS
  <2>5. PICK moved : moved = IF func.does = "intoBuffer" THEN << >>
                             ELSE [k \in DOMAIN func.opens |-> gHandleCounter]
                                    \o [k \in DOMAIN func.moved |-> FakeHandle]
    OBVIOUS
  <2>6. RunFunction(interface, func, via) = Makes(interface, Answer(func.error, data, copied, moved), S, v)
    BY <2>1, <2>2, <2>3, <2>4, <2>5 DEF RunFunction, Makes
  <2>7. /\ func.error \in Nat /\ func.data \in Nat /\ func.opens \in Seq(DOMAIN Interfaces)
        /\ func.copied \in Seq(Fakes) /\ func.moved \in Seq(Fakes)
    BY <1>8 DEF IsFunc
  <2> HIDE DEF func
  <2>8. data \in Seq(Nat)
    <3>1. PICK m \in Nat : m = (func.data + 3) \div 4
      BY <2>7
    <3>2. \A k \in 1 .. m : 50 + k \in Nat
      OBVIOUS
    <3>3. data = [k \in 1 .. m |-> 50 + k]
      BY <2>3, <3>1 DEF DataWords
    <3> QED BY <3>2, <3>3
  <2>9. \A set : \A seq \in Seq(set) : \A n \in Nat : [k \in DOMAIN seq |-> n] \in Seq(Nat)
    OBVIOUS
  <2>10. copied \in Seq(Nat)
    BY <2>4, <2>7, <2>9, IpcAssumption
  <2>11. moved \in Seq(Nat)
    <3>1. [k \in DOMAIN func.opens |-> gHandleCounter] \in Seq(Nat)
      BY <2>7, <2>9
    <3>2. [k \in DOMAIN func.moved |-> FakeHandle] \in Seq(Nat)
      BY <2>7, <2>9, IpcAssumption
    <3>3. [k \in DOMAIN func.opens |-> gHandleCounter] \o [k \in DOMAIN func.moved |-> FakeHandle] \in Seq(Nat)
      BY <3>1, <3>2, Joined
    <3> QED BY <1>1, <2>5, <3>3
  <2>12. IsAnswer(Answer(func.error, data, copied, moved))
    BY <2>7, <2>8, <2>10, <2>11, Answered
  <2>13. \A o \in S : IsObject(o) /\ ~o.isDomain /\ o.type = "INTERFACE"
    <3>1. \A k \in DOMAIN func.opens : func.opens[k] \in DOMAIN Interfaces
      BY <2>7
    <3> QED BY <2>1, <3>1, NewObjects
  <2>14. v \in {0, via}
    BY <2>2
  <2> QED BY <1>4, <2>6, <2>12, <2>13, <2>14
<1>9. Knows(interface, cmdId) => IsFunc(func)
  BY FindsFunction
<1> HIDE DEF G
<1>10. G(handleSyncRequest(interface, cmdId, param, via))
  BY <1>3, <1>5, <1>6, <1>7, <1>8, <1>9 DEF handleSyncRequest
<1> QED BY <1>10 DEF G

\* What a request that reached a session does: the session, or the object of the domain that
\* it is, answers; it makes an object, for the domain, or turns the session into a domain.
Dispatched(does, handle, object, info) ==
    /\ \A o \in does.makes : IsObject(o) /\ ~o.isDomain /\ (o.type = "INTERFACE" \/ does.via = 0)
    /\ does.via = 0 \/ (info.domain /\ does.via = handle)
    /\ does.converts => does.makes = {} /\ ~info.domain
    /\ does.answers =>
         /\ handle \in Nat => IsAnswer(does.answer)
         /\ does.reached = IF info.domain THEN lookupObject(info.object).of ELSE object.of

\* That is what it does.
LEMMA DispatchMakes ==
  ASSUME NEW handle, NEW object, object.of \in DOMAIN Interfaces,
         NEW msg, NEW info, NEW param, gHandleCounter \in Nat,
         lookupObject(info.object).type = "INTERFACE" => lookupObject(info.object).of \in DOMAIN Interfaces
  PROVE  Dispatched(Dispatch(handle, object, msg, info, param), handle, object, info)
<1> DEFINE reached == IF info.domain THEN lookupObject(info.object).of ELSE object.of
           D(does) == Dispatched(does, handle, object, info)
<1> USE DEF Dispatched
<1>1. D(Unanswered) /\ D(Undefined)
  BY SaysFields
<1>2. ASSUME NEW i \in DOMAIN Interfaces, NEW v, i = reached, v = 0 \/ (info.domain /\ v = handle)
      PROVE  D(handleSyncRequest(i, info.cmdId, param, v))
  BY <1>2, FunctionMakes DEF Good
<1>3. \A a : (handle \in Nat => IsAnswer(a)) /\ ~info.domain => D(Says(object.of, a))
  BY SaysFields
<1>4. ASSUME ~info.domain PROVE D(ControlRequest(handle, object.of, info.cmdId))
  <2>1. << >> \in Seq(Nat) /\ 0 \in Nat /\ (handle \in Nat => <<handle>> \in Seq(Nat))
    OBVIOUS
  <2>2. DataWords(8) \in Seq(Nat)
    <3>1. PICK m \in Nat : m = (8 + 3) \div 4
      OBVIOUS
    <3>2. \A k \in 1 .. m : 50 + k \in Nat
      OBVIOUS
    <3>3. DataWords(8) = [k \in 1 .. m |-> 50 + k]
      BY <3>1 DEF DataWords
    <3> QED BY <3>2, <3>3
  <2>3. /\ handle \in Nat => /\ IsAnswer(Answer(0, <<handle>>, << >>, << >>))
                             /\ IsAnswer(Answer(0, << >>, << >>, <<handle>>))
        /\ IsAnswer(Answer(0, DataWords(8), << >>, << >>))
    BY <2>1, <2>2, Answered
  <2>4. PICK does : does = [Says(object.of, Answer(0, <<handle>>, << >>, << >>)) EXCEPT !.converts = TRUE]
    OBVIOUS
  <2>5. D(does)
    <3>1. /\ does.makes = {} /\ does.via = 0 /\ does.reached = object.of
          /\ does.answer = Answer(0, <<handle>>, << >>, << >>)
      BY <2>4 DEF Says
    <3> QED BY <1>4, <2>3, <3>1
  <2> HIDE DEF Dispatched
  <2> QED BY <1>1, <1>3, <1>4, <2>3, <2>4, <2>5 DEF ControlRequest
<1>5. IsAnswer(Answer(0, << >>, << >>, << >>))
  <2>1. << >> \in Seq(Nat) /\ 0 \in Nat
    OBVIOUS
  <2> QED BY <2>1, Answered
<1>6. CASE info.domain
  <2>1. lookupObject(info.object).type = "INTERFACE" =>
          D(handleSyncRequest(lookupObject(info.object).of, info.cmdId, param, handle))
    BY <1>2, <1>6
  <2> HIDE DEF Dispatched
  <2> QED BY <1>1, <1>6, <2>1 DEF Dispatch
<1>7. CASE ~info.domain
  <2>1. D(handleSyncRequest(object.of, info.cmdId, param, 0))
    BY <1>2, <1>7
  <2> HIDE DEF Dispatched
  <2> QED BY <1>1, <1>3, <1>4, <1>5, <1>7, <2>1 DEF Dispatch
<1> QED BY <1>6, <1>7

\* The first entry of an id that has one.
LEMMA FirstEntry ==
  ASSUME TInv, NEW handle, EntriesOf(handle) # {}
  PROVE  /\ EntryOf(handle) \in 1 .. Size
         /\ gHandleTable[EntryOf(handle)].handleId = handleId(handle)
         /\ \A j \in 1 .. Size : gHandleTable[j].handleId = handleId(handle) => EntryOf(handle) <= j
<1> DEFINE S == EntriesOf(handle)
<1>1. gHandleTable \in Seq(EntryType) /\ Size \in Nat /\ DOMAIN gHandleTable = 1 .. Size
  BY DEF TInv, TableType, Size
<1>2. S = {k \in 1 .. Size : gHandleTable[k].handleId = handleId(handle)}
  BY <1>1 DEF EntriesOf
<1>3. S \in SUBSET Nat
  BY <1>1, <1>2
<1>4. EntryOf(handle) = Min(S)
  BY DEF EntryOf, Min
<1> HIDE DEF S
<1>5. Min(S) \in S /\ \A y \in S : Min(S) <= y
  BY <1>3, MinIsLeast DEF S
<1> QED BY <1>2, <1>4, <1>5

\* What lookupObject finds is an object of the table, or nothing.
LEMMA Looked ==
  ASSUME TInv
  PROVE  /\ gHandleCounter \in Nat
         /\ \A handle : lookupObject(handle).type = "INTERFACE" =>
               /\ EntriesOf(handle) # {} /\ lookupObject(handle).of \in DOMAIN Interfaces
               /\ lookupObject(handle).isDomain \in BOOLEAN
<1>1. gHandleCounter \in Nat
  BY DEF TInv, Counters
<1>2. ASSUME NEW handle, lookupObject(handle).type = "INTERFACE"
      PROVE  EntriesOf(handle) # {} /\ IsObject(lookupObject(handle))
  <2>1. EntriesOf(handle) # {}
    BY <1>2 DEF lookupObject, NoObject
  <2>2. EntryOf(handle) \in 1 .. Size
    BY <2>1, FirstEntry
  <2>3. PointerOf(handle) \in DOMAIN gCompressedPointerMap
    BY <2>2 DEF TInv, Ordered, Pointer, PointerOf
  <2> QED BY <2>1, <2>3 DEF TInv, TableType, lookupObject
<1> QED BY <1>1, <1>2 DEF IsObject

\* Every step of the game is at most one operation of the handle table.
LEMMA NextHandles == ASSUME TInv, [Next]_vars PROVE HandleStep
<1>1. /\ IsObject(Object("PROCESS", "process")) /\ IsObject(Object("THREAD", "thread"))
      /\ IsObject(Object("TRANSFER_MEM", "transferMemory"))
  BY NewObjects DEF KTypes
<1>2. \A o, via : IsObject(o) /\ Make(o, via) => HandleStep
  BY DEF Make, HandleStep
<1>3. ASSUME NEW handle, NEW request, NEW interface, doIpcCall(handle, request, interface)
      PROVE  HandleStep
  <2>1. CASE UNCHANGED handleVars
    BY <2>1 DEF HandleStep
  <2>2. CASE /\ lookupObject(handle).type = "INTERFACE"
             /\ \E msg, parsed, info, does :
                  /\ does = Dispatch(handle, lookupObject(handle), msg, info, request.param)
                  /\ Reply(handle, request, interface, msg, parsed, info, does)
    <3>1. PICK msg, parsed, info, does :
            /\ does = Dispatch(handle, lookupObject(handle), msg, info, request.param)
            /\ Reply(handle, request, interface, msg, parsed, info, does)
      BY <2>2
    <3>2. \/ \E new \in does.makes : Make(new, does.via)
          \/ SetIsDomain(handle)
          \/ UNCHANGED handleVars
      BY <3>1 DEF Reply
    <3>3. \A o \in does.makes : IsObject(o)
      BY <2>2, <3>1, Looked, DispatchMakes DEF Dispatched
    <3>4. EntriesOf(handle) # {}
      BY <2>2, Looked
    <3> QED BY <1>2, <3>2, <3>3, <3>4 DEF HandleStep
  <2> QED BY <1>3, <2>1, <2>2 DEF doIpcCall
<1>4. CASE launchGameCart
  BY <1>1, <1>4 DEF launchGameCart, HandleStep
<1>5. CASE cpuEntry
  BY <1>1, <1>2, <1>5 DEF cpuEntry
<1>6. ASSUME NEW name \in DOMAIN gNamedPorts \cup {"unknown"}, svcConnectToPort(name) PROVE HandleStep
  <2>1. CASE name \in DOMAIN gNamedPorts /\ Make(Session(gNamedPorts[name]), 0)
    <3>1. IsObject(Session(gNamedPorts[name]))
      BY <2>1, KnownServices, NewObjects
    <3> QED BY <1>2, <2>1, <3>1
  <2>2. CASE UNCHANGED handleVars
    BY <2>2 DEF HandleStep
  <2> QED BY <1>6, <2>1, <2>2 DEF svcConnectToPort
<1>7. CASE svcSendSyncRequest
  BY <1>3, <1>7 DEF svcSendSyncRequest
<1>8. CASE ReadReply \/ CloseObject
  BY <1>8 DEF ReadReply, CloseObject, HandleStep
<1>9. CASE svcCloseHandle
  BY <1>9 DEF svcCloseHandle, HandleStep
<1>10. CASE svcCreateTransferMemory
  BY <1>1, <1>2, <1>10 DEF svcCreateTransferMemory
<1>11. CASE UNCHANGED vars
  BY <1>11 DEF vars, HandleStep
<1> QED BY <1>4, <1>5, <1>6, <1>7, <1>8, <1>9, <1>10, <1>11 DEF Next

----------------------------------------------------------------------------
(* The operations of the table.                                            *)

\* createHandle appends an entry with a fresh pointer and leaves the others alone.
LEMMA CreateFacts ==
  ASSUME TInv, NEW o, IsObject(o), createHandle(o)
  PROVE  /\ TInv' /\ Size' = Size + 1
         /\ gCompressedpointerCounter' = gCompressedpointerCounter + 1
         /\ \A k \in 1 .. Size :
              /\ gHandleTable'[k] = gHandleTable[k]
              /\ gCompressedPointerMap'[Pointer(k)] = gCompressedPointerMap[Pointer(k)]
         /\ gHandleTable'[Size + 1].handleId = handleId(gHandleCounter)
         /\ gHandleTable'[Size + 1].objectCompressedPointer = gCompressedpointerCounter
         /\ gCompressedPointerMap'[gCompressedpointerCounter] = o
<1> DEFINE n == Size
           c == gCompressedpointerCounter
           new == [handleId |-> handleId(gHandleCounter), objectCompressedPointer |-> c,
                   objectType |-> o.type]
<1>1. /\ gHandleTable \in Seq(EntryType) /\ n \in Nat /\ c \in Nat /\ gHandleCounter = c + 1
      /\ DOMAIN gCompressedPointerMap \subseteq 0 .. c - 1
  BY DEF TInv, TableType, Counters, Size
<1>2. handleId(gHandleCounter) \in 0 .. IdSpace - 1
  BY <1>1, HandleAssumption DEF handleId
<1>3. new \in EntryType /\ new.handleId = handleId(gHandleCounter) /\ new.objectCompressedPointer = c
  BY <1>1, <1>2 DEF EntryType, IsObject
<1>4. /\ gHandleTable' = Append(gHandleTable, new)
      /\ gCompressedPointerMap' = WithPointer(c, o)
      /\ gHandleCounter' = gHandleCounter + 1 /\ c' = c + 1
  BY DEF createHandle
<1> HIDE DEF new
<1>5. /\ gHandleTable' \in Seq(EntryType) /\ Len(gHandleTable') = n + 1
      /\ \A k \in 1 .. n : gHandleTable'[k] = gHandleTable[k]
      /\ gHandleTable'[n + 1] = new
  BY <1>1, <1>3, <1>4 DEF Size
<1>6. /\ DOMAIN gCompressedPointerMap' = DOMAIN gCompressedPointerMap \cup {c}
      /\ \A p \in DOMAIN gCompressedPointerMap : gCompressedPointerMap'[p] = gCompressedPointerMap[p]
      /\ gCompressedPointerMap'[c] = o
      /\ gCompressedPointerMap' = [p \in DOMAIN gCompressedPointerMap' |-> gCompressedPointerMap'[p]]
  <2>1. c \notin DOMAIN gCompressedPointerMap
    BY <1>1
  <2> QED BY <1>4, <2>1 DEF WithPointer
<1>7. \A k \in 1 .. n : /\ Pointer(k)' = Pointer(k) /\ Pointer(k) \in DOMAIN gCompressedPointerMap
                        /\ Pointer(k) \in Nat /\ Pointer(k) < c
  BY <1>1, <1>5 DEF TInv, Ordered, Pointer
<1>8. gHandleTable'[n + 1].objectCompressedPointer = c /\ Size' = n + 1
  BY <1>3, <1>5 DEF Pointer, Size
<1>9. TableType'
  BY <1>5, <1>6 DEF TInv, TableType
<1>10. Counters'
  BY <1>1, <1>4, <1>6 DEF Counters
<1>11. Ordered'
  <2>1. \A k \in 1 .. n + 1 : k \in 1 .. n \/ k = n + 1
    BY <1>1
  <2>2. \A k \in 1 .. n + 1 : Pointer(k)' \in DOMAIN gCompressedPointerMap'
    BY <1>6, <1>7, <1>8, <2>1 DEF Pointer
  <2>3. ASSUME NEW j \in 1 .. n + 1, NEW k \in 1 .. n + 1, j < k PROVE Pointer(j)' < Pointer(k)'
    <3>1. j \in 1 .. n
      BY <1>1, <2>3
    <3>2. CASE k \in 1 .. n
      BY <1>7, <2>3, <3>1, <3>2 DEF TInv, Ordered
    <3>3. CASE k = n + 1
      BY <1>7, <1>8, <3>1, <3>3 DEF Pointer
    <3> QED BY <2>1, <3>2, <3>3
  <2> QED BY <1>8, <2>2, <2>3 DEF Ordered
<1> QED BY <1>3, <1>4, <1>5, <1>6, <1>7, <1>8, <1>9, <1>10, <1>11 DEF TInv

\* closeHandle takes the first entry of the id and its object away and leaves the others.
LEMMA CloseFacts ==
  ASSUME TInv, NEW handle, EntriesOf(handle) # {}, closeHandle(handle)
  PROVE  LET k == EntryOf(handle)
         IN  /\ TInv' /\ Size' = Size - 1 /\ k \in 1 .. Size
             /\ gCompressedpointerCounter' = gCompressedpointerCounter
             /\ \A j \in 1 .. Size - 1 :
                  gHandleTable'[j] = IF j < k THEN gHandleTable[j] ELSE gHandleTable[j + 1]
             /\ \A j \in 1 .. Size : j # k =>
                  gCompressedPointerMap'[Pointer(j)] = gCompressedPointerMap[Pointer(j)]
<1> DEFINE n == Size
           k == EntryOf(handle)
           p == Pointer(k)
<1>1. gHandleTable \in Seq(EntryType) /\ n \in Nat /\ k \in 1 .. n
  BY FirstEntry DEF TInv, TableType, Size
<1>2. /\ gCompressedPointerMap' = [q \in DOMAIN gCompressedPointerMap \ {p} |-> gCompressedPointerMap[q]]
      /\ gHandleTable' = RemoveAt(gHandleTable, k)
      /\ UNCHANGED <<gHandleCounter, gCompressedpointerCounter>>
  BY DEF closeHandle, PointerOf, Pointer
<1> HIDE DEF k, p
<1>3. /\ gHandleTable' \in Seq(EntryType) /\ Len(gHandleTable') = n - 1
      /\ \A j \in 1 .. n - 1 :
           gHandleTable'[j] = IF j < k THEN gHandleTable[j] ELSE gHandleTable[j + 1]
  <2> HIDE DEF TInv
  <2>1. k \in 1 .. Len(gHandleTable) /\ n = Len(gHandleTable)
    BY <1>1 DEF Size
  <2> QED BY <1>1, <1>2, <2>1, RemoveAtElements
<1> DEFINE From(j) == IF j < k THEN j ELSE j + 1
<1>4. \A j \in 1 .. n - 1 : From(j) \in 1 .. n /\ From(j) # k /\ Pointer(j)' = Pointer(From(j))
  BY <1>1, <1>3 DEF Pointer
<1>5. \A i, j \in 1 .. n - 1 : i < j => From(i) < From(j)
  BY <1>1
<1> HIDE DEF From
<1>6. \A j \in 1 .. n : Pointer(j) \in Nat /\ Pointer(j) \in DOMAIN gCompressedPointerMap
  <2>1. \A j \in 1 .. n : gHandleTable[j] \in EntryType
    BY <1>1 DEF Size
  <2> QED BY <2>1 DEF TInv, Ordered, Pointer, EntryType
<1>7. \A j \in 1 .. n : j # k => Pointer(j) # p
  <2>1. ASSUME NEW j \in 1 .. n, j # k PROVE Pointer(j) # Pointer(k)
    <3>1. j < k \/ k < j
      BY <1>1, <2>1
    <3>2. Pointer(j) < Pointer(k) \/ Pointer(k) < Pointer(j)
      BY <1>1, <3>1 DEF TInv, Ordered
    <3> QED BY <1>1, <1>6, <3>2
  <2> QED BY <2>1 DEF p
<1>8. Size' = n - 1
  BY <1>3 DEF Size
<1>9. TableType'
  BY <1>2, <1>3 DEF TInv, TableType
<1>10. Counters'
  BY <1>2 DEF TInv, Counters
<1>11. Ordered'
  <2>1. \A j \in 1 .. n - 1 : Pointer(j)' \in DOMAIN gCompressedPointerMap'
    BY <1>2, <1>4, <1>6, <1>7
  <2>2. \A i, j \in 1 .. n - 1 : i < j => Pointer(i)' < Pointer(j)'
    BY <1>4, <1>5 DEF TInv, Ordered
  <2> QED BY <1>8, <2>1, <2>2 DEF Ordered
<1>12. \A j \in 1 .. n : j # k => gCompressedPointerMap'[Pointer(j)] = gCompressedPointerMap[Pointer(j)]
  BY <1>2, <1>6, <1>7
<1> QED BY <1>1, <1>2, <1>3, <1>8, <1>9, <1>10, <1>11, <1>12 DEF TInv, k

\* Turning a session into a domain changes no other object, and of this one only that.
LEMMA DomainFacts ==
  ASSUME TInv, NEW handle, EntriesOf(handle) # {}, SetIsDomain(handle)
  PROVE  /\ TInv' /\ UNCHANGED <<gHandleTable, gHandleCounter, gCompressedpointerCounter>>
         /\ \A p \in DOMAIN gCompressedPointerMap :
              /\ gCompressedPointerMap'[p].type = gCompressedPointerMap[p].type
              /\ gCompressedPointerMap'[p].of = gCompressedPointerMap[p].of
              /\ gCompressedPointerMap[p].isDomain => gCompressedPointerMap'[p].isDomain
         /\ gCompressedPointerMap'[PointerOf(handle)].isDomain
<1> DEFINE q == PointerOf(handle)
           M == gCompressedPointerMap
<1>1. EntryOf(handle) \in 1 .. Size /\ q = Pointer(EntryOf(handle))
  BY FirstEntry DEF PointerOf, Pointer
<1>2. q \in DOMAIN M /\ IsObject(M[q])
  BY <1>1 DEF TInv, TableType, Ordered
<1>3. /\ M' = [M EXCEPT ![q] = [M[q] EXCEPT !.isDomain = TRUE]]
      /\ UNCHANGED <<gHandleTable, gHandleCounter, gCompressedpointerCounter>>
  BY DEF SetIsDomain
<1>4. LET r == [M[q] EXCEPT !.isDomain = TRUE]
      IN  IsObject(r) /\ r.type = M[q].type /\ r.of = M[q].of /\ r.isDomain = TRUE
  BY <1>2 DEF IsObject
<1> DEFINE r == [M[q] EXCEPT !.isDomain = TRUE]
<1>5. IsObject(r) /\ r.type = M[q].type /\ r.of = M[q].of /\ r.isDomain = TRUE
  BY <1>4
<1> HIDE DEF r, q
<1>6. /\ DOMAIN M' = DOMAIN M /\ \A p \in DOMAIN M : M'[p] = IF p = q THEN r ELSE M[p]
      /\ M' = [p \in DOMAIN M' |-> M'[p]]
  BY <1>3 DEF r
<1>7. TableType'
  BY <1>3, <1>5, <1>6 DEF TInv, TableType
<1>8. Counters' /\ Ordered'
  BY <1>3, <1>6 DEF TInv, Counters, Ordered, Size, Pointer
<1> QED BY <1>2, <1>3, <1>5, <1>6, <1>7, <1>8 DEF TInv, q

\* The table as the set of its entries with their objects, and the handle each stands for.
Ent(k) == [serial |-> Pointer(k), id |-> gHandleTable[k].handleId,
           object |-> gCompressedPointerMap[Pointer(k)]]
Ents == {Ent(k) : k \in 1 .. Size}
Shown(e) == [serial |-> e.serial, id |-> e.id, type |-> e.object.type, of |-> e.object.of]

\* The entries differ in their pointers, which are below the counter.
LEMMA EntsFacts ==
  ASSUME TInv
  PROVE  /\ Size \in Nat /\ OpenHandles = {Shown(e) : e \in Ents}
         /\ \A k \in 1 .. Size :
              /\ Ent(k).serial = Pointer(k) /\ Ent(k).id = gHandleTable[k].handleId
              /\ Ent(k).object = gCompressedPointerMap[Pointer(k)]
              /\ Pointer(k) \in DOMAIN gCompressedPointerMap
         /\ \A e \in Ents : /\ e.serial \in Nat /\ e.serial < gCompressedpointerCounter
                            /\ e.id \in 0 .. IdSpace - 1 /\ IsObject(e.object)
         /\ \A d, e \in Ents : d.serial = e.serial => d = e
<1>1. gHandleTable \in Seq(EntryType) /\ Size \in Nat /\ DOMAIN gHandleTable = 1 .. Size
  BY DEF TInv, TableType, Size
<1>2. \A k \in 1 .. Size : OpenHandle(gHandleTable[k]) = Shown(Ent(k))
  BY DEF Ent, Shown, OpenHandle, Pointer
<1>3. OpenHandles = {Shown(e) : e \in Ents}
  BY <1>1, <1>2 DEF OpenHandles, Ents
<1>4. \A k \in 1 .. Size : /\ Ent(k).serial = Pointer(k) /\ Ent(k).id = gHandleTable[k].handleId
                           /\ Ent(k).object = gCompressedPointerMap[Pointer(k)]
  BY DEF Ent
<1>5. \A k \in 1 .. Size : gHandleTable[k] \in EntryType
  BY <1>1
<1>6. \A k \in 1 .. Size : /\ Pointer(k) \in Nat /\ gHandleTable[k].handleId \in 0 .. IdSpace - 1
                           /\ Pointer(k) \in DOMAIN gCompressedPointerMap
  BY <1>5 DEF EntryType, Pointer, TInv, Ordered
<1>7. \A k \in 1 .. Size : Pointer(k) < gCompressedpointerCounter /\ IsObject(gCompressedPointerMap[Pointer(k)])
  BY <1>6 DEF TInv, Counters, TableType
<1>8. ASSUME NEW j \in 1 .. Size, NEW k \in 1 .. Size, Pointer(j) = Pointer(k) PROVE j = k
  <2>1. ~(j < k) /\ ~(k < j)
    <3>1. ~(Pointer(j) < Pointer(k)) /\ ~(Pointer(k) < Pointer(j))
      BY <1>6, <1>8
    <3> QED BY <3>1 DEF TInv, Ordered
  <2> QED BY <1>1, <2>1
<1>9. \A e \in Ents : \E k \in 1 .. Size : e = Ent(k)
  BY DEF Ents
<1>10. \A d, e \in Ents : d.serial = e.serial => d = e
  BY <1>4, <1>8, <1>9
<1>11. \A e \in Ents : /\ e.serial \in Nat /\ e.serial < gCompressedpointerCounter
                       /\ e.id \in 0 .. IdSpace - 1 /\ IsObject(e.object)
  BY <1>4, <1>6, <1>7, <1>9
<1> QED BY <1>1, <1>3, <1>4, <1>6, <1>10, <1>11

\* createHandle adds an entry.
LEMMA EntsCreate ==
  ASSUME TInv, NEW o, IsObject(o), createHandle(o)
  PROVE  \E new : /\ Ents' = Ents \cup {new} /\ new.serial = gCompressedpointerCounter
                  /\ new.id = handleId(gHandleCounter) /\ new.object = o
<1>1. PICK d : d = gCompressedpointerCounter
  OBVIOUS
<1>2. PICK m : m = Size
  OBVIOUS
<1>3. PICK new : new = [serial |-> d, id |-> handleId(gHandleCounter), object |-> o]
  OBVIOUS
<1>4. /\ Size' = m + 1 /\ m \in Nat
      /\ \A k \in 1 .. m :
              /\ gHandleTable'[k] = gHandleTable[k]
              /\ gCompressedPointerMap'[Pointer(k)] = gCompressedPointerMap[Pointer(k)]
      /\ gHandleTable'[m + 1].handleId = handleId(gHandleCounter)
      /\ gHandleTable'[m + 1].objectCompressedPointer = d
      /\ gCompressedPointerMap'[d] = o
  BY <1>1, <1>2, CreateFacts, EntsFacts
<1>5. \A k \in 1 .. m : Ent(k)' = Ent(k)
  BY <1>4 DEF Ent, Pointer
<1>6. \A k : k = m + 1 => Ent(k)' = new
  BY <1>3, <1>4 DEF Ent, Pointer
<1>7. \A k : k \in 1 .. m + 1 <=> k \in 1 .. m \/ k = m + 1
  BY <1>4
<1>8. Ents = {Ent(k) : k \in 1 .. m} /\ Ents' = {Ent(k)' : k \in 1 .. m + 1}
  BY <1>2, <1>4 DEF Ents
<1>9. Ents' = Ents \cup {new}
  BY <1>5, <1>6, <1>7, <1>8
<1> QED BY <1>1, <1>3, <1>9

\* closeHandle takes the first entry of the id away.
LEMMA EntsClose ==
  ASSUME TInv, NEW handle, EntriesOf(handle) # {}, closeHandle(handle)
  PROVE  Ent(EntryOf(handle)) \in Ents /\ Ents' = Ents \ {Ent(EntryOf(handle))}
<1>1. PICK k : k = EntryOf(handle)
  OBVIOUS
<1>2. PICK m : m = Size
  OBVIOUS
<1>3. /\ Size' = m - 1 /\ k \in 1 .. m /\ m \in Nat
      /\ \A j \in 1 .. m - 1 : gHandleTable'[j] = IF j < k THEN gHandleTable[j] ELSE gHandleTable[j + 1]
      /\ \A j \in 1 .. m : j # k => gCompressedPointerMap'[Pointer(j)] = gCompressedPointerMap[Pointer(j)]
  BY <1>1, <1>2, CloseFacts, EntsFacts
<1>4. PICK e : e = Ent(k)
  OBVIOUS
<1> DEFINE From(j) == IF j < k THEN j ELSE j + 1
<1>5. Ents = {Ent(j) : j \in 1 .. m} /\ Ents' = {Ent(j)' : j \in 1 .. m - 1}
  BY <1>2, <1>3 DEF Ents
<1>6. \A j \in 1 .. m - 1 : From(j) \in 1 .. m /\ From(j) # k /\ gHandleTable'[j] = gHandleTable[From(j)]
  BY <1>3
<1>7. \A i \in 1 .. m : i # k => \E j \in 1 .. m - 1 : From(j) = i
  <2>1. ASSUME NEW i \in 1 .. m, i < k PROVE i \in 1 .. m - 1 /\ From(i) = i
    BY <1>3, <2>1
  <2>2. ASSUME NEW i \in 1 .. m, i > k PROVE i - 1 \in 1 .. m - 1 /\ From(i - 1) = i
    BY <1>3, <2>2
  <2>3. \A i \in 1 .. m : i # k => i < k \/ i > k
    BY <1>3
  <2> HIDE DEF From
  <2> QED BY <2>1, <2>2, <2>3
<1> HIDE DEF From
<1>8. \A j \in 1 .. m - 1 : Ent(j)' = Ent(From(j))
  BY <1>3, <1>6 DEF Ent, Pointer
<1>9. \A j \in 1 .. m : j # k => Ent(j) # e
  <2>1. ASSUME NEW j \in 1 .. m, j # k PROVE Pointer(j) # Pointer(k)
    <3>1. j < k \/ k < j
      BY <1>3, <2>1
    <3>2. Pointer(j) < Pointer(k) \/ Pointer(k) < Pointer(j)
      BY <1>2, <1>3, <3>1 DEF TInv, Ordered
    <3>3. Pointer(j) \in Nat /\ Pointer(k) \in Nat
      BY <1>2, <1>3, EntsFacts DEF Ents
    <3> QED BY <3>2, <3>3
  <2> QED BY <1>2, <1>3, <1>4, <2>1, EntsFacts
<1>10. Ents' = Ents \ {e}
  <2>1. ASSUME NEW x \in Ents' PROVE x \in Ents \ {e}
    <3>1. PICK j \in 1 .. m - 1 : x = Ent(From(j))
      BY <1>5, <1>8, <2>1
    <3> QED BY <1>5, <1>6, <1>9, <3>1
  <2>2. ASSUME NEW x \in Ents \ {e} PROVE x \in Ents'
    <3>1. PICK i \in 1 .. m : x = Ent(i)
      BY <1>5
    <3>2. i # k
      BY <1>4, <3>1
    <3>3. PICK j \in 1 .. m - 1 : From(j) = i
      BY <1>7, <3>2
    <3> QED BY <1>5, <1>8, <3>1, <3>3
  <2> QED BY <2>1, <2>2
<1> QED BY <1>1, <1>3, <1>4, <1>5, <1>10

\* The first entry of an id is the oldest one, and the one lookupObject finds.
LEMMA EntsFirst ==
  ASSUME TInv, NEW handle, EntriesOf(handle) # {}
  PROVE  LET e == Ent(EntryOf(handle))
         IN  /\ e \in Ents /\ e.id = handleId(handle) /\ e.object = lookupObject(handle)
             /\ e.serial = PointerOf(handle)
             /\ \A other \in Ents : other.id = e.id => other = e \/ e.serial < other.serial
<1>1. PICK k : k = EntryOf(handle)
  OBVIOUS
<1>2. PICK m : m = Size
  OBVIOUS
<1>3. /\ k \in 1 .. m /\ gHandleTable[k].handleId = handleId(handle) /\ m \in Nat
      /\ \A j \in 1 .. m : gHandleTable[j].handleId = handleId(handle) => k <= j
  BY <1>1, <1>2, FirstEntry, EntsFacts
<1>4. \A j \in 1 .. m : Ent(j).serial = Pointer(j) /\ Ent(j).id = gHandleTable[j].handleId
                        /\ Ent(j).object = gCompressedPointerMap[Pointer(j)]
  BY <1>2, EntsFacts
<1>5. ASSUME NEW other \in Ents, other.id = Ent(k).id
      PROVE  other = Ent(k) \/ Ent(k).serial < other.serial
  <2>1. PICK j \in 1 .. m : other = Ent(j)
    BY <1>2 DEF Ents
  <2>2. k <= j
    BY <1>3, <1>4, <1>5, <2>1
  <2>3. k = j \/ k < j
    BY <1>3, <2>2
  <2>4. k < j => Pointer(k) < Pointer(j)
    BY <1>2, <1>3 DEF TInv, Ordered
  <2> QED BY <1>3, <1>4, <2>1, <2>3, <2>4
<1>6. Ent(k) \in Ents
  BY <1>2, <1>3 DEF Ents
<1>7. lookupObject(handle) = gCompressedPointerMap[Pointer(k)] /\ PointerOf(handle) = Pointer(k)
  BY <1>1 DEF lookupObject, PointerOf, Pointer
<1> QED BY <1>1, <1>3, <1>4, <1>5, <1>6, <1>7

\* createHandle opens the next handle.
LEMMA CreateOpens ==
  ASSUME TInv, NEW o, IsObject(o), createHandle(o)
  PROVE  Table!Open
<1>1. PICK d : d = gCompressedpointerCounter
  OBVIOUS
<1>2. PICK new : /\ Ents' = Ents \cup {new} /\ new.serial = d
                 /\ new.id = handleId(gHandleCounter) /\ new.object = o
  BY <1>1, EntsCreate
<1>3. TInv' /\ gCompressedpointerCounter' = d + 1 /\ gHandleCounter = d + 1 /\ d \in Nat
  BY <1>1, CreateFacts DEF TInv, Counters
<1>4. OpenHandles = {Shown(e) : e \in Ents} /\ OpenHandles' = {Shown(e) : e \in Ents'}
  <2>1. OpenHandles = {Shown(e) : e \in Ents}
    BY EntsFacts
  <2>2. (OpenHandles = {Shown(e) : e \in Ents})'
    BY <1>3, EntsFacts, PTL
  <2> QED BY <2>1, <2>2
<1>5. OpenHandles' = OpenHandles \cup {Shown(new)}
  BY <1>2, <1>4
<1>6. /\ Shown(new).serial = d /\ Shown(new).id = (d + 1) % IdSpace /\ Shown(new).type \in KTypes
  BY <1>2, <1>3 DEF Shown, handleId, IsObject
<1>7. Shown(new) \notin OpenHandles
  <2>1. \A e \in Ents : e.serial # d
    BY <1>1, <1>3, EntsFacts
  <2> QED BY <1>4, <1>6, <2>1 DEF Shown
<1> QED BY <1>1, <1>3, <1>5, <1>6, <1>7 DEF Table!Open, KTypes

\* An id stands for the handle of its first entry.
LEMMA StandsForFirst ==
  ASSUME TInv, NEW handle, EntriesOf(handle) # {}
  PROVE  /\ Table!Under(handleId(handle)) # {}
         /\ Table!StandsFor(handleId(handle)) = Shown(Ent(EntryOf(handle)))
<1>1. PICK id : id = handleId(handle)
  OBVIOUS
<1>2. PICK e : /\ e = Ent(EntryOf(handle)) /\ e \in Ents /\ e.id = id
               /\ \A other \in Ents : other.id = id => other = e \/ e.serial < other.serial
  BY <1>1, EntsFirst
<1>3. /\ OpenHandles = {Shown(x) : x \in Ents}
      /\ \A x \in Ents : x.serial \in Nat
  BY EntsFacts
<1>4. \A x : Shown(x).id = x.id /\ Shown(x).serial = x.serial
  BY DEF Shown
<1>5. Shown(e) \in Table!Under(id)
  BY <1>2, <1>3, <1>4 DEF Table!Under
<1>6. ASSUME NEW other \in Table!Under(id)
      PROVE  /\ Shown(e).serial <= other.serial
             /\ other.serial <= Shown(e).serial => other = Shown(e)
  <2>1. PICK x \in Ents : other = Shown(x) /\ x.id = id
    BY <1>3, <1>4, <1>6 DEF Table!Under
  <2>2. x = e \/ e.serial < x.serial
    BY <1>2, <2>1
  <2> QED BY <1>2, <1>3, <1>4, <2>1, <2>2
<1>7. Table!StandsFor(id) = Shown(e)
  BY <1>5, <1>6 DEF Table!StandsFor
<1> QED BY <1>1, <1>2, <1>5, <1>7

\* closeHandle closes the handle the id stands for.
LEMMA CloseCloses ==
  ASSUME TInv, NEW handle, EntriesOf(handle) # {}, closeHandle(handle)
  PROVE  Table!Close
<1>1. TInv' /\ gCompressedpointerCounter' = gCompressedpointerCounter
  BY CloseFacts
<1>2. OpenHandles = {Shown(e) : e \in Ents} /\ OpenHandles' = {Shown(e) : e \in Ents'}
  <2>1. OpenHandles = {Shown(e) : e \in Ents}
    BY EntsFacts
  <2>2. (OpenHandles = {Shown(e) : e \in Ents})'
    BY <1>1, EntsFacts, PTL
  <2> QED BY <2>1, <2>2
<1>3. PICK e : e = Ent(EntryOf(handle))
  OBVIOUS
<1>4. e \in Ents /\ Ents' = Ents \ {e}
  BY <1>3, EntsClose
<1>5. PICK id \in 0 .. IdSpace - 1 : id = handleId(handle)
  BY <1>3, EntsFirst, EntsFacts
<1>6. Table!Under(id) # {} /\ Table!StandsFor(id) = Shown(e)
  BY <1>3, <1>5, StandsForFirst
<1>7. \A x \in Ents : Shown(x) = Shown(e) => x = e
  <2>1. \A x : Shown(x).serial = x.serial
    BY DEF Shown
  <2>2. \A x \in Ents : x.serial = e.serial => x = e
    BY <1>4, EntsFacts
  <2> QED BY <2>1, <2>2
<1>8. OpenHandles' = OpenHandles \ {Shown(e)}
  BY <1>2, <1>4, <1>7
<1> QED BY <1>1, <1>5, <1>6, <1>8 DEF Table!Close

\* The table starts empty.
LEMMA InitTable == ASSUME Init PROVE TInv /\ Table!Init
<1>1. /\ gHandleTable = << >> /\ gHandleCounter = 1 /\ gCompressedpointerCounter = 0
      /\ gCompressedPointerMap = [pointer \in {} |-> 0]
  BY DEF Init, HandleInit
<1>2. DOMAIN gCompressedPointerMap = {} /\ Size = 0 /\ DOMAIN gHandleTable = {}
  BY <1>1 DEF Size
<1>3. TInv
  BY <1>1, <1>2 DEF TInv, TableType, Counters, Ordered
<1>4. OpenHandles = {}
  BY <1>2 DEF OpenHandles
<1> QED BY <1>1, <1>3, <1>4 DEF Table!Init

\* Each operation keeps the table in order and is an operation of HandleTable.
LEMMA StepTable ==
  ASSUME TInv, HandleStep
  PROVE  TInv' /\ (Table!Next \/ UNCHANGED Table!tableVars)
<1>1. ASSUME NEW o, IsObject(o), createHandle(o) PROVE TInv' /\ Table!Next
  BY <1>1, CreateFacts, CreateOpens DEF Table!Next
<1>2. ASSUME UNCHANGED handleVars PROVE TInv' /\ UNCHANGED Table!tableVars
  BY <1>2 DEF handleVars, TInv, TableType, Counters, Ordered, Size, Pointer, Table!tableVars,
              OpenHandles, OpenHandle
<1>3. ASSUME NEW handle, closeHandle(handle) PROVE TInv' /\ (Table!Next \/ UNCHANGED Table!tableVars)
  <2>1. CASE EntriesOf(handle) # {}
    BY <1>3, <2>1, CloseFacts, CloseCloses DEF Table!Next
  <2>2. CASE EntriesOf(handle) = {}
    BY <1>2, <1>3, <2>2 DEF closeHandle, handleVars
  <2> QED BY <2>1, <2>2
<1>4. ASSUME NEW handle, EntriesOf(handle) # {}, SetIsDomain(handle) PROVE TInv' /\ UNCHANGED Table!tableVars
  <2>1. /\ TInv' /\ UNCHANGED <<gHandleTable, gHandleCounter, gCompressedpointerCounter>>
        /\ \A p \in DOMAIN gCompressedPointerMap :
              /\ gCompressedPointerMap'[p].type = gCompressedPointerMap[p].type
              /\ gCompressedPointerMap'[p].of = gCompressedPointerMap[p].of
    BY <1>4, DomainFacts
  <2>2. DOMAIN gHandleTable = 1 .. Size /\ \A k \in 1 .. Size : Pointer(k) \in DOMAIN gCompressedPointerMap
    BY DEF TInv, TableType, Size, Ordered
  <2>3. \A k \in 1 .. Size : OpenHandle(gHandleTable[k])' = OpenHandle(gHandleTable[k])
    BY <2>1, <2>2 DEF OpenHandle, Pointer
  <2>4. OpenHandles' = OpenHandles
    BY <2>1, <2>2, <2>3 DEF OpenHandles
  <2> QED BY <2>1, <2>4 DEF Table!tableVars
<1> QED BY <1>1, <1>2, <1>3, <1>4 DEF HandleStep

\* The table is in order in every reachable state.
LEMMA TableInvariant == Spec => []TInv
<1>1. Init => TInv
  BY InitTable
<1>2. TInv /\ [Next]_vars => TInv'
  BY NextHandles, StepTable
<1> QED BY <1>1, <1>2, PTL DEF Spec

\* The vector of entries and the map of pointers implement HandleTable: a handle is opened
\* under the next id, and closing an id closes the oldest handle open under it and no
\* other (createHandle, closeHandle), whatever the game calls and however often ids are
\* reused while in use.
THEOREM HandlesRefine == Spec => HandlesImplement
<1>1. Init => Table!Init
  BY InitTable
<1>2. TInv /\ [Next]_vars => [Table!Next]_(Table!tableVars)
  BY NextHandles, StepTable
<1> QED BY <1>1, <1>2, TableInvariant, PTL DEF Spec, HandlesImplement, Table!Spec

\* What lookupObject answers for an id that is in use.
LookupFindsOldest ==
    \A handle \in Nat : EntriesOf(handle) # {} =>
        /\ lookupObject(handle).type = Table!StandsFor(handleId(handle)).type
        /\ lookupObject(handle).of = Table!StandsFor(handleId(handle)).of

\* lookupObject finds the object HandleTable says the id stands for.
THEOREM LookupRight == Spec => []LookupFindsOldest
<1>1. ASSUME TInv PROVE LookupFindsOldest
  <2>1. ASSUME NEW handle \in Nat, EntriesOf(handle) # {}
        PROVE  /\ lookupObject(handle).type = Table!StandsFor(handleId(handle)).type
               /\ lookupObject(handle).of = Table!StandsFor(handleId(handle)).of
    <3>1. Table!StandsFor(handleId(handle)) = Shown(Ent(EntryOf(handle)))
      BY <1>1, <2>1, StandsForFirst
    <3>2. lookupObject(handle) = Ent(EntryOf(handle)).object
      BY <1>1, <2>1, EntsFirst
    <3> QED BY <3>1, <3>2 DEF Shown
  <2> QED BY <2>1 DEF LookupFindsOldest
<1> QED BY <1>1, TableInvariant, PTL

----------------------------------------------------------------------------
(* What the game was told.  An id that was not given out again belongs to  *)
(* one promise, or to a session and the promise of it as an object of its  *)
(* own domain, and to one entry.                                           *)

\* The objects of a domain are interfaces.
Told ==
    \A p \in told : /\ p = Promise(p.id, p.via, p.of) /\ p.id \in Nat \ {0}
                    /\ p.via # 0 => p.of \in DOMAIN Interfaces

\* An id that is not shared has at most one entry.
Single == \A d, e \in Ents : d.id = e.id /\ d.id \notin shared => d = e

\* The object of a promise is in the table.
Backed ==
    \A p \in told : handleId(p.id) \notin shared =>
        \E e \in Ents : e.id = handleId(p.id) /\ e.object.of = p.of

\* An entry whose id is not shared was promised to the game or is the process.
OnlyPromised == \A e \in Ents : e.id \notin shared => e.id \in PromisedIds

\* Two promises of one id are a session and itself as an object of its domain.
SameId ==
    \A p, q \in told : handleId(p.id) = handleId(q.id) /\ handleId(p.id) \notin shared =>
        p.id = q.id /\ (p.via = q.via \/ {p.via, q.via} = {0, p.id})

\* The game has the handle of every domain it has objects of.
Base == \A p \in told : p.via # 0 => \E b \in told : b.id = p.via /\ b.via = 0

Domains ==
    \A p \in told : p.via # 0 /\ handleId(p.via) \notin shared =>
        \A e \in Ents : e.id = handleId(p.via) => e.object.isDomain

\* The game knows which of its sessions are domains.
KnownDomains ==
    \A e \in Ents : e.id \notin shared /\ e.object.isDomain =>
        \E q \in told : q.via = q.id /\ handleId(q.id) = e.id

\* Nothing happens before the game is launched.
Launched == gCurrentProcess = 0 => mainThread = 0 /\ gHandleTable = << >> /\ told = {}

Meant ==
    /\ Told /\ Single /\ Backed /\ OnlyPromised /\ SameId /\ Base /\ Domains /\ KnownDomains
    /\ Launched

\* An id has no entry exactly when EntriesOf says so.
LEMMA NoEntry ==
  ASSUME TInv, NEW handle
  PROVE  EntriesOf(handle) = {} <=> ~\E e \in Ents : e.id = handleId(handle)
<1>1. DOMAIN gHandleTable = 1 .. Size
  BY DEF TInv, TableType, Size
<1>2. \A k \in 1 .. Size : Ent(k).id = gHandleTable[k].handleId
  BY EntsFacts
<1> QED BY <1>1, <1>2 DEF EntriesOf, Ents

\* Turning a session into a domain changes its entry.
LEMMA EntsDomain ==
  ASSUME TInv, NEW handle, EntriesOf(handle) # {}, SetIsDomain(handle)
  PROVE  \E new : /\ Ents' = (Ents \ {Ent(EntryOf(handle))}) \cup {new}
                  /\ new.id = Ent(EntryOf(handle)).id
                  /\ new.object.of = Ent(EntryOf(handle)).object.of /\ new.object.isDomain
<1>1. PICK k : k = EntryOf(handle)
  OBVIOUS
<1>2. PICK m : m = Size
  OBVIOUS
<1>3. /\ gHandleTable' = gHandleTable /\ Size' = m /\ PointerOf(handle) = Pointer(k)
      /\ k \in 1 .. m /\ \A j \in 1 .. m : Pointer(j) \in DOMAIN gCompressedPointerMap
  BY <1>1, <1>2, DomainFacts, FirstEntry, EntsFacts DEF PointerOf, Pointer, Size
<1>4. PICK e : e = Ent(k)
  OBVIOUS
<1>5. PICK new : new = Ent(k)'
  OBVIOUS
<1>6. new.id = e.id /\ new.object.of = e.object.of /\ new.object.isDomain
  <2>1. new.id = e.id /\ e.object = gCompressedPointerMap[Pointer(k)]
        /\ new.object = gCompressedPointerMap'[Pointer(k)]
    BY <1>3, <1>4, <1>5 DEF Ent, Pointer
  <2> QED BY <1>3, <2>1, DomainFacts
<1>7. \A j \in 1 .. m : j # k => Pointer(j) # Pointer(k)
  <2>1. \A i, j \in 1 .. m : Pointer(i) \in Nat /\ (i < j => Pointer(i) < Pointer(j))
    BY <1>2, EntsFacts DEF TInv, Ordered, Ents
  <2>2. \A j \in 1 .. m : j # k => j < k \/ k < j
    BY <1>3
  <2> QED BY <1>3, <2>1, <2>2
<1>8. \A j \in 1 .. m : j # k => Ent(j)' = Ent(j)
  <2>1. gCompressedPointerMap' = [gCompressedPointerMap EXCEPT ![Pointer(k)].isDomain = TRUE]
    BY <1>3 DEF SetIsDomain
  <2>2. \A p \in DOMAIN gCompressedPointerMap : p # Pointer(k) =>
           gCompressedPointerMap'[p] = gCompressedPointerMap[p]
    BY <2>1
  <2>3. \A j \in 1 .. m : j # k => gCompressedPointerMap'[Pointer(j)] = gCompressedPointerMap[Pointer(j)]
    BY <1>3, <1>7, <2>2
  <2> QED BY <1>3, <2>3 DEF Ent, Pointer
<1>9. \A j \in 1 .. m : Ent(j) = e => j = k
  BY <1>2, <1>3, <1>4, <1>7, EntsFacts
<1>10. Ents = {Ent(j) : j \in 1 .. m} /\ Ents' = {Ent(j)' : j \in 1 .. m}
  BY <1>2, <1>3 DEF Ents
<1>11. Ents' = (Ents \ {e}) \cup {new}
  BY <1>3, <1>4, <1>5, <1>8, <1>9, <1>10
<1> QED BY <1>1, <1>4, <1>6, <1>11

\* A session that is open and the game has the handle of.
HasSession(handle) ==
    EntriesOf(handle) # {} /\ \E b \in told : b.id = handle /\ b.via = 0

\* Making a handle keeps every promise: its id is new, or is shared from now on.
LEMMA MakeMeant ==
  ASSUME TInv, Meant, NEW o, NEW via, IsObject(o), ~o.isDomain, Make(o, via),
         gCurrentProcess # 0, gCurrentProcess' = gCurrentProcess,
         via = 0 \/ (HasSession(via) /\ lookupObject(via).isDomain /\ o.type = "INTERFACE")
  PROVE  Meant'
<1>1. PICK n : n = gHandleCounter
  OBVIOUS
<1>2. PICK id : id = handleId(n)
  OBVIOUS
<1>3. PICK p0 : p0 = Promise(n, via, o.of)
  OBVIOUS
<1>4. PICK new : Ents' = Ents \cup {new} /\ new.id = id /\ new.object = o
  BY <1>1, <1>2, EntsCreate DEF Make
<1>5. /\ told' = told \cup {p0} /\ shared' = shared \cup (PromisedIds \cap {id})
      /\ p0 = Promise(p0.id, p0.via, p0.of) /\ p0.id = n /\ p0.via = via /\ p0.of = o.of
      /\ n \in Nat \ {0}
  BY <1>1, <1>2, <1>3 DEF Make, Promise, TInv, Counters
<1>6. PromisedIds' = PromisedIds \cup {id}
  BY <1>2, <1>5 DEF PromisedIds
<1>7. \A p \in told : handleId(p.id) \in PromisedIds
  BY DEF PromisedIds
<1>8. /\ shared \subseteq shared' /\ \A p \in told : handleId(p.id) = id => id \in shared'
      /\ \A e \in Ents : e.id = id => id \in shared'
      /\ id \in PromisedIds => id \in shared'
  BY <1>5, <1>7 DEF Meant, OnlyPromised
<1>9. Told'
  <2>1. p0.via # 0 => p0.of \in DOMAIN Interfaces
    BY <1>5 DEF IsObject
  <2> QED BY <1>5, <2>1 DEF Meant, Told
<1>10. Single'
  BY <1>4, <1>8 DEF Meant, Single
<1>11. Backed'
  BY <1>2, <1>4, <1>5, <1>8 DEF Meant, Backed
<1>12. OnlyPromised'
  BY <1>4, <1>6, <1>8 DEF Meant, OnlyPromised
<1>13. SameId'
  BY <1>2, <1>5, <1>8 DEF Meant, SameId
<1>14. Base'
  BY <1>5 DEF Meant, Base, HasSession
<1>15. Domains'
  <2>1. SUFFICES ASSUME NEW p \in told', p.via # 0, handleId(p.via) \notin shared',
                        NEW e \in Ents', e.id = handleId(p.via)
                 PROVE  e.object.isDomain
    BY DEF Domains
  <2>2. \E b \in told : b.id = p.via
    BY <1>5, <2>1 DEF Meant, Base, HasSession
  <2>3. e \in Ents
    BY <1>4, <1>8, <2>1, <2>2
  <2>4. CASE p \in told
    BY <1>8, <2>1, <2>3, <2>4 DEF Meant, Domains
  <2>5. CASE p = p0
    <3>1. p.via = via /\ HasSession(via) /\ lookupObject(via).isDomain
      BY <1>5, <2>1, <2>5
    <3>2. PICK f \in Ents : f.id = handleId(via) /\ f.object = lookupObject(via)
      BY <3>1, EntsFirst DEF HasSession
    <3>3. f = e
      BY <1>8, <2>1, <2>3, <3>1, <3>2 DEF Meant, Single
    <3> QED BY <3>1, <3>2, <3>3
  <2> QED BY <1>5, <2>4, <2>5
<1>16. KnownDomains'
  BY <1>4, <1>5, <1>8 DEF Meant, KnownDomains
<1>17. Launched'
  BY DEF Launched
<1> QED BY <1>9, <1>10, <1>11, <1>12, <1>13, <1>14, <1>15, <1>16, <1>17 DEF Meant

\* Turning a session into a domain keeps every promise: the object stays what it was.
LEMMA ConvertMeant ==
  ASSUME TInv, Meant, NEW handle, HasSession(handle), SetIsDomain(handle),
         lookupObject(handle).of \in DOMAIN Interfaces,
         told' = told \cup {Promise(handle, handle, lookupObject(handle).of)},
         shared' = shared, gCurrentProcess' = gCurrentProcess, mainThread' = mainThread
  PROVE  Meant'
<1>1. PICK e : /\ e = Ent(EntryOf(handle)) /\ e \in Ents /\ e.id = handleId(handle)
               /\ e.object = lookupObject(handle)
  BY EntsFirst DEF HasSession
<1>2. PICK new : /\ Ents' = (Ents \ {e}) \cup {new} /\ new.id = e.id
                 /\ new.object.of = e.object.of /\ new.object.isDomain
  BY <1>1, EntsDomain DEF HasSession
<1>3. PICK p0 : p0 = Promise(handle, handle, e.object.of)
  OBVIOUS
<1>4. PICK b \in told : b.id = handle /\ b.via = 0
  BY DEF HasSession
<1>5. /\ told' = told \cup {p0} /\ p0 = Promise(p0.id, p0.via, p0.of)
      /\ p0.id = handle /\ p0.via = handle /\ p0.of = e.object.of /\ handle \in Nat \ {0}
  BY <1>1, <1>3, <1>4 DEF Promise, Meant, Told
<1>6. PromisedIds' = PromisedIds
  BY <1>4, <1>5 DEF PromisedIds
<1>7. Told'
  BY <1>1, <1>5 DEF Meant, Told
<1>8. Single'
  BY <1>1, <1>2 DEF Meant, Single
<1>9. Backed'
  <2>1. ASSUME NEW p \in told, handleId(p.id) \notin shared
        PROVE  \E f \in Ents' : f.id = handleId(p.id) /\ f.object.of = p.of
    <3>1. PICK f \in Ents : f.id = handleId(p.id) /\ f.object.of = p.of
      BY <2>1 DEF Meant, Backed
    <3> QED BY <1>2, <3>1
  <2> QED BY <1>1, <1>2, <1>5, <2>1 DEF Backed
<1>10. OnlyPromised'
  BY <1>1, <1>2, <1>6 DEF Meant, OnlyPromised
<1>11. SameId'
  <2>1. ASSUME NEW p \in told, handleId(p.id) = handleId(handle), handleId(handle) \notin shared
        PROVE  p.id = handle /\ p.via \in {0, handle}
    BY <1>4, <2>1 DEF Meant, SameId
  <2>2. \A p \in told' : p \in told \/ p = p0
    BY <1>5
  <2>3. ASSUME NEW p \in told', NEW q \in told', handleId(p.id) = handleId(q.id),
               handleId(p.id) \notin shared
        PROVE  p.id = q.id /\ (p.via = q.via \/ {p.via, q.via} = {0, p.id})
    <3>1. CASE p \in told /\ q \in told
      BY <2>3, <3>1 DEF Meant, SameId
    <3>2. CASE p = p0 \/ q = p0
      <4>1. p.id = handle /\ q.id = handle /\ p.via \in {0, handle} /\ q.via \in {0, handle}
        BY <1>5, <2>1, <2>2, <2>3, <3>2
      <4> QED BY <4>1
    <3> QED BY <2>2, <3>1, <3>2
  <2> QED BY <2>3 DEF SameId
<1>12. Base'
  BY <1>4, <1>5 DEF Meant, Base
<1>13. Domains'
  <2>1. SUFFICES ASSUME NEW p \in told', p.via # 0, handleId(p.via) \notin shared,
                        NEW f \in Ents', f.id = handleId(p.via)
                 PROVE  f.object.isDomain
    BY DEF Domains
  <2>2. CASE f = new
    BY <1>2, <2>2
  <2>3. CASE f \in Ents \ {e}
    <3>1. handleId(p.via) # handleId(handle)
      BY <1>1, <2>1, <2>3 DEF Meant, Single
    <3>2. p \in told
      BY <1>5, <3>1
    <3> QED BY <2>1, <2>3, <3>2 DEF Meant, Domains
  <2> QED BY <1>2, <2>2, <2>3
<1>14. KnownDomains'
  BY <1>1, <1>2, <1>5 DEF Meant, KnownDomains
<1>15. Launched'
  BY <1>4 DEF Meant, Launched
<1> QED BY <1>7, <1>8, <1>9, <1>10, <1>11, <1>12, <1>13, <1>14, <1>15 DEF Meant

\* Handing out handles that name no object of their own keeps the other promises.
LEMMA HandOutMeant ==
  ASSUME Meant, NEW made, UNCHANGED <<handleVars, gCurrentProcess, mainThread>>,
         made \subseteq {Promise(FakeHandle, 0, "fake")}, told' = told \cup made,
         shared \subseteq shared', made # {} => handleId(FakeHandle) \in shared',
         gCurrentProcess # 0
  PROVE  Meant'
<1>1. Ents' = Ents
  BY DEF Ents, Ent, Pointer, Size, handleVars
<1>2. \A p \in made : /\ p = Promise(p.id, p.via, p.of) /\ p.id \in Nat \ {0} /\ p.via = 0
                      /\ handleId(p.id) \in shared'
  BY IpcAssumption DEF Promise
<1>3. PromisedIds \subseteq PromisedIds'
  BY DEF PromisedIds
<1>4. Told'
  BY <1>2 DEF Meant, Told
<1>5. Single'
  BY <1>1 DEF Meant, Single
<1>6. Backed'
  BY <1>1, <1>2 DEF Meant, Backed
<1>7. OnlyPromised'
  BY <1>1, <1>3 DEF Meant, OnlyPromised
<1>8. SameId'
  BY <1>2 DEF Meant, SameId
<1>9. Base'
  BY <1>2 DEF Meant, Base
<1>10. Domains'
  BY <1>1, <1>2 DEF Meant, Domains
<1>11. KnownDomains'
  BY <1>1 DEF Meant, KnownDomains
<1>12. Launched'
  BY DEF Launched
<1> QED BY <1>4, <1>5, <1>6, <1>7, <1>8, <1>9, <1>10, <1>11, <1>12 DEF Meant

\* An object of a domain that is given up leaves its id shared.
LEMMA CloseObjectMeant ==
  ASSUME Meant, CloseObject
  PROVE  Meant'
<1>1. PICK q \in told : /\ q.via \notin {0, q.id} /\ told' = told \ {q}
                       /\ shared' = shared \cup {handleId(q.id)}
  BY DEF CloseObject
<1>2. Ents' = Ents /\ gCurrentProcess' = gCurrentProcess /\ mainThread' = mainThread
      /\ gHandleTable' = gHandleTable
  BY DEF CloseObject, Guest, Ents, Ent, Pointer, Size, handleVars
<1>3. PromisedIds \subseteq PromisedIds' \cup {handleId(q.id)}
  BY <1>1, <1>2 DEF PromisedIds
<1>4. Told' /\ Single' /\ Backed' /\ SameId' /\ Domains' /\ KnownDomains'
  BY <1>1, <1>2 DEF Meant, Told, Single, Backed, SameId, Domains, KnownDomains
<1>5. OnlyPromised'
  BY <1>1, <1>2, <1>3 DEF Meant, OnlyPromised
<1>6. Base'
  BY <1>1 DEF Meant, Base
<1>7. Launched'
  BY <1>1, <1>2 DEF Meant, Launched
<1> QED BY <1>4, <1>5, <1>6, <1>7 DEF Meant

\* closeHandle takes the only entry of an id that is not shared, and no entry of another id.
LEMMA EntsLeft ==
  ASSUME TInv, Single, NEW handle, closeHandle(handle)
  PROVE  /\ Ents' \subseteq Ents
         /\ \A e \in Ents : e.id # handleId(handle) => e \in Ents'
         /\ handleId(handle) \notin shared => \A e \in Ents' : e.id # handleId(handle)
<1>1. CASE EntriesOf(handle) = {}
  <2>1. Ents' = Ents
    BY <1>1 DEF closeHandle, Ents, Ent, Pointer, Size
  <2> QED BY <1>1, <2>1, NoEntry
<1>2. CASE EntriesOf(handle) # {}
  <2>1. PICK e : e = Ent(EntryOf(handle)) /\ e \in Ents /\ e.id = handleId(handle)
    BY <1>2, EntsFirst
  <2>2. Ents' = Ents \ {e}
    BY <1>2, <2>1, EntsClose
  <2> QED BY <2>1, <2>2 DEF Single
<1> QED BY <1>1, <1>2

\* Closing a handle takes back what was promised of it, and leaves the ids of the objects
\* of its domain shared.
LEMMA CloseMeant ==
  ASSUME TInv, Meant, svcCloseHandle
  PROVE  Meant'
<1>1. PICK p \in told :
        /\ p.via = 0 /\ closeHandle(p.id) /\ told' = told \ ({p} \cup ObjectsOn(p.id))
        /\ shared' = shared \cup {handleId(q.id) : q \in ObjectsOn(p.id) \ {Promise(p.id, p.id, p.of)}}
  BY DEF svcCloseHandle, Handles
<1>2. PICK id : id = handleId(p.id)
  OBVIOUS
<1>3. /\ Ents' \subseteq Ents /\ \A e \in Ents : e.id # id => e \in Ents'
      /\ id \notin shared => \A e \in Ents' : e.id # id
  BY <1>1, <1>2, EntsLeft DEF Meant
<1>4. /\ gCurrentProcess' = gCurrentProcess /\ gCurrentProcess # 0
  BY <1>1 DEF svcCloseHandle, Guest, Meant, Launched
<1>5. /\ told' \subseteq told /\ shared \subseteq shared' /\ \A q \in told' : q.via # p.id /\ q # p
      /\ \A q \in told : q \notin told' => q = p \/ q.via = p.id
      /\ \A q \in told : q.via = p.id => q = Promise(p.id, p.id, p.of) \/ handleId(q.id) \in shared'
  BY <1>1 DEF ObjectsOn
<1>6. \A q \in told : q \notin told' => handleId(q.id) = id \/ handleId(q.id) \in shared'
  BY <1>2, <1>5 DEF Promise
\* No other promise of the id is left, unless it is shared.
<1>7. ASSUME NEW q \in told', handleId(q.id) = id, id \notin shared PROVE FALSE
  <2>1. q \in told /\ q.id = p.id /\ q.via = 0
    BY <1>1, <1>2, <1>5, <1>7 DEF Meant, SameId
  <2>2. PICK d \in Ents : d.id = id /\ d.object.of = p.of
    BY <1>2, <1>7 DEF Meant, Backed
  <2>3. PICK e \in Ents : e.id = id /\ e.object.of = q.of
    BY <1>7, <2>1 DEF Meant, Backed
  <2>4. q.of = p.of
    BY <1>7, <2>2, <2>3 DEF Meant, Single
  <2>5. q = Promise(q.id, q.via, q.of) /\ p = Promise(p.id, p.via, p.of)
    BY <2>1 DEF Meant, Told
  <2> QED BY <1>1, <1>5, <2>1, <2>4, <2>5
<1>8. Told' /\ Single' /\ SameId'
  BY <1>3, <1>5 DEF Meant, Told, Single, SameId
<1>9. Backed'
  <2>1. SUFFICES ASSUME NEW q \in told', handleId(q.id) \notin shared'
                 PROVE  \E e \in Ents' : e.id = handleId(q.id) /\ e.object.of = q.of
    BY DEF Backed
  <2>2. PICK e \in Ents : e.id = handleId(q.id) /\ e.object.of = q.of
    BY <1>5, <2>1 DEF Meant, Backed
  <2>3. e.id # id
    BY <1>5, <1>7, <2>1, <2>2
  <2> QED BY <1>3, <2>2, <2>3
<1>10. OnlyPromised'
  <2>1. SUFFICES ASSUME NEW e \in Ents', e.id \notin shared' PROVE e.id \in PromisedIds'
    BY DEF OnlyPromised
  <2>2. e.id \in PromisedIds /\ e.id # id
    BY <1>3, <1>5, <2>1 DEF Meant, OnlyPromised
  <2>3. CASE e.id = handleId(gCurrentProcess)
    BY <1>4, <2>3 DEF PromisedIds
  <2>4. ASSUME NEW q \in told, e.id = handleId(q.id) PROVE e.id \in PromisedIds'
    BY <1>6, <2>1, <2>2, <2>4 DEF PromisedIds
  <2> QED BY <2>2, <2>3, <2>4 DEF PromisedIds
<1>11. Base'
  <2>1. SUFFICES ASSUME NEW q \in told', q.via # 0 PROVE \E b \in told' : b.id = q.via /\ b.via = 0
    BY DEF Base
  <2>2. PICK b \in told : b.id = q.via /\ b.via = 0
    BY <1>5, <2>1 DEF Meant, Base
  <2>3. b # p /\ b.via # p.id
    BY <1>5, <2>1, <2>2 DEF Meant, Told
  <2> QED BY <1>5, <2>2, <2>3
<1>12. Domains'
  <2>1. \A q \in told' : q.via # 0 /\ handleId(q.via) \notin shared => handleId(q.via) # id
    BY <1>7, <1>11 DEF Base
  <2> QED BY <1>3, <1>5, <2>1 DEF Meant, Domains
<1>13. KnownDomains'
  <2>1. SUFFICES ASSUME NEW e \in Ents', e.id \notin shared', e.object.isDomain
                 PROVE  \E q \in told' : q.via = q.id /\ handleId(q.id) = e.id
    BY DEF KnownDomains
  <2>2. PICK q \in told : q.via = q.id /\ handleId(q.id) = e.id
    BY <1>3, <1>5, <2>1 DEF Meant, KnownDomains
  <2>3. e.id # id
    BY <1>3, <1>5, <2>1
  <2>4. q # p /\ q.via # p.id
    BY <1>2, <2>2, <2>3
  <2> QED BY <1>5, <2>2, <2>4
<1>14. Launched'
  BY <1>4 DEF Launched
<1> QED BY <1>8, <1>9, <1>10, <1>11, <1>12, <1>13, <1>14 DEF Meant

\* The process is the first handle.
LEMMA LaunchMeant ==
  ASSUME TInv, Meant, launchGameCart
  PROVE  Meant'
<1>1. /\ gCurrentProcess' = gHandleCounter /\ told' = told /\ shared' = shared /\ told = {}
      /\ gHandleCounter \in Nat \ {0}
  BY DEF launchGameCart, Meant, Launched, TInv, Counters
<1>2. Ents = {}
  BY DEF launchGameCart, Meant, Launched, Ents, Size
<1>3. PICK new : /\ Ents' = Ents \cup {new} /\ new.id = handleId(gHandleCounter)
                 /\ ~new.object.isDomain
  <2>1. IsObject(Object("PROCESS", "process")) /\ ~Object("PROCESS", "process").isDomain
    BY NewObjects DEF KTypes
  <2>2. createHandle(Object("PROCESS", "process"))
    BY DEF launchGameCart
  <2> QED BY <2>1, <2>2, EntsCreate
<1>4. OnlyPromised'
  BY <1>1, <1>2, <1>3 DEF OnlyPromised, PromisedIds
<1>5. Told' /\ Single' /\ Backed' /\ SameId' /\ Base' /\ Domains' /\ KnownDomains' /\ Launched'
  BY <1>1, <1>2, <1>3 DEF Told, Single, Backed, SameId, Base, Domains, KnownDomains, Launched
<1> QED BY <1>4, <1>5 DEF Meant

\* A request goes to a session the game has the handle of, or to no object.
LEMMA SendsToSessions ==
  ASSUME Meant, NEW send \in ToSessions \cup ToDomains \cup ControlSends \cup ToClosed
  PROVE  EntriesOf(send.handle) = {} \/ HasSession(send.handle)
<1>1. \A handle, request, interface : Send(handle, request, interface).handle = handle
  BY DEF Send
<1>2. CASE send \in ToSessions
  BY <1>1, <1>2 DEF ToSessions, Sessions, Handles, HasSession
<1>3. CASE send \in ToDomains
  <2>1. PICK q \in told : q.via # 0 /\ send.handle = q.via
    BY <1>1, <1>3 DEF ToDomains
  <2> QED BY <2>1 DEF Meant, Base, HasSession
<1>4. CASE send \in ControlSends
  <2>1. PICK p \in Sessions : send.handle = p.id
    BY <1>1, <1>4 DEF ControlSends
  <2> QED BY <2>1 DEF Sessions, Handles, HasSession
<1>5. CASE send \in ToClosed
  BY <1>1, <1>5 DEF ToClosed
<1> QED BY <1>2, <1>3, <1>4, <1>5

\* A call keeps every promise, whatever the request: it makes a handle, turns a session
\* into a domain, or hands out handles of nothing new.
LEMMA CallMeant ==
  ASSUME TInv, Meant, Guest, NEW handle, NEW request, NEW interface,
         EntriesOf(handle) = {} \/ HasSession(handle), doIpcCall(handle, request, interface)
  PROVE  Meant'
<1>1. gCurrentProcess # 0 /\ gCurrentProcess' = gCurrentProcess /\ mainThread' = mainThread
  BY DEF Guest, Running, Meant, Launched
<1>2. CASE UNCHANGED <<handleVars, told, shared, call>>
  <2>1. PICK made : made = {}
    OBVIOUS
  <2>2. /\ made \subseteq {Promise(FakeHandle, 0, "fake")} /\ told' = told \cup made
        /\ shared \subseteq shared' /\ (made # {} => handleId(FakeHandle) \in shared')
        /\ UNCHANGED <<handleVars, gCurrentProcess, mainThread>>
    BY <1>1, <1>2, <2>1
  <2> QED BY <1>1, <2>2, HandOutMeant
<1>3. CASE /\ lookupObject(handle).type = "INTERFACE"
           /\ \E msg, parsed, offset, info, does :
                /\ info = ParseRaw(msg, offset, lookupObject(handle).isDomain)
                /\ does = Dispatch(handle, lookupObject(handle), msg, info, request.param)
                /\ Reply(handle, request, interface, msg, parsed, info, does)
  <2>1. PICK msg, parsed, offset, info, does :
                /\ info = ParseRaw(msg, offset, lookupObject(handle).isDomain)
                /\ does = Dispatch(handle, lookupObject(handle), msg, info, request.param)
                /\ Reply(handle, request, interface, msg, parsed, info, does)
    BY <1>3
  <2>2. HasSession(handle)
    BY <1>3, Looked
  <2>3. info.domain => lookupObject(handle).isDomain
    BY <2>1 DEF ParseRaw
  <2>4. /\ \A o \in does.makes : IsObject(o) /\ ~o.isDomain /\ (o.type = "INTERFACE" \/ does.via = 0)
        /\ does.via = 0 \/ (info.domain /\ does.via = handle)
    <3>1. /\ gHandleCounter \in Nat /\ lookupObject(handle).of \in DOMAIN Interfaces
          /\ lookupObject(info.object).type = "INTERFACE" => lookupObject(info.object).of \in DOMAIN Interfaces
      BY <1>3, Looked
    <3>2. Dispatched(does, handle, lookupObject(handle), info)
      BY <2>1, <3>1, DispatchMakes
    <3> QED BY <3>2 DEF Dispatched
  <2>5. CASE \E new \in does.makes : Make(new, does.via)
    <3>1. PICK new \in does.makes : Make(new, does.via)
      BY <2>5
    <3> QED BY <1>1, <2>2, <2>3, <2>4, <3>1, MakeMeant
  <2>6. CASE /\ SetIsDomain(handle) /\ shared' = shared
             /\ told' = told \cup {Promise(handle, handle, lookupObject(handle).of)}
    BY <1>1, <1>3, <2>2, <2>6, Looked, ConvertMeant
  <2>7. CASE \E handedOut :
               /\ told' = told \cup {Promise(id, 0, "fake") : id \in handedOut \cap {FakeHandle}}
               /\ shared' = shared \cup {handleId(id) : id \in handedOut}
               /\ UNCHANGED handleVars
    <3>1. PICK handedOut :
               /\ told' = told \cup {Promise(id, 0, "fake") : id \in handedOut \cap {FakeHandle}}
               /\ shared' = shared \cup {handleId(id) : id \in handedOut}
               /\ UNCHANGED handleVars
      BY <2>7
    <3>2. PICK made : made = {Promise(id, 0, "fake") : id \in handedOut \cap {FakeHandle}}
      OBVIOUS
    <3>3. /\ made \subseteq {Promise(FakeHandle, 0, "fake")} /\ told' = told \cup made
          /\ shared \subseteq shared' /\ (made # {} => handleId(FakeHandle) \in shared')
      BY <3>1, <3>2
    <3>4. UNCHANGED <<handleVars, gCurrentProcess, mainThread>>
      BY <1>1, <3>1
    <3> QED BY <1>1, <3>3, <3>4, HandOutMeant
  <2> QED BY <2>1, <2>5, <2>6, <2>7 DEF Reply
<1> QED BY <1>2, <1>3 DEF doIpcCall

\* Nothing was promised when the game starts.
LEMMA InitMeant == ASSUME Init PROVE Meant
<1>1. Ents = {} /\ told = {} /\ gHandleTable = << >> /\ mainThread = 0
  BY DEF Init, HandleInit, Ents, Size
<1> QED BY <1>1 DEF Meant, Told, Single, Backed, OnlyPromised, SameId, Base, Domains,
                       KnownDomains, Launched

\* Every step keeps every promise.
LEMMA StepMeant == ASSUME TInv, Meant, [Next]_vars PROVE Meant'
<1>1. /\ IsObject(Object("THREAD", "thread")) /\ ~Object("THREAD", "thread").isDomain
      /\ IsObject(Object("TRANSFER_MEM", "transferMemory"))
      /\ ~Object("TRANSFER_MEM", "transferMemory").isDomain
  BY NewObjects DEF KTypes
<1>2. Guest => gCurrentProcess # 0 /\ gCurrentProcess' = gCurrentProcess /\ mainThread' = mainThread
  BY DEF Guest, Running, Meant, Launched
<1>3. ASSUME UNCHANGED <<handleVars, gCurrentProcess, mainThread, told, shared>> PROVE Meant'
  <2>1. Ents' = Ents /\ PromisedIds' = PromisedIds
    BY <1>3 DEF Ents, Ent, Pointer, Size, handleVars, PromisedIds
  <2> QED BY <1>3, <2>1 DEF Meant, Told, Single, Backed, OnlyPromised, SameId, Base, Domains,
                            KnownDomains, Launched, handleVars
<1>4. CASE launchGameCart
  BY <1>4, LaunchMeant
<1>5. CASE cpuEntry
  BY <1>1, <1>5, MakeMeant DEF cpuEntry
<1>6. ASSUME NEW name \in DOMAIN gNamedPorts \cup {"unknown"}, svcConnectToPort(name) PROVE Meant'
  <2>1. CASE name \in DOMAIN gNamedPorts /\ Make(Session(gNamedPorts[name]), 0)
    <3>1. IsObject(Session(gNamedPorts[name])) /\ ~Session(gNamedPorts[name]).isDomain
      BY <2>1, KnownServices, NewObjects
    <3> QED BY <1>2, <1>6, <2>1, <3>1, MakeMeant DEF svcConnectToPort
  <2>2. CASE UNCHANGED <<handleVars, told, shared>>
    BY <1>2, <1>3, <1>6, <2>2 DEF svcConnectToPort
  <2> QED BY <1>6, <2>1, <2>2 DEF svcConnectToPort
<1>7. CASE svcSendSyncRequest
  <2>1. PICK send \in ToSessions \cup ToDomains \cup ControlSends \cup ToClosed :
           doIpcCall(send.handle, send.request, send.interface)
    BY <1>7 DEF svcSendSyncRequest
  <2> QED BY <1>7, <2>1, SendsToSessions, CallMeant DEF svcSendSyncRequest
<1>8. CASE ReadReply
  BY <1>3, <1>8 DEF ReadReply
<1>9. CASE CloseObject
  BY <1>9, CloseObjectMeant
<1>10. CASE svcCloseHandle
  BY <1>10, CloseMeant
<1>11. CASE svcCreateTransferMemory
  BY <1>1, <1>2, <1>11, MakeMeant DEF svcCreateTransferMemory
<1>12. CASE UNCHANGED vars
  BY <1>3, <1>12 DEF vars, ipcVars
<1> QED BY <1>4, <1>5, <1>6, <1>7, <1>8, <1>9, <1>10, <1>11, <1>12 DEF Next

\* The invariant says what HandlesKeepTheirMeaning does.
LEMMA MeantMeans == ASSUME TInv, Meant PROVE HandlesKeepTheirMeaning
<1>1. ASSUME NEW p \in told, handleId(p.id) \notin shared
      PROVE  /\ lookupObject(p.id).of = p.of
             /\ \E e \in Ents : e.id = handleId(p.id) /\ e.object = lookupObject(p.id)
  <2>1. PICK e \in Ents : e.id = handleId(p.id) /\ e.object.of = p.of
    BY <1>1 DEF Meant, Backed
  <2>2. EntriesOf(p.id) # {}
    BY <2>1, NoEntry
  <2>3. PICK f \in Ents : f.id = handleId(p.id) /\ f.object = lookupObject(p.id)
    BY <2>2, EntsFirst
  <2>4. e = f
    BY <1>1, <2>1, <2>3 DEF Meant, Single
  <2> QED BY <2>1, <2>3, <2>4
<1>2. ASSUME NEW p \in told, p.via # 0, handleId(p.via) \notin shared
      PROVE  lookupObject(p.via).isDomain
  <2>1. PICK b \in told : b.id = p.via
    BY <1>2 DEF Meant, Base
  <2>2. PICK e \in Ents : e.id = handleId(p.via) /\ e.object = lookupObject(p.via)
    BY <1>1, <1>2, <2>1
  <2> QED BY <1>2, <2>2 DEF Meant, Domains
<1> QED BY <1>1, <1>2 DEF HandlesKeepTheirMeaning

\* What the game was told stays so.
LEMMA MeantInvariant == Spec => []Meant
<1>1. Init => Meant
  BY InitMeant
<1>2. TInv /\ Meant /\ [Next]_vars => Meant'
  BY StepMeant
<1> QED BY <1>1, <1>2, TableInvariant, PTL DEF Spec

\* A handle or object id a reply gave to the game stands for what the reply was about until
\* the game closes it, as long as the id was not given out again or left open by a domain
\* (createHandle, closeHandle, doIpcCall), for any number of handles and games.
THEOREM HandlesMean == Spec => []HandlesKeepTheirMeaning
<1>1. TInv /\ Meant => HandlesKeepTheirMeaning
  BY MeantMeans
<1> QED BY <1>1, MeantInvariant, TableInvariant, PTL

----------------------------------------------------------------------------
(* Requests and replies.  A request reaches the session or object the game *)
(* means because of what the game was told (Meant); what it carries is     *)
(* read back because of the layout of messages (MessageProofs).            *)

\* The fields of a request.
LEMMA RequestFields ==
  ASSUME NEW type, NEW cmdId, NEW param, NEW shape, NEW args
  PROVE  LET r == Request(type, cmdId, param, shape, args)
         IN  /\ r.type = type /\ r.cmdId = cmdId /\ r.domainCmd = 0 /\ r.object = 0
             /\ r.args = args /\ r.shape = shape
BY DEF Request

\* The fields of a request to an object of a domain.
LEMMA OnDomainFields ==
  ASSUME NEW type, NEW cmdId, NEW param, NEW shape, NEW args, NEW domainCmd, NEW object
  PROVE  LET r == OnDomain(Request(type, cmdId, param, shape, args), domainCmd, object)
         IN  /\ r.type = type /\ r.cmdId = cmdId /\ r.domainCmd = domainCmd /\ r.object = object
             /\ r.args = args /\ r.shape = shape
BY DEF Request, OnDomain

\* The smallest descriptors are descriptors.
LEMMA SmallDescriptors == StaticBuffer \in StaticDescriptors /\ Buffer \in BufferDescriptors
<1>1. 2 \in 0 .. Bit16 - 1
  BY SMT DEF Bit16
<1>2. StaticBuffer \in StaticDescriptors
  BY <1>1 DEF StaticBuffer, StaticDescriptors
<1>3. Buffer \in BufferDescriptors
  BY DEF Buffer, BufferDescriptors
<1> QED BY <1>2, <1>3

\* The empty shape is one.
LEMMA NoShape == IsShape(EmptyShape)
<1>1. PICK e : e = << >>
  OBVIOUS
<1>2. /\ e \in Seq(Nat) /\ e \in Seq(StaticDescriptors) /\ e \in Seq(BufferDescriptors)
  BY <1>1
<1>3. EmptyShape = [pid |-> FALSE, copied |-> e, moved |-> e, X |-> e, A |-> e, B |-> e, W |-> e,
                    C |-> e, single |-> FALSE]
  BY <1>1 DEF EmptyShape
<1> QED BY <1>2, <1>3 DEF IsShape

\* The descriptors a function reads are added to a shape where it has none.
LEMMA CompletedShape ==
  ASSUME NEW needs, NEW s, IsShape(s)
  PROVE  IsShape(Completed(needs, s))
<1>1. /\ s = [pid |-> s.pid, copied |-> s.copied, moved |-> s.moved, X |-> s.X, A |-> s.A,
              B |-> s.B, W |-> s.W, C |-> s.C, single |-> s.single]
      /\ s.pid \in BOOLEAN /\ s.copied \in Seq(Nat) /\ s.moved \in Seq(Nat)
      /\ s.X \in Seq(StaticDescriptors) /\ s.A \in Seq(BufferDescriptors)
      /\ s.B \in Seq(BufferDescriptors) /\ s.W \in Seq(BufferDescriptors)
      /\ s.C \in Seq(StaticDescriptors) /\ s.single \in BOOLEAN
  BY DEF IsShape
<1>2. s.single => Len(s.C) = 1
  BY DEF IsShape
<1>3. <<StaticBuffer>> \in Seq(StaticDescriptors) /\ <<Buffer>> \in Seq(BufferDescriptors)
  BY SmallDescriptors
<1>4. PICK x \in Seq(StaticDescriptors) : x = IF "X" \in needs /\ s.X = << >> THEN <<StaticBuffer>> ELSE s.X
  BY <1>1, <1>3
<1>5. PICK a \in Seq(BufferDescriptors) : a = IF "A" \in needs /\ s.A = << >> THEN <<Buffer>> ELSE s.A
  BY <1>1, <1>3
<1>6. PICK b \in Seq(BufferDescriptors) : b = IF "B" \in needs /\ s.B = << >> THEN <<Buffer>> ELSE s.B
  BY <1>1, <1>3
<1>7. PICK c \in Seq(StaticDescriptors) : c = IF "C" \in needs /\ s.C = << >> THEN <<StaticBuffer>> ELSE s.C
  BY <1>1, <1>3
<1>8. s.single => Len(c) = 1
  <2>1. s.C = << >> => Len(s.C) # 1
    BY <1>1
  <2>2. s.C # << >> => c = s.C
    BY <1>7
  <2> QED BY <1>2, <2>1, <2>2, Zenon
<1>9. Completed(needs, s) = [s EXCEPT !.X = x, !.A = a, !.B = b, !.C = c]
  BY <1>4, <1>5, <1>6, <1>7 DEF Completed
<1>10. Completed(needs, s) =
         [pid |-> s.pid, copied |-> s.copied, moved |-> s.moved, X |-> x, A |-> a, B |-> b,
          W |-> s.W, C |-> c, single |-> s.single]
  BY <1>1, <1>9
<1> QED BY <1>1, <1>8, <1>10 DEF IsShape

\* What a request carries has a shape, and its arguments are words.
LEMMA CarriedFacts ==
  ASSUME NEW payload \in Carried
  PROVE  IsShape(payload.shape) /\ payload.args \in Seq(Nat)
<1>1. CASE payload \in Payloads
  BY <1>1, PayloadsAssumption
<1>2. CASE payload = Plain
  <2>1. <<61, 62>> \in Seq(Nat)
    OBVIOUS
  <2>2. payload.shape = EmptyShape /\ payload.args = <<61, 62>>
    BY <1>2 DEF Plain
  <2>3. IsShape(payload.shape)
    BY <2>2, NoShape, Zenon
  <2>4. payload.args \in Seq(Nat)
    BY <2>1, <2>2, Zenon
  <2> QED BY <2>3, <2>4
<1> QED BY <1>1, <1>2 DEF Carried

\* A request of a type, with a shape and arguments.
Carries(r, type) ==
    \E id \in Nat : \E param, shape, args :
        r = Request(type, id, param, shape, args) /\ IsShape(shape) /\ args \in Seq(Nat)

\* What carries a payload does, and so does what is completed for a function.
LEMMA RequestsCarry ==
  ASSUME NEW type, NEW id \in Nat
  PROVE  /\ \A r \in Requests(type, id) : Carries(r, type)
         /\ \A needs, param : \A payload \in Carried :
              Carries(Request(type, id, param, Completed(needs, payload.shape), payload.args), type)
<1>1. ASSUME NEW r \in Requests(type, id) PROVE Carries(r, type)
  <2>1. PICK payload \in Carried : r = Request(type, id, NoParam, payload.shape, payload.args)
    BY DEF Requests
  <2>2. IsShape(payload.shape) /\ payload.args \in Seq(Nat)
    BY CarriedFacts, Zenon
  <2> QED BY <2>1, <2>2 DEF Carries
<1>2. ASSUME NEW needs, NEW param, NEW payload \in Carried
      PROVE  Carries(Request(type, id, param, Completed(needs, payload.shape), payload.args), type)
  <2>1. IsShape(payload.shape) /\ payload.args \in Seq(Nat)
    BY CarriedFacts, Zenon
  <2>2. IsShape(Completed(needs, payload.shape))
    BY <2>1, CompletedShape, Zenon
  <2> QED BY <2>1, <2>2 DEF Carries
<1> QED BY <1>1, <1>2

\* What a game asks of an interface are requests of type 4.
LEMMA FunctionRequestFacts ==
  ASSUME NEW interface \in DOMAIN Interfaces, NEW r \in FunctionRequests(interface)
  PROVE  Carries(r, 4)
<1>1. CASE r \in Requests(4, UnknownCommand)
  <2>1. UnknownCommand \in Nat
    BY SMT DEF UnknownCommand
  <2> QED BY <1>1, <2>1, RequestsCarry, Zenon
<1>2. CASE r \notin Requests(4, UnknownCommand)
  <2>1. PICK id \in Representatives(interface) :
          \E param \in Params(FindFunction(interface, id)), payload \in Carried :
             r = Request(4, id, param, Completed(FindFunction(interface, id).needs, payload.shape),
                         payload.args)
    BY <1>2 DEF FunctionRequests
  <2>2. id \in Nat
    BY CommandFacts DEF Representatives
  <2> QED BY <2>1, <2>2, RequestsCarry, Zenon
<1> QED BY <1>1, <1>2

\* A request of words and a shape.
LEMMA RequestOf ==
  ASSUME NEW r, r.domainCmd \in Nat, r.object \in Nat, r.cmdId \in Nat, r.args \in Seq(Nat),
         IsShape(r.shape)
  PROVE  IsRequest(r)
BY DEF IsRequest

\* What a game packs is one.
LEMMA PackedRequest ==
  ASSUME NEW r, NEW type, Carries(r, type)
  PROVE  r.type = type /\ r.domainCmd = 0 /\ IsRequest(r)
<1>1. PICK cmdId \in Nat : \E param, shape, args :
        r = Request(type, cmdId, param, shape, args) /\ IsShape(shape) /\ args \in Seq(Nat)
  BY DEF Carries
<1>2. PICK param, shape, args :
        r = Request(type, cmdId, param, shape, args) /\ IsShape(shape) /\ args \in Seq(Nat)
  BY <1>1
<1>3. /\ r.type = type /\ r.domainCmd = 0 /\ r.object = 0 /\ r.cmdId = cmdId
      /\ r.args = args /\ r.shape = shape
  BY <1>2, RequestFields
<1>4. 0 \in Nat
  OBVIOUS
<1>5. IsRequest(r)
  BY <1>2, <1>3, <1>4, RequestOf, Zenon
<1> QED BY <1>3, <1>5

\* So is what it packs for an object of a domain.
LEMMA PackedOnDomain ==
  ASSUME NEW r, NEW type, Carries(r, type), NEW domainCmd \in Nat, NEW object \in Nat,
         NEW d, d = OnDomain(r, domainCmd, object)
  PROVE  d.type = type /\ d.domainCmd = domainCmd /\ d.object = object /\ IsRequest(d)
<1>1. PICK cmdId \in Nat : \E param, shape, args :
        r = Request(type, cmdId, param, shape, args) /\ IsShape(shape) /\ args \in Seq(Nat)
  BY DEF Carries
<1>2. PICK param, shape, args :
        r = Request(type, cmdId, param, shape, args) /\ IsShape(shape) /\ args \in Seq(Nat)
  BY <1>1
<1>3. /\ d.type = type /\ d.domainCmd = domainCmd /\ d.object = object /\ d.cmdId = cmdId
      /\ d.args = args /\ d.shape = shape
  BY <1>2, OnDomainFields
<1>4. IsRequest(d)
  BY <1>2, <1>3, RequestOf, Zenon
<1> QED BY <1>3, <1>4

\* A request that a game sends has the layout of one, and the interface the game means is the
\* one it reaches, as long as its ids are not shared: the game takes a session for a domain
\* exactly when it is one.
Unshared(handle, request) ==
    /\ handleId(handle) \notin shared
    /\ request.domainCmd # 0 => handleId(request.object) \notin shared

Reaches(handle, request, interface) ==
    /\ handle \in Nat /\ IsRequest(request)
    /\ request.type = 5 => request.domainCmd = 0
    /\ Unshared(handle, request) =>
         /\ request.type # 5 => (lookupObject(handle).isDomain <=> request.domainCmd # 0)
         /\ interface = IF request.domainCmd # 0 THEN lookupObject(request.object).of
                                                 ELSE lookupObject(handle).of

\* Every request a game sends to what it has does so.
LEMMA SendReaches ==
  ASSUME TInv, Meant, NEW send \in ToSessions \cup ToDomains \cup ControlSends
  PROVE  Reaches(send.handle, send.request, send.interface)
<1>1. \A handle, request, interface :
        /\ Send(handle, request, interface).handle = handle
        /\ Send(handle, request, interface).request = request
        /\ Send(handle, request, interface).interface = interface
  BY DEF Send
<1>2. \A p \in told : p.id \in Nat /\ (handleId(p.id) \notin shared => lookupObject(p.id).of = p.of)
  BY MeantMeans DEF Meant, Told, HandlesKeepTheirMeaning
<1>3. ASSUME NEW p \in told, ObjectsOn(p.id) = {}, handleId(p.id) \notin shared
      PROVE  ~lookupObject(p.id).isDomain
  <2>1. PICK d \in Ents : d.id = handleId(p.id)
    BY <1>3 DEF Meant, Backed
  <2>2. PICK e \in Ents : e.id = handleId(p.id) /\ e.object = lookupObject(p.id)
    BY <2>1, NoEntry, EntsFirst
  <2>3. SUFFICES ASSUME e.object.isDomain PROVE FALSE
    BY <2>2
  <2>4. PICK q \in told : q.via = q.id /\ handleId(q.id) = e.id
    BY <1>3, <2>2, <2>3 DEF Meant, KnownDomains
  <2>5. q.id = p.id
    BY <1>3, <2>2, <2>4 DEF Meant, SameId
  <2> QED BY <1>3, <2>4, <2>5 DEF ObjectsOn
<1>4. CASE send \in ToSessions
  <2>1. PICK p \in told : /\ p.of \in DOMAIN Interfaces /\ ObjectsOn(p.id) = {}
                          /\ \E r \in FunctionRequests(p.of) \cup Requests(2, 0) :
                                send = Send(p.id, r, p.of)
    BY <1>4 DEF ToSessions, Sessions, Handles, IsSession
  <2>2. PICK r \in FunctionRequests(p.of) \cup Requests(2, 0) : send = Send(p.id, r, p.of)
    BY <2>1
  <2>3. PICK type \in {2, 4} : Carries(r, type)
    <3>1. 0 \in Nat
      OBVIOUS
    <3> QED BY <2>1, <2>2, <3>1, FunctionRequestFacts, RequestsCarry, Zenon
  <2>4. r.type # 5 /\ r.domainCmd = 0 /\ IsRequest(r)
    <3>1. r.type = type /\ r.domainCmd = 0 /\ IsRequest(r)
      BY <2>3, PackedRequest, Zenon
    <3> QED BY <3>1
  <2>5. send.handle = p.id /\ send.request = r /\ send.interface = p.of
    BY <1>1, <2>2
  <2> QED BY <1>2, <1>3, <2>1, <2>4, <2>5 DEF Reaches, Unshared
<1>5. CASE send \in ToDomains
  <2>1. PICK q \in told : /\ q.via # 0
                          /\ \E r \in FunctionRequests(q.of) \cup Requests(4, 0) :
                             \E cmd \in {1, 3} : send = Send(q.via, OnDomain(r, cmd, q.id), q.of)
    BY <1>5 DEF ToDomains
  <2>2. PICK r \in FunctionRequests(q.of) \cup Requests(4, 0), cmd \in {1, 3} :
          send = Send(q.via, OnDomain(r, cmd, q.id), q.of)
    BY <2>1
  <2>3. q.of \in DOMAIN Interfaces /\ q.via \in Nat
    BY <1>2, <2>1 DEF Meant, Told, Base
  <2>4. Carries(r, 4)
    <3>1. 0 \in Nat
      OBVIOUS
    <3> QED BY <2>2, <2>3, <3>1, FunctionRequestFacts, RequestsCarry, Zenon
  <2>5. PICK d : d = OnDomain(r, cmd, q.id)
    OBVIOUS
  <2>6. /\ d.type = 4 /\ d.domainCmd = cmd /\ d.object = q.id /\ IsRequest(d)
    <3>1. cmd \in Nat /\ q.id \in Nat
      BY <1>2
    <3> QED BY <2>4, <2>5, <3>1, PackedOnDomain
  <2>7. send.handle = q.via /\ send.request = d /\ send.interface = q.of
    BY <1>1, <2>2, <2>5
  <2>8. Unshared(send.handle, d) => lookupObject(q.via).isDomain /\ lookupObject(q.id).of = q.of
    BY <2>1, <2>6, <2>7, MeantMeans DEF Unshared, HandlesKeepTheirMeaning
  <2> QED BY <2>3, <2>6, <2>7, <2>8 DEF Reaches
<1>6. CASE send \in ControlSends
  <2>1. PICK p \in told, r \in ControlRequests : send = Send(p.id, r, p.of)
    BY <1>6 DEF ControlSends, Sessions, Handles
  <2>2. Carries(r, 5)
    <3>1. PICK id \in {0, 2, 3, 4, 9} : r \in Requests(5, id)
      BY <2>1 DEF ControlRequests
    <3>2. id \in Nat
      OBVIOUS
    <3> QED BY <3>1, <3>2, RequestsCarry, Zenon
  <2>3. r.type = 5 /\ r.domainCmd = 0 /\ IsRequest(r)
    BY <2>2, PackedRequest, Zenon
  <2>4. send.handle = p.id /\ send.request = r /\ send.interface = p.of
    BY <1>1, <2>1
  <2> QED BY <1>2, <2>3, <2>4 DEF Reaches, Unshared
<1> QED BY <1>4, <1>5, <1>6

\* A request that is answered is read as the game means it by the interface the game means,
\* and the game reads the answer.
LEMMA RequestArrives ==
  ASSUME TInv, NEW handle, NEW request, NEW interface,
         Reaches(handle, request, interface), Unshared(handle, request),
         lookupObject(handle).type = "INTERFACE",
         request.type = 5 => ~lookupObject(handle).isDomain,
         \A k \in DOMAIN request.shape.C : request.shape.C[k].high = 0,
         NEW parsed, parsed = Parse(Pack(request)),
         NEW info, info = ParseRaw(Pack(request), parsed.offset, lookupObject(handle).isDomain),
         NEW does, does = Dispatch(handle, lookupObject(handle), Pack(request), info, request.param),
         does.answers
  PROVE  /\ parsed.shape = Meaning(request, interface).shape
         /\ info.cmdId = request.cmdId
         /\ SubSeq(info.argData, 1, Len(request.args)) = request.args
         /\ does.reached = interface
         /\ Unpack(Construct(lookupObject(handle).isDomain, does.answer), request.domainCmd # 0,
                   Len(does.answer.data)) = does.answer
<1>1. PICK isDomain : isDomain = lookupObject(handle).isDomain
  OBVIOUS
<1>2. /\ handle \in Nat /\ IsRequest(request)
      /\ request.type = 5 => request.domainCmd = 0
      /\ request.type # 5 => (isDomain <=> request.domainCmd # 0)
      /\ interface = IF request.domainCmd # 0 THEN lookupObject(request.object).of
                                              ELSE lookupObject(handle).of
  BY <1>1 DEF Reaches
<1>3. /\ isDomain \in BOOLEAN /\ gHandleCounter \in Nat /\ lookupObject(handle).of \in DOMAIN Interfaces
      /\ lookupObject(info.object).type = "INTERFACE" => lookupObject(info.object).of \in DOMAIN Interfaces
  BY <1>1, Looked
<1>4. isDomain = (request.domainCmd # 0) /\ ((isDomain /\ request.type # 5) <=> request.domainCmd # 0)
  BY <1>1, <1>2, <1>3
<1>5. /\ parsed.shape = [request.shape EXCEPT !.copied = [k \in DOMAIN @ |-> Handle(@[k])]]
      /\ parsed.offset = Len(Header(request.shape)) + Padding(request.shape)
  BY <1>2, ParseReads
<1>6. parsed.shape = Meaning(request, interface).shape
  BY <1>5 DEF Meaning, Handle
<1>7. /\ info.domain <=> request.domainCmd # 0
      /\ request.domainCmd # 0 => info.object = request.object
      /\ info.cmdId = request.cmdId
      /\ SubSeq(info.argData, 1, Len(request.args)) = request.args
  BY <1>1, <1>2, <1>4, <1>5, RawReads
<1>8. Dispatched(does, handle, lookupObject(handle), info)
  BY <1>3, DispatchMakes
<1>9. IsAnswer(does.answer) /\ does.reached = interface
  BY <1>2, <1>7, <1>8 DEF Dispatched
<1>10. Unpack(Construct(isDomain, does.answer), isDomain, Len(does.answer.data)) = does.answer
  BY <1>3, <1>9, ReplyRead
<1> QED BY <1>1, <1>4, <1>6, <1>7, <1>9, <1>10

\* What MessagesArrive says of a call.
Arrived(c) ==
    (/\ c.kind = "answered" /\ c.unambiguous
     /\ \A k \in DOMAIN c.sent.shape.C : c.sent.shape.C[k].high = 0)
        => c.got = c.sent /\ c.read = c.answered

\* Whatever a game sends arrives, and so does the reply.
LEMMA CallArrives ==
  ASSUME TInv, Meant, MessagesArrive,
         NEW send \in ToSessions \cup ToDomains \cup ControlSends \cup ToClosed,
         doIpcCall(send.handle, send.request, send.interface)
  PROVE  MessagesArrive'
<1>1. PICK handle, request, interface :
        handle = send.handle /\ request = send.request /\ interface = send.interface
  OBVIOUS
<1>2. CASE call' = call
  BY <1>2 DEF MessagesArrive
<1>3. CASE /\ lookupObject(handle).type = "INTERFACE"
           /\ \E msg, parsed, info, does :
                /\ msg = Pack(request) /\ parsed = Parse(msg)
                /\ info = ParseRaw(msg, parsed.offset, lookupObject(handle).isDomain)
                /\ does = Dispatch(handle, lookupObject(handle), msg, info, request.param)
                /\ does.answers /\ Reply(handle, request, interface, msg, parsed, info, does)
  <2>1. PICK msg, parsed, info, does :
                /\ msg = Pack(request) /\ parsed = Parse(msg)
                /\ info = ParseRaw(msg, parsed.offset, lookupObject(handle).isDomain)
                /\ does = Dispatch(handle, lookupObject(handle), msg, info, request.param)
                /\ does.answers /\ Reply(handle, request, interface, msg, parsed, info, does)
    BY <1>3
  <2>2. PICK c : c = call'
    OBVIOUS
  <2>3. SUFFICES Arrived(c)
    BY <2>2 DEF Arrived, MessagesArrive
  <2>4. SUFFICES ASSUME c.kind = "answered", c.unambiguous,
                        \A k \in DOMAIN c.sent.shape.C : c.sent.shape.C[k].high = 0
                 PROVE  c.got = c.sent /\ c.read = c.answered
    BY DEF Arrived
  <2>5. PICK m : m = Meaning(request, interface)
    OBVIOUS
  <2>6. PICK back : back = Unpack(Construct(lookupObject(handle).isDomain, does.answer),
                                  request.domainCmd # 0, Len(does.answer.data))
    OBVIOUS
  <2>7. PICK kind : kind = IF msg.type = 5 /\ lookupObject(handle).isDomain THEN "controlOnDomain"
                                                                            ELSE "answered"
    OBVIOUS
  <2>8. c = [kind |-> kind, unambiguous |-> Unshared(handle, request), sent |-> m,
             got |-> [shape |-> parsed.shape, cmdId |-> info.cmdId,
                      args |-> SubSeq(info.argData, 1, Len(request.args)),
                      interface |-> does.reached],
             answered |-> does.answer, read |-> back]
    BY <2>1, <2>2, <2>5, <2>6, <2>7 DEF Reply, Unshared
  <2>9. /\ c.kind = kind /\ c.unambiguous = Unshared(handle, request) /\ c.sent = m
        /\ c.got = [shape |-> parsed.shape, cmdId |-> info.cmdId,
                    args |-> SubSeq(info.argData, 1, Len(request.args)),
                    interface |-> does.reached]
        /\ c.answered = does.answer /\ c.read = back
    BY <2>8
  <2>10. EntriesOf(handle) # {}
    BY <1>3, Looked
  <2>11. Reaches(handle, request, interface)
    <3>1. send \notin ToClosed
      BY <1>1, <2>10 DEF ToClosed, Send
    <3> QED BY <1>1, <3>1, SendReaches
  <2>12. Unshared(handle, request)
    BY <2>4, <2>9
  <2>13. request.type = 5 => ~lookupObject(handle).isDomain
    BY <2>1, <2>4, <2>7, <2>9, PackFields
  <2>14. /\ m.shape = [request.shape EXCEPT !.copied = [k \in DOMAIN @ |-> Handle(@[k])]]
         /\ m.cmdId = request.cmdId /\ m.args = request.args /\ m.interface = interface
         /\ m = [shape |-> m.shape, cmdId |-> m.cmdId, args |-> m.args, interface |-> m.interface]
    BY <2>5 DEF Meaning, Handle
  <2>15. \A k \in DOMAIN request.shape.C : request.shape.C[k].high = 0
    <3>1. m.shape.C = request.shape.C
      BY <2>11, <2>14 DEF Reaches, IsRequest, IsShape
    <3> QED BY <2>4, <2>9, <3>1
  <2>16. /\ parsed.shape = m.shape /\ info.cmdId = request.cmdId
         /\ SubSeq(info.argData, 1, Len(request.args)) = request.args
         /\ does.reached = interface /\ back = does.answer
    BY <1>3, <2>1, <2>5, <2>6, <2>11, <2>12, <2>13, <2>15, RequestArrives
  <2> QED BY <2>9, <2>14, <2>16
<1> QED BY <1>1, <1>2, <1>3 DEF doIpcCall

\* What a request carries arrives at the function of the interface the game meant, and the
\* game finds the answer where it looks for it (doIpcCall, construct): for every shape of a
\* request, every number of handles and every game.  Not covered are C descriptors above
\* 4 GB, whose upper address the code drops (ipc.cpp:168), control requests on a domain,
\* and requests sent to an id that was given out twice.
THEOREM RequestsArrive == Spec => []MessagesArrive
<1>1. NoCall.kind # "answered"
  BY DEF NoCall
<1>2. Init => MessagesArrive
  BY <1>1 DEF Init, MessagesArrive
<1>3. TInv /\ Meant /\ MessagesArrive /\ [Next]_vars => MessagesArrive'
  <2> SUFFICES ASSUME TInv, Meant, MessagesArrive, [Next]_vars PROVE MessagesArrive'
    OBVIOUS
  <2>1. CASE call' = call \/ call' = NoCall
    BY <1>1, <2>1 DEF MessagesArrive
  <2>2. CASE svcSendSyncRequest
    BY <2>2, CallArrives DEF svcSendSyncRequest
  <2> QED BY <2>1, <2>2 DEF Next, vars, ipcVars, launchGameCart, cpuEntry, svcConnectToPort,
                            ReadReply, CloseObject, svcCloseHandle, svcCreateTransferMemory
<1> QED BY <1>2, <1>3, TableInvariant, MeantInvariant, PTL DEF Spec

=============================================================================
