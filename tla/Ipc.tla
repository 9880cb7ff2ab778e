--------------------------------- MODULE Ipc ---------------------------------
(***************************************************************************)
(* Inter-process communication (hle/ipc.cpp, hle/service.cpp and the       *)
(* system calls that reach them): the game packs a request into its        *)
(* message buffer, svcSendSyncRequest unpacks it, finds the interface the  *)
(* handle (or, on a domain, the object id) names, calls the function with  *)
(* the request's command id and packs the reply over the request.          *)
(*                                                                         *)
(* A message is its three header words, as a record, and the sequence of   *)
(* its 32-bit words; words are small numbers.  The game is the one the     *)
(* code is written for: it uses handles it was given (or has closed),      *)
(* sends the descriptors the function reads, and finds things in a reply   *)
(* where the SDK looks for them.                                           *)
(***************************************************************************)
EXTENDS HandleManager, Services, Devices

CONSTANTS Games,        \* the service names a game uses: a set of sets
          FakeHandle,   \* 0x12345678, 0x1234, 0x1357, 0x4321: handles of no object
          Payloads,     \* what its requests carry: handles, descriptors and arguments
          PayloadBound  \* while the handles are fewer it sends them all

ASSUME IpcAssumption == FakeHandle \in Nat \ {0}

VARIABLES gCurrentProcess,  \* handle of the process, 0 before the game is launched
          mainThread,       \* handle of the main thread, 0 before core 0 makes it
          game,             \* the services this game uses
          told,             \* what the game was told its handles stand for
          shared,           \* the ids that were given out twice, or given up and left open
          call              \* the last request and its reply, on both sides

ipcVars == <<gCurrentProcess, mainThread, game, told, shared, call>>
vars == <<handleVars, ipcVars>>

----------------------------------------------------------------------------
(* Messages.  Lengths and offsets count 32-bit words.                      *)

SFCI == 900     \* the magic of a request
SFCO == 901     \* the magic of a reply
PID  == 777     \* the process id a game puts in a request
CURRENT_PROCESS == 801
CURRENT_THREAD  == 800

Zeros(n) == [k \in 1 .. n |-> 0]
PadTo4(n) == (4 - (n % 4)) % 4

\* The bits of a word from the one of value unit on, for a field of that many values.
bitRange(word, unit, values) == (word \div unit) % values
Bit6 == 64
Bit12 == 4096
Bit16 == 65536
Bit24 == 16777216
Bit28 == 268435456

\* An address is its low word and bits 32 to 38.  The X and C descriptors have a size of
\* 16 bits, the A, B and W descriptors one of 36 bits, which is split like the address,
\* and flags.
StaticDescriptors == [low : Nat, high : 0 .. 127, size : 0 .. Bit16 - 1]
BufferDescriptors == [low : Nat, high : 0 .. 127, size : Nat, sizeHigh : 0 .. 15, flags : 0 .. 3]

\* The handles and descriptors of a request; one C descriptor has two encodings.
IsShape(s) ==
    /\ s \in [pid : BOOLEAN, copied : Seq(Nat), moved : Seq(Nat), X : Seq(StaticDescriptors),
              A : Seq(BufferDescriptors), B : Seq(BufferDescriptors), W : Seq(BufferDescriptors),
              C : Seq(StaticDescriptors), single : BOOLEAN]
    /\ s.single => Len(s.C) = 1

ASSUME PayloadsAssumption ==
    \A payload \in Payloads : IsShape(payload.shape) /\ payload.args \in Seq(Nat)

Word(words, k) == IF k < Len(words) THEN words[k + 1] ELSE 0

\* How a game packs a descriptor: X in two words, A, B and W in three, C in two.
\* X: size in bits 16 to 31, address in bits 12 to 15 and 6 to 8, in the rest a counter,
\* which the code does not read (ipc.cpp:78).
\* A, B, W: address in bits 28 to 31 and 2 to 4, size in bits 24 to 27, flags in 0 and 1.
Counter == 5
PackX(d) == <<d.size * Bit16 + (d.high % 16) * Bit12 + (d.high \div 16) * Bit6 + Counter, d.low>>
PackABW(d) ==
    <<d.size, d.low,
      (d.high % 16) * Bit28 + d.sizeHigh * Bit24 + (d.high \div 16) * 4 + d.flags>>
PackC(d) == <<d.low, d.size * Bit16 + d.high>>

\* Descriptors one after the other, each in n words.
Packed(n, Words(_), descriptors) ==
    [j \in 1 .. n * Len(descriptors) |->
        Words(descriptors[((j - 1) \div n) + 1])[((j - 1) % n) + 1]]

\* A game's request.  The raw data has four words of padding in all, so that its
\* payload is aligned, and the sizes of the C buffers, two to a word, at its end.
Pack(request) ==
    LET s == request.shape
        handles == s.pid \/ s.copied # << >> \/ s.moved # << >>
        head == <<0, 0>> \o (IF handles THEN <<0>> ELSE << >>)
                         \o (IF s.pid THEN <<PID, 0>> ELSE << >>) \o s.copied \o s.moved
                         \o Packed(2, PackX, s.X) \o Packed(3, PackABW, s.A)
                         \o Packed(3, PackABW, s.B) \o Packed(3, PackABW, s.W)
        pad == PadTo4(Len(head))
        raw == Zeros(pad)
               \o (IF request.domainCmd # 0 THEN <<request.domainCmd, request.object, 0, 0>>
                                            ELSE << >>)
               \o <<SFCI, 0, request.cmdId, 0>> \o request.args
               \o Zeros(4 - pad) \o Zeros((Len(s.C) + 1) \div 2)
    IN  [type |-> request.type, numStaticIn |-> Len(s.X), numSend |-> Len(s.A),
         numRecv |-> Len(s.B), numTrans |-> Len(s.W), wordCount |-> Len(raw),
         cFlags |-> IF s.C = << >> THEN 0 ELSE IF s.single THEN 2 ELSE 2 + Len(s.C),
         handleDescriptor |-> handles, sendPid |-> s.pid,
         copy |-> Len(s.copied), move |-> Len(s.moved),
         words |-> head \o raw \o Packed(2, PackC, s.C)]

\* What the game means by its request.
Meaning(request, interface) ==
    [shape |-> [request.shape EXCEPT !.copied =
                  [k \in DOMAIN @ |-> CASE @[k] = CURRENT_PROCESS -> gCurrentProcess
                                        [] @[k] = CURRENT_THREAD -> mainThread
                                        [] OTHER -> @[k]]],
     cmdId |-> request.cmdId, args |-> request.args, interface |-> interface]

----------------------------------------------------------------------------
(* doIpcCall.                                                              *)

\* The handles a request carries; the pseudo handles stand for the caller's own.
CopiedHandles(msg, offset) ==
    [k \in 1 .. msg.copy |->
        LET copiedHandle == Word(msg.words, offset + k - 1)
        IN  IF copiedHandle = CURRENT_PROCESS THEN gCurrentProcess
            ELSE IF copiedHandle = CURRENT_THREAD THEN mainThread
            ELSE copiedHandle]

MovedHandles(msg, offset) == [k \in 1 .. msg.move |-> Word(msg.words, offset + k - 1)]

StaticInDescriptors(msg, offset) ==
    [k \in 1 .. msg.numStaticIn |->
        LET descWord0 == Word(msg.words, offset + 2 * (k - 1))
            descWord1 == Word(msg.words, offset + 2 * (k - 1) + 1)
        IN  [low  |-> descWord1,
             high |-> bitRange(descWord0, Bit12, 16) + 16 * bitRange(descWord0, Bit6, 8),
             size |-> bitRange(descWord0, Bit16, Bit16)]]

\* SendDescriptor, RecvDescriptor and TransDescriptor are the same structure.  (Mutant:
\* the fields of the third word one after the other.)
MutantRegularDescriptors(msg, count, offset) ==
    [k \in 1 .. count |->
        LET descWord0 == Word(msg.words, offset + 3 * (k - 1))
            descWord1 == Word(msg.words, offset + 3 * (k - 1) + 1)
            descWord2 == Word(msg.words, offset + 3 * (k - 1) + 2)
        IN  [low |-> descWord1, high |-> bitRange(descWord2, Bit24, 128),
             size |-> descWord0, sizeHigh |-> 0, flags |-> bitRange(descWord2, 1, 4)]]

RegularDescriptors(msg, count, offset) ==
    [k \in 1 .. count |->
        LET descWord0 == Word(msg.words, offset + 3 * (k - 1))
            descWord1 == Word(msg.words, offset + 3 * (k - 1) + 1)
            descWord2 == Word(msg.words, offset + 3 * (k - 1) + 2)
        IN  [low      |-> descWord1,
             high     |-> bitRange(descWord2, Bit28, 16) + 16 * bitRange(descWord2, 4, 8),
             size     |-> descWord0,
             sizeHigh |-> bitRange(descWord2, Bit24, 16),
             flags    |-> bitRange(descWord2, 1, 4)]]

\* The C descriptors follow the raw data.  The upper bits of the address are ORed
\* into the lower word without being shifted, so a descriptor of memory above 4 GB
\* (the heap) names another address.  In the addresses used here the two have no bit
\* in common, so | is +.
StaticOutDescriptors(msg, rawDataStart) ==
    LET numCBuffs == IF msg.cFlags < 2 THEN 0 ELSE IF msg.cFlags = 2 THEN 1 ELSE msg.cFlags - 2
        at(k) == rawDataStart + msg.wordCount + 2 * (k - 1)
    IN  [k \in 1 .. numCBuffs |->
            [low  |-> Word(msg.words, at(k)) + bitRange(Word(msg.words, at(k) + 1), 1, Bit16),
             high |-> 0,
             size |-> bitRange(Word(msg.words, at(k) + 1), Bit16, Bit16)]]

\* (offset % 0x10) != 0: the raw data is aligned to four words.
Aligned(offset) == offset + PadTo4(offset)

\* The part of the request that does not depend on the session.
Parse(msg) ==
    LET afterHeader == 2 + (IF msg.handleDescriptor THEN 1 ELSE 0)
        sendPid == msg.handleDescriptor /\ msg.sendPid
        copyAt == afterHeader + (IF sendPid THEN 2 ELSE 0)
        moveAt == copyAt + msg.copy
        xAt == moveAt + msg.move
        aAt == xAt + 2 * msg.numStaticIn
        bAt == aAt + 3 * msg.numSend
        wAt == bAt + 3 * msg.numRecv
        rawDataStart == wAt + 3 * msg.numTrans
    IN  [shape |-> [pid |-> sendPid /\ Word(msg.words, 3) = PID,
                    copied |-> CopiedHandles(msg, copyAt), moved |-> MovedHandles(msg, moveAt),
                    X |-> StaticInDescriptors(msg, xAt),
                    A |-> RegularDescriptors(msg, msg.numSend, aAt),
                    B |-> RegularDescriptors(msg, msg.numRecv, bAt),
                    W |-> RegularDescriptors(msg, msg.numTrans, wAt),
                    C |-> StaticOutDescriptors(msg, rawDataStart),
                    single |-> msg.cFlags = 2],
         offset |-> Aligned(rawDataStart)]

\* The domain header, the magic, the command and its arguments.
ParseRaw(msg, offset, isDomain) ==
    LET domain == isDomain /\ msg.type # 5
        rawData == offset + (IF domain THEN 4 ELSE 0)
    IN  [domain    |-> domain,
         domainCmd |-> IF domain THEN Word(msg.words, offset) ELSE 0,
         object    |-> IF domain THEN Word(msg.words, offset + 1) ELSE 0,
         magic     |-> Word(msg.words, rawData),
         cmdId     |-> Word(msg.words, rawData + 2),
         argData   |-> [k \in 1 .. msg.wordCount |-> Word(msg.words, rawData + 3 + k)]]

\* IpcMessageCons::construct.  On a domain the moved handles become object ids,
\* written behind the data.
Construct(isDomain, answer) ==
    LET data == IF isDomain THEN answer.data \o answer.moved ELSE answer.data
        moved == IF isDomain THEN << >> ELSE answer.moved
        handles == answer.copied # << >> \/ moved # << >>
        head == <<0, 0>> \o (IF handles THEN <<0>> \o answer.copied \o moved ELSE << >>)
    IN  [handleDescriptor |-> handles, copy |-> Len(answer.copied), move |-> Len(moved),
         wordCount |-> 8 + Len(data) + (IF isDomain THEN 4 ELSE 0),
         words |-> head \o Zeros(PadTo4(Len(head)))
                   \o (IF isDomain THEN <<Len(answer.moved), 0, 0, 0>> ELSE << >>)
                   \o <<SFCO, 0, answer.error, 0>> \o data]

\* Where the game looks for the parts of the answer to a function that has
\* dataLen words of data.
Unpack(reply, isDomain, dataLen) ==
    LET handlesAt == IF reply.handleDescriptor THEN 3 ELSE 2
        start == handlesAt + reply.copy + reply.move
        at == start + PadTo4(start)
        raw == IF isDomain THEN at + 4 ELSE at
        objects == IF isDomain THEN Word(reply.words, at) ELSE 0
    IN  [error  |-> Word(reply.words, raw + 2),
         data   |-> [k \in 1 .. dataLen |-> Word(reply.words, raw + 3 + k)],
         copied |-> [k \in 1 .. reply.copy |-> Word(reply.words, handlesAt + k - 1)],
         moved  |-> IF isDomain
                    THEN [k \in 1 .. objects |-> Word(reply.words, raw + 3 + dataLen + k)]
                    ELSE [k \in 1 .. reply.move |->
                             Word(reply.words, handlesAt + reply.copy + k - 1)],
         magic  |-> Word(reply.words, raw)]

----------------------------------------------------------------------------
(* Calls.                                                                  *)

Object(type, of) == [type |-> type, of |-> of, isDomain |-> FALSE]
Session(interface) == Object("INTERFACE", interface)

\* A promise: the id, the domain session it belongs to (0: it is a handle) and
\* what it stands for.
Promise(id, via, of) == [id |-> id, via |-> via, of |-> of]

PromisedIds == {handleId(p.id) : p \in told} \cup {handleId(gCurrentProcess)}

\* A handle is made and told to the game; its id may be in use.
Make(object, via) ==
    /\ createHandle(object)
    /\ told' = told \cup {Promise(gHandleCounter, via, object.of)}
    /\ shared' = shared \cup (PromisedIds \cap {handleId(gHandleCounter)})

NoCall == [kind |-> "none"]

\* The answer of a function: its data (the values do not matter), and handles.
Answer(error, data, copied, moved) ==
    [error |-> error, data |-> data, copied |-> copied, moved |-> moved, magic |-> SFCO]

DataWords(bytes) == [k \in 1 .. (bytes + 3) \div 4 |-> 50 + k]

\* What a call does: the interface it reaches, its answer, the object it makes and the
\* domain that gets it, and whether the session becomes a domain.
Says(reached, answer) == [reached |-> reached, answers |-> TRUE, answer |-> answer,
                          makes |-> {}, via |-> 0, converts |-> FALSE]

\* No reply is written: the game finds its own request in the buffer.
Unanswered == [Says("none", 0) EXCEPT !.answers = FALSE]

\* The casts do not look at the type of an object: a call through one of another type is
\* undefined, and not followed.  A game that uses its handles for what they are meets
\* this only when ids are shared.
Undefined == [Says("undefined", 0) EXCEPT !.answers = FALSE]

\* SmService::GetService: a session of the service, or an error for an unknown name.
GetService(reached, name, via) ==
    IF name \in DOMAIN gRegisteredServices
    THEN [Says(reached, Answer(0, << >>, << >>, <<gHandleCounter>>)) EXCEPT
              !.makes = {Session(gRegisteredServices[name])}, !.via = via]
    ELSE Says(reached, Answer(1, << >>, << >>, << >>))

\* INvDrvServices::Open: a handle of the device in the data, 0 for an unknown name.
OpenDevice(reached, device) ==
    IF device \in DOMAIN DevicePaths
    THEN [Says(reached, Answer(0, <<gHandleCounter, 0>>, << >>, << >>)) EXCEPT
              !.makes = {Object("GPU_DEVICE", device)}]
    ELSE Says(reached, Answer(0, <<0, 0>>, << >>, << >>))

\* INvDrvServices::Ioctl.
SendIoctl(reached, fd, id) ==
    IF lookupObject(fd).type # "GPU_DEVICE" THEN Undefined
    ELSE Says(reached, Answer(0, <<handleIoctl(lookupObject(fd).of, id)>>, << >>, << >>))

\* Any other function: the interface it opens is connected and moved (CreateStrayLayer
\* writes the handle into the receive buffer instead), the numbers it hands out as
\* handles of events and of memory name no object.
RunFunction(reached, func, via) ==
    LET fakes(seq) == [k \in DOMAIN seq |-> FakeHandle]
        intoBuffer == func.does = "intoBuffer"
        moved == IF intoBuffer THEN << >>
                 ELSE [k \in DOMAIN func.opens |-> gHandleCounter] \o fakes(func.moved)
    IN  [Says(reached, Answer(func.error, DataWords(func.data), fakes(func.copied), moved)) EXCEPT
            !.makes = {Session(func.opens[k]) : k \in DOMAIN func.opens},
            !.via = IF intoBuffer THEN 0 ELSE via]

\* Interface::handleSyncRequest: an unknown command is logged and not answered.
handleSyncRequest(interface, cmdId, param, via) ==
    IF ~Knows(interface, cmdId) THEN Unanswered
    ELSE LET func == FindFunction(interface, cmdId)
         IN  CASE func.does = "getService" -> GetService(interface, param.name, via)
               [] func.does = "openDevice" -> OpenDevice(interface, param.name)
               [] func.does = "ioctl"      -> SendIoctl(interface, param.fd, param.id)
               [] OTHER                    -> RunFunction(interface, func, via)

\* Type 5: ConvertSessionToDomain answers with the handle and turns the session into
\* a domain, DuplicateSession and DuplicateSessionEx hand the same handle out again,
\* QueryPointerBufferSize answers 0x500.
ControlRequest(handle, interface, cmdId) ==
    CASE cmdId = 0 ->
           [Says(interface, Answer(0, <<handle>>, << >>, << >>)) EXCEPT !.converts = TRUE]
      [] cmdId \in {2, 4} -> Says(interface, Answer(0, << >>, << >>, <<handle>>))
      [] cmdId = 3 -> Says(interface, Answer(0, DataWords(8), << >>, << >>))
      [] OTHER -> Unanswered

\* What is done with a request that reached a session: a domain passes it on to the
\* object it names, whose handle is the object id; CloseHandle (type 2) answers and
\* closes nothing.
Dispatch(handle, object, msg, info, param) ==
    IF info.domainCmd # 2 /\ msg.type # 2 /\ info.magic # SFCI THEN Unanswered
    ELSE IF info.domain
    THEN IF info.domainCmd # 1 \/ EntriesOf(info.object) = {} THEN Unanswered
         ELSE IF lookupObject(info.object).type # "INTERFACE" THEN Undefined
         ELSE handleSyncRequest(lookupObject(info.object).of, info.cmdId, param, handle)
    ELSE CASE msg.type = 4 -> handleSyncRequest(object.of, info.cmdId, param, 0)
           [] msg.type = 5 -> ControlRequest(handle, object.of, info.cmdId)
           [] msg.type = 2 -> Says(object.of, Answer(0, << >>, << >>, << >>))
           [] OTHER -> Unanswered

\* The request, the interface the game means it for, and the reply over it.  The
\* handles of a reply that name no object, or one the game already has, are shared.
Reply(handle, request, interface, msg, parsed, info, does) ==
    LET object == lookupObject(handle)
        handedOut == {id \in Range(does.answer.copied \o does.answer.moved) :
                         does.makes = {} \/ id # gHandleCounter}
    IN  /\ call' = [kind |-> IF msg.type = 5 /\ object.isDomain THEN "controlOnDomain"
                                                               ELSE "answered",
                    unambiguous |-> /\ handleId(handle) \notin shared
                                    /\ request.domainCmd # 0 => handleId(request.object) \notin shared,
                    sent |-> Meaning(request, interface),
                    got |-> [shape |-> parsed.shape, cmdId |-> info.cmdId,
                             args |-> SubSeq(info.argData, 1, Len(request.args)),
                             interface |-> does.reached],
                    answered |-> does.answer,
                    read |-> Unpack(Construct(object.isDomain, does.answer),
                                    request.domainCmd # 0, Len(does.answer.data))]
        /\ \/ /\ does.makes # {}
              /\ \E new \in does.makes : Make(new, does.via)
           \/ /\ does.converts
              /\ SetIsDomain(handle)
              /\ told' = told \cup {Promise(handle, handle, object.of)}
              /\ UNCHANGED shared
           \/ /\ does.makes = {} /\ ~does.converts
              /\ told' = told \cup {Promise(id, 0, "fake") : id \in handedOut \cap {FakeHandle}}
              /\ shared' = shared \cup {handleId(id) : id \in handedOut}
              /\ UNCHANGED handleVars

doIpcCall(handle, request, interface) ==
    \/ EntriesOf(handle) = {} /\ UNCHANGED <<handleVars, told, shared, call>>
    \/ /\ lookupObject(handle).type = "INTERFACE"
       /\ \E msg \in {Pack(request)} : \E parsed \in {Parse(msg)} :
          \E info \in {ParseRaw(msg, parsed.offset, lookupObject(handle).isDomain)} :
          \E does \in {Dispatch(handle, lookupObject(handle), msg, info, request.param)} :
             \/ ~does.answers /\ does.reached = "none" /\ UNCHANGED <<handleVars, told, shared, call>>
             \/ does.answers /\ Reply(handle, request, interface, msg, parsed, info, does)

----------------------------------------------------------------------------
(* The game.                                                               *)

EmptyShape == [pid |-> FALSE, copied |-> << >>, moved |-> << >>, X |-> << >>, A |-> << >>,
               B |-> << >>, W |-> << >>, C |-> << >>, single |-> FALSE]

StaticBuffer == [low |-> 5, high |-> 0, size |-> 2]
Buffer == [low |-> 5, high |-> 0, size |-> 2, sizeHigh |-> 0, flags |-> 0]

NoParam == [name |-> "none", fd |-> 0, id |-> 0]

\* What the smallest request carries, and what the game sends now.
Plain == [shape |-> EmptyShape, args |-> <<61, 62>>]
Carried == {Plain} \cup (IF gHandleCounter > PayloadBound THEN {} ELSE Payloads)

\* The descriptors a function reads are there.
Completed(needs, shape) ==
    [shape EXCEPT !.X = IF "X" \in needs /\ @ = << >> THEN <<StaticBuffer>> ELSE @,
                  !.A = IF "A" \in needs /\ @ = << >> THEN <<Buffer>> ELSE @,
                  !.B = IF "B" \in needs /\ @ = << >> THEN <<Buffer>> ELSE @,
                  !.C = IF "C" \in needs /\ @ = << >> THEN <<StaticBuffer>> ELSE @]

Request(type, cmdId, param, shape, args) ==
    [type |-> type, cmdId |-> cmdId, domainCmd |-> 0, object |-> 0, args |-> args,
     param |-> param, shape |-> shape]

\* The requests of a type and a command that reads no descriptors.
Requests(type, cmdId) ==
    {Request(type, cmdId, NoParam, payload.shape, payload.args) : payload \in Carried}

OnDomain(request, domainCmd, object) ==
    [request EXCEPT !.domainCmd = domainCmd, !.object = object]

Commands(interface) == {Interfaces[interface][k].id : k \in DOMAIN Interfaces[interface]}

\* One command for each different thing the interface does; one it does not know.
UnknownCommand == 9999
Representatives(interface) ==
    {id \in Commands(interface) :
        \A other \in Commands(interface) :
            FindFunction(interface, other) = FindFunction(interface, id) => id <= other}

DeviceFiles == {p.id : p \in {q \in told : q.of \in DOMAIN DevicePaths}}

\* What a game may pass to a function: a name, or a device file and an ioctl.
Params(func) ==
    CASE func.does = "getService" -> [name : game, fd : {0}, id : {0}]
      [] func.does = "openDevice" -> [name : {"nvmap", "nvhost_dbg_gpu"}, fd : {0}, id : {0}]
      [] func.does = "ioctl"      -> [name : {"none"}, fd : DeviceFiles, id : {1, 255}]
      [] OTHER                    -> {NoParam}

\* The requests a game sends to an interface.
FunctionRequests(interface) ==
    Requests(4, UnknownCommand)
    \cup UNION {{Request(4, id, param, Completed(FindFunction(interface, id).needs, payload.shape),
                        payload.args)
                    : param \in Params(FindFunction(interface, id)), payload \in Carried}
                  : id \in Representatives(interface)}

\* The control requests that change nothing are sent while the game has few handles.
ControlRequests ==
    Requests(5, 0) \cup (IF gHandleCounter > PayloadBound THEN {}
                         ELSE UNION {Requests(5, id) : id \in {2, 3, 4, 9}})

Handles == {p \in told : p.via = 0}
IsSession(p) == p.of \in DOMAIN Interfaces
ObjectsOn(handle) == {p \in told : p.via = handle}

Running == mainThread # 0

Init ==
    /\ HandleInit
    /\ gCurrentProcess = 0
    /\ mainThread = 0
    /\ game \in Games
    /\ told = {}
    /\ shared = {}
    /\ call = NoCall

\* kernel::launchGameCart: the process gets the first handle.
launchGameCart ==
    /\ gCurrentProcess = 0
    /\ createHandle(Object("PROCESS", "process"))
    /\ gCurrentProcess' = gHandleCounter
    /\ UNCHANGED <<mainThread, game, told, shared, call>>

\* kernel::cpuEntry on core 0: the main thread gets the next one, in X1.
cpuEntry ==
    /\ gCurrentProcess # 0
    /\ mainThread = 0
    /\ Make(Object("THREAD", "thread"), 0)
    /\ mainThread' = gHandleCounter
    /\ UNCHANGED <<gCurrentProcess, game, call>>

\* The game makes its next call when it has read the reply to the last one.
Guest == Running /\ call = NoCall /\ UNCHANGED <<gCurrentProcess, mainThread, game>>

ReadReply ==
    /\ call # NoCall
    /\ call' = NoCall
    /\ UNCHANGED <<handleVars, gCurrentProcess, mainThread, game, told, shared>>

\* svcConnectToPort: a session of the port; an unknown port is an error.  The game has
\* at most one session of a port, as the SDK does.
svcConnectToPort(name) ==
    /\ Guest
    /\ name \in DOMAIN gNamedPorts => ~\E p \in told : p.of = gNamedPorts[name]
    /\ IF name \in DOMAIN gNamedPorts
       THEN Make(Session(gNamedPorts[name]), 0)
       ELSE UNCHANGED <<handleVars, told, shared>>
    /\ UNCHANGED call

\* What a game sends: a request to a session that is no domain, to an object of a
\* domain, a control request to either, and a request to a handle that was closed.
Send(handle, request, interface) ==
    [handle |-> handle, request |-> request, interface |-> interface]

Sessions == {p \in Handles : IsSession(p)}

ToSessions ==
    UNION {{Send(p.id, r, p.of) : r \in FunctionRequests(p.of) \cup Requests(2, 0)}
             : p \in {q \in Sessions : ObjectsOn(q.id) = {}}}

ToDomains ==
    UNION {{Send(q.via, OnDomain(r, 1, q.id), q.of) : r \in FunctionRequests(q.of)}
           \cup {Send(q.via, OnDomain(r, 3, q.id), q.of) : r \in Requests(4, 0)}
             : q \in {p \in told : p.via # 0}}

ControlSends ==
    {send \in {Send(p.id, r, p.of) : p \in Sessions, r \in ControlRequests} :
        send.request.cmdId = 0 => ObjectsOn(send.handle) = {}}

ToClosed ==
    {Send(handle, r, "none") :
        handle \in {h \in 1 .. gHandleCounter - 1 : EntriesOf(h) = {}}, r \in Requests(4, 0)}

svcSendSyncRequest ==
    /\ Guest
    /\ \E send \in ToSessions \cup ToDomains \cup ControlSends \cup ToClosed :
          doIpcCall(send.handle, send.request, send.interface)

\* Domain command 2: the game gives an object of a domain up; the code does nothing and
\* leaves its handle open.
CloseObject ==
    /\ Guest
    /\ \E q \in {p \in told : p.via \notin {0, p.id}} :
          /\ told' = told \ {q}
          /\ shared' = shared \cup {handleId(q.id)}
    /\ UNCHANGED <<handleVars, call>>

\* The handles of the objects of a closed domain stay open, too.
svcCloseHandle ==
    /\ Guest
    /\ \E p \in Handles :
          /\ closeHandle(p.id)
          /\ told' = told \ ({p} \cup ObjectsOn(p.id))
          /\ shared' = shared \cup {handleId(q.id) : q \in ObjectsOn(p.id) \ {Promise(p.id, p.id, p.of)}}
    /\ UNCHANGED call

\* One at a time is enough: the object has no operations.
svcCreateTransferMemory ==
    /\ Guest
    /\ ~\E p \in told : p.of = "transferMemory"
    /\ Make(Object("TRANSFER_MEM", "transferMemory"), 0)
    /\ UNCHANGED call

Next ==
    \/ launchGameCart
    \/ cpuEntry
    \/ \E name \in DOMAIN gNamedPorts \cup {"unknown"} : svcConnectToPort(name)
    \/ svcSendSyncRequest
    \/ ReadReply
    \/ CloseObject
    \/ svcCloseHandle
    \/ svcCreateTransferMemory

Spec == Init /\ [][Next]_vars

----------------------------------------------------------------------------
(* Properties.                                                             *)

\* The handle table, a vector of entries and a map of pointers that are changed one
\* after the other, does what HandleTable promises: closing takes away the object the
\* id stands for and no other, whatever ids were reused while in use
\* (handleManager.cpp, createHandle, lookupObject, closeHandle).
Table == INSTANCE HandleTable WITH
             IdSpace <- IdSpace,
             Types <- {"PROCESS", "THREAD", "TRANSFER_MEM", "INTERFACE", "GPU_DEVICE"},
             open <- OpenHandles,
             opened <- gCompressedpointerCounter

HandlesImplement == Table!Spec

\* What a request carries (process id, handles, descriptors with split addresses and
\* sizes, arguments) arrives at the function of the interface the game meant, and the
\* game finds the answer where it looks for it (doIpcCall, construct): for function
\* requests to a session and to an object of a domain and for control requests to a
\* session.  Not claimed, as the code gets it wrong: a request with a C descriptor of
\* memory above 4 GB, which arrives with another address (ipc.cpp:168), and a control
\* request to a session that is a domain, whose reply has a domain header the game does
\* not expect.  Nor is a request to an id that was given out twice.
MessagesArrive ==
    (/\ call.kind = "answered" /\ call.unambiguous
     /\ \A k \in DOMAIN call.sent.shape.C : call.sent.shape.C[k].high = 0)
        => call.got = call.sent /\ call.read = call.answered

\* A handle or object id a reply gave to the game stands for the interface, device or
\* memory the reply was about until the game closes it, as long as the id was not given
\* out again: by the counter after IdSpace handles, by DuplicateSession, or as one of
\* the made-up handles of events and memory; nor left open when a domain gave it up.
HandlesKeepTheirMeaning ==
    \A p \in told : handleId(p.id) \notin shared =>
        /\ lookupObject(p.id).of = p.of
        /\ (p.via # 0 /\ handleId(p.via) \notin shared) => lookupObject(p.via).isDomain
=============================================================================
