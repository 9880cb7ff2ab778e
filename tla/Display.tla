------------------------------- MODULE Display -------------------------------
(***************************************************************************)
(* Frames on their way from the game to the screen: the game fills buffers *)
(* and hands them over with binder transactions (IHOSBinderDriver.cpp), on *)
(* core 0; the graphics thread (graphicsDriver.cpp) walks over the layers, *)
(* copies a queued buffer to the screen and frees it (nn/vi/display.cpp).  *)
(* Nothing locks the vectors the two share.                                *)
(*                                                                         *)
(* A frame is a number; the copy to the screen reads the upper half and    *)
(* the lower half of the buffer one after the other.                       *)
(*                                                                         *)
(* Undefined behaviour: the transactions and lookups dereference the end   *)
(* of a vector when they find nothing, and a vector that grows leaves the  *)
(* other thread with dangling references: nothing is said of what follows  *)
(* (stopped).  A vector with room left does not move.                      *)
(***************************************************************************)
EXTENDS Naturals, SequencesExt, FiniteSets

CONSTANTS MaxLayers,    \* bound on the number of layers
          MaxObjects,   \* bound on the number of nvmap objects
          Slots,        \* the buffer slots of a queue the game uses
          MaxBuffers,   \* bound on the number of buffers in an nvmap object
          Frames        \* the frames the game draws

ASSUME DisplayAssumption ==
    /\ MaxLayers \in Nat /\ MaxObjects \in Nat
    /\ MaxBuffers \in 0 .. 9
    /\ IsFiniteSet(Slots)
    /\ Frames \subseteq Nat \ {0}

VARIABLES gMapObjects,  \* vector of NvmapObject: handle and address
          layers,       \* the layers' ids and buffer ids; the Default display lists them all
          buffers,      \* vector of BufferQueue
          pixels,       \* the frame in the memory of each buffer, 0 while the game draws
          held,         \* the buffers the game has dequeued
          pc,           \* where the graphics thread is in its loop
          at,           \* the layer it is at
          end,          \* the last layer of its walk
          queuedBuffer, \* the copy of the buffer it is showing
          screen,       \* displayBuffer: the frames in its two halves
          mRunning,     \* GraphicsDriver::mRunning
          stopped       \* undefined behaviour was met

gameVars == <<held, pixels>>
drawVars == <<pc, at, end, queuedBuffer, screen>>
vars == <<gMapObjects, layers, buffers, gameVars, drawVars, mRunning, stopped>>

NoFrame == 0
NULL == 0               \* an object without memory
FirstLayer == 100
FirstBuffer == 1000

GraphicBuffer(slot, nvmapHandle, offset) ==
    [status |-> "FREE", slot |-> slot, nvmapHandle |-> nvmapHandle, offset |-> offset,
     frame |-> NoFrame]
NoBuffer == GraphicBuffer(0, 0, 0)

\* IocAlloc takes an address the game chooses: object n is at address 10 * n.
Address(handle) == 10 * handle

Init ==
    /\ gMapObjects = << >> /\ layers = << >> /\ buffers = << >>
    /\ pixels = [a \in {Address(h) + o : h \in 1 .. MaxObjects, o \in 0 .. MaxBuffers - 1} |-> NoFrame]
    /\ held = {}
    /\ pc = "loop" /\ at = 1 /\ end = 0 /\ queuedBuffer = NoBuffer
    /\ screen = [upper |-> NoFrame, lower |-> NoFrame]
    /\ mRunning = TRUE /\ stopped = FALSE

----------------------------------------------------------------------------
(* Lookups: the first element that fits, 0 for none.                       *)

getLayer(id) == SelectInSeq(layers, LAMBDA layer : layer.id = id)
getBufferQueue(id) == SelectInSeq(buffers, LAMBDA queue : queue.id = id)
lookupNvmapObject(handle) == SelectInSeq(gMapObjects, LAMBDA object : object.handle = handle)

AtSlot(queue, slot) == SelectInSeq(buffers[queue].buffers, LAMBDA buffer : buffer.slot = slot)
FreeBuffer(queue) ==
    SelectInSeq(buffers[queue].buffers, LAMBDA buffer : buffer.status = "FREE")

\* The graphics thread takes any buffer that is not free.
MutantQueuedBuffer(queue) ==
    SelectInSeq(buffers[queue].buffers, LAMBDA buffer : buffer.status # "FREE")

getQueuedBuffer(queue) ==
    SelectInSeq(buffers[queue].buffers, LAMBDA buffer : buffer.status = "QUEUED")

AddressOf(buffer) == gMapObjects[lookupNvmapObject(buffer.nvmapHandle)].addr + buffer.offset

----------------------------------------------------------------------------
(* The game, on core 0.                                                    *)

Game == ~stopped /\ UNCHANGED <<drawVars, mRunning>>

\* A vector grows: it may move while the graphics thread reads it.
Grows(drawReads) == stopped' \in IF drawReads THEN BOOLEAN ELSE {FALSE}

QueueAt == getBufferQueue(layers[at].bufferId)

\* The graphics thread looks the object up before it copies.
IocCreate ==
    /\ Game
    /\ Len(gMapObjects) < MaxObjects
    /\ gMapObjects' = Append(gMapObjects, [handle |-> Len(gMapObjects) + 1, addr |-> NULL])
    /\ Grows(pc = "upper")
    /\ UNCHANGED <<layers, buffers, gameVars>>

IocAlloc(handle) ==
    /\ Game
    /\ gMapObjects' = [gMapObjects EXCEPT ![lookupNvmapObject(handle)].addr = Address(handle)]
    /\ UNCHANGED <<layers, buffers, gameVars, stopped>>

\* A layer and its queue.  The graphics thread keeps references to both for a whole
\* iteration of its walk.
createLayer ==
    /\ Game
    /\ Len(layers) < MaxLayers
    /\ layers' = Append(layers, [id |-> FirstLayer + Len(layers),
                                 bufferId |-> FirstBuffer + Len(buffers)])
    /\ buffers' = Append(buffers, [id |-> FirstBuffer + Len(buffers), buffers |-> << >>])
    /\ Grows(pc # "loop")
    /\ UNCHANGED <<gMapObjects, gameVars>>

\* IApplicationDisplayService::OpenLayer tells the game the id of the layer's queue.
OpenLayer(layerId) == layers[getLayer(layerId)].bufferId

\* SET_PREALLOCATED_BUFFER.  The game sets each slot once, to memory of its own: the
\* buffers of an object lie behind each other.  getQueuedBuffer and freeBuffer may be
\* walking over the queue.
UsedOf(nvmapHandle) ==
    {s \in (DOMAIN buffers) \X Slots :
        /\ AtSlot(s[1], s[2]) # 0
        /\ buffers[s[1]].buffers[AtSlot(s[1], s[2])].nvmapHandle = nvmapHandle}

setPreallocatedBuffer(queue, slot, nvmapHandle) ==
    /\ Game
    /\ AtSlot(queue, slot) = 0
    /\ gMapObjects[lookupNvmapObject(nvmapHandle)].addr # NULL
    /\ Cardinality(UsedOf(nvmapHandle)) < MaxBuffers
    /\ buffers' = [buffers EXCEPT ![queue].buffers =
                     Append(@, GraphicBuffer(slot, nvmapHandle, Cardinality(UsedOf(nvmapHandle))))]
    /\ Grows(pc \in {"layer", "free"} /\ queue = QueueAt)
    /\ UNCHANGED <<gMapObjects, layers, gameVars>>

\* DEQUEUE_BUFFER: without a free buffer the end of the vector is changed.
dequeueBuffer(queue) ==
    /\ Game
    /\ IF FreeBuffer(queue) = 0
       THEN stopped' = TRUE /\ UNCHANGED <<buffers, held>>
       ELSE /\ buffers' = [buffers EXCEPT ![queue].buffers[FreeBuffer(queue)].status = "DEQUEUED"]
            /\ held' = held \cup {<<queue, buffers[queue].buffers[FreeBuffer(queue)].slot>>}
            /\ UNCHANGED stopped
    /\ UNCHANGED <<gMapObjects, layers, pixels>>

\* The game has drawn a part of the next frame.
DrawPart(queue, slot) ==
    /\ Game
    /\ pixels' = [pixels EXCEPT ![AddressOf(buffers[queue].buffers[AtSlot(queue, slot)])] = NoFrame]
    /\ UNCHANGED <<gMapObjects, layers, buffers, held, stopped>>

\* QUEUE_BUFFER of a buffer the game holds and has drawn a frame in.
queueBuffer(queue, slot, frame) ==
    LET k == AtSlot(queue, slot)
    IN  /\ Game
        /\ pixels' = [pixels EXCEPT ![AddressOf(buffers[queue].buffers[k])] = frame]
        /\ buffers' = [buffers EXCEPT ![queue].buffers[k] =
                         [@ EXCEPT !.status = "QUEUED", !.frame = frame]]
        /\ held' = held \ {<<queue, slot>>}
        /\ UNCHANGED <<gMapObjects, layers, stopped>>

----------------------------------------------------------------------------
(* The graphics thread.                                                    *)

Draws == ~stopped /\ UNCHANGED <<gMapObjects, layers, gameVars, mRunning, stopped>>

\* The walk ends at the first layer.
MutantNextLayer == pc' = "loop" /\ at' = 1 /\ end' = 0

\* The next layer of the walk, or the rest of the loop, its sleep included.
NextLayer ==
    IF at < end THEN pc' = "layer" /\ at' = at + 1 /\ UNCHANGED end
                ELSE pc' = "loop" /\ at' = 1 /\ end' = 0

\* A new round: a display without layers is passed over, and the walk goes over the
\* layers there are now.
DrawBegins ==
    /\ Draws
    /\ pc = "loop" /\ mRunning
    /\ layers # << >>
    /\ pc' = "layer" /\ at' = 1 /\ end' = Len(layers)
    /\ UNCHANGED <<buffers, queuedBuffer, screen>>

\* The buffer is freed before it is copied.
MutantDrawLooks ==
    /\ Draws
    /\ pc = "layer"
    /\ IF getQueuedBuffer(QueueAt) = 0
       THEN NextLayer /\ UNCHANGED <<queuedBuffer, buffers>>
       ELSE /\ pc' = "upper"
            /\ queuedBuffer' = buffers[QueueAt].buffers[getQueuedBuffer(QueueAt)]
            /\ buffers' = [buffers EXCEPT
                             ![QueueAt].buffers[getQueuedBuffer(QueueAt)].status = "FREE"]
            /\ UNCHANGED <<at, end>>
    /\ UNCHANGED screen

\* getQueuedBuffer returns a copy of the first queued buffer.
DrawLooks ==
    /\ Draws
    /\ pc = "layer"
    /\ IF getQueuedBuffer(QueueAt) = 0
       THEN NextLayer /\ UNCHANGED queuedBuffer
       ELSE /\ pc' = "upper"
            /\ queuedBuffer' = buffers[QueueAt].buffers[getQueuedBuffer(QueueAt)]
            /\ UNCHANGED <<at, end>>
    /\ UNCHANGED <<buffers, screen>>

\* GraphicsDriver::setBuffer copies the buffer from the game's memory.
SetUpper ==
    /\ Draws
    /\ pc = "upper"
    /\ screen' = [screen EXCEPT !.upper = pixels[AddressOf(queuedBuffer)]]
    /\ pc' = "lower"
    /\ UNCHANGED <<buffers, at, end, queuedBuffer>>

SetLower ==
    /\ Draws
    /\ pc = "lower"
    /\ screen' = [screen EXCEPT !.lower = pixels[AddressOf(queuedBuffer)]]
    /\ pc' = "free"
    /\ UNCHANGED <<buffers, at, end, queuedBuffer>>

freeBuffer ==
    /\ Draws
    /\ pc = "free"
    /\ buffers' = [buffers EXCEPT
                     ![QueueAt].buffers[AtSlot(QueueAt, queuedBuffer.slot)] =
                       [@ EXCEPT !.status = "FREE", !.frame = NoFrame]]
    /\ NextLayer
    /\ queuedBuffer' = NoBuffer
    /\ UNCHANGED screen

draw == DrawBegins \/ DrawLooks \/ SetUpper \/ SetLower \/ freeBuffer

\* GraphicsDriver::stop: the thread ends when it comes to the head of its loop.
stop ==
    /\ ~stopped /\ mRunning
    /\ mRunning' = FALSE
    /\ UNCHANGED <<gMapObjects, layers, buffers, gameVars, drawVars, stopped>>

Next ==
    \/ IocCreate
    \/ \E k \in DOMAIN gMapObjects : IocAlloc(gMapObjects[k].handle)
    \/ createLayer
    \/ \E k \in DOMAIN layers : \E queue \in {getBufferQueue(OpenLayer(layers[k].id))} :
          \/ \E slot \in Slots, j \in DOMAIN gMapObjects :
                setPreallocatedBuffer(queue, slot, gMapObjects[j].handle)
          \/ dequeueBuffer(queue)
    \/ \E buffer \in held :
          \/ DrawPart(buffer[1], buffer[2])
          \/ \E frame \in Frames : queueBuffer(buffer[1], buffer[2], frame)
    \/ draw
    \/ stop

\* The graphics thread runs for ever: its loop only sleeps for 20 ms.  The game owes
\* nothing.
Spec == Init /\ [][Next]_vars /\ WF_vars(draw)

----------------------------------------------------------------------------
(* Properties.                                                             *)

\* What the graphics thread has copied is one whole frame, and the one that was queued
\* in the buffer it found: the game cannot get at the buffer between getQueuedBuffer
\* and freeBuffer, which are not atomic (draw, "TODO race conditions?").
ShowsWholeFrames ==
    pc = "free" => /\ screen.upper = queuedBuffer.frame
                   /\ screen.lower = queuedBuffer.frame

\* A buffer the game has dequeued stays its own until the game queues it: the graphics
\* thread, which frees by slot what it copied some steps before, never frees it, and it
\* is not given out a second time (freeBuffer, dequeueBuffer).
GameKeepsItsBuffers ==
    \A b \in held : buffers[b[1]].buffers[AtSlot(b[1], b[2])].status = "DEQUEUED"

\* A layer with a queued frame gets one of its frames shown, however many frames the
\* other layers have (draw).  A single frame may wait for ever: the buffer in the lower
\* place of the vector goes first.
LayersAreServed ==
    \A k \in 1 .. MaxLayers :
        (/\ k \in DOMAIN layers
         /\ getQueuedBuffer(getBufferQueue(layers[k].bufferId)) # 0)
            ~> (stopped \/ ~mRunning \/ (pc = "free" /\ at = k))
=============================================================================
