-------------------------- MODULE EncryptedIoQueue --------------------------
(***************************************************************************)
(* Driver/EncryptedIoQueue.c: the read and write requests (IRPs) of an      *)
(* encrypted device pass through three threads.  The main thread splits     *)
(* them into fragments and encrypts, the I/O thread accesses the device,    *)
(* the completion thread decrypts.  Another thread may hold the queue when  *)
(* it is idle (EncryptedIoQueueHoldWhenIdle) or stop it.                    *)
(*                                                                          *)
(* The unit of length is the encryption data unit, called a sector here.    *)
(* A sector holds <<value, layers>>: layers counts encryptions minus        *)
(* decryptions, so 0 is plain text and -1 what decrypting plain text gives. *)
(* Events are auto-reset events: set is latched, a wait consumes it.        *)
(***************************************************************************)
EXTENDS Integers, Sequences, FiniteSets

CONSTANTS
    Irps,              \* requests that can be under way at a time
    None,
    DiskSize,          \* sectors of the device or host file
    ItemCount,         \* TC_ENC_IO_QUEUE_PREALLOCATED_ITEM_COUNT
    RequestCount,      \* TC_ENC_IO_QUEUE_PREALLOCATED_IO_REQUEST_COUNT
    TimeLimit,         \* whether those who hold the queue set a time limit
    Queues             \* the queues considered: what their creators set, and
                       \* what may happen to them

QueueType == [
    IsFilterDevice : BOOLEAN,      \* drive filter, or a volume in a host file or device
    \* <<start, end>>: the hidden volume, or header areas
    ProtectedRegions : SUBSET (Nat \X Nat),
    \* volumes: volDataAreaOffset or hiddenVolumeOffset
    DataAreaOffset : Nat, VirtualDeviceLength : Nat,
    \* drive filter
    EncryptedAreaStart : Nat, InitialAreaEnd : Int, ConfiguredEnd : Int,
    RemapEncryptedArea : BOOLEAN, RemappedAreaOffset : Nat,
    MaxReadAheadOffset : Nat,
    MaxFragment : Nat \ {0},       \* TC_ENC_IO_QUEUE_MAX_FRAGMENT_SIZE
    \* what IRPs ask for, which are used, and whether devices and
    \* allocations may fail
    Ranges : SUBSET [offset : Nat, length : Nat, aligned : BOOLEAN],
    Clients : SUBSET Irps, Failures : BOOLEAN]

ASSUME QueueAssumption ==
    /\ IsFiniteSet(Irps) /\ None \notin Irps
    /\ DiskSize \in Nat /\ ItemCount \in Nat \ {0} /\ RequestCount \in Nat \ {0}
    /\ TimeLimit \in BOOLEAN
    /\ Queues \subseteq QueueType

\* The layout of the device.  An empty encrypted area ends right before its start.  Only a
\* drive filter remaps it, from the decoy system to the hidden volume in the partition
\* behind (MountDrive refuses a larger one), which is not accessed otherwise.
WellPlaced(q) ==
    LET area == q.EncryptedAreaStart .. q.InitialAreaEnd
        remapped == {s + q.RemappedAreaOffset : s \in area}
        Size(r) == IF r.aligned THEN r.length ELSE r.length + 1
    IN  /\ q.EncryptedAreaStart - 1 <= q.InitialAreaEnd
        /\ q.MaxReadAheadOffset <= DiskSize
        /\ IF q.IsFilterDevice THEN \A r \in q.Ranges : r.offset + Size(r) <= DiskSize
           ELSE q.DataAreaOffset + q.VirtualDeviceLength <= DiskSize
        /\ q.RemapEncryptedArea =>
              /\ q.IsFilterDevice
              /\ area \cap remapped = {} /\ remapped \subseteq 0 .. DiskSize - 1
              /\ \A p \in q.ProtectedRegions : (p[1] .. p[2]) \cap (area \cup remapped) = {}
              /\ \A r \in q.Ranges : (r.offset .. r.offset + r.length - 1) \cap remapped = {}

ASSUME LayoutAssumption == \A q \in Queues : WellPlaced(q)

Disk == 0 .. DiskSize - 1
Threads == {"main", "io", "completion"}

VARIABLES
    queue,      \* the one started
    irp,        \* what each client asks for and how far it is
    data,       \* data[i][s]: read into the caller's buffer; for a write, what
                \* has been written so far (a history variable)
    disk,
    EncryptedAreaEnd,
    mainQueue, ioQueue, completionQueue,    \* the three thread queues
    thread,     \* [pc, irp, request] of each thread
    cursor,     \* fragmentOffset and dataRemaining of the main thread
    activeFragmentBuffer, fragmentBuffer, fragmentBufferFree,
    itemsFree, requestsFree,                \* pool buffers not InUse
    readAhead,  \* ReadAhead... and LastRead... fields
    OutstandingIoCount, NoOutstandingIoEvent, IoThreadPendingRequestCount,
    Suspended, SuspendPending, QueueResumedEvent,
    StopPending, ThreadExitRequested,
    ProtectionAction,                       \* bHiddenVolProtectionAction
    hold, stop  \* the threads that hold and that stop the queue

IsFilterDevice == queue.IsFilterDevice
EncryptedAreaStart == queue.EncryptedAreaStart
RemapEncryptedArea == queue.RemapEncryptedArea
RemappedAreaOffset == queue.RemappedAreaOffset
MaxFragment == queue.MaxFragment

queues == <<mainQueue, ioQueue, completionQueue>>
buffers == <<activeFragmentBuffer, fragmentBuffer, fragmentBufferFree>>
pool == <<itemsFree, requestsFree>>
counts == <<OutstandingIoCount, NoOutstandingIoEvent>>
suspension == <<Suspended, SuspendPending, QueueResumedEvent, hold>>
stopping == <<StopPending, ThreadExitRequested, stop>>
clients == <<irp, data>>
device == <<queue, disk, EncryptedAreaEnd, ProtectionAction>>
control == <<counts, suspension, stopping>>
work == <<cursor, buffers, pool, readAhead, IoThreadPendingRequestCount>>
io == <<clients, device, queues, thread, work>>
vars == <<queue, irp, data, disk, EncryptedAreaEnd, mainQueue, ioQueue,
          completionQueue, thread, cursor, activeFragmentBuffer,
          fragmentBuffer, fragmentBufferFree, itemsFree, requestsFree, readAhead, OutstandingIoCount,
          NoOutstandingIoEvent, IoThreadPendingRequestCount, Suspended,
          SuspendPending, QueueResumedEvent, StopPending, ThreadExitRequested,
          ProtectionAction, hold, stop>>

NoData == <<"nodata", 0>>   \* not yet transferred
Stale == <<"stale", 0>>   \* what a buffer held before, whatever it is
NoIrp == [pc |-> "idle", write |-> FALSE, offset |-> 0, length |-> 0,
          aligned |-> TRUE, status |-> "ok"]
NoRequest == [irp |-> None, last |-> FALSE, offset |-> 0, length |-> 0,
              encrypted |-> {}, buffer |-> "A"]
Idle == [pc |-> "idle", irp |-> None, request |-> NoRequest]

Sectors(r) == r.offset .. r.offset + r.length - 1
Update(f, new) == [s \in DOMAIN f |-> IF s \in DOMAIN new THEN new[s] ELSE f[s]]
Encrypt(x) == <<x[1], x[2] + 1>>
Decrypt(x) == <<x[1], x[2] - 1>>

\* GetIntersection with the encrypted area, which is empty if its end is before
\* its start; all of a volume is encrypted.
EncryptedPart(sectors) ==
    IF IsFilterDevice THEN sectors \cap (EncryptedAreaStart .. EncryptedAreaEnd) ELSE sectors

\* Where the sector addressed as s is on the device.
Location(s) ==
    IF RemapEncryptedArea /\ s \in EncryptedPart({s}) THEN s + RemappedAreaOffset ELSE s

\* The queue as EncryptedIoQueueStart leaves it (if it fails there is no queue).
\* With RemapEncryptedArea the encrypted sectors are those of the hidden volume.
Init ==
    /\ queue \in Queues
    /\ irp = [i \in Irps |-> NoIrp]
    /\ data = [i \in Irps |-> << >>]
    /\ EncryptedAreaEnd = queue.InitialAreaEnd
    /\ disk = [s \in Disk |->
                 <<None, IF \E r \in Disk : r \in EncryptedPart({r}) /\ Location(r) = s
                         THEN 1 ELSE 0>>]
    /\ mainQueue = << >> /\ ioQueue = << >> /\ completionQueue = << >>
    /\ thread = [t \in Threads |-> Idle]
    /\ cursor = [offset |-> 0, remaining |-> 0]
    /\ activeFragmentBuffer = "A"
    /\ fragmentBuffer = [b \in {"A", "B"} |-> << >>]
    /\ fragmentBufferFree = [b \in {"A", "B"} |-> TRUE]
    /\ itemsFree = ItemCount /\ requestsFree = RequestCount
    /\ readAhead = [valid |-> FALSE, offset |-> 0, length |-> 0, content |-> << >>,
                    lastOffset |-> 0, lastLength |-> 0]
    /\ OutstandingIoCount = 0 /\ NoOutstandingIoEvent = FALSE
    /\ IoThreadPendingRequestCount = 0
    /\ Suspended = FALSE /\ SuspendPending = FALSE /\ QueueResumedEvent = FALSE
    /\ hold = "idle"
    /\ StopPending = FALSE /\ ThreadExitRequested = FALSE
    /\ stop = "running"
    /\ ProtectionAction = FALSE

-----------------------------------------------------------------------------
(* EncryptedIoQueueAddIrp, called by the clients of the device *)

IrpAt(i, pc) == irp[i].pc = pc
IrpGoes(i, pc) == irp' = [irp EXCEPT ![i].pc = pc]

\* InterlockedIncrement (&queue->OutstandingIoCount) for a new read or write.
AddIrp(i) ==
    /\ IrpAt(i, "idle")
    /\ i \in queue.Clients
    /\ \E write \in BOOLEAN, r \in queue.Ranges :
          LET base == IF IsFilterDevice THEN 0 ELSE queue.DataAreaOffset IN
          /\ irp' = [irp EXCEPT ![i] =
                 [pc |-> "counted", write |-> write, offset |-> base + r.offset,
                  length |-> r.length, aligned |-> r.aligned, status |-> "ok"]]
          /\ data' = [data EXCEPT ![i] =
                 [s \in base + r.offset .. base + r.offset + r.length -
                         (IF r.aligned THEN 1 ELSE 0) |-> NoData]]
    /\ OutstandingIoCount' = OutstandingIoCount + 1
    /\ UNCHANGED <<work, device, queues, suspension, stopping, thread,
                   NoOutstandingIoEvent>>

\* Queue it, unless the queue is stopping (or its remove lock is not granted).
AddIrpQueue(i) ==
    /\ IrpAt(i, "counted")
    /\ ~StopPending
    /\ IrpGoes(i, "pending")
    /\ mainQueue' = Append(mainQueue, i)
    /\ UNCHANGED <<control, work, device, data, ioQueue, completionQueue, thread>>

\* Faulty variants, for the check that the properties notice them.  (So are the
\* other definitions named Faulty...)
FaultySignallingStopOnly == StopPending
FaultySignallingHoldOnly == SuspendPending

\* DecrementOutstandingIoCount: the flags are read after the decrement.
Signalling == SuspendPending \/ StopPending

AddIrpRefuse(i) ==
    /\ IrpAt(i, "counted")
    /\ StopPending \/ queue.Failures
    /\ OutstandingIoCount' = OutstandingIoCount - 1
    /\ irp' = [irp EXCEPT ![i].pc = IF OutstandingIoCount = 1 THEN "refused" ELSE "done",
                          ![i].status = "failed"]
    /\ UNCHANGED <<work, device, queues, suspension, stopping, data, thread,
                   NoOutstandingIoEvent>>

AddIrpSignal(i) ==
    /\ IrpAt(i, "refused")
    /\ NoOutstandingIoEvent' = (NoOutstandingIoEvent \/ Signalling)
    /\ IrpGoes(i, "done")
    /\ UNCHANGED <<work, device, queues, suspension, stopping, data, thread,
                   OutstandingIoCount>>

\* The client of a completed IRP goes on.
Collect(i) ==
    /\ IrpAt(i, "done")
    /\ irp' = [irp EXCEPT ![i] = NoIrp]
    /\ data' = [data EXCEPT ![i] = << >>]
    /\ UNCHANGED <<control, work, device, queues, thread>>

-----------------------------------------------------------------------------
(* What the three threads have in common.  A thread sleeps on an event that is
   set after each insertion into its queue and empties the queue when it wakes
   up: it gets to every entry.  An idle thread is asleep or about to look. *)

At(t, pc) == thread[t].pc = pc
Goes(t, pc) ==
    thread' = [thread EXCEPT ![t] = IF pc \in {"idle", "exited"} THEN [Idle EXCEPT !.pc = pc]
                                    ELSE [@ EXCEPT !.pc = pc]]

FaultyComplete(t) ==
    /\ At(t, "complete")
    /\ irp' = [irp EXCEPT ![thread[t].irp].pc = "done"]
    /\ Goes(t, "idle")
    /\ UNCHANGED <<control, work, device, queues, data>>

\* CompleteOriginalIrp: the client has its answer, ...
Complete(t) ==
    /\ At(t, "complete")
    /\ irp' = [irp EXCEPT ![thread[t].irp].pc = "done"]
    /\ Goes(t, "decrement")
    /\ UNCHANGED <<control, work, device, queues, data>>

FaultyRelease(t) == itemsFree' = itemsFree + 1 /\ requestsFree' = requestsFree + 1

\* ReleasePoolBuffer of the item and the request; an IRP that the main thread
\* completes has no request.
Release(t) ==
    /\ itemsFree' = itemsFree + 1
    /\ requestsFree' = IF t = "main" THEN requestsFree ELSE requestsFree + 1

\* ... then OnItemCompleted: the count goes down, its waiters are told, the
\* buffers go back to the pool.  The I/O thread also counts off a read-ahead.
Decrement(t) ==
    /\ thread[t].pc \in {"decrement", "readAheadDone"}
    /\ OutstandingIoCount' = OutstandingIoCount - 1
    /\ IF OutstandingIoCount = 1
       THEN Goes(t, IF At(t, "decrement") THEN "signal" ELSE "signalReadAhead")
            /\ UNCHANGED pool
       ELSE Goes(t, "idle") /\ IF At(t, "decrement") THEN Release(t) ELSE UNCHANGED pool
    /\ UNCHANGED <<clients, device, queues, suspension, stopping, cursor, buffers,
                   readAhead, NoOutstandingIoEvent, IoThreadPendingRequestCount>>

SignalIdle(t) ==
    /\ thread[t].pc \in {"signal", "signalReadAhead"}
    /\ NoOutstandingIoEvent' = (NoOutstandingIoEvent \/ Signalling)
    /\ IF At(t, "signal") THEN Release(t) ELSE UNCHANGED pool
    /\ Goes(t, "idle")
    /\ UNCHANGED <<clients, device, queues, suspension, stopping, cursor, buffers,
                   readAhead, OutstandingIoCount, IoThreadPendingRequestCount>>

\* TCStopThread wakes the thread, which finds ThreadExitRequested; the main
\* thread empties its queue first.
Exit(t) ==
    /\ At(t, "idle")
    /\ ThreadExitRequested
    /\ t = "main" => mainQueue = << >>
    /\ Goes(t, "exited")
    /\ UNCHANGED <<control, work, clients, device, queues>>

AnyThread(t) == Complete(t) \/ Decrement(t) \/ SignalIdle(t) \/ Exit(t)

\* A device operation that fails has been done to some of its sectors only.
Outcome == IF queue.Failures THEN BOOLEAN ELSE {TRUE}

-----------------------------------------------------------------------------
(* MainThreadProc *)

MainDequeue ==
    /\ At("main", "idle")
    /\ mainQueue # << >>
    /\ mainQueue' = Tail(mainQueue)
    /\ thread' = [thread EXCEPT !["main"] = [@ EXCEPT !.pc = "gate", !.irp = Head(mainQueue)]]
    /\ UNCHANGED <<control, work, clients, device, ioQueue, completionQueue>>

FaultyMainGate ==
    /\ At("main", "gate")
    /\ Goes("main", "accept")
    /\ UNCHANGED <<control, work, clients, device, queues>>

\* if (queue->Suspended) wait for QueueResumedEvent: the flag is read once.
MainGate ==
    /\ At("main", "gate")
    /\ Goes("main", IF Suspended THEN "resumeWait" ELSE "accept")
    /\ UNCHANGED <<control, work, clients, device, queues>>

MainResumed ==
    /\ At("main", "resumeWait")
    /\ QueueResumedEvent
    /\ QueueResumedEvent' = FALSE
    /\ Goes("main", "accept")
    /\ UNCHANGED <<work, clients, device, queues, counts, stopping, Suspended,
                   SuspendPending, hold>>

FaultyRegionsOverlap(start1, end1, start2, end2) ==
    IF start1 < start2 THEN end1 > start2 ELSE start1 < end2

RegionsOverlap(start1, end1, start2, end2) ==
    IF start1 < start2 THEN end1 >= start2 ELSE start1 <= end2

\* A write to the hidden volume or to a header.
Forbidden(i) ==
    irp[i].write /\ \E r \in queue.ProtectedRegions :
        RegionsOverlap(irp[i].offset, irp[i].offset + irp[i].length - 1, r[1], r[2])

Misaligned(i) ==
    IsFilterDevice /\ ~irp[i].write /\ irp[i].length > 0 /\ ~irp[i].aligned

Valid(i) ==
    /\ irp[i].length > 0 /\ irp[i].aligned
    /\ IsFilterDevice
          \/ irp[i].offset - queue.DataAreaOffset + irp[i].length <= queue.VirtualDeviceLength

\* Once there is an item for it (GetPoolBuffer), the IRP is refused (or has been
\* cancelled, or there is no memory for it), is a misaligned read, or is split
\* into fragments.  One write into the hidden volume makes a volume refuse all
\* writes (ProtectionAction).
MainAccept ==
    LET i == thread["main"].irp
        refused == ~Valid(i) \/ Forbidden(i) \/ (irp[i].write /\ ProtectionAction)
    IN  /\ At("main", "accept")
        /\ itemsFree > 0
        /\ itemsFree' = itemsFree - 1
        /\ \/ /\ Misaligned(i)
              /\ Goes("main", "misaligned")
              /\ UNCHANGED <<irp, cursor, ProtectionAction>>
           \/ /\ ~Misaligned(i) /\ ~refused
              /\ cursor' = [offset |-> irp[i].offset, remaining |-> irp[i].length]
              /\ Goes("main", "fragment")
              /\ UNCHANGED <<irp, ProtectionAction>>
           \/ /\ ~Misaligned(i) /\ refused
              /\ irp' = [irp EXCEPT ![i].status = "failed"]
              /\ ProtectionAction' =
                    (ProtectionAction \/ (~IsFilterDevice /\ Valid(i) /\ Forbidden(i)))
              /\ Goes("main", "complete")
              /\ UNCHANGED cursor
           \/ /\ queue.Failures
              /\ irp' = [irp EXCEPT ![i].status = "failed"]
              /\ Goes("main", "complete")
              /\ UNCHANGED <<cursor, ProtectionAction>>
        /\ UNCHANGED <<control, queue, data, disk, EncryptedAreaEnd, queues, buffers,
                       requestsFree, readAhead, IoThreadPendingRequestCount>>

\* A misaligned read is done here, without the other threads.
MainMisaligned ==
    LET i == thread["main"].irp IN
    /\ At("main", "misaligned")
    /\ \E ok \in Outcome :
          /\ irp' = [irp EXCEPT ![i].status = IF ok THEN "ok" ELSE "failed"]
          /\ data' = IF ~ok THEN data ELSE [data EXCEPT ![i] =
                [s \in DOMAIN @ |-> IF s \in EncryptedPart(DOMAIN @)
                                    THEN Decrypt(disk[s]) ELSE disk[s]]]
    /\ Goes("main", "complete")
    /\ UNCHANGED <<control, work, device, queues>>

\* The next fragment takes the other fragment buffer.
MainFragment ==
    /\ At("main", "fragment")
    /\ activeFragmentBuffer' = IF activeFragmentBuffer = "A" THEN "B" ELSE "A"
    /\ IoThreadPendingRequestCount' = IoThreadPendingRequestCount + 1
    /\ Goes("main", "getRequest")
    /\ UNCHANGED <<control, clients, device, queues, cursor, fragmentBuffer,
                   fragmentBufferFree, pool, readAhead>>

\* GetPoolBuffer for its request; the encrypted area is that of this moment.
MainGetRequest ==
    LET last == cursor.remaining <= MaxFragment
        fragment == [offset |-> cursor.offset,
                     length |-> IF last THEN cursor.remaining ELSE MaxFragment]
    IN  /\ At("main", "getRequest")
        /\ requestsFree > 0
        /\ requestsFree' = requestsFree - 1
        /\ thread' = [thread EXCEPT !["main"].pc = "queue", !["main"].request =
              [irp |-> thread["main"].irp, last |-> last,
               offset |-> fragment.offset, length |-> fragment.length,
               encrypted |-> EncryptedPart(Sectors(fragment)),
               buffer |-> activeFragmentBuffer]]
        /\ UNCHANGED <<control, clients, device, queues, cursor, buffers, itemsFree,
                       readAhead, IoThreadPendingRequestCount>>

\* Where a fragment that is not the last one leaves the main thread.
NextFragment == [offset |-> cursor.offset + MaxFragment,
                 remaining |-> cursor.remaining - MaxFragment]

FaultyMainQueue ==
    LET r == thread["main"].request IN
    /\ At("main", "queue")
    /\ fragmentBufferFree' = [fragmentBufferFree EXCEPT ![r.buffer] = FALSE]
    /\ fragmentBuffer' = IF ~irp[r.irp].write THEN fragmentBuffer
          ELSE [fragmentBuffer EXCEPT ![r.buffer] =
                   [s \in Sectors(r) |-> IF s \in r.encrypted THEN Encrypt(<<r.irp, 0>>)
                                         ELSE <<r.irp, 0>>]]
    /\ ioQueue' = Append(ioQueue, r)
    /\ cursor' = IF r.last THEN [offset |-> 0, remaining |-> 0] ELSE NextFragment
    /\ thread' = [thread EXCEPT !["main"] =
                     IF r.last THEN Idle ELSE [Idle EXCEPT !.pc = "fragment", !.irp = r.irp]]
    /\ UNCHANGED <<control, clients, device, mainQueue, completionQueue,
                   activeFragmentBuffer, pool, readAhead, IoThreadPendingRequestCount>>

\* AcquireFragmentBuffer; data to be written are copied and encrypted there; the
\* request is queued for the I/O thread.
MainQueue ==
    LET r == thread["main"].request IN
    /\ At("main", "queue")
    /\ fragmentBufferFree[r.buffer]
    /\ fragmentBufferFree' = [fragmentBufferFree EXCEPT ![r.buffer] = FALSE]
    /\ fragmentBuffer' = IF ~irp[r.irp].write THEN fragmentBuffer
          ELSE [fragmentBuffer EXCEPT ![r.buffer] =
                   [s \in Sectors(r) |-> IF s \in r.encrypted THEN Encrypt(<<r.irp, 0>>)
                                         ELSE <<r.irp, 0>>]]
    /\ ioQueue' = Append(ioQueue, r)
    /\ cursor' = IF r.last THEN [offset |-> 0, remaining |-> 0] ELSE NextFragment
    /\ thread' = [thread EXCEPT !["main"] =
                     IF r.last THEN Idle ELSE [Idle EXCEPT !.pc = "fragment", !.irp = r.irp]]
    /\ UNCHANGED <<control, clients, device, mainQueue, completionQueue,
                   activeFragmentBuffer, pool, readAhead, IoThreadPendingRequestCount>>

MainThreadProc ==
    \/ AnyThread("main") \/ MainDequeue \/ MainGate \/ MainResumed \/ MainAccept
    \/ MainMisaligned \/ MainFragment \/ MainGetRequest \/ MainQueue

-----------------------------------------------------------------------------
(* IoThreadProc *)

FaultyParts(r) == <<[offset |-> r.offset, length |-> r.length, shift |-> 0]>>

\* The device operations for a request: the part of it in the encrypted area is
\* done elsewhere if that area is remapped.
Parts(r) ==
    LET first == CHOOSE s \in r.encrypted : \A u \in r.encrypted : s <= u
        end == first + Cardinality(r.encrypted)
        Part(offset, length, shift) ==
            IF length > 0 THEN <<[offset |-> offset, length |-> length, shift |-> shift]>> ELSE << >>
    IN  IF RemapEncryptedArea /\ r.encrypted # {}
        THEN Part(r.offset, first - r.offset, 0) \o Part(first, end - first, RemappedAreaOffset)
                \o Part(end, r.offset + r.length - end, 0)
        ELSE <<[offset |-> r.offset, length |-> r.length, shift |-> 0]>>

\* TCCachedRead finds what it is to read in the read-ahead buffer.
Cached(p) ==
    /\ readAhead.valid
    /\ readAhead.offset = p.offset + p.shift
    /\ readAhead.length >= p.length

\* The status of the item becomes that of the last part.
LastStatus(parts, ok) == IF ok[Len(parts)] THEN "ok" ELSE "failed"

FaultyInvalidated == readAhead

\* ReadAheadBufferValid = FALSE
Invalidated == [readAhead EXCEPT !.valid = FALSE]

\* What a fragment buffer holds for sector s: something else, unless it is there
\* for a request that covers s.
Buffered(b, s) == IF s \in DOMAIN fragmentBuffer[b] THEN fragmentBuffer[b][s] ELSE Stale

IoWrite(r) ==
    LET parts == Parts(r) IN
    \E ok \in [DOMAIN parts -> Outcome], written \in SUBSET Sectors(r) :
        /\ \A p \in DOMAIN parts : ok[p] => Sectors(parts[p]) \subseteq written
        /\ (\A p \in DOMAIN parts : ok[p]) => written = Sectors(r)
        /\ disk' = Update(disk, [a \in {Location(s) : s \in written} |->
                       Buffered(r.buffer, CHOOSE s \in written : Location(s) = a)])
        /\ data' = [data EXCEPT ![r.irp] = Update(@, [s \in written |-> <<r.irp, 0>>])]
        /\ irp' = [irp EXCEPT ![r.irp].status = LastStatus(parts, ok)]
        /\ readAhead' = Invalidated
        /\ UNCHANGED fragmentBuffer

IoRead(r) ==
    LET parts == Parts(r)
        lastPart == parts[Len(parts)]
        Read(s, ok) ==
            LET n == CHOOSE n \in DOMAIN parts : s \in Sectors(parts[n])
                a == s + parts[n].shift
            IN  IF ~ok[n] THEN Stale
                ELSE IF Cached(parts[n]) THEN readAhead.content[a] ELSE disk[a]
    IN  \E ok \in [DOMAIN parts -> Outcome] :
        /\ \A p \in DOMAIN parts : Cached(parts[p]) => ok[p]
        /\ fragmentBuffer' = [fragmentBuffer EXCEPT ![r.buffer] =
                                 [s \in Sectors(r) |-> Read(s, ok)]]
        /\ irp' = [irp EXCEPT ![r.irp].status = LastStatus(parts, ok)]
        /\ readAhead' = [readAhead EXCEPT !.lastOffset = lastPart.offset + lastPart.shift,
                                          !.lastLength = lastPart.length]
        /\ UNCHANGED <<data, disk>>

\* Nothing is done if an earlier request of the IRP failed.
IoSkip(r) ==
    /\ readAhead' = [readAhead EXCEPT !.valid = @ /\ ~irp[r.irp].write]
    /\ UNCHANGED <<irp, data, disk, fragmentBuffer>>

\* Take a request from the queue and carry it out.
IoPerform ==
    LET r == Head(ioQueue) IN
    /\ At("io", "idle")
    /\ ioQueue # << >>
    /\ ioQueue' = Tail(ioQueue)
    /\ IoThreadPendingRequestCount' = IoThreadPendingRequestCount - 1
    /\ \/ irp[r.irp].status = "ok" /\ irp[r.irp].write /\ IoWrite(r)
       \/ irp[r.irp].status = "ok" /\ ~irp[r.irp].write /\ IoRead(r)
       \/ irp[r.irp].status # "ok" /\ IoSkip(r)
    /\ thread' = [thread EXCEPT !["io"] = [pc |-> "finish", irp |-> r.irp, request |-> r]]
    /\ UNCHANGED <<control, queue, EncryptedAreaEnd, ProtectionAction, mainQueue, completionQueue,
                   cursor, activeFragmentBuffer, fragmentBufferFree, pool>>

\* What was read goes to the caller; the fragment buffer is free again, and a
\* write request too unless it completes its IRP.
IoFinish ==
    LET r == thread["io"].request
        write == irp[r.irp].write
    IN  /\ At("io", "finish")
        /\ data' = IF write \/ irp[r.irp].status # "ok" THEN data
                   ELSE [data EXCEPT ![r.irp] = Update(@, fragmentBuffer[r.buffer])]
        /\ fragmentBuffer' = [fragmentBuffer EXCEPT ![r.buffer] = << >>]
        /\ fragmentBufferFree' = [fragmentBufferFree EXCEPT ![r.buffer] = TRUE]
        /\ requestsFree' = IF write /\ ~r.last THEN requestsFree + 1 ELSE requestsFree
        /\ Goes("io", IF ~write THEN "handOver" ELSE IF r.last THEN "complete" ELSE "idle")
        /\ UNCHANGED <<control, irp, device, queues, cursor, activeFragmentBuffer,
                       itemsFree, readAhead, IoThreadPendingRequestCount>>

\* The read goes on to the completion thread; if nothing else is to be done, the
\* device is read ahead, which counts as outstanding I/O.
IoHandOver ==
    LET r == thread["io"].request
        ahead == /\ r.last /\ readAhead.lastLength > 0
                 /\ irp[r.irp].status = "ok" /\ IoThreadPendingRequestCount = 0
    IN  /\ At("io", "handOver")
        /\ completionQueue' = Append(completionQueue, r)
        /\ OutstandingIoCount' = IF ahead THEN OutstandingIoCount + 1 ELSE OutstandingIoCount
        /\ thread' = [thread EXCEPT !["io"] =
                         [Idle EXCEPT !.pc = IF ahead THEN "readAhead" ELSE "idle"]]
        /\ UNCHANGED <<work, clients, device, suspension, stopping, mainQueue,
                       ioQueue, NoOutstandingIoEvent>>

IoReadAhead ==
    LET offset == readAhead.lastOffset + readAhead.lastLength
        length == readAhead.lastLength
    IN  /\ At("io", "readAhead")
        /\ \E ok \in Outcome :
              LET valid == ok /\ offset + length <= queue.MaxReadAheadOffset IN
              readAhead' = [readAhead EXCEPT
                  !.valid = valid, !.offset = offset, !.length = length,
                  !.content = IF valid THEN [a \in offset .. offset + length - 1 |-> disk[a]]
                              ELSE << >>]
        /\ Goes("io", "readAheadDone")
        /\ UNCHANGED <<control, clients, device, queues, buffers, pool, cursor,
                       IoThreadPendingRequestCount>>

IoThreadProc ==
    \/ AnyThread("io") \/ IoPerform \/ IoFinish \/ IoHandOver \/ IoReadAhead

-----------------------------------------------------------------------------
(* CompletionThreadProc *)

FaultyDecrypted(r) ==
    data' = IF irp[r.irp].status # "ok" THEN data
            ELSE [data EXCEPT ![r.irp] = Update(@, [s \in Sectors(r) |-> Decrypt(@[s])])]

Decrypted(r) ==
    data' = IF irp[r.irp].status # "ok" THEN data
            ELSE [data EXCEPT ![r.irp] = Update(@, [s \in r.encrypted |-> Decrypt(@[s])])]

\* The last request completes the IRP; the others are just released.
CompletionDecrypt ==
    LET r == Head(completionQueue) IN
    /\ At("completion", "idle")
    /\ completionQueue # << >>
    /\ completionQueue' = Tail(completionQueue)
    /\ Decrypted(r)
    /\ thread' = [thread EXCEPT !["completion"] =
          IF r.last THEN [pc |-> "complete", irp |-> r.irp, request |-> r] ELSE Idle]
    /\ requestsFree' = IF r.last THEN requestsFree ELSE requestsFree + 1
    /\ UNCHANGED <<control, irp, device, mainQueue, ioQueue, cursor, buffers, itemsFree,
                   readAhead, IoThreadPendingRequestCount>>

CompletionThreadProc == AnyThread("completion") \/ CompletionDecrypt

-----------------------------------------------------------------------------
(* EncryptedIoQueueHoldWhenIdle and EncryptedIoQueueResumeFromHold, called by
   the thread that encrypts, decrypts or wipes the drive under the queue *)

HoldAt(pc) == hold = pc
HoldGoes(pc) == hold' = pc

Hold ==
    /\ IsFilterDevice
    /\ HoldAt("idle")
    /\ HoldGoes("test")
    /\ SuspendPending' = TRUE
    /\ UNCHANGED <<io, counts, stopping, Suspended, QueueResumedEvent>>

HoldTest ==
    /\ HoldAt("test")
    /\ HoldGoes(IF OutstandingIoCount > 0 THEN "wait" ELSE "clear")
    /\ UNCHANGED <<io, counts, stopping, Suspended, SuspendPending,
                   QueueResumedEvent>>

HoldWake ==
    /\ HoldAt("wait")
    /\ NoOutstandingIoEvent
    /\ NoOutstandingIoEvent' = FALSE
    /\ HoldGoes("recheck")
    /\ UNCHANGED <<io, stopping, OutstandingIoCount, Suspended, SuspendPending,
                   QueueResumedEvent>>

\* The wait times out, or there is new I/O by the time it has ended.
HoldFails ==
    /\ \/ HoldAt("wait") /\ TimeLimit
       \/ HoldAt("recheck") /\ OutstandingIoCount > 0
    /\ SuspendPending' = FALSE
    /\ HoldGoes("idle")
    /\ UNCHANGED <<io, counts, stopping, Suspended, QueueResumedEvent>>

HoldRecheck ==
    /\ HoldAt("recheck")
    /\ OutstandingIoCount = 0
    /\ HoldGoes("test")
    /\ UNCHANGED <<io, counts, stopping, Suspended, SuspendPending,
                   QueueResumedEvent>>

HoldClear ==
    /\ HoldAt("clear")
    /\ QueueResumedEvent' = FALSE
    /\ HoldGoes("suspend")
    /\ UNCHANGED <<io, counts, stopping, Suspended, SuspendPending>>

HoldSuspend ==
    /\ HoldAt("suspend")
    /\ Suspended' = TRUE
    /\ HoldGoes("confirm")
    /\ UNCHANGED <<io, counts, stopping, SuspendPending, QueueResumedEvent>>

FaultyHoldConfirm ==
    /\ HoldAt("confirm")
    /\ HoldGoes("invalidate")
    /\ UNCHANGED <<io, counts, stopping, Suspended, SuspendPending, QueueResumedEvent>>

\* Held if still idle; otherwise the suspension is undone.
HoldConfirm ==
    /\ HoldAt("confirm")
    /\ HoldGoes(IF OutstandingIoCount = 0 THEN "invalidate" ELSE "undo")
    /\ Suspended' = (OutstandingIoCount = 0)
    /\ UNCHANGED <<io, counts, stopping, SuspendPending, QueueResumedEvent>>

HoldUndo ==
    /\ HoldAt("undo")
    /\ QueueResumedEvent' = TRUE
    /\ HoldGoes("test")
    /\ UNCHANGED <<io, counts, stopping, Suspended, SuspendPending>>

HoldInvalidate ==
    /\ HoldAt("invalidate")
    /\ readAhead' = Invalidated
    /\ SuspendPending' = FALSE
    /\ HoldGoes("held")
    /\ UNCHANGED <<clients, device, queues, buffers, pool, counts, stopping,
                   thread, cursor, IoThreadPendingRequestCount, Suspended,
                   QueueResumedEvent>>

\* What the holder does to the device: the sector after the encrypted area is
\* encrypted or its last one decrypted; on a hidden system, a sector of the
\* decoy system is wiped.
HoldWork ==
    /\ HoldAt("held")
    /\ \/ /\ ~RemapEncryptedArea /\ EncryptedAreaEnd < queue.ConfiguredEnd
          /\ disk' = [disk EXCEPT ![EncryptedAreaEnd + 1] = Encrypt(@)]
          /\ EncryptedAreaEnd' = EncryptedAreaEnd + 1
       \/ /\ ~RemapEncryptedArea /\ EncryptedAreaEnd >= EncryptedAreaStart
          /\ disk' = [disk EXCEPT ![EncryptedAreaEnd] = Decrypt(@)]
          /\ EncryptedAreaEnd' = EncryptedAreaEnd - 1
       \/ /\ RemapEncryptedArea
          /\ \E s \in EncryptedAreaStart .. EncryptedAreaEnd :
                disk' = [disk EXCEPT ![s] = Stale]
          /\ UNCHANGED EncryptedAreaEnd
    /\ UNCHANGED <<work, clients, queue, queues, control, ProtectionAction, thread>>

\* Also without work: the device failed, or the setup was aborted.
Resume ==
    /\ HoldAt("held")
    /\ Suspended' = FALSE
    /\ HoldGoes("resume")
    /\ UNCHANGED <<io, counts, stopping, SuspendPending, QueueResumedEvent>>

FaultyResumeSignal ==
    /\ HoldAt("resume")
    /\ HoldGoes("idle")
    /\ UNCHANGED <<io, counts, stopping, Suspended, SuspendPending, QueueResumedEvent>>

ResumeSignal ==
    /\ HoldAt("resume")
    /\ QueueResumedEvent' = TRUE
    /\ HoldGoes("idle")
    /\ UNCHANGED <<io, counts, stopping, Suspended, SuspendPending>>

Holder ==
    \/ HoldTest \/ HoldWake \/ HoldFails \/ HoldRecheck \/ HoldClear \/ HoldSuspend
    \/ HoldConfirm \/ HoldUndo \/ HoldInvalidate \/ HoldWork \/ Resume \/ ResumeSignal

-----------------------------------------------------------------------------
(* EncryptedIoQueueStop *)

StopAt(pc) == stop = pc

\* A volume is stopped, possibly with requests under way.  (The queue of a drive
\* filter, which is what is held, is stopped only when the drive is removed.)
Stop ==
    /\ ~IsFilterDevice
    /\ StopAt("running")
    /\ StopPending' = TRUE
    /\ stop' = "drain"
    /\ UNCHANGED <<io, counts, suspension, ThreadExitRequested>>

FaultyStopDrain ==
    /\ StopAt("drain")
    /\ stop' = "main"
    /\ ThreadExitRequested' = TRUE
    /\ UNCHANGED <<io, counts, suspension, StopPending>>

StopDrain ==
    /\ StopAt("drain")
    /\ stop' = IF OutstandingIoCount > 0 THEN "wait" ELSE "main"
    /\ ThreadExitRequested' = (OutstandingIoCount <= 0)
    /\ UNCHANGED <<io, counts, suspension, StopPending>>

StopWait ==
    /\ StopAt("wait")
    /\ NoOutstandingIoEvent
    /\ NoOutstandingIoEvent' = FALSE
    /\ stop' = "drain"
    /\ UNCHANGED <<io, suspension, OutstandingIoCount, StopPending,
                   ThreadExitRequested>>

\* TCStopThread: wait for the three threads in turn.
StopJoin ==
    /\ stop \in Threads
    /\ At(stop, "exited")
    /\ stop' = CASE stop = "main" -> "io" [] stop = "io" -> "completion"
                 [] OTHER -> "stopped"
    /\ UNCHANGED <<io, counts, suspension, StopPending, ThreadExitRequested>>

Stopper == StopDrain \/ StopWait \/ StopJoin

-----------------------------------------------------------------------------

Adding(i) == AddIrpQueue(i) \/ AddIrpRefuse(i) \/ AddIrpSignal(i)

Next ==
    \/ \E i \in Irps : AddIrp(i) \/ Adding(i) \/ Collect(i)
    \/ MainThreadProc \/ IoThreadProc \/ CompletionThreadProc
    \/ Hold \/ Holder \/ Stop \/ Stopper

Spec == Init /\ [][Next]_vars

\* Every thread runs, and whoever holds the queue resumes it.
Fairness ==
    /\ \A i \in Irps : WF_vars(Adding(i))
    /\ WF_vars(MainThreadProc) /\ WF_vars(IoThreadProc) /\ WF_vars(CompletionThreadProc)
    /\ WF_vars(Holder) /\ WF_vars(Resume) /\ WF_vars(Stopper)

FairSpec == Spec /\ Fairness

-----------------------------------------------------------------------------
(* Properties *)

ClientPc == {"idle", "counted", "refused", "pending", "done"}
ThreadPc == {"idle", "gate", "resumeWait", "accept", "misaligned", "fragment",
             "getRequest", "queue", "finish", "handOver", "readAhead", "readAheadDone",
             "signalReadAhead", "complete", "decrement", "signal", "exited"}
HoldPc == {"idle", "test", "wait", "recheck", "clear", "suspend", "confirm", "undo",
           "invalidate", "held", "resume"}
StopPc == {"running", "drain", "wait", "stopped"} \cup Threads

Request == [irp : Irps \cup {None}, last : BOOLEAN, offset : Nat, length : Nat,
            encrypted : SUBSET Nat, buffer : {"A", "B"}]
IrpType == [pc : ClientPc, write : BOOLEAN, offset : Nat, length : Nat,
            aligned : BOOLEAN, status : {"ok", "failed"}]

\* Every variable has its type; no counter or pool goes below zero.
TypeOK ==
    /\ irp \in [Irps -> IrpType]
    /\ mainQueue \in Seq(Irps) /\ ioQueue \in Seq(Request) /\ completionQueue \in Seq(Request)
    /\ thread \in [Threads -> [pc : ThreadPc, irp : Irps \cup {None}, request : Request]]
    /\ cursor \in [offset : Nat, remaining : Nat]
    /\ activeFragmentBuffer \in {"A", "B"}
    /\ fragmentBufferFree \in [{"A", "B"} -> BOOLEAN]
    /\ itemsFree \in 0 .. ItemCount /\ requestsFree \in 0 .. RequestCount
    /\ OutstandingIoCount \in Nat /\ IoThreadPendingRequestCount \in Nat
    /\ EncryptedAreaEnd \in Int
    /\ {NoOutstandingIoEvent, Suspended, SuspendPending,
        QueueResumedEvent, StopPending, ThreadExitRequested, ProtectionAction} \subseteq BOOLEAN
    /\ hold \in HoldPc
    /\ stop \in StopPc

\* OutstandingIoCount counts the IRPs between EncryptedIoQueueAddIrp and the
\* decrement that follows their completion, and a read-ahead under way.
Accounted ==
    OutstandingIoCount = Cardinality({i \in Irps : irp[i].pc \in {"counted", "pending"}})
                         + Cardinality({t \in Threads : thread[t].pc \in
                               {"decrement", "readAhead", "readAheadDone"}})

\* A thread is done with the device and with the encrypted area.
Harmless(t) ==
    thread[t].pc \in {"idle", "gate", "resumeWait", "signal", "signalReadAhead"}

\* The count that EncryptedIoQueueHoldWhenIdle waits for is exact, and while the queue
\* is held (the call has returned success) no thread of the queue accesses the device,
\* has a fragment under way or is past the point where it waits for the queue to be resumed.
HoldExclusive ==
    /\ Accounted
    /\ hold \in {"invalidate", "held"} =>
          ioQueue = << >> /\ completionQueue = << >> /\ \A t \in Threads : Harmless(t)

\* Every sector in the encrypted area, and no other, is encrypted once, although
\* the area moves while reads and writes come in: a write is encrypted for the
\* area as it is when the write gets to the device.
LayersMatchArea ==
    \A s \in Disk : disk[s][2] =
        IF \E r \in Disk : r \in EncryptedPart({r}) /\ Location(r) = s THEN 1 ELSE 0

\* A read that succeeds returns plain text.
ReadsDecrypted ==
    \A i \in Irps : IrpAt(i, "done") /\ irp[i].status = "ok" /\ ~irp[i].write =>
        \A s \in DOMAIN data[i] : data[i][s][2] = 0

\* An IRP is completed with success only if all of its sectors have been read or
\* written: a failed device operation is reported.
SuccessIsComplete ==
    \A i \in Irps : IrpAt(i, "done") /\ irp[i].status = "ok" =>
        \A s \in DOMAIN data[i] : data[i][s] \notin {NoData, Stale}

\* Nothing is written to the hidden volume, or to a header area.
ProtectedUntouched ==
    \A r \in queue.ProtectedRegions : \A s \in (r[1] .. r[2]) \cap Disk : disk[s][1] = None

\* EncryptedIoQueueStop frees the buffers only when no thread is left and every
\* buffer is back in the pool (the assertion of FreePoolBuffers).
StoppedClean ==
    stop = "stopped" =>
        /\ \A t \in Threads : At(t, "exited")
        /\ mainQueue = << >> /\ ioQueue = << >> /\ completionQueue = << >>
        /\ itemsFree = ItemCount /\ requestsFree = RequestCount

\* The device is a disk: reads return what was written, whatever the order in
\* which fragments, read-ahead, remapping and encryption of the area happen.
Logical == Disk \ {s + RemappedAreaOffset : s \in IF RemapEncryptedArea
                                                 THEN EncryptedAreaStart .. queue.InitialAreaEnd ELSE {}}
RequestOf(i) ==
    [op |-> IF IrpAt(i, "idle") THEN "none" ELSE IF irp[i].write THEN "write" ELSE "read",
     data |-> [s \in DOMAIN data[i] \cap Logical |-> data[i][s][1]],
     status |-> CASE IrpAt(i, "idle") -> "none" [] IrpAt(i, "done") -> irp[i].status
                  [] OTHER -> "active"]
Device == INSTANCE LogicalDisk
             WITH Addresses <- Disk, Old <- None,
                  content <- [s \in Disk |-> IF s \in Logical THEN disk[Location(s)][1] ELSE None],
                  request <- [i \in Irps |-> RequestOf(i)]
ImplementsDisk == Device!Spec

\* An IRP is completed, even if the queue is held again and again or is stopped.
IrpsComplete == \A i \in Irps : IrpAt(i, "counted") ~> IrpAt(i, "done")

\* EncryptedIoQueueStop returns, whatever is under way, once the clients give up
\* sending requests that are refused: while they do not, OutstandingIoCount may
\* never be seen at zero.
StopReturns ==
    <>[][\A i \in Irps : ~AddIrp(i)]_vars => (StopAt("drain") ~> StopAt("stopped"))

\* EncryptedIoQueueHoldWhenIdle, without a time limit, does not sleep while the
\* queue is idle: it is woken when the clients pause (while they do not, overlapping
\* requests may keep OutstandingIoCount above zero).
HoldWakes ==
    <>[][\A i \in Irps : ~AddIrp(i)]_vars => (HoldAt("wait") ~> ~HoldAt("wait"))
=============================================================================
