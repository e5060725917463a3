------------------------ MODULE EncryptionThreadPool ------------------------
(***************************************************************************)
(* Common/EncryptionThreadPool.c: a ring of work items filled in order     *)
(* under EnqueueMutex and emptied in order under DequeueMutex by a set of  *)
(* worker threads.  A DoWork call splits its data units into fragments,    *)
(* one work item each; the first fragment's item counts the outstanding    *)
(* fragments and stays occupied until the caller has been woken.           *)
(*                                                                         *)
(* One action per step between two accesses to shared memory that another  *)
(* thread may observe.  Events are the auto-reset events of the code: set  *)
(* is latched, a wait consumes it.                                         *)
(***************************************************************************)
EXTENDS Integers, Sequences, FiniteSets

CONSTANTS
    Workers,      \* the encryption threads
    DataClients,  \* threads that call EncryptionThreadPoolDoWork
    KeyClients,   \* threads that call EncryptionThreadPoolBeginKeyDerivation
    KeyItems,     \* keyDerivationWorkItems of a key client
    None,         \* a mutex nobody holds
    QueueSize,    \* TC_ENC_THREAD_POOL_QUEUE_SIZE
    MaxUnits      \* bound on the data units of one DoWork call

ThreadCount == Cardinality(Workers)

\* The code has QUEUE_SIZE = 2 * MAX_THREAD_COUNT and ThreadCount at most
\* MAX_THREAD_COUNT; with fewer than two CPUs the pool is never started.
ASSUME PoolAssumption ==
    /\ IsFiniteSet(Workers) /\ ThreadCount \in Nat /\ ThreadCount >= 2
    /\ QueueSize \in Nat /\ QueueSize >= 2 * ThreadCount
    /\ MaxUnits \in Nat
    /\ None \notin DataClients \cup KeyClients \cup Workers
    /\ DataClients \cap KeyClients = {}

VARIABLES
    ThreadPoolRunning, StopPending, EnqueuePosition, DequeuePosition,
    EnqueueMutex, DequeueMutex,                 \* holder or None
    WorkItemReadyEvent, WorkItemCompletedEvent,
    queue,      \* WorkItemQueue
    worker,     \* [pc, item] of each encryption thread
    client,     \* [pc, locals of DoWork] of each data client
    buffer,     \* buffer[c][u]: unit numbers data unit u was transformed with
    key,        \* [pc, item, derivation] of each key client
    KeyReady,   \* KeyReady[k][i]: completion flag of key item i
    outstandingWorkItemCount, keyDerivationCompletedEvent,
    noOutstandingWorkItemEvent,                 \* per key client
    control     \* the thread that starts and stops the pool

ring == <<EnqueuePosition, DequeuePosition, EnqueueMutex, DequeueMutex>>
events == <<WorkItemReadyEvent, WorkItemCompletedEvent>>
clients == <<client, buffer>>
keyEvents == <<outstandingWorkItemCount, keyDerivationCompletedEvent,
               noOutstandingWorkItemEvent>>
keys == <<key, KeyReady, keyEvents>>
flags == <<ThreadPoolRunning, StopPending, control>>
vars == <<ThreadPoolRunning, StopPending, EnqueuePosition, DequeuePosition,
          EnqueueMutex, DequeueMutex, WorkItemReadyEvent,
          WorkItemCompletedEvent, queue, worker, client, buffer, key,
          KeyReady, outstandingWorkItemCount, keyDerivationCompletedEvent,
          noOutstandingWorkItemEvent, control>>

Slots == 0 .. QueueSize - 1
Unit == 0 .. MaxUnits - 1
Clear == [u \in Unit |-> << >>]
\* A faulty variant, for the check that the properties notice it: the ring is
\* one item longer than it is.  (So are the other definitions named Faulty...)
FaultyAdvance(position) == IF position >= QueueSize THEN 0 ELSE position + 1

Advance(position) == IF position + 1 >= QueueSize THEN 0 ELSE position + 1

EmptyItem == [State |-> "Free", Type |-> "Data", FirstFragment |-> 0,
              OutstandingFragmentCount |-> 0, ItemCompletedEvent |-> FALSE,
              Owner |-> None, Derivation |-> None,
              Data |-> 0, StartUnitNo |-> 0, UnitCount |-> 0]

IdleClient == [pc |-> "idle", unitCount |-> 0, fragmentCount |-> 0,
               unitsPerFragment |-> 0, remainder |-> 0, fragmentData |-> 0,
               fragmentStartUnitNo |-> 0, first |-> 0, item |-> 0]

IdleKey == [pc |-> "idle", item |-> 0, derivation |-> None]

Init ==
    /\ ThreadPoolRunning = FALSE /\ StopPending = FALSE
    /\ EnqueuePosition = 0 /\ DequeuePosition = 0
    /\ EnqueueMutex = None /\ DequeueMutex = None
    /\ WorkItemReadyEvent = FALSE /\ WorkItemCompletedEvent = FALSE
    /\ queue = [i \in Slots |-> EmptyItem]
    /\ worker = [w \in Workers |-> [pc |-> "none", item |-> 0]]
    /\ client = [c \in DataClients |-> IdleClient]
    /\ buffer = [c \in DataClients |-> Clear]
    /\ key = [k \in KeyClients |-> IdleKey]
    /\ KeyReady = [k \in KeyClients |-> [i \in KeyItems |-> TRUE]]
    /\ outstandingWorkItemCount = [k \in KeyClients |-> 0]
    /\ keyDerivationCompletedEvent = [k \in KeyClients |-> FALSE]
    /\ noOutstandingWorkItemEvent = [k \in KeyClients |-> TRUE]
    /\ control = "stopped"

-----------------------------------------------------------------------------
(* EncryptionThreadProc *)

FaultyIsFree(i) == queue[i].State # "Ready"

IsFree(i) == queue[i].State = "Free"

\* SetWorkItemState (workItem, WorkItemFree).  Nobody reads the job of a free
\* item, so it is forgotten; its FirstFragment is read once more below.
Free(i) ==
    queue' = [queue EXCEPT ![i] =
        [EmptyItem EXCEPT !.FirstFragment = queue[i].FirstFragment,
                          !.OutstandingFragmentCount = queue[i].OutstandingFragmentCount,
                          !.ItemCompletedEvent = queue[i].ItemCompletedEvent]]
WorkerAt(w, pc) == worker[w].pc = pc
WorkerGoes(w, pc) ==
    worker' = [worker EXCEPT ![w] = IF pc \in {"loop", "exited"}
                                    THEN [pc |-> pc, item |-> 0]
                                    ELSE [@ EXCEPT !.pc = pc]]

\* while (!StopPending)
WorkerLoop(w) ==
    /\ WorkerAt(w, "loop")
    /\ WorkerGoes(w, IF StopPending THEN "exited" ELSE "acquire")
    /\ UNCHANGED <<flags, ring, events, queue, clients, keys>>

\* Take the next position of the ring, whatever the state of its item.
WorkerAcquire(w) ==
    /\ WorkerAt(w, "acquire")
    /\ DequeueMutex = None
    /\ DequeueMutex' = w
    /\ worker' = [worker EXCEPT ![w] = [pc |-> "test", item |-> DequeuePosition]]
    /\ DequeuePosition' = Advance(DequeuePosition)
    /\ UNCHANGED <<flags, EnqueuePosition, EnqueueMutex, events, queue,
                   clients, keys>>

FaultyTakeable(i) == queue[i].State # "Free"

\* The state a worker waits for before it makes an item its own.
Takeable(i) == queue[i].State = "Ready"

\* Leave the wait loop with the item, which becomes Busy also on StopPending.
WorkerTake(w) ==
    /\ WorkerAt(w, "test")
    /\ StopPending \/ Takeable(worker[w].item)
    /\ queue' = [queue EXCEPT ![worker[w].item].State = "Busy"]
    /\ DequeueMutex' = None
    /\ WorkerGoes(w, "stopCheck")
    /\ UNCHANGED <<flags, EnqueuePosition, DequeuePosition, EnqueueMutex,
                   events, clients, keys>>

WorkerSleep(w) ==
    /\ WorkerAt(w, "test")
    /\ ~StopPending /\ ~Takeable(worker[w].item)
    /\ WorkerGoes(w, "sleep")
    /\ UNCHANGED <<flags, ring, events, queue, clients, keys>>

WorkerWake(w) ==
    /\ WorkerAt(w, "sleep")
    /\ WorkItemReadyEvent
    /\ WorkItemReadyEvent' = FALSE
    /\ WorkerGoes(w, "test")
    /\ UNCHANGED <<flags, ring, WorkItemCompletedEvent, queue, clients, keys>>

WorkerStopCheck(w) ==
    /\ WorkerAt(w, "stopCheck")
    /\ WorkerGoes(w, CASE StopPending -> "exited"
                       [] ~StopPending /\ queue[worker[w].item].Type = "Data" -> "transform"
                       [] OTHER -> "derive")
    /\ UNCHANGED <<flags, ring, events, queue, clients, keys>>

\* EncryptDataUnitsCurrentThread or DecryptDataUnitsCurrentThread on the
\* `count' units at `data', numbered from `start'.
Transformed(b, data, start, count) ==
    [u \in Unit |-> IF u \in data .. data + count - 1
                    THEN Append(b[u], start + (u - data)) ELSE b[u]]

\* The item of a later fragment is released as soon as its data are done;
\* that of the first fragment only by the caller.
ReleasedByWorker(i) == i # queue[i].FirstFragment

WorkerTransform(w) ==
    LET item == queue[worker[w].item] IN
    /\ WorkerAt(w, "transform")
    /\ buffer' = [buffer EXCEPT ![item.Owner] =
                     Transformed(@, item.Data, item.StartUnitNo, item.UnitCount)]
    /\ WorkerGoes(w, IF ReleasedByWorker(worker[w].item) THEN "free" ELSE "decrement")
    /\ UNCHANGED <<flags, ring, events, queue, client, keys>>

WorkerFree(w) ==
    /\ worker[w].pc \in {"free", "freeKey"}
    /\ Free(worker[w].item)
    /\ WorkerGoes(w, IF WorkerAt(w, "free") THEN "signalFree" ELSE "signalFreeKey")
    /\ UNCHANGED <<flags, ring, events, clients, keys>>

\* TC_SET_EVENT (WorkItemCompletedEvent)
WorkerSignalFree(w) ==
    /\ worker[w].pc \in {"signalFree", "signalFreeKey"}
    /\ WorkItemCompletedEvent' = TRUE
    /\ WorkerGoes(w, IF WorkerAt(w, "signalFree") THEN "decrement" ELSE "loop")
    /\ UNCHANGED <<flags, ring, WorkItemReadyEvent, queue, clients, keys>>

\* workItem->FirstFragment is read after the item may have been released.
WorkerDecrement(w) ==
    LET first == queue[worker[w].item].FirstFragment
        left == queue[first].OutstandingFragmentCount - 1
    IN  /\ WorkerAt(w, "decrement")
        /\ queue' = [queue EXCEPT ![first].OutstandingFragmentCount = left]
        /\ WorkerGoes(w, IF left = 0 THEN "signalDone" ELSE "loop")
        /\ UNCHANGED <<flags, ring, events, clients, keys>>

WorkerSignalDone(w) ==
    /\ WorkerAt(w, "signalDone")
    /\ queue' = [queue EXCEPT ![queue[worker[w].item].FirstFragment].ItemCompletedEvent = TRUE]
    /\ WorkerGoes(w, "loop")
    /\ UNCHANGED <<flags, ring, events, clients, keys>>

\* A key derivation: set the completion flag and its event, ...
WorkerDerive(w) ==
    LET item == queue[worker[w].item] IN
    /\ WorkerAt(w, "derive")
    /\ KeyReady' = [KeyReady EXCEPT ![item.Owner][item.Derivation] = TRUE]
    /\ WorkerGoes(w, "signalKey")
    /\ UNCHANGED <<flags, ring, events, queue, clients, key, keyEvents>>

FaultyWorkerSignalKey(w) ==
    /\ WorkerAt(w, "signalKey")
    /\ WorkerGoes(w, "decrementKey")
    /\ UNCHANGED <<flags, ring, events, queue, clients, keys>>

WorkerSignalKey(w) ==
    /\ WorkerAt(w, "signalKey")
    /\ keyDerivationCompletedEvent' =
          [keyDerivationCompletedEvent EXCEPT ![queue[worker[w].item].Owner] = TRUE]
    /\ WorkerGoes(w, "decrementKey")
    /\ UNCHANGED <<flags, ring, events, queue, clients, key, KeyReady,
                   outstandingWorkItemCount, noOutstandingWorkItemEvent>>

\* ... then the caller's count, ...
WorkerDecrementKey(w) ==
    LET k == queue[worker[w].item].Owner
        left == outstandingWorkItemCount[k] - 1
    IN  /\ WorkerAt(w, "decrementKey")
        /\ outstandingWorkItemCount' = [outstandingWorkItemCount EXCEPT ![k] = left]
        /\ WorkerGoes(w, IF left = 0 THEN "signalNoOutstanding" ELSE "freeKey")
        /\ UNCHANGED <<flags, ring, events, queue, clients, key, KeyReady,
                       keyDerivationCompletedEvent, noOutstandingWorkItemEvent>>

\* ... and, from the count read above, the caller's second event.
WorkerSignalNoOutstanding(w) ==
    /\ WorkerAt(w, "signalNoOutstanding")
    /\ noOutstandingWorkItemEvent' =
          [noOutstandingWorkItemEvent EXCEPT ![queue[worker[w].item].Owner] = TRUE]
    /\ WorkerGoes(w, "freeKey")
    /\ UNCHANGED <<flags, ring, events, queue, clients, key, KeyReady,
                   outstandingWorkItemCount, keyDerivationCompletedEvent>>

EncryptionThreadProc(w) ==
    \/ WorkerLoop(w) \/ WorkerAcquire(w) \/ WorkerTake(w) \/ WorkerSleep(w)
    \/ WorkerWake(w) \/ WorkerStopCheck(w) \/ WorkerTransform(w)
    \/ WorkerFree(w) \/ WorkerSignalFree(w) \/ WorkerDecrement(w)
    \/ WorkerSignalDone(w) \/ WorkerDerive(w) \/ WorkerSignalKey(w)
    \/ WorkerDecrementKey(w) \/ WorkerSignalNoOutstanding(w)

-----------------------------------------------------------------------------
(* EncryptionThreadPoolDoWork *)

ClientAt(c, pc) == client[c].pc = pc
ClientGoes(c, pc) == client' = [client EXCEPT ![c].pc = pc]

\* How many fragments, and how many units the first ones have: at most one per
\* thread, the `remainder' first ones a unit longer than the others.
FragmentCount(n) == IF n <= ThreadCount THEN n ELSE ThreadCount
Remainder(n) == IF n <= ThreadCount THEN 0 ELSE n % ThreadCount
FaultyUnitsPerFragment(n) == IF n <= ThreadCount THEN 1 ELSE n \div ThreadCount

UnitsPerFragment(n) ==
    IF n <= ThreadCount THEN 1
    ELSE IF Remainder(n) > 0 THEN (n \div ThreadCount) + 1 ELSE n \div ThreadCount

\* A call of n units; without a pool, or for one unit, in the calling thread.
DoWorkCall(c) ==
    /\ ClientAt(c, "idle")
    /\ control \in {"running", "failed"}
    /\ \E n \in 1 .. MaxUnits :
          client' = [client EXCEPT ![c] =
              [IdleClient EXCEPT
                  !.pc = IF ~ThreadPoolRunning \/ n = 1 THEN "inline" ELSE "lock",
                  !.unitCount = n,
                  !.fragmentCount = FragmentCount(n),
                  !.unitsPerFragment = UnitsPerFragment(n),
                  !.remainder = Remainder(n)]]
    /\ UNCHANGED <<flags, ring, events, queue, worker, buffer, keys>>

DoWorkInline(c) ==
    /\ ClientAt(c, "inline")
    /\ buffer' = [buffer EXCEPT ![c] = Transformed(@, 0, 0, client[c].unitCount)]
    /\ ClientGoes(c, "return")
    /\ UNCHANGED <<flags, ring, events, queue, worker, keys>>

DoWorkLock(c) ==
    /\ ClientAt(c, "lock")
    /\ EnqueueMutex = None
    /\ EnqueueMutex' = c
    /\ client' = [client EXCEPT ![c].pc = "testFirst", ![c].first = EnqueuePosition]
    /\ UNCHANGED <<flags, EnqueuePosition, DequeuePosition, DequeueMutex, events,
                   queue, worker, buffer, keys>>

\* workItem = &WorkItemQueue[EnqueuePosition++]
TakeSlot(c) ==
    /\ client' = [client EXCEPT ![c].pc = "testItem", ![c].item = EnqueuePosition,
                                ![c].fragmentCount = @ - 1]
    /\ EnqueuePosition' = Advance(EnqueuePosition)

DoWorkBegin(c) ==
    /\ ClientAt(c, "testFirst")
    /\ IsFree(client[c].first)
    /\ queue' = [queue EXCEPT ![client[c].first].OutstandingFragmentCount =
                                  client[c].fragmentCount]
    /\ TakeSlot(c)
    /\ UNCHANGED <<flags, DequeuePosition, EnqueueMutex, DequeueMutex, events,
                   worker, buffer, keys>>

\* The item of the next fragment, once free, is filled and made Ready.
DoWorkFill(c) ==
    LET me == client[c]
        last == me.remainder = 1
    IN  /\ ClientAt(c, "testItem")
        /\ IsFree(me.item)
        /\ queue' = [queue EXCEPT ![me.item] =
               [@ EXCEPT !.State = "Ready", !.Type = "Data", !.Owner = c,
                         !.FirstFragment = me.first,
                         !.Data = me.fragmentData,
                         !.StartUnitNo = me.fragmentStartUnitNo,
                         !.UnitCount = me.unitsPerFragment]]
        /\ client' = [client EXCEPT ![c] =
               [me EXCEPT !.pc = "signalReady",
                          !.fragmentData = me.fragmentData + me.unitsPerFragment,
                          !.fragmentStartUnitNo =
                              me.fragmentStartUnitNo + me.unitsPerFragment,
                          !.remainder = IF me.remainder > 0 THEN me.remainder - 1 ELSE 0,
                          !.unitsPerFragment = IF last THEN me.unitsPerFragment - 1
                                               ELSE me.unitsPerFragment]]
        /\ UNCHANGED <<flags, ring, events, worker, buffer, keys>>

\* while (GetWorkItemState (workItem) != WorkItemFree) TC_WAIT_EVENT (...)
DoWorkSleep(c) ==
    /\ \/ ClientAt(c, "testFirst") /\ ~IsFree(client[c].first)
          /\ ClientGoes(c, "sleepFirst")
       \/ ClientAt(c, "testItem") /\ ~IsFree(client[c].item)
          /\ ClientGoes(c, "sleepItem")
    /\ UNCHANGED <<flags, ring, events, queue, worker, buffer, keys>>

DoWorkWake(c) ==
    /\ client[c].pc \in {"sleepFirst", "sleepItem"}
    /\ WorkItemCompletedEvent
    /\ WorkItemCompletedEvent' = FALSE
    /\ ClientGoes(c, IF ClientAt(c, "sleepFirst") THEN "testFirst" ELSE "testItem")
    /\ UNCHANGED <<flags, ring, WorkItemReadyEvent, queue, worker, buffer, keys>>

\* Wake a worker; go on to the next fragment or release the mutex and wait.
DoWorkSignalReady(c) ==
    /\ ClientAt(c, "signalReady")
    /\ WorkItemReadyEvent' = TRUE
    /\ \/ client[c].fragmentCount > 0 /\ TakeSlot(c) /\ UNCHANGED EnqueueMutex
       \/ client[c].fragmentCount = 0 /\ EnqueueMutex' = None
          /\ client' = [client EXCEPT ![c] =
                 [IdleClient EXCEPT !.pc = "await", !.first = client[c].first,
                                    !.unitCount = client[c].unitCount]]
          /\ UNCHANGED EnqueuePosition
    /\ UNCHANGED <<flags, DequeuePosition, DequeueMutex, WorkItemCompletedEvent,
                   queue, worker, buffer, keys>>

DoWorkAwait(c) ==
    /\ ClientAt(c, "await")
    /\ queue[client[c].first].ItemCompletedEvent
    /\ queue' = [queue EXCEPT ![client[c].first].ItemCompletedEvent = FALSE]
    /\ ClientGoes(c, "freeFirst")
    /\ UNCHANGED <<flags, ring, events, worker, buffer, keys>>

DoWorkFreeFirst(c) ==
    /\ ClientAt(c, "freeFirst")
    /\ Free(client[c].first)
    /\ ClientGoes(c, "signalFirst")
    /\ UNCHANGED <<flags, ring, events, worker, buffer, keys>>

FaultyDoWorkSignalFirst(c) ==
    /\ ClientAt(c, "signalFirst")
    /\ ClientGoes(c, "return")
    /\ UNCHANGED <<flags, ring, events, queue, worker, buffer, keys>>

DoWorkSignalFirst(c) ==
    /\ ClientAt(c, "signalFirst")
    /\ WorkItemCompletedEvent' = TRUE
    /\ ClientGoes(c, "return")
    /\ UNCHANGED <<flags, ring, WorkItemReadyEvent, queue, worker, buffer, keys>>

\* The caller has its data back.
DoWorkReturn(c) ==
    /\ ClientAt(c, "return")
    /\ client' = [client EXCEPT ![c] = IdleClient]
    /\ buffer' = [buffer EXCEPT ![c] = Clear]
    /\ UNCHANGED <<flags, ring, events, queue, worker, keys>>

EncryptionThreadPoolDoWork(c) ==
    \/ DoWorkInline(c) \/ DoWorkLock(c) \/ DoWorkBegin(c) \/ DoWorkFill(c)
    \/ DoWorkSleep(c) \/ DoWorkWake(c) \/ DoWorkSignalReady(c) \/ DoWorkAwait(c)
    \/ DoWorkFreeFirst(c) \/ DoWorkSignalFirst(c) \/ DoWorkReturn(c)

-----------------------------------------------------------------------------
(* EncryptionThreadPoolBeginKeyDerivation *)

KeyAt(k, pc) == key[k].pc = pc
KeyGoes(k, pc) == key' = [key EXCEPT ![k].pc = pc]

\* The caller has taken key item i and reset its completion flag.
BeginKeyDerivation(k, i) ==
    /\ KeyAt(k, "idle")
    /\ ThreadPoolRunning
    /\ KeyReady' = [KeyReady EXCEPT ![k][i] = FALSE]
    /\ key' = [key EXCEPT ![k] = [pc |-> "lock", item |-> 0, derivation |-> i]]
    /\ UNCHANGED <<flags, ring, events, queue, worker, clients, keyEvents>>

BeginKeyLock(k) ==
    /\ KeyAt(k, "lock")
    /\ EnqueueMutex = None
    /\ EnqueueMutex' = k
    /\ key' = [key EXCEPT ![k].pc = "testItem", ![k].item = EnqueuePosition]
    /\ EnqueuePosition' = Advance(EnqueuePosition)
    /\ UNCHANGED <<flags, DequeuePosition, DequeueMutex, events, queue, worker,
                   clients, KeyReady, keyEvents>>

BeginKeySleep(k) ==
    /\ KeyAt(k, "testItem")
    /\ ~IsFree(key[k].item)
    /\ KeyGoes(k, "sleep")
    /\ UNCHANGED <<flags, ring, events, queue, worker, clients, KeyReady,
                   keyEvents>>

BeginKeyWake(k) ==
    /\ KeyAt(k, "sleep")
    /\ WorkItemCompletedEvent
    /\ WorkItemCompletedEvent' = FALSE
    /\ KeyGoes(k, "testItem")
    /\ UNCHANGED <<flags, ring, WorkItemReadyEvent, queue, worker, clients,
                   KeyReady, keyEvents>>

\* InterlockedIncrement (outstandingWorkItemCount)
BeginKeyCount(k) ==
    /\ KeyAt(k, "testItem")
    /\ IsFree(key[k].item)
    /\ outstandingWorkItemCount' = [outstandingWorkItemCount EXCEPT ![k] = @ + 1]
    /\ KeyGoes(k, "clear")
    /\ UNCHANGED <<flags, ring, events, queue, worker, clients, KeyReady,
                   keyDerivationCompletedEvent, noOutstandingWorkItemEvent>>

\* TC_CLEAR_EVENT (*noOutstandingWorkItemEvent)
BeginKeyClear(k) ==
    /\ KeyAt(k, "clear")
    /\ noOutstandingWorkItemEvent' = [noOutstandingWorkItemEvent EXCEPT ![k] = FALSE]
    /\ KeyGoes(k, "fill")
    /\ UNCHANGED <<flags, ring, events, queue, worker, clients, KeyReady,
                   outstandingWorkItemCount, keyDerivationCompletedEvent>>

BeginKeyFill(k) ==
    /\ KeyAt(k, "fill")
    /\ queue' = [queue EXCEPT ![key[k].item] =
           [@ EXCEPT !.State = "Ready", !.Type = "DeriveKey", !.Owner = k,
                     !.Derivation = key[k].derivation]]
    /\ KeyGoes(k, "signalReady")
    /\ UNCHANGED <<flags, ring, events, worker, clients, KeyReady, keyEvents>>

BeginKeySignalReady(k) ==
    /\ KeyAt(k, "signalReady")
    /\ WorkItemReadyEvent' = TRUE
    /\ EnqueueMutex' = None
    /\ key' = [key EXCEPT ![k] = IdleKey]
    /\ UNCHANGED <<flags, EnqueuePosition, DequeuePosition, DequeueMutex,
                   WorkItemCompletedEvent, queue, worker, clients, KeyReady,
                   keyEvents>>

EncryptionThreadPoolBeginKeyDerivation(k) ==
    \/ BeginKeyLock(k) \/ BeginKeySleep(k) \/ BeginKeyWake(k) \/ BeginKeyCount(k)
    \/ BeginKeyClear(k) \/ BeginKeyFill(k) \/ BeginKeySignalReady(k)

\* Any caller: a key item whose derivation has completed may be used again.
KeyCaller(k) ==
    /\ control = "running"
    /\ \E i \in KeyItems : KeyReady[k][i] /\ BeginKeyDerivation(k, i)

-----------------------------------------------------------------------------
(* EncryptionThreadPoolStart, EncryptionThreadPoolStop *)

\* The positions, events, mutexes and the ring are set up again, then the
\* threads are created: all of them, or (Start returns FALSE) some of them.
Reset ==
    /\ StopPending' = FALSE
    /\ EnqueuePosition' = 0 /\ DequeuePosition' = 0
    /\ EnqueueMutex' = None /\ DequeueMutex' = None
    /\ WorkItemReadyEvent' = FALSE /\ WorkItemCompletedEvent' = FALSE
    /\ queue' = [i \in Slots |-> EmptyItem]

Created(threads) ==
    worker' = [w \in Workers |->
                  [pc |-> IF w \in threads THEN "loop" ELSE "none", item |-> 0]]

Start ==
    /\ control = "stopped"
    /\ Reset
    /\ Created(Workers)
    /\ ThreadPoolRunning' = TRUE
    /\ control' = "running"
    /\ UNCHANGED <<clients, keys>>

\* A thread cannot be created: EncryptionThreadPoolStop does nothing, since
\* ThreadPoolRunning is not yet set, and the threads created so far stay.  The
\* driver carries on without a pool and does not start it again.
StartFails ==
    /\ control = "stopped"
    /\ Reset
    /\ \E threads \in SUBSET Workers : threads # Workers /\ Created(threads)
    /\ control' = "failed"
    /\ UNCHANGED <<ThreadPoolRunning, clients, keys>>

\* The callers stop the pool when nothing uses it any more.
Quiescent ==
    /\ \A c \in DataClients : ClientAt(c, "idle")
    /\ \A k \in KeyClients : KeyAt(k, "idle") /\ outstandingWorkItemCount[k] = 0

Stop ==
    /\ control = "running"
    /\ Quiescent
    /\ StopPending' = TRUE
    /\ control' = "stopping"
    /\ UNCHANGED <<ThreadPoolRunning, ring, events, queue, worker, clients, keys>>

FaultyStopSignal ==
    /\ control = "stopping"
    /\ control' = "joining"
    /\ UNCHANGED <<ThreadPoolRunning, StopPending, ring, events, queue, worker,
                   clients, keys>>

StopSignal ==
    /\ control = "stopping"
    /\ WorkItemReadyEvent' = TRUE
    /\ control' = "joining"
    /\ UNCHANGED <<ThreadPoolRunning, StopPending, ring, WorkItemCompletedEvent,
                   queue, worker, clients, keys>>

StopJoined ==
    /\ control = "joining"
    /\ \A w \in Workers : WorkerAt(w, "exited")
    /\ ThreadPoolRunning' = FALSE
    /\ control' = "stopped"
    /\ UNCHANGED <<StopPending, ring, events, queue, worker, clients, keys>>

EncryptionThreadPoolStop == Stop \/ StopSignal \/ StopJoined

-----------------------------------------------------------------------------

Pool ==
    \/ \E w \in Workers : EncryptionThreadProc(w)
    \/ \E c \in DataClients : EncryptionThreadPoolDoWork(c)
    \/ \E k \in KeyClients : EncryptionThreadPoolBeginKeyDerivation(k)
    \/ Start \/ StartFails \/ EncryptionThreadPoolStop

Next ==
    \/ Pool
    \/ \E c \in DataClients : DoWorkCall(c)
    \/ \E k \in KeyClients : KeyCaller(k)

Spec == Init /\ [][Next]_vars

\* Every thread runs; the kernel hands a mutex to its waiters in turn, so a
\* thread that waits for one eventually gets it.
Fairness ==
    /\ \A w \in Workers : WF_vars(EncryptionThreadProc(w)) /\ SF_vars(WorkerAcquire(w))
    /\ \A c \in DataClients :
          WF_vars(EncryptionThreadPoolDoWork(c)) /\ SF_vars(DoWorkLock(c))
    /\ \A k \in KeyClients :
          WF_vars(EncryptionThreadPoolBeginKeyDerivation(k)) /\ SF_vars(BeginKeyLock(k))
    /\ WF_vars(StopSignal) /\ WF_vars(StopJoined)

FairSpec == Spec /\ Fairness

-----------------------------------------------------------------------------
(* Properties *)

WorkerPc == {"none", "loop", "acquire", "test", "sleep", "stopCheck", "transform",
             "free", "signalFree", "decrement", "signalDone", "derive",
             "signalKey", "decrementKey", "signalNoOutstanding", "freeKey",
             "signalFreeKey", "exited"}
ClientPc == {"idle", "inline", "lock", "testFirst", "sleepFirst", "testItem",
             "sleepItem", "signalReady", "await", "freeFirst", "signalFirst",
             "return"}
KeyPc == {"idle", "lock", "testItem", "sleep", "clear", "fill", "signalReady"}

WorkItem ==
    [State : {"Free", "Ready", "Busy"}, Type : {"Data", "DeriveKey"},
     FirstFragment : Slots, OutstandingFragmentCount : Int,
     ItemCompletedEvent : BOOLEAN, Owner : DataClients \cup KeyClients \cup {None},
     Derivation : KeyItems \cup {None},
     Data : Nat, StartUnitNo : Nat, UnitCount : Nat]

DoWorkLocals ==
    [pc : ClientPc, unitCount : Nat, fragmentCount : Int, unitsPerFragment : Nat,
     remainder : Nat, fragmentData : Nat, fragmentStartUnitNo : Nat,
     first : Slots, item : Slots]

\* Every variable has its type; the locals of DoWork never go below zero.
TypeOK ==
    /\ ThreadPoolRunning \in BOOLEAN /\ StopPending \in BOOLEAN
    /\ EnqueuePosition \in Slots /\ DequeuePosition \in Slots
    /\ EnqueueMutex \in DataClients \cup KeyClients \cup {None}
    /\ DequeueMutex \in Workers \cup {None}
    /\ WorkItemReadyEvent \in BOOLEAN /\ WorkItemCompletedEvent \in BOOLEAN
    /\ queue \in [Slots -> WorkItem]
    /\ worker \in [Workers -> [pc : WorkerPc, item : Slots]]
    /\ client \in [DataClients -> DoWorkLocals]
    /\ buffer \in [DataClients -> [Unit -> Seq(Nat)]]
    /\ key \in [KeyClients -> [pc : KeyPc, item : Slots,
                               derivation : KeyItems \cup {None}]]
    /\ KeyReady \in [KeyClients -> [KeyItems -> BOOLEAN]]
    /\ outstandingWorkItemCount \in [KeyClients -> Int]
    /\ keyDerivationCompletedEvent \in [KeyClients -> BOOLEAN]
    /\ noOutstandingWorkItemEvent \in [KeyClients -> BOOLEAN]
    /\ control \in {"stopped", "failed", "running", "stopping", "joining"}

\* A worker that is past the state test and has not released its item.
Processing(w) ==
    \/ WorkerAt(w, "stopCheck") /\ ~StopPending
    \/ worker[w].pc \in {"transform", "free", "derive", "signalKey",
                         "decrementKey", "signalNoOutstanding", "freeKey"}

\* A thread that owns the next item to be filled and is about to fill it.
Filling(i) ==
    \/ \E c \in DataClients : ClientAt(c, "testItem") /\ client[c].item = i /\ IsFree(i)
    \/ \E k \in KeyClients : key[k].pc \in {"clear", "fill"} /\ key[k].item = i

\* No item is worked on by two threads, and no item is filled or offered to
\* other workers while a worker reads it: the item states hand every item from
\* the enqueuing thread to one worker and back (GetWorkItemState and
\* SetWorkItemState are the only synchronisation of the item's contents).
ItemExclusive ==
    \A w \in Workers : Processing(w) =>
        /\ queue[worker[w].item].State = "Busy"
        /\ ~Filling(worker[w].item)
        /\ \A v \in Workers \ {w} : Processing(v) => worker[v].item # worker[w].item

\* Work on a fragment of the call whose first item is f that is still to be
\* counted off by a worker.
Uncounted(f) ==
    {w \in Workers :
        /\ queue[worker[w].item].FirstFragment = f
        /\ \/ worker[w].pc \in {"transform", "free", "signalFree", "decrement"}
           \/ /\ WorkerAt(w, "stopCheck") /\ ~StopPending
              /\ queue[worker[w].item].Type = "Data"}
Waiting(f) ==
    {i \in Slots : queue[i].State = "Ready" /\ queue[i].Type = "Data"
                   /\ queue[i].FirstFragment = f}
Unfilled(c) ==
    client[c].fragmentCount + IF client[c].pc \in {"testItem", "sleepItem"} THEN 1 ELSE 0

\* While DoWork runs, the count in its first item is the number of fragments
\* not yet filled, waiting, or held by a worker.  Workers read FirstFragment
\* from items they have already released (EncryptionThreadProc), so this rests
\* on no released item being refilled before its worker has counted it off.
FragmentAccounting ==
    \A c \in DataClients :
        client[c].pc \in {"testItem", "sleepItem", "signalReady", "await"} =>
            queue[client[c].first].OutstandingFragmentCount =
                Unfilled(c) + Cardinality(Waiting(client[c].first))
                            + Cardinality(Uncounted(client[c].first))

\* The count of a key client is the number of its derivations that are being
\* enqueued, are waiting or have not been counted off.
KeyAccounting ==
    \A k \in KeyClients :
        outstandingWorkItemCount[k] =
            (IF key[k].pc \in {"clear", "fill"} THEN 1 ELSE 0)
            + Cardinality({i \in Slots : queue[i].State = "Ready"
                              /\ queue[i].Type = "DeriveKey" /\ queue[i].Owner = k})
            + Cardinality({w \in Workers :
                  /\ queue[worker[w].item].Owner = k
                  /\ queue[worker[w].item].Type = "DeriveKey"
                  /\ \/ worker[w].pc \in {"derive", "signalKey", "decrementKey"}
                     \/ WorkerAt(w, "stopCheck") /\ ~StopPending})

\* Both counts that the callers wait for are exact at each step, for as long as
\* somebody waits for them (OutstandingFragmentCount, outstandingWorkItemCount).
PoolAccounting == FragmentAccounting /\ KeyAccounting

\* DoWork is a parallel implementation of one transformation of the caller's
\* buffer: whatever the interleaving, each data unit is transformed exactly once
\* with its own unit number before the call returns.
Service == INSTANCE ParallelTransform
              WITH Callers <- DataClients,
                   units <- [c \in DataClients |-> client[c].unitCount]
ImplementsTransform == Service!Spec

\* Every DoWork call returns.
DoWorkReturns ==
    \A c \in DataClients : ~ClientAt(c, "idle") ~> ClientAt(c, "idle")

\* EncryptionThreadPoolStop returns: its one signal gets every thread out of
\* its waits.
StopReturns == control = "stopping" ~> control = "stopped"
=============================================================================
