--------------------- MODULE EncryptionThreadPool_proofs ---------------------
(***************************************************************************)
(* Theorems about the thread pool, for any number of threads and clients,  *)
(* any ring of at least two items per thread and any size of the calls;    *)
(* and about the scheduling loop of ReadVolumeHeader, which derives header *)
(* keys on the pool, for any number of PRFs.                               *)
(***************************************************************************)
EXTENDS ReadVolumeHeader, FiniteSetTheorems, TLAPS

\* The longer fragments have a unit to give up: what keeps unitsPerFragment, an
\* unsigned number, from wrapping when it is decremented.
LongerFragments ==
    \A c \in DataClients : client[c].remainder > 0 => client[c].unitsPerFragment > 0

TypeInv == TypeOK /\ LongerFragments

LEMMA SizeFacts ==
    /\ ThreadCount \in Nat /\ ThreadCount >= 2
    /\ QueueSize \in Nat /\ QueueSize >= 4
    /\ 0 \in Slots
  BY PoolAssumption DEF PoolAssumption, Slots

\* A position stays within the ring.
LEMMA AdvanceInRing ==
    ASSUME NEW p \in Slots
    PROVE  Advance(p) \in Slots
  BY SizeFacts DEF Advance, Slots

\* How a call is split: sizes and counts are natural numbers, and if some
\* fragments are to be longer than the others they have at least one unit.
LEMMA SplitTypes ==
    ASSUME NEW n \in Nat
    PROVE  /\ FragmentCount(n) \in Nat
           /\ Remainder(n) \in Nat
           /\ UnitsPerFragment(n) \in Nat
           /\ Remainder(n) > 0 => UnitsPerFragment(n) > 0
<1>1. n \div ThreadCount \in Nat /\ n % ThreadCount \in Nat
  BY SizeFacts, SMT
<1> QED
  BY <1>1, SizeFacts DEF FragmentCount, Remainder, UnitsPerFragment

LEMMA EmptyTypes ==
    /\ EmptyItem \in WorkItem
    /\ IdleClient \in DoWorkLocals
    /\ IdleKey \in [pc : KeyPc, item : Slots, derivation : KeyItems \cup {None}]
    /\ Clear \in [Unit -> Seq(Nat)]
<1>1. EmptyItem \in WorkItem
  BY SizeFacts DEF EmptyItem, WorkItem
<1>2. IdleClient \in DoWorkLocals
  BY SizeFacts DEF IdleClient, DoWorkLocals, ClientPc
<1>3. IdleKey \in [pc : KeyPc, item : Slots, derivation : KeyItems \cup {None}]
  BY SizeFacts DEF IdleKey, KeyPc
<1>4. Clear \in [Unit -> Seq(Nat)]
  BY DEF Clear
<1> QED
  BY <1>1, <1>2, <1>3, <1>4

LEMMA InitType == Init => TypeInv
<1> SUFFICES ASSUME Init PROVE TypeInv
  OBVIOUS
<1>1. queue \in [Slots -> WorkItem]
  BY EmptyTypes DEF Init
<1>2. worker \in [Workers -> [pc : WorkerPc, item : Slots]]
  BY SizeFacts DEF Init, WorkerPc
<1>3. client \in [DataClients -> DoWorkLocals] /\ buffer \in [DataClients -> [Unit -> Seq(Nat)]]
  BY EmptyTypes DEF Init
<1>4. key \in [KeyClients -> [pc : KeyPc, item : Slots, derivation : KeyItems \cup {None}]]
  BY EmptyTypes DEF Init
<1>5. TypeOK
  BY <1>1, <1>2, <1>3, <1>4, SizeFacts DEF Init, TypeOK
<1>6. LongerFragments
  BY DEF Init, LongerFragments, IdleClient
<1> QED
  BY <1>5, <1>6 DEF TypeInv

\* The units of a fragment get a further number each.
LEMMA TransformedType ==
    ASSUME NEW b \in [Unit -> Seq(Nat)], NEW data \in Nat, NEW start \in Nat,
           NEW count \in Nat
    PROVE  Transformed(b, data, start, count) \in [Unit -> Seq(Nat)]
<1> SUFFICES ASSUME NEW u \in Unit
             PROVE  (IF u \in data .. data + count - 1
                     THEN Append(b[u], start + (u - data)) ELSE b[u]) \in Seq(Nat)
  BY DEF Transformed
<1>1. u \in Nat
  BY PoolAssumption DEF Unit, PoolAssumption
<1>2. CASE u \in data .. data + count - 1
  <2>1. start + (u - data) \in Nat
    BY <1>1, <1>2
  <2> QED
    BY <1>2, <2>1
<1>3. CASE u \notin data .. data + count - 1
  BY <1>3
<1> QED
  BY <1>2, <1>3

-----------------------------------------------------------------------------
(* Type correctness of the worker threads' steps *)

WorkerRange == [pc : WorkerPc, item : Slots]

LEMMA WorkerGoesType ==
    ASSUME worker \in [Workers -> WorkerRange], NEW w \in Workers, NEW pc \in WorkerPc,
           WorkerGoes(w, pc)
    PROVE  worker' \in [Workers -> WorkerRange]
  BY SizeFacts DEF WorkerGoes, WorkerRange, WorkerPc

\* Releasing an item leaves it one.
LEMMA FreeType ==
    ASSUME queue \in [Slots -> WorkItem], NEW i \in Slots, Free(i)
    PROVE  queue' \in [Slots -> WorkItem]
<1> DEFINE freed == [EmptyItem EXCEPT
        !.FirstFragment = queue[i].FirstFragment,
        !.OutstandingFragmentCount = queue[i].OutstandingFragmentCount,
        !.ItemCompletedEvent = queue[i].ItemCompletedEvent]
<1>1. queue[i] \in WorkItem
  OBVIOUS
<1>2. freed \in WorkItem
  BY <1>1, EmptyTypes DEF WorkItem
<1> QED
  BY <1>2 DEF Free

\* The updates of single fields of an item.
LEMMA ItemUpdateTypes ==
    ASSUME queue \in [Slots -> WorkItem], NEW i \in Slots
    PROVE  /\ \A s \in {"Free", "Ready", "Busy"} :
                 [queue EXCEPT ![i].State = s] \in [Slots -> WorkItem]
           /\ \A n \in Int :
                 [queue EXCEPT ![i].OutstandingFragmentCount = n] \in [Slots -> WorkItem]
           /\ \A e \in BOOLEAN :
                 [queue EXCEPT ![i].ItemCompletedEvent = e] \in [Slots -> WorkItem]
<1>0. queue[i] \in WorkItem
  OBVIOUS
<1>1. ASSUME NEW s \in {"Free", "Ready", "Busy"}
      PROVE  [queue EXCEPT ![i].State = s] \in [Slots -> WorkItem]
  <2>1. [queue[i] EXCEPT !.State = s] \in WorkItem
    BY <1>0 DEF WorkItem
  <2> QED
    BY <2>1
<1>2. ASSUME NEW n \in Int
      PROVE  [queue EXCEPT ![i].OutstandingFragmentCount = n] \in [Slots -> WorkItem]
  <2>1. [queue[i] EXCEPT !.OutstandingFragmentCount = n] \in WorkItem
    BY <1>0 DEF WorkItem
  <2> QED
    BY <2>1
<1>3. ASSUME NEW e \in BOOLEAN
      PROVE  [queue EXCEPT ![i].ItemCompletedEvent = e] \in [Slots -> WorkItem]
  <2>1. [queue[i] EXCEPT !.ItemCompletedEvent = e] \in WorkItem
    BY <1>0 DEF WorkItem
  <2> QED
    BY <2>1
<1> QED
  BY <1>1, <1>2, <1>3

LEMMA WorkerType ==
    ASSUME TypeInv, NEW w \in Workers, EncryptionThreadProc(w)
    PROVE  TypeInv'
<1> USE DEF TypeInv, TypeOK, LongerFragments, flags, ring, events, clients, keys, keyEvents
<1>0. worker \in [Workers -> WorkerRange] /\ worker[w] \in WorkerRange
      /\ worker[w].item \in Slots /\ queue[worker[w].item] \in WorkItem
  BY DEF WorkerRange
<1>1. CASE WorkerLoop(w)
  BY <1>0, <1>1, WorkerGoesType DEF WorkerLoop, WorkerPc, WorkerRange
<1>2. CASE WorkerAcquire(w)
  BY <1>0, <1>2, AdvanceInRing DEF WorkerAcquire, WorkerPc, WorkerRange
<1>3. CASE WorkerTake(w)
  BY <1>0, <1>3, WorkerGoesType, ItemUpdateTypes DEF WorkerTake, WorkerPc, WorkerRange
<1>4. CASE WorkerSleep(w)
  BY <1>0, <1>4, WorkerGoesType DEF WorkerSleep, WorkerPc, WorkerRange
<1>5. CASE WorkerWake(w)
  BY <1>0, <1>5, WorkerGoesType DEF WorkerWake, WorkerPc, WorkerRange
<1>6. CASE WorkerStopCheck(w)
  BY <1>0, <1>6, WorkerGoesType DEF WorkerStopCheck, WorkerPc, WorkerRange
<1>7. CASE WorkerTransform(w)
  BY ZenonT(60), <1>0, <1>7, WorkerGoesType, TransformedType DEF WorkerTransform, WorkerPc, WorkerRange, WorkItem
<1>8. CASE WorkerFree(w)
  BY <1>0, <1>8, WorkerGoesType, FreeType DEF WorkerFree, WorkerPc, WorkerRange
<1>9. CASE WorkerSignalFree(w)
  BY <1>0, <1>9, WorkerGoesType DEF WorkerSignalFree, WorkerPc, WorkerRange
<1>10. CASE WorkerDecrement(w)
  <2> DEFINE first == queue[worker[w].item].FirstFragment
             left == queue[first].OutstandingFragmentCount - 1
  <2>1. first \in Slots /\ left \in Int
    BY <1>0 DEF WorkItem
  <2>2. queue' \in [Slots -> WorkItem]
    BY <1>10, <2>1, ItemUpdateTypes DEF WorkerDecrement
  <2> QED
    BY ZenonT(60), <1>0, <1>10, <2>2, WorkerGoesType DEF WorkerDecrement, WorkerPc, WorkerRange
<1>11. CASE WorkerSignalDone(w)
  <2>1. queue[worker[w].item].FirstFragment \in Slots
    BY <1>0 DEF WorkItem
  <2>2. queue' \in [Slots -> WorkItem]
    BY <1>11, <2>1, ItemUpdateTypes DEF WorkerSignalDone
  <2> QED
    BY <1>0, <1>11, <2>2, WorkerGoesType DEF WorkerSignalDone, WorkerPc, WorkerRange
<1>12. CASE WorkerDerive(w)
  BY ZenonT(60), <1>0, <1>12, WorkerGoesType DEF WorkerDerive, WorkerPc, WorkerRange, WorkItem
<1>13. CASE WorkerSignalKey(w)
  BY ZenonT(60), <1>0, <1>13, WorkerGoesType DEF WorkerSignalKey, WorkerPc, WorkerRange, WorkItem
<1>14. CASE WorkerDecrementKey(w)
  <2> DEFINE k == queue[worker[w].item].Owner
  <2>1. outstandingWorkItemCount' \in [KeyClients -> Int]
    <3>1. outstandingWorkItemCount' =
            [outstandingWorkItemCount EXCEPT ![k] = outstandingWorkItemCount[k] - 1]
      BY <1>14 DEF WorkerDecrementKey
    <3>2. k \in KeyClients => outstandingWorkItemCount[k] - 1 \in Int
      OBVIOUS
    <3> HIDE DEF k
    <3> QED
      BY <3>1, <3>2
  <2> QED
    BY <1>0, <1>14, <2>1, WorkerGoesType DEF WorkerDecrementKey, WorkerPc, WorkerRange
<1>15. CASE WorkerSignalNoOutstanding(w)
  BY ZenonT(60), <1>0, <1>15, WorkerGoesType DEF WorkerSignalNoOutstanding, WorkerPc, WorkerRange, WorkItem
<1> QED
  BY <1>1, <1>2, <1>3, <1>4, <1>5, <1>6, <1>7, <1>8, <1>9, <1>10, <1>11, <1>12,
     <1>13, <1>14, <1>15 DEF EncryptionThreadProc

-----------------------------------------------------------------------------
(* Type correctness of DoWork *)

LEMMA ClientGoesType ==
    ASSUME client \in [DataClients -> DoWorkLocals], LongerFragments,
           NEW c \in DataClients, NEW pc \in ClientPc, ClientGoes(c, pc)
    PROVE  client' \in [DataClients -> DoWorkLocals] /\ LongerFragments'
  BY DEF ClientGoes, DoWorkLocals, LongerFragments

LEMMA TakeSlotType ==
    ASSUME client \in [DataClients -> DoWorkLocals], LongerFragments,
           EnqueuePosition \in Slots, NEW c \in DataClients, TakeSlot(c)
    PROVE  /\ client' \in [DataClients -> DoWorkLocals] /\ LongerFragments'
           /\ EnqueuePosition' \in Slots
  BY AdvanceInRing DEF TakeSlot, DoWorkLocals, LongerFragments, ClientPc

\* The call's locals: where LongerFragments begins to hold.
LEMMA DoWorkCallType ==
    ASSUME TypeInv, NEW c \in DataClients, DoWorkCall(c)
    PROVE  client' \in [DataClients -> DoWorkLocals] /\ LongerFragments'
<1>1. PICK n \in 1 .. MaxUnits :
          client' = [client EXCEPT ![c] =
              [IdleClient EXCEPT
                  !.pc = IF ~ThreadPoolRunning \/ n = 1 THEN "inline" ELSE "lock",
                  !.unitCount = n,
                  !.fragmentCount = FragmentCount(n),
                  !.unitsPerFragment = UnitsPerFragment(n),
                  !.remainder = Remainder(n)]]
  BY DEF DoWorkCall
<1>2. n \in Nat
  BY PoolAssumption DEF PoolAssumption
<1> DEFINE called == [IdleClient EXCEPT
                  !.pc = IF ~ThreadPoolRunning \/ n = 1 THEN "inline" ELSE "lock",
                  !.unitCount = n,
                  !.fragmentCount = FragmentCount(n),
                  !.unitsPerFragment = UnitsPerFragment(n),
                  !.remainder = Remainder(n)]
<1>3. called \in DoWorkLocals
  <2>1. /\ FragmentCount(n) \in Int /\ UnitsPerFragment(n) \in Nat
        /\ Remainder(n) \in Nat
    BY <1>2, SplitTypes
  <2>2. (IF ~ThreadPoolRunning \/ n = 1 THEN "inline" ELSE "lock") \in ClientPc
    BY DEF ClientPc
  <2> QED
    BY <1>2, <2>1, <2>2, EmptyTypes DEF DoWorkLocals
<1>4. called.remainder > 0 => called.unitsPerFragment > 0
  BY <1>2, SplitTypes DEF IdleClient
<1>5. client' = [client EXCEPT ![c] = called]
  BY <1>1
<1> HIDE DEF called
<1>6. client' \in [DataClients -> DoWorkLocals]
  BY <1>3, <1>5 DEF TypeInv, TypeOK
<1>7. LongerFragments'
  BY <1>4, <1>5 DEF TypeInv, TypeOK, LongerFragments
<1> QED
  BY <1>6, <1>7

LEMMA DoWorkFillType ==
    ASSUME TypeInv, NEW c \in DataClients, DoWorkFill(c)
    PROVE  /\ client' \in [DataClients -> DoWorkLocals] /\ LongerFragments'
           /\ queue' \in [Slots -> WorkItem]
<1> DEFINE me == client[c]
           last == me.remainder = 1
           item == [queue[me.item] EXCEPT
                         !.State = "Ready", !.Type = "Data", !.Owner = c,
                         !.FirstFragment = me.first,
                         !.Data = me.fragmentData,
                         !.StartUnitNo = me.fragmentStartUnitNo,
                         !.UnitCount = me.unitsPerFragment]
           next == [me EXCEPT !.pc = "signalReady",
                          !.fragmentData = me.fragmentData + me.unitsPerFragment,
                          !.fragmentStartUnitNo =
                              me.fragmentStartUnitNo + me.unitsPerFragment,
                          !.remainder = IF me.remainder > 0 THEN me.remainder - 1 ELSE 0,
                          !.unitsPerFragment = IF last THEN me.unitsPerFragment - 1
                                               ELSE me.unitsPerFragment]
<1>1. me \in DoWorkLocals /\ me.item \in Slots /\ queue[me.item] \in WorkItem
  BY DEF TypeInv, TypeOK, DoWorkLocals
<1>2. me.remainder > 0 => me.unitsPerFragment > 0
  BY DEF TypeInv, LongerFragments
<1>3. item \in WorkItem
  BY <1>1 DEF DoWorkLocals, WorkItem
<1>4. next \in DoWorkLocals /\ (next.remainder > 0 => next.unitsPerFragment > 0)
  <2>1. /\ me.remainder \in Nat /\ me.unitsPerFragment \in Nat
        /\ me.fragmentData \in Nat /\ me.fragmentStartUnitNo \in Nat
    BY <1>1 DEF DoWorkLocals
  <2>2. /\ me.fragmentData + me.unitsPerFragment \in Nat
        /\ me.fragmentStartUnitNo + me.unitsPerFragment \in Nat
        /\ (IF me.remainder > 0 THEN me.remainder - 1 ELSE 0) \in Nat
        /\ (IF last THEN me.unitsPerFragment - 1 ELSE me.unitsPerFragment) \in Nat
    <3> HIDE DEF me
    <3> QED
      BY <1>2, <2>1
  <2>3. next \in DoWorkLocals
    BY <1>1, <2>2 DEF DoWorkLocals, ClientPc
  <2>4. next.remainder > 0 => next.unitsPerFragment > 0
    <3>1. /\ next.remainder = IF me.remainder > 0 THEN me.remainder - 1 ELSE 0
          /\ next.unitsPerFragment =
                IF last THEN me.unitsPerFragment - 1 ELSE me.unitsPerFragment
      BY <1>1 DEF DoWorkLocals
    <3> HIDE DEF next, me
    <3> QED
      BY <1>2, <2>1, <3>1
  <2> QED
    BY <2>3, <2>4
<1>5. queue' = [queue EXCEPT ![me.item] = item]
  BY DEF DoWorkFill
<1>6. client' = [client EXCEPT ![c] = next]
  BY DEF DoWorkFill
<1> HIDE DEF item, next
<1>7. client' \in [DataClients -> DoWorkLocals] /\ LongerFragments'
  BY <1>4, <1>6 DEF TypeInv, TypeOK, LongerFragments
<1>8. queue' \in [Slots -> WorkItem]
  BY <1>1, <1>3, <1>5 DEF TypeInv, TypeOK
<1> QED
  BY <1>7, <1>8

LEMMA ClientType ==
    ASSUME TypeInv, NEW c \in DataClients,
           EncryptionThreadPoolDoWork(c) \/ DoWorkCall(c)
    PROVE  TypeInv'
<1> USE DEF TypeInv, TypeOK, flags, ring, events, keys, keyEvents
<1>0. client[c] \in DoWorkLocals /\ client[c].first \in Slots /\ client[c].unitCount \in Nat
  BY DEF DoWorkLocals
<1>1. CASE DoWorkCall(c)
  BY <1>1, DoWorkCallType DEF DoWorkCall
<1>2. CASE DoWorkInline(c)
  BY <1>0, <1>2, ClientGoesType, TransformedType DEF DoWorkInline, ClientPc
<1>3. CASE DoWorkLock(c)
  BY <1>0, <1>3 DEF DoWorkLock, DoWorkLocals, ClientPc, LongerFragments
<1>4. CASE DoWorkBegin(c)
  <2>1. client[c].fragmentCount \in Int
    BY <1>0 DEF DoWorkLocals
  <2>2. queue' \in [Slots -> WorkItem]
    BY <1>0, <1>4, <2>1, ItemUpdateTypes DEF DoWorkBegin
  <2> QED
    BY <1>4, <2>2, TakeSlotType DEF DoWorkBegin
<1>5. CASE DoWorkFill(c)
  BY ZenonT(60), <1>5, DoWorkFillType DEF DoWorkFill
<1>6. CASE DoWorkSleep(c)
  BY <1>6, ClientGoesType DEF DoWorkSleep, ClientPc
<1>7. CASE DoWorkWake(c)
  BY <1>7, ClientGoesType DEF DoWorkWake, ClientPc
<1>8. CASE DoWorkSignalReady(c)
  <2>1. CASE TakeSlot(c) /\ UNCHANGED EnqueueMutex
    BY <1>8, <2>1, TakeSlotType DEF DoWorkSignalReady
  <2>2. CASE /\ EnqueueMutex' = None
             /\ client' = [client EXCEPT ![c] =
                    [IdleClient EXCEPT !.pc = "await", !.first = client[c].first,
                                       !.unitCount = client[c].unitCount]]
             /\ UNCHANGED EnqueuePosition
    <3> DEFINE waiting == [IdleClient EXCEPT !.pc = "await", !.first = client[c].first,
                                             !.unitCount = client[c].unitCount]
    <3>1. waiting \in DoWorkLocals
      BY <1>0, EmptyTypes DEF DoWorkLocals, ClientPc
    <3>2. waiting.remainder = 0
      BY DEF IdleClient
    <3>3. client' = [client EXCEPT ![c] = waiting]
      BY <2>2
    <3> HIDE DEF waiting
    <3>4. client' \in [DataClients -> DoWorkLocals] /\ LongerFragments'
      BY <3>1, <3>2, <3>3 DEF LongerFragments
    <3> QED
      BY <1>8, <2>2, <3>4 DEF DoWorkSignalReady
  <2> QED
    BY <1>8, <2>1, <2>2 DEF DoWorkSignalReady
<1>9. CASE DoWorkAwait(c)
  <2>1. queue' \in [Slots -> WorkItem]
    BY <1>0, <1>9, ItemUpdateTypes DEF DoWorkAwait
  <2> QED
    BY <1>9, <2>1, ClientGoesType DEF DoWorkAwait, ClientPc
<1>10. CASE DoWorkFreeFirst(c)
  BY <1>0, <1>10, ClientGoesType, FreeType DEF DoWorkFreeFirst, ClientPc
<1>11. CASE DoWorkSignalFirst(c)
  BY <1>11, ClientGoesType DEF DoWorkSignalFirst, ClientPc
<1>12. CASE DoWorkReturn(c)
  <2>1. client' \in [DataClients -> DoWorkLocals] /\ LongerFragments'
    BY <1>12, EmptyTypes DEF DoWorkReturn, LongerFragments, IdleClient
  <2> QED
    BY <1>12, <2>1, EmptyTypes DEF DoWorkReturn
<1> QED
  BY <1>1, <1>2, <1>3, <1>4, <1>5, <1>6, <1>7, <1>8, <1>9, <1>10, <1>11, <1>12
  DEF EncryptionThreadPoolDoWork

-----------------------------------------------------------------------------
(* Type correctness of BeginKeyDerivation, Start and Stop *)

KeyRange == [pc : KeyPc, item : Slots, derivation : KeyItems \cup {None}]

LEMMA KeyGoesType ==
    ASSUME key \in [KeyClients -> KeyRange], NEW k \in KeyClients, NEW pc \in KeyPc,
           KeyGoes(k, pc)
    PROVE  key' \in [KeyClients -> KeyRange]
  BY DEF KeyGoes, KeyRange

LEMMA KeyType ==
    ASSUME TypeInv, NEW k \in KeyClients,
           EncryptionThreadPoolBeginKeyDerivation(k) \/ KeyCaller(k)
    PROVE  TypeInv'
<1> USE DEF TypeInv, TypeOK, flags, ring, events, clients, keyEvents, LongerFragments
<1>0. /\ key \in [KeyClients -> KeyRange] /\ key[k] \in KeyRange /\ key[k].item \in Slots
      /\ key[k].derivation \in KeyItems \cup {None} /\ queue[key[k].item] \in WorkItem
  BY DEF KeyRange
<1>1. CASE KeyCaller(k)
  BY <1>0, <1>1, SizeFacts DEF KeyCaller, BeginKeyDerivation, KeyRange, KeyPc
<1>2. CASE BeginKeyLock(k)
  BY <1>0, <1>2, AdvanceInRing DEF BeginKeyLock, KeyRange, KeyPc
<1>3. CASE BeginKeySleep(k)
  BY <1>0, <1>3, KeyGoesType DEF BeginKeySleep, KeyRange, KeyPc
<1>4. CASE BeginKeyWake(k)
  BY <1>0, <1>4, KeyGoesType DEF BeginKeyWake, KeyRange, KeyPc
<1>5. CASE BeginKeyCount(k)
  BY <1>0, <1>5, KeyGoesType DEF BeginKeyCount, KeyRange, KeyPc
<1>6. CASE BeginKeyClear(k)
  BY <1>0, <1>6, KeyGoesType DEF BeginKeyClear, KeyRange, KeyPc
<1>7. CASE BeginKeyFill(k)
  <2> DEFINE item == [queue[key[k].item] EXCEPT
                         !.State = "Ready", !.Type = "DeriveKey", !.Owner = k,
                         !.Derivation = key[k].derivation]
  <2>1. item \in WorkItem
    BY <1>0 DEF WorkItem
  <2>2. queue' = [queue EXCEPT ![key[k].item] = item]
    BY <1>7 DEF BeginKeyFill
  <2> HIDE DEF item
  <2>3. queue' \in [Slots -> WorkItem]
    BY <1>0, <2>1, <2>2
  <2> QED
    BY <1>0, <1>7, <2>3, KeyGoesType DEF BeginKeyFill, KeyRange, KeyPc
<1>8. CASE BeginKeySignalReady(k)
  BY <1>0, <1>8, EmptyTypes DEF BeginKeySignalReady, KeyRange
<1> QED
  BY <1>1, <1>2, <1>3, <1>4, <1>5, <1>6, <1>7, <1>8
  DEF EncryptionThreadPoolBeginKeyDerivation

LEMMA ResetType ==
    ASSUME Reset
    PROVE  /\ StopPending' \in BOOLEAN
           /\ EnqueuePosition' \in Slots /\ DequeuePosition' \in Slots
           /\ EnqueueMutex' = None /\ DequeueMutex' = None
           /\ WorkItemReadyEvent' \in BOOLEAN /\ WorkItemCompletedEvent' \in BOOLEAN
           /\ queue' \in [Slots -> WorkItem]
  BY SizeFacts, EmptyTypes DEF Reset

LEMMA CreatedType ==
    ASSUME NEW threads, Created(threads)
    PROVE  worker' \in [Workers -> [pc : WorkerPc, item : Slots]]
  BY SizeFacts DEF Created, WorkerPc

LEMMA ControlType ==
    ASSUME TypeInv, Start \/ StartFails \/ EncryptionThreadPoolStop
    PROVE  TypeInv'
<1> USE DEF TypeInv, TypeOK, ring, events, clients, keys, keyEvents, LongerFragments
<1>1. CASE Start
  BY <1>1, ResetType, CreatedType DEF Start
<1>2. CASE StartFails
  BY <1>2, ResetType, CreatedType DEF StartFails
<1>3. CASE Stop
  BY <1>3 DEF Stop
<1>4. CASE StopSignal
  BY <1>4 DEF StopSignal
<1>5. CASE StopJoined
  BY <1>5 DEF StopJoined
<1> QED
  BY <1>1, <1>2, <1>3, <1>4, <1>5 DEF EncryptionThreadPoolStop

-----------------------------------------------------------------------------

LEMMA TypeStep == TypeInv /\ [Next]_vars => TypeInv'
<1> SUFFICES ASSUME TypeInv, [Next]_vars PROVE TypeInv'
  OBVIOUS
<1>1. ASSUME NEW w \in Workers, EncryptionThreadProc(w) PROVE TypeInv'
  BY <1>1, WorkerType
<1>2. ASSUME NEW c \in DataClients, EncryptionThreadPoolDoWork(c) \/ DoWorkCall(c)
      PROVE  TypeInv'
  BY <1>2, ClientType
<1>3. ASSUME NEW k \in KeyClients, EncryptionThreadPoolBeginKeyDerivation(k) \/ KeyCaller(k)
      PROVE  TypeInv'
  BY <1>3, KeyType
<1>4. CASE Start \/ StartFails \/ EncryptionThreadPoolStop
  BY <1>4, ControlType
<1>5. CASE UNCHANGED vars
  BY <1>5 DEF TypeInv, TypeOK, LongerFragments, vars, keys, keyEvents
<1> QED
  BY <1>1, <1>2, <1>3, <1>4, <1>5 DEF Next, Pool

\* The variables of EncryptionThreadPool.c keep their types: the ring positions
\* stay within the ring, whatever the order of the threads, and no count of
\* units that a call hands out ever goes below zero.
THEOREM TypeCorrect == Spec => []TypeOK
<1>1. TypeInv => TypeOK
  BY DEF TypeInv
<1> QED
  BY InitType, TypeStep, <1>1, PTL DEF Spec

-----------------------------------------------------------------------------
(* Exclusion and accounting.  A call to DoWork that has begun, and where it is filling. *)
InCall == {"testItem", "sleepItem", "signalReady", "await"}
FillingItem == {"testItem", "sleepItem"}
FillingKey == {"testItem", "sleep", "clear", "fill"}

\* The pool is started and stopped while nobody uses it.
ControlInv ==
    /\ control \in {"stopped", "stopping", "joining"} => Quiescent
    /\ control = "failed" =>
          /\ \A c \in DataClients : client[c].pc \in {"idle", "inline", "return"}
          /\ \A k \in KeyClients : KeyAt(k, "idle") /\ outstandingWorkItemCount[k] = 0
    /\ ThreadPoolRunning => control \in {"running", "stopping", "joining"}
    /\ StopPending => control \in {"stopping", "joining", "stopped"}
    /\ control \in {"stopping", "joining"} => StopPending
    /\ control = "stopped" => \A w \in Workers : worker[w].pc \in {"none", "exited"}

\* Who has a position of the ring to fill has EnqueueMutex, and it is the one before
\* EnqueuePosition.
EnqueueInv ==
    /\ \A c \in DataClients :
          /\ client[c].pc \in {"testFirst", "sleepFirst", "testItem", "sleepItem", "signalReady"} =>
                EnqueueMutex = c
          /\ client[c].pc \in {"testFirst", "sleepFirst"} => client[c].first = EnqueuePosition
          /\ client[c].pc \in FillingItem => EnqueuePosition = Advance(client[c].item)
    /\ \A k \in KeyClients :
          /\ key[k].pc \in FillingKey \cup {"signalReady"} => EnqueueMutex = k
          /\ key[k].pc \in FillingKey => EnqueuePosition = Advance(key[k].item)
          /\ key[k].pc \in {"clear", "fill"} => IsFree(key[k].item)

\* What is left of a call.
LeftInv ==
    \A c \in DataClients :
        /\ client[c].pc \in {"lock", "testFirst", "sleepFirst"} => client[c].fragmentCount > 0
        /\ client[c].pc \in FillingItem \cup {"signalReady"} => client[c].fragmentCount >= 0
        /\ client[c].pc = "await" => client[c].fragmentCount = 0

\* The item that is filled next.
NextToFill(h) ==
    \/ \E c \in DataClients : client[c].pc \in FillingItem /\ client[c].item = h
    \/ \E k \in KeyClients : key[k].pc \in FillingKey /\ key[k].item = h
    \/ /\ h = EnqueuePosition
       /\ \A c \in DataClients : client[c].pc \notin FillingItem
       /\ \A k \in KeyClients : key[k].pc \notin FillingKey

\* On the way around the ring from h, f comes before s.
Between(h, f, s) == (h <= f /\ f < s) \/ (f < s /\ s < h) \/ (s < h /\ h <= f)

\* A worker with a fragment that is not counted off, or to be signalled.
Attached(w) ==
    \/ worker[w].pc \in {"transform", "free", "signalFree", "decrement", "signalDone"}
    \/ WorkerAt(w, "stopCheck") /\ ~StopPending /\ queue[worker[w].item].Type = "Data"

\* The item's FirstFragment is still to be read by a worker.
Held(s) ==
    \/ queue[s].State = "Ready" /\ queue[s].Type = "Data"
    \/ \E w \in Workers : worker[w].item = s /\ Attached(w)

\* That item is not refilled before: the first one of the call is occupied, and it comes
\* earlier in the ring.
HeldInv ==
    \A s \in Slots : Held(s) =>
        /\ \E c \in DataClients :
              client[c].pc \in InCall /\ client[c].first = queue[s].FirstFragment
        /\ ~IsFree(queue[s].FirstFragment)
        /\ s # queue[s].FirstFragment =>
              \A h \in Slots : NextToFill(h) => Between(h, queue[s].FirstFragment, s)

\* The first item of a call is the caller's until it releases it.
FirstInv ==
    \A c \in DataClients : client[c].pc \in InCall \cup {"freeFirst"} =>
        LET first == queue[client[c].first] IN
        \/ /\ first.State # "Free" /\ first.Type = "Data"
           /\ first.FirstFragment = client[c].first /\ first.Owner = c
        \/ /\ ClientAt(c, "testItem") /\ client[c].item = client[c].first
           /\ first.State = "Free"

WorkerInv ==
    \A w \in Workers :
        /\ WorkerAt(w, "free") => queue[worker[w].item].FirstFragment # worker[w].item
        /\ worker[w].pc \in {"derive", "signalKey", "decrementKey", "signalNoOutstanding", "freeKey"} =>
              queue[worker[w].item].Type = "DeriveKey"

\* The caller is signalled once, when nothing of its call is left.
Done(f) ==
    \E c \in DataClients :
        /\ client[c].first = f /\ queue[f].OutstandingFragmentCount = 0
        /\ ClientAt(c, "await") \/ (ClientAt(c, "signalReady") /\ client[c].fragmentCount = 0)
SignalInv ==
    /\ \A f \in Slots : queue[f].ItemCompletedEvent => Done(f)
    /\ \A w \in Workers : WorkerAt(w, "signalDone") =>
          LET f == queue[worker[w].item].FirstFragment IN
          /\ Done(f) /\ ~queue[f].ItemCompletedEvent
          /\ \A v \in Workers \ {w} :
                WorkerAt(v, "signalDone") => queue[worker[v].item].FirstFragment # f

PInv ==
    /\ TypeInv /\ ControlInv /\ EnqueueInv /\ LeftInv /\ HeldInv /\ FirstInv /\ WorkerInv
    /\ SignalInv /\ ItemExclusive /\ PoolAccounting

-----------------------------------------------------------------------------
(* What the steps change. *)

\* The item's state and what it belongs to.
Kept(i) ==
    /\ queue'[i].State = queue[i].State /\ queue'[i].Type = queue[i].Type
    /\ queue'[i].FirstFragment = queue[i].FirstFragment /\ queue'[i].Owner = queue[i].Owner

\* A worker with none of its item to read.
Detached(w) == ~Attached(w) /\ ~Processing(w)

LEMMA ItemTypes ==
    ASSUME TypeOK
    PROVE  /\ \A i \in Slots : /\ queue[i] \in WorkItem /\ queue[i].FirstFragment \in Slots
                               /\ queue[i].Type \in {"Data", "DeriveKey"}
                               /\ queue[i].State \in {"Free", "Ready", "Busy"}
                               /\ queue[i].OutstandingFragmentCount \in Int
                               /\ queue[i].ItemCompletedEvent \in BOOLEAN
           /\ \A w \in Workers : worker[w].item \in Slots /\ worker[w].pc \in WorkerPc
           /\ \A c \in DataClients : /\ client[c].first \in Slots /\ client[c].item \in Slots
                                     /\ client[c].fragmentCount \in Int
           /\ \A k \in KeyClients : key[k].item \in Slots
  BY DEF TypeOK, WorkItem, DoWorkLocals

\* Steps of a thread change its own place only.
LEMMA WorkerFrame ==
    ASSUME TypeInv, NEW w \in Workers, EncryptionThreadProc(w)
    PROVE  /\ UNCHANGED <<client, key, EnqueuePosition, EnqueueMutex, ThreadPoolRunning,
                          StopPending, control>>
           /\ \A v \in Workers \ {w} : worker'[v] = worker[v]
           /\ worker[w].pc \notin {"none", "exited"}
  BY DEF EncryptionThreadProc, WorkerLoop, WorkerAcquire, WorkerTake, WorkerSleep, WorkerWake,
         WorkerStopCheck, WorkerTransform, WorkerFree, WorkerSignalFree, WorkerDecrement,
         WorkerSignalDone, WorkerDerive, WorkerSignalKey, WorkerDecrementKey,
         WorkerSignalNoOutstanding, WorkerGoes, WorkerAt, flags, clients, keys, ring, TypeInv, TypeOK

LEMMA ClientFrame ==
    ASSUME TypeInv, NEW c \in DataClients, EncryptionThreadPoolDoWork(c) \/ DoWorkCall(c)
    PROVE  /\ UNCHANGED <<worker, key, outstandingWorkItemCount, ThreadPoolRunning,
                          StopPending, control>>
           /\ \A d \in DataClients \ {c} : client'[d] = client[d]
           /\ ClientAt(c, "idle") => DoWorkCall(c)
  BY DEF EncryptionThreadPoolDoWork, DoWorkCall, DoWorkInline, DoWorkLock, DoWorkBegin, DoWorkFill,
         DoWorkSleep, DoWorkWake, DoWorkSignalReady, DoWorkAwait, DoWorkFreeFirst,
         DoWorkSignalFirst, DoWorkReturn, TakeSlot, ClientGoes, ClientAt, flags, keys, keyEvents,
         ring, TypeInv, TypeOK

LEMMA KeyFrame ==
    ASSUME TypeInv, NEW k \in KeyClients,
           EncryptionThreadPoolBeginKeyDerivation(k) \/ KeyCaller(k)
    PROVE  /\ UNCHANGED <<worker, client, ThreadPoolRunning, StopPending, control>>
           /\ \A l \in KeyClients \ {k} :
                 key'[l] = key[l] /\ outstandingWorkItemCount'[l] = outstandingWorkItemCount[l]
           /\ KeyAt(k, "idle") => KeyCaller(k)
  BY DEF EncryptionThreadPoolBeginKeyDerivation, KeyCaller, BeginKeyDerivation, BeginKeyLock,
         BeginKeySleep, BeginKeyWake, BeginKeyCount, BeginKeyClear, BeginKeyFill,
         BeginKeySignalReady, KeyGoes, KeyAt, flags, clients, keyEvents, ring, TypeInv, TypeOK


\* Most steps of a worker leave the items to whom they belong.
WorkerQuiet(w) ==
    /\ \A i \in Slots : Kept(i)
    /\ worker'[w].item = worker[w].item \/ Detached(w)'
    /\ Attached(w)' => Attached(w)
    /\ Processing(w)' => Processing(w)

LEMMA WorkerKinds ==
    ASSUME TypeInv, NEW w \in Workers, EncryptionThreadProc(w)
    PROVE  WorkerQuiet(w) \/ WorkerTake(w) \/ WorkerFree(w)
<1> USE DEF WorkerQuiet, Detached, Attached, Processing, WorkerAt, WorkerGoes
<1>0. /\ worker \in [Workers -> [pc : WorkerPc, item : Slots]] /\ worker[w].item \in Slots
      /\ queue \in [Slots -> WorkItem]
      /\ \A i \in Slots : queue[i].FirstFragment \in Slots
      /\ \A i \in Slots : queue[i].Type \in {"Data", "DeriveKey"}
  BY ItemTypes DEF TypeInv, TypeOK
<1>1. CASE WorkerLoop(w) \/ WorkerAcquire(w) \/ WorkerSleep(w) \/ WorkerWake(w)
  BY <1>0, <1>1 DEF WorkerLoop, WorkerAcquire, WorkerSleep, WorkerWake, Kept, flags
<1>2. CASE WorkerStopCheck(w)
  BY <1>0, <1>2 DEF WorkerStopCheck, Kept, flags
<1>3. CASE WorkerTransform(w) \/ WorkerSignalFree(w)
  BY <1>0, <1>3 DEF WorkerTransform, WorkerSignalFree, Kept, flags
<1>4. CASE WorkerDecrement(w)
  <2>1. \A i \in Slots : Kept(i)
    BY <1>0, <1>4 DEF WorkerDecrement, Kept, WorkItem
  <2> QED
    BY <1>0, <1>4, <2>1 DEF WorkerDecrement, flags
<1>5. CASE WorkerSignalDone(w)
  <2>1. \A i \in Slots : Kept(i)
    BY <1>0, <1>5 DEF WorkerSignalDone, Kept, WorkItem
  <2> QED
    BY <1>0, <1>5, <2>1 DEF WorkerSignalDone, flags
<1>6. CASE WorkerDerive(w) \/ WorkerSignalKey(w) \/ WorkerDecrementKey(w)
           \/ WorkerSignalNoOutstanding(w)
  BY <1>0, <1>6 DEF WorkerDerive, WorkerSignalKey, WorkerDecrementKey,
                    WorkerSignalNoOutstanding, Kept, flags
<1> QED
  BY <1>1, <1>2, <1>3, <1>4, <1>5, <1>6 DEF EncryptionThreadProc

\* A worker takes an item to work on it only when it is ready.
LEMMA TakeEffect ==
    ASSUME TypeInv, NEW w \in Workers, WorkerTake(w)
    PROVE  /\ worker'[w].pc = "stopCheck" /\ worker'[w].item = worker[w].item
           /\ WorkerAt(w, "test") /\ (~StopPending => queue[worker[w].item].State = "Ready")
           /\ \A i \in Slots : /\ i # worker[w].item => queue'[i] = queue[i]
                               /\ queue'[i].Type = queue[i].Type
                               /\ queue'[i].FirstFragment = queue[i].FirstFragment
                               /\ queue'[i].Owner = queue[i].Owner
                               /\ queue'[i].OutstandingFragmentCount = queue[i].OutstandingFragmentCount
                               /\ queue'[i].ItemCompletedEvent = queue[i].ItemCompletedEvent
           /\ queue'[worker[w].item].State = "Busy"
<1>1. worker[w] \in [pc : WorkerPc, item : Slots] /\ worker[w].item \in Slots
  BY DEF TypeInv, TypeOK
<1>2. \A i \in Slots : queue[i] \in WorkItem
  BY DEF TypeInv, TypeOK
<1>3. queue' = [queue EXCEPT ![worker[w].item].State = "Busy"]
  BY DEF WorkerTake
<1> QED
  BY <1>1, <1>2, <1>3 DEF WorkerTake, WorkerGoes, WorkerAt, Takeable, TypeInv, TypeOK, WorkItem

LEMMA FreeEffect ==
    ASSUME TypeInv, NEW i \in Slots, Free(i)
    PROVE  /\ \A j \in Slots \ {i} : queue'[j] = queue[j]
           /\ queue'[i].State = "Free" /\ queue'[i].Type = "Data" /\ queue'[i].Owner = None
           /\ queue'[i].FirstFragment = queue[i].FirstFragment
           /\ queue'[i].OutstandingFragmentCount = queue[i].OutstandingFragmentCount
           /\ queue'[i].ItemCompletedEvent = queue[i].ItemCompletedEvent
  BY DEF Free, EmptyItem, TypeInv, TypeOK, WorkItem

LEMMA WorkerFreeEffect ==
    ASSUME TypeInv, NEW w \in Workers, WorkerFree(w)
    PROVE  /\ Free(worker[w].item) /\ worker[w].item \in Slots
           /\ worker'[w].item = worker[w].item
           /\ \/ WorkerAt(w, "free") /\ worker'[w].pc = "signalFree"
              \/ WorkerAt(w, "freeKey") /\ worker'[w].pc = "signalFreeKey"
  BY DEF WorkerFree, WorkerGoes, WorkerAt, TypeInv, TypeOK

\* A caller fills the item that is next.
DataFilled(c) ==
    LET s == client[c].item IN
    /\ ClientAt(c, "testItem") /\ IsFree(s)
    /\ \A i \in Slots \ {s} : queue'[i] = queue[i]
    /\ queue'[s].State = "Ready" /\ queue'[s].Type = "Data" /\ queue'[s].Owner = c
    /\ queue'[s].FirstFragment = client[c].first
    /\ queue'[s].OutstandingFragmentCount = queue[s].OutstandingFragmentCount
    /\ queue'[s].ItemCompletedEvent = queue[s].ItemCompletedEvent
    /\ client'[c].pc = "signalReady" /\ client'[c].first = client[c].first
    /\ client'[c].fragmentCount = client[c].fragmentCount
    /\ UNCHANGED <<EnqueuePosition, EnqueueMutex>>

LEMMA DataFillEffect ==
    ASSUME TypeInv, NEW c \in DataClients, DoWorkFill(c)
    PROVE  DataFilled(c)
<1>1. client[c] \in DoWorkLocals /\ client[c].item \in Slots /\ queue[client[c].item] \in WorkItem
  BY DEF TypeInv, TypeOK, DoWorkLocals
<1>2. queue \in [Slots -> WorkItem] /\ client \in [DataClients -> DoWorkLocals]
  BY DEF TypeInv, TypeOK
<1>3. /\ \A i \in Slots \ {client[c].item} : queue'[i] = queue[i]
      /\ queue'[client[c].item].State = "Ready" /\ queue'[client[c].item].Type = "Data"
      /\ queue'[client[c].item].Owner = c
      /\ queue'[client[c].item].FirstFragment = client[c].first
      /\ queue'[client[c].item].OutstandingFragmentCount =
            queue[client[c].item].OutstandingFragmentCount
      /\ queue'[client[c].item].ItemCompletedEvent = queue[client[c].item].ItemCompletedEvent
  BY <1>1, <1>2 DEF DoWorkFill, WorkItem
<1>4. /\ client'[c].pc = "signalReady" /\ client'[c].first = client[c].first
      /\ client'[c].fragmentCount = client[c].fragmentCount
  BY <1>1, <1>2 DEF DoWorkFill, DoWorkLocals
<1> QED
  BY <1>3, <1>4 DEF DoWorkFill, DataFilled, ring

KeyFilled(k) ==
    LET s == key[k].item IN
    /\ KeyAt(k, "fill")
    /\ \A i \in Slots \ {s} : queue'[i] = queue[i]
    /\ queue'[s].State = "Ready" /\ queue'[s].Type = "DeriveKey" /\ queue'[s].Owner = k
    /\ queue'[s].FirstFragment = queue[s].FirstFragment
    /\ queue'[s].OutstandingFragmentCount = queue[s].OutstandingFragmentCount
    /\ queue'[s].ItemCompletedEvent = queue[s].ItemCompletedEvent
    /\ key'[k].pc = "signalReady"
    /\ UNCHANGED <<EnqueuePosition, EnqueueMutex, outstandingWorkItemCount>>

LEMMA KeyFillEffect ==
    ASSUME TypeInv, NEW k \in KeyClients, BeginKeyFill(k)
    PROVE  KeyFilled(k)
<1>1. key[k].item \in Slots /\ queue[key[k].item] \in WorkItem
  BY DEF TypeInv, TypeOK
<1>2. queue \in [Slots -> WorkItem]
  BY DEF TypeInv, TypeOK
<1>3. /\ \A i \in Slots \ {key[k].item} : queue'[i] = queue[i]
      /\ queue'[key[k].item].State = "Ready" /\ queue'[key[k].item].Type = "DeriveKey"
      /\ queue'[key[k].item].Owner = k
      /\ queue'[key[k].item].FirstFragment = queue[key[k].item].FirstFragment
      /\ queue'[key[k].item].OutstandingFragmentCount =
            queue[key[k].item].OutstandingFragmentCount
      /\ queue'[key[k].item].ItemCompletedEvent = queue[key[k].item].ItemCompletedEvent
  BY <1>1, <1>2 DEF BeginKeyFill, WorkItem
<1>4. key'[k].pc = "signalReady"
  BY DEF BeginKeyFill, KeyGoes, TypeInv, TypeOK
<1> QED
  BY <1>3, <1>4 DEF BeginKeyFill, KeyFilled, ring, keyEvents


-----------------------------------------------------------------------------
(* Starting and stopping, EnqueueMutex and what is left of a call. *)

\* Derivations that wait, and those that are not counted off.
ReadyKeys(k) ==
    {i \in Slots : queue[i].State = "Ready" /\ queue[i].Type = "DeriveKey" /\ queue[i].Owner = k}
Deriving(w) ==
    \/ worker[w].pc \in {"derive", "signalKey", "decrementKey"}
    \/ WorkerAt(w, "stopCheck") /\ ~StopPending
DerivingKeys(k) ==
    {w \in Workers : /\ queue[worker[w].item].Owner = k
                     /\ queue[worker[w].item].Type = "DeriveKey"
                     /\ Deriving(w)}
Beginning(k) == IF key[k].pc \in {"clear", "fill"} THEN 1 ELSE 0

LEMMA KeyCount ==
    KeyAccounting <=>
        \A k \in KeyClients : outstandingWorkItemCount[k] =
            Beginning(k) + Cardinality(ReadyKeys(k)) + Cardinality(DerivingKeys(k))
  BY DEF KeyAccounting, Beginning, ReadyKeys, DerivingKeys, Deriving

LEMMA Counted ==
    /\ IsFiniteSet(Slots) /\ IsFiniteSet(Workers)
    /\ \A f : /\ IsFiniteSet(Waiting(f)) /\ Cardinality(Waiting(f)) \in Nat
              /\ IsFiniteSet(Uncounted(f)) /\ Cardinality(Uncounted(f)) \in Nat
    /\ \A k : /\ IsFiniteSet(ReadyKeys(k)) /\ Cardinality(ReadyKeys(k)) \in Nat
              /\ IsFiniteSet(DerivingKeys(k)) /\ Cardinality(DerivingKeys(k)) \in Nat
<1>1. IsFiniteSet(Slots)
  BY FS_Interval, SizeFacts DEF Slots
<1>2. IsFiniteSet(Workers)
  BY PoolAssumption DEF PoolAssumption
<1>3. ASSUME NEW f PROVE Waiting(f) \subseteq Slots /\ Uncounted(f) \subseteq Workers
  BY DEF Waiting, Uncounted
<1>4. ASSUME NEW k PROVE ReadyKeys(k) \subseteq Slots /\ DerivingKeys(k) \subseteq Workers
  BY DEF ReadyKeys, DerivingKeys
<1> QED
  BY <1>1, <1>2, <1>3, <1>4, FS_Subset, FS_CardinalityType

LEMMA InitPool == Init => PInv
<1> SUFFICES ASSUME Init PROVE PInv
  OBVIOUS
<1>1. ControlInv
  BY DEF Init, ControlInv, Quiescent, ClientAt, KeyAt, IdleClient, IdleKey
<1>2. EnqueueInv /\ LeftInv /\ FirstInv
  BY DEF Init, EnqueueInv, LeftInv, FirstInv, IdleClient, IdleKey, InCall, FillingItem, FillingKey
<1>3. HeldInv /\ WorkerInv /\ ItemExclusive
  BY DEF Init, HeldInv, Held, Attached, WorkerInv, ItemExclusive, Processing, WorkerAt, EmptyItem
<1>4. SignalInv
  BY DEF Init, SignalInv, WorkerAt, EmptyItem
<1>5. FragmentAccounting
  BY DEF Init, FragmentAccounting, IdleClient
<1>6. KeyAccounting
  <2> SUFFICES ASSUME NEW k \in KeyClients
               PROVE  outstandingWorkItemCount[k] =
                        Beginning(k) + Cardinality(ReadyKeys(k)) + Cardinality(DerivingKeys(k))
    BY KeyCount
  <2>1. ReadyKeys(k) = {} /\ DerivingKeys(k) = {}
    BY DEF Init, EmptyItem, ReadyKeys, DerivingKeys, Deriving, WorkerAt
  <2>2. outstandingWorkItemCount[k] = 0 /\ Beginning(k) = 0
    BY DEF Init, IdleKey, Beginning
  <2>3. Cardinality({}) = 0
    BY FS_EmptySet
  <2> QED
    BY <2>1, <2>2, <2>3
<1> QED
  BY <1>1, <1>2, <1>3, <1>4, <1>5, <1>6, InitType DEF PInv, PoolAccounting

\* A worker counts off a derivation that has been counted.
LEMMA CountedOff ==
    ASSUME TypeInv, KeyAccounting, NEW w \in Workers, Deriving(w),
           queue[worker[w].item].Type = "DeriveKey",
           queue[worker[w].item].Owner \in KeyClients
    PROVE  outstandingWorkItemCount[queue[worker[w].item].Owner] > 0
<1> DEFINE k == queue[worker[w].item].Owner
<1>1. w \in DerivingKeys(k)
  BY DEF DerivingKeys
<1> HIDE DEF k
<1>2. Cardinality(DerivingKeys(k)) # 0
  BY <1>1, Counted, FS_EmptySet
<1>3. k \in KeyClients
  BY DEF k
<1>4. outstandingWorkItemCount[k] =
         Beginning(k) + Cardinality(ReadyKeys(k)) + Cardinality(DerivingKeys(k))
  BY <1>3, KeyCount
<1>5. Beginning(k) \in Nat
  BY DEF Beginning
<1> QED
  BY <1>2, <1>4, <1>5, Counted DEF k

LEMMA ControlStep ==
    ASSUME PInv, [Next]_vars
    PROVE  ControlInv'
<1>0. TypeInv /\ ControlInv
  BY DEF PInv
<1>1. ASSUME NEW w \in Workers, EncryptionThreadProc(w) PROVE ControlInv'
  <2>1. \A k \in KeyClients : outstandingWorkItemCount[k] = 0 => outstandingWorkItemCount'[k] = 0
    <3>1. CASE WorkerDecrementKey(w)
      <4>1. queue[worker[w].item].Type = "DeriveKey" /\ Deriving(w)
        BY <3>1 DEF PInv, WorkerInv, WorkerDecrementKey, WorkerAt, Deriving
      <4> QED
        BY <3>1, <4>1, CountedOff DEF WorkerDecrementKey, PInv, PoolAccounting, TypeInv, TypeOK
    <3>2. CASE ~WorkerDecrementKey(w)
      BY <1>1, <3>2 DEF EncryptionThreadProc, WorkerLoop, WorkerAcquire, WorkerTake, WorkerSleep,
         WorkerWake, WorkerStopCheck, WorkerTransform, WorkerFree, WorkerSignalFree,
         WorkerDecrement, WorkerSignalDone, WorkerDerive, WorkerSignalKey,
         WorkerSignalNoOutstanding, keys, keyEvents
    <3> QED
      BY <3>1, <3>2
  <2> QED
    BY <1>0, <1>1, <2>1, WorkerFrame DEF ControlInv, Quiescent, ClientAt, KeyAt
<1>2. ASSUME NEW c \in DataClients, EncryptionThreadPoolDoWork(c) \/ DoWorkCall(c)
      PROVE  ControlInv'
  <2>1. control \in {"running", "failed"}
    BY <1>0, <1>2, ClientFrame DEF ControlInv, Quiescent, ClientAt, DoWorkCall, TypeInv, TypeOK
  <2>2. CASE control = "running"
    BY <1>0, <1>2, <2>2, ClientFrame DEF ControlInv
  <2>3. CASE control = "failed"
    <3>1. client'[c].pc \in {"idle", "inline", "return"}
      <4>1. client[c].pc \in {"idle", "inline", "return"} /\ ~ThreadPoolRunning
        BY <1>0, <2>3 DEF ControlInv
      <4>2. CASE DoWorkCall(c)
        <5>1. PICK called \in {[IdleClient EXCEPT
                  !.pc = IF ~ThreadPoolRunning \/ n = 1 THEN "inline" ELSE "lock",
                  !.unitCount = n,
                  !.fragmentCount = FragmentCount(n),
                  !.unitsPerFragment = UnitsPerFragment(n),
                  !.remainder = Remainder(n)] : n \in 1 .. MaxUnits} :
                client' = [client EXCEPT ![c] = called]
          BY <4>2 DEF DoWorkCall
        <5>2. called.pc = "inline"
          BY <4>1, <5>1 DEF IdleClient
        <5> QED
          BY <1>0, <5>1, <5>2 DEF TypeInv, TypeOK
      <4>3. CASE DoWorkInline(c) \/ DoWorkReturn(c)
        BY <1>0, <4>3 DEF DoWorkInline, DoWorkReturn, ClientGoes, TypeInv, TypeOK, IdleClient, DoWorkLocals
      <4> QED
        BY <1>2, <4>1, <4>2, <4>3 DEF EncryptionThreadPoolDoWork, DoWorkLock, DoWorkBegin,
           DoWorkFill, DoWorkSleep, DoWorkWake, DoWorkSignalReady, DoWorkAwait,
           DoWorkFreeFirst, DoWorkSignalFirst, ClientAt
    <3> QED
      BY <1>0, <1>2, <2>3, <3>1, ClientFrame DEF ControlInv, KeyAt
  <2> QED
    BY <2>1, <2>2, <2>3
<1>3. ASSUME NEW k \in KeyClients, EncryptionThreadPoolBeginKeyDerivation(k) \/ KeyCaller(k)
      PROVE  ControlInv'
  <2>1. control = "running"
    BY <1>0, <1>3, KeyFrame DEF ControlInv, Quiescent, KeyAt, KeyCaller, TypeInv, TypeOK
  <2> QED
    BY <1>0, <1>3, <2>1, KeyFrame DEF ControlInv
<1>4. CASE Start
  BY <1>0, <1>4 DEF ControlInv, Start, Reset
<1>5. CASE StartFails
  BY <1>0, <1>5 DEF ControlInv, StartFails, Reset, Quiescent, clients, keys, keyEvents, ClientAt, KeyAt
<1>6. CASE EncryptionThreadPoolStop
  BY <1>0, <1>6 DEF ControlInv, EncryptionThreadPoolStop, Stop, StopSignal, StopJoined, Quiescent,
                    clients, keys, keyEvents, ClientAt, KeyAt, WorkerAt
<1>7. CASE UNCHANGED vars
  BY <1>0, <1>7 DEF ControlInv, vars, Quiescent, ClientAt, KeyAt
<1> QED
  BY <1>1, <1>2, <1>3, <1>4, <1>5, <1>6, <1>7 DEF Next, Pool


LEMMA ClientKinds ==
    ASSUME TypeInv, NEW c \in DataClients, EncryptionThreadPoolDoWork(c) \/ DoWorkCall(c)
    PROVE  (\A i \in Slots : Kept(i)) \/ DataFilled(c) \/ DoWorkFreeFirst(c)
<1>0. queue \in [Slots -> WorkItem] /\ client[c].first \in Slots
  BY ItemTypes DEF TypeInv, TypeOK
<1>1. CASE DoWorkFill(c)
  BY <1>1, DataFillEffect
<1>2. CASE DoWorkBegin(c)
  BY <1>0, <1>2 DEF DoWorkBegin, Kept, WorkItem
<1>3. CASE DoWorkAwait(c)
  BY <1>0, <1>3 DEF DoWorkAwait, Kept, WorkItem
<1>4. CASE queue' = queue
  BY <1>4 DEF Kept
<1> QED
  BY <1>1, <1>2, <1>3, <1>4 DEF EncryptionThreadPoolDoWork, DoWorkCall, DoWorkInline, DoWorkLock,
     DoWorkSleep, DoWorkWake, DoWorkSignalReady, DoWorkSignalFirst, DoWorkReturn

LEMMA KeyKinds ==
    ASSUME TypeInv, NEW k \in KeyClients,
           EncryptionThreadPoolBeginKeyDerivation(k) \/ KeyCaller(k)
    PROVE  queue' = queue \/ KeyFilled(k)
  BY KeyFillEffect DEF EncryptionThreadPoolBeginKeyDerivation, KeyCaller, BeginKeyDerivation,
     BeginKeyLock, BeginKeySleep, BeginKeyWake, BeginKeyCount, BeginKeyClear, BeginKeySignalReady

\* Nobody is at work when the pool is started.
LEMMA Unused ==
    ASSUME ControlInv, control \in {"stopped", "stopping", "joining"} \/ StopPending
    PROVE  /\ \A c \in DataClients : client[c].pc = "idle"
           /\ \A k \in KeyClients : key[k].pc = "idle" /\ outstandingWorkItemCount[k] = 0
  BY DEF ControlInv, Quiescent, ClientAt, KeyAt

\* What the caller's place in the ring is.
Place(c) ==
    /\ client[c].pc \in {"testFirst", "sleepFirst", "testItem", "sleepItem", "signalReady"} =>
          EnqueueMutex = c
    /\ client[c].pc \in {"testFirst", "sleepFirst"} => client[c].first = EnqueuePosition
    /\ client[c].pc \in FillingItem => EnqueuePosition = Advance(client[c].item)
KeyPlace(k) ==
    /\ key[k].pc \in FillingKey \cup {"signalReady"} => EnqueueMutex = k
    /\ key[k].pc \in FillingKey => EnqueuePosition = Advance(key[k].item)

LEMMA GoesEffect ==
    ASSUME TypeInv, NEW c \in DataClients, NEW pc, ClientGoes(c, pc)
    PROVE  /\ client'[c].pc = pc /\ client'[c].first = client[c].first
           /\ client'[c].item = client[c].item /\ client'[c].fragmentCount = client[c].fragmentCount
<1>1. client[c] \in DoWorkLocals /\ client \in [DataClients -> DoWorkLocals]
  BY DEF TypeInv, TypeOK
<1> QED
  BY <1>1 DEF ClientGoes, DoWorkLocals

LEMMA SleepEffect ==
    ASSUME TypeInv, NEW c \in DataClients, DoWorkSleep(c)
    PROVE  /\ \/ ClientAt(c, "testFirst") /\ ~IsFree(client[c].first) /\ client'[c].pc = "sleepFirst"
              \/ ClientAt(c, "testItem") /\ ~IsFree(client[c].item) /\ client'[c].pc = "sleepItem"
           /\ client'[c].first = client[c].first
           /\ client'[c].item = client[c].item /\ client'[c].fragmentCount = client[c].fragmentCount
           /\ UNCHANGED <<ring, queue>>
  BY GoesEffect DEF DoWorkSleep

\* The caller takes the next position of the ring or, with all fragments filled, waits.
LEMMA SignalReadyEffect ==
    ASSUME TypeInv, NEW c \in DataClients, DoWorkSignalReady(c)
    PROVE  /\ ClientAt(c, "signalReady") /\ client'[c].first = client[c].first /\ UNCHANGED queue
           /\ \/ /\ client[c].fragmentCount > 0 /\ client'[c].pc = "testItem"
                 /\ client'[c].item = EnqueuePosition
                 /\ client'[c].fragmentCount = client[c].fragmentCount - 1
                 /\ EnqueuePosition' = Advance(EnqueuePosition) /\ UNCHANGED EnqueueMutex
              \/ /\ client[c].fragmentCount = 0 /\ client'[c].pc = "await"
                 /\ client'[c].fragmentCount = 0
                 /\ EnqueueMutex' = None /\ UNCHANGED EnqueuePosition
<1>1. client[c] \in DoWorkLocals /\ client \in [DataClients -> DoWorkLocals]
  BY DEF TypeInv, TypeOK
<1>2. CASE client[c].fragmentCount > 0 /\ TakeSlot(c) /\ UNCHANGED EnqueueMutex
  BY <1>1, <1>2 DEF DoWorkSignalReady, TakeSlot, DoWorkLocals
<1>3. CASE /\ client[c].fragmentCount = 0 /\ EnqueueMutex' = None
           /\ client' = [client EXCEPT ![c] =
                 [IdleClient EXCEPT !.pc = "await", !.first = client[c].first,
                                    !.unitCount = client[c].unitCount]]
           /\ UNCHANGED EnqueuePosition
  <2> DEFINE waiting == [IdleClient EXCEPT !.pc = "await", !.first = client[c].first,
                                    !.unitCount = client[c].unitCount]
  <2>1. waiting.pc = "await" /\ waiting.first = client[c].first /\ waiting.fragmentCount = 0
    BY DEF IdleClient
  <2>2. client' = [client EXCEPT ![c] = waiting]
    BY <1>3
  <2> HIDE DEF waiting
  <2> QED
    BY <1>1, <1>3, <2>1, <2>2 DEF DoWorkSignalReady
<1> QED
  BY <1>2, <1>3 DEF DoWorkSignalReady

LEMMA PlaceStep ==
    ASSUME TypeInv, NEW c \in DataClients, EncryptionThreadPoolDoWork(c) \/ DoWorkCall(c), Place(c)
    PROVE  /\ Place(c)'
           /\ UNCHANGED <<EnqueuePosition, EnqueueMutex>> \/ EnqueueMutex = c
              \/ (UNCHANGED EnqueuePosition /\ EnqueueMutex = None)
<1> USE DEF Place, FillingItem, ClientAt, ClientGoes, TypeInv, TypeOK, DoWorkLocals, ring
<1>1. CASE DoWorkCall(c)
  <2>1. PICK called \in {[IdleClient EXCEPT
                  !.pc = IF ~ThreadPoolRunning \/ n = 1 THEN "inline" ELSE "lock",
                  !.unitCount = n,
                  !.fragmentCount = FragmentCount(n),
                  !.unitsPerFragment = UnitsPerFragment(n),
                  !.remainder = Remainder(n)] : n \in 1 .. MaxUnits} :
                client' = [client EXCEPT ![c] = called]
    BY <1>1 DEF DoWorkCall
  <2>2. called.pc \in {"inline", "lock"}
    BY <2>1 DEF IdleClient
  <2> QED
    BY <1>1, <2>1, <2>2 DEF DoWorkCall
<1>2. CASE DoWorkLock(c)
  BY <1>2 DEF DoWorkLock
<1>3. CASE DoWorkBegin(c)
  BY <1>3 DEF DoWorkBegin, TakeSlot
<1>4. CASE DoWorkFill(c)
  BY <1>4, DataFillEffect DEF DataFilled
<1>5. CASE DoWorkSleep(c) \/ DoWorkWake(c)
  <2>1. CASE DoWorkSleep(c)
    <3>1. UNCHANGED <<EnqueuePosition, EnqueueMutex>>
      BY <2>1 DEF DoWorkSleep
    <3> QED
      BY <2>1, <3>1, SleepEffect
  <2>2. CASE DoWorkWake(c)
    BY <2>2 DEF DoWorkWake
  <2> QED
    BY <1>5, <2>1, <2>2
<1>6. CASE DoWorkSignalReady(c)
  BY <1>6, SignalReadyEffect
<1>7. CASE DoWorkInline(c) \/ DoWorkAwait(c) \/ DoWorkFreeFirst(c) \/ DoWorkSignalFirst(c)
           \/ DoWorkReturn(c)
  BY <1>7 DEF DoWorkInline, DoWorkAwait, DoWorkFreeFirst, DoWorkSignalFirst, DoWorkReturn,
              IdleClient
<1> QED
  BY <1>1, <1>2, <1>3, <1>4, <1>5, <1>6, <1>7 DEF EncryptionThreadPoolDoWork

LEMMA KeyPlaceStep ==
    ASSUME TypeInv, NEW k \in KeyClients,
           EncryptionThreadPoolBeginKeyDerivation(k) \/ KeyCaller(k), KeyPlace(k)
    PROVE  /\ KeyPlace(k)'
           /\ UNCHANGED <<EnqueuePosition, EnqueueMutex>> \/ EnqueueMutex \in {k, None}
           /\ UNCHANGED EnqueuePosition
              \/ (EnqueueMutex = None /\ KeyAt(k, "lock") /\ key'[k].pc = "testItem" /\ key'[k].item = EnqueuePosition)
           /\ key'[k].pc = "fill" => KeyAt(k, "fill") \/ KeyAt(k, "clear")
           /\ key'[k].pc = "clear" => KeyAt(k, "clear") \/ (KeyAt(k, "testItem") /\ IsFree(key[k].item))
           /\ ~KeyAt(k, "lock") => key'[k].item = key[k].item \/ key'[k].pc \in {"idle", "lock"}
<1> USE DEF KeyPlace, FillingKey, KeyAt, KeyGoes, TypeInv, TypeOK, ring
<1>1. CASE KeyCaller(k)
  BY <1>1 DEF KeyCaller, BeginKeyDerivation
<1>2. CASE BeginKeyLock(k)
  BY <1>2 DEF BeginKeyLock
<1>3. CASE BeginKeySleep(k) \/ BeginKeyWake(k)
  BY <1>3 DEF BeginKeySleep, BeginKeyWake
<1>4. CASE BeginKeyCount(k) \/ BeginKeyClear(k)
  BY <1>4 DEF BeginKeyCount, BeginKeyClear
<1>5. CASE BeginKeyFill(k) \/ BeginKeySignalReady(k)
  BY <1>5 DEF BeginKeyFill, BeginKeySignalReady, IdleKey
<1> QED
  BY <1>1, <1>2, <1>3, <1>4, <1>5 DEF EncryptionThreadPoolBeginKeyDerivation

\* Threads that have the mutex have it alone.
LEMMA EnqueueStep ==
    ASSUME PInv, [Next]_vars
    PROVE  EnqueueInv'
<1>0. /\ TypeInv /\ ControlInv /\ EnqueueInv
      /\ \A c \in DataClients : Place(c)
      /\ \A k \in KeyClients : KeyPlace(k)
      /\ \A k \in KeyClients : key[k].pc \in {"clear", "fill"} => IsFree(key[k].item)
  BY DEF PInv, EnqueueInv, Place, KeyPlace
<1> SUFFICES /\ \A c \in DataClients : Place(c)'
             /\ \A k \in KeyClients : KeyPlace(k)'
             /\ \A k \in KeyClients : key'[k].pc \in {"clear", "fill"} => IsFree(key[k].item)'
  BY DEF EnqueueInv, Place, KeyPlace
<1>00. \A k \in KeyClients : key[k].item \in Slots
  BY <1>0, ItemTypes DEF TypeInv
<1>01. /\ \A c \in DataClients, k \in KeyClients : c # k
       /\ \A c \in DataClients : c # None
       /\ \A k \in KeyClients : k # None
  BY PoolAssumption DEF PoolAssumption
<1>1. ASSUME NEW w \in Workers, EncryptionThreadProc(w)
      PROVE  /\ \A c \in DataClients : Place(c)'
             /\ \A k \in KeyClients : KeyPlace(k)'
             /\ \A k \in KeyClients : key'[k].pc \in {"clear", "fill"} => IsFree(key[k].item)'
  <2>1. UNCHANGED <<client, key, EnqueuePosition, EnqueueMutex>>
    BY <1>0, <1>1, WorkerFrame
  <2>2. ASSUME NEW k \in KeyClients, key[k].pc \in {"clear", "fill"}
        PROVE  queue'[key[k].item].State = "Free"
    <3>1. queue[key[k].item].State = "Free" /\ key[k].item \in Slots
      BY <1>0, <1>00, <2>2 DEF IsFree
    <3>2. CASE WorkerQuiet(w)
      BY <3>1, <3>2 DEF WorkerQuiet, Kept
    <3>3. CASE WorkerTake(w)
      <4>1. ~StopPending
        BY <1>0, <2>2, Unused
      <4> QED
        BY <1>0, <3>1, <3>3, <4>1, TakeEffect
    <3>4. CASE WorkerFree(w)
      BY <1>0, <3>1, <3>4, WorkerFreeEffect, FreeEffect
    <3> QED
      BY <1>0, <1>1, <3>2, <3>3, <3>4, WorkerKinds
  <2> QED
    BY <1>0, <2>1, <2>2 DEF Place, KeyPlace, IsFree
<1>2. ASSUME NEW c \in DataClients, EncryptionThreadPoolDoWork(c) \/ DoWorkCall(c)
      PROVE  /\ \A d \in DataClients : Place(d)'
             /\ \A k \in KeyClients : KeyPlace(k)'
             /\ \A k \in KeyClients : key'[k].pc \in {"clear", "fill"} => IsFree(key[k].item)'
  <2>1. /\ UNCHANGED key /\ \A d \in DataClients \ {c} : client'[d] = client[d]
    BY <1>0, <1>2, ClientFrame
  <2>2. /\ Place(c)'
        /\ UNCHANGED <<EnqueuePosition, EnqueueMutex>> \/ EnqueueMutex = c
              \/ (UNCHANGED EnqueuePosition /\ EnqueueMutex = None)
    BY <1>0, <1>2, PlaceStep
  <2>3. \A d \in DataClients : Place(d)'
    <3>1. \A d \in DataClients \ {c} : EnqueueMutex \in {c, None} =>
             client[d].pc \notin {"testFirst", "sleepFirst", "testItem", "sleepItem", "signalReady"}
      BY <1>0, <1>01 DEF Place
    <3>2. \A d \in DataClients \ {c} : Place(d)'
      BY <1>0, <2>1, <2>2, <3>1 DEF Place, FillingItem
    <3> QED
      BY <2>2, <3>2
  <2>4. \A k \in KeyClients : KeyPlace(k)'
    BY <1>0, <1>01, <2>1, <2>2 DEF KeyPlace, FillingKey
  <2>5. ASSUME NEW k \in KeyClients, key[k].pc \in {"clear", "fill"}
        PROVE  queue'[key[k].item].State = "Free"
    <3>1. queue[key[k].item].State = "Free" /\ key[k].item \in Slots /\ EnqueueMutex = k
      BY <1>0, <1>00, <2>5 DEF IsFree, KeyPlace, FillingKey
    <3>2. ~DataFilled(c)
      BY <1>0, <1>01, <3>1 DEF DataFilled, Place, ClientAt
    <3>3. CASE DoWorkFreeFirst(c)
      BY <1>0, <3>1, <3>3, FreeEffect, ItemTypes DEF DoWorkFreeFirst, TypeInv
    <3> QED
      BY <1>0, <1>2, <3>1, <3>2, <3>3, ClientKinds DEF Kept
  <2> QED
    BY <2>1, <2>3, <2>4, <2>5 DEF IsFree
<1>3. ASSUME NEW k \in KeyClients, EncryptionThreadPoolBeginKeyDerivation(k) \/ KeyCaller(k)
      PROVE  /\ \A c \in DataClients : Place(c)'
             /\ \A l \in KeyClients : KeyPlace(l)'
             /\ \A l \in KeyClients : key'[l].pc \in {"clear", "fill"} => IsFree(key[l].item)'
  <2>1. /\ UNCHANGED client /\ \A l \in KeyClients \ {k} : key'[l] = key[l]
    BY <1>0, <1>3, KeyFrame
  <2>2. /\ KeyPlace(k)'
        /\ UNCHANGED <<EnqueuePosition, EnqueueMutex>> \/ EnqueueMutex \in {k, None}
    BY <1>0, <1>3, KeyPlaceStep
  <2>3. \A c \in DataClients : Place(c)'
    <3>1. \A c \in DataClients : EnqueueMutex \in {k, None} =>
             client[c].pc \notin {"testFirst", "sleepFirst", "testItem", "sleepItem", "signalReady"}
      BY <1>0, <1>01 DEF Place
    <3> QED
      BY <1>0, <2>1, <2>2, <3>1 DEF Place, FillingItem
  <2>4. \A l \in KeyClients : KeyPlace(l)'
    <3>1. \A l \in KeyClients \ {k} : EnqueueMutex \in {k, None} =>
             key[l].pc \notin FillingKey \cup {"signalReady"}
      BY <1>0, <1>01 DEF KeyPlace
    <3>2. \A l \in KeyClients \ {k} : KeyPlace(l)'
      BY <1>0, <2>1, <2>2, <3>1 DEF KeyPlace, FillingKey
    <3> QED
      BY <2>2, <3>2
  <2>5. ASSUME NEW l \in KeyClients, key'[l].pc \in {"clear", "fill"}
        PROVE  queue'[key'[l].item].State = "Free"
    <3>1. CASE l # k
      <4>1. queue[key[l].item].State = "Free" /\ key[l].item \in Slots /\ EnqueueMutex = l /\ key'[l] = key[l]
        BY <1>0, <1>00, <2>1, <2>5, <3>1 DEF IsFree, KeyPlace, FillingKey
      <4>2. ~KeyFilled(k)
        BY <1>0, <3>1, <4>1 DEF KeyFilled, KeyPlace, KeyAt, FillingKey
      <4> QED
        BY <1>0, <1>3, <4>1, <4>2, KeyKinds
    <3>2. CASE l = k
      <4>1. ~KeyFilled(k)
        BY <2>5, <3>2 DEF KeyFilled
      <4>2. (KeyAt(k, "testItem") /\ IsFree(key[k].item)) \/ key[k].pc \in {"clear", "fill"}
        BY <1>0, <1>3, <2>5, <3>2, KeyPlaceStep DEF KeyAt
      <4>3. key'[k].item = key[k].item /\ IsFree(key[k].item)
        BY <1>0, <1>3, <2>5, <3>2, <4>2, KeyPlaceStep DEF KeyAt
      <4> QED
        BY <1>0, <1>3, <3>2, <4>1, <4>3, KeyKinds DEF IsFree
    <3> QED
      BY <3>1, <3>2
  <2> QED
    BY <2>3, <2>4, <2>5 DEF IsFree
<1>4. CASE Start \/ StartFails \/ EncryptionThreadPoolStop
  <2>1. control \in {"stopped", "stopping", "joining"} \/ UNCHANGED <<queue, EnqueuePosition, EnqueueMutex>>
    BY <1>4 DEF Start, StartFails, EncryptionThreadPoolStop, Stop, StopSignal, StopJoined, ring
  <2>2. UNCHANGED <<client, key>>
    BY <1>4 DEF Start, StartFails, EncryptionThreadPoolStop, Stop, StopSignal, StopJoined, clients, keys
  <2> QED
    BY <1>0, <2>1, <2>2, Unused DEF Place, KeyPlace, FillingItem, FillingKey, IsFree
<1>5. CASE UNCHANGED vars
  BY <1>0, <1>5 DEF vars, Place, KeyPlace, IsFree
<1> QED
  BY <1>1, <1>2, <1>3, <1>4, <1>5 DEF Next, Pool

LEMMA LeftStep ==
    ASSUME PInv, [Next]_vars
    PROVE  LeftInv'
<1>0. TypeInv /\ LeftInv
  BY DEF PInv
<1>1. CASE UNCHANGED client
  BY <1>0, <1>1 DEF LeftInv
<1>2. ASSUME NEW c \in DataClients, EncryptionThreadPoolDoWork(c) \/ DoWorkCall(c)
      PROVE  LeftInv'
  <2> DEFINE Left == /\ client'[c].pc \in {"lock", "testFirst", "sleepFirst"} => client'[c].fragmentCount > 0
                     /\ client'[c].pc \in FillingItem \cup {"signalReady"} => client'[c].fragmentCount >= 0
                     /\ client'[c].pc = "await" => client'[c].fragmentCount = 0
  <2>1. Left
    <3> USE <1>0 DEF LeftInv, FillingItem, ClientAt, ClientGoes, TypeInv, TypeOK, DoWorkLocals
    <3>1. CASE DoWorkCall(c)
      <4>1. PICK n \in 1 .. MaxUnits :
          client' = [client EXCEPT ![c] =
              [IdleClient EXCEPT
                  !.pc = IF ~ThreadPoolRunning \/ n = 1 THEN "inline" ELSE "lock",
                  !.unitCount = n,
                  !.fragmentCount = FragmentCount(n),
                  !.unitsPerFragment = UnitsPerFragment(n),
                  !.remainder = Remainder(n)]]
        BY <3>1 DEF DoWorkCall
      <4>2. client'[c].pc \in {"inline", "lock"} /\ client'[c].fragmentCount = FragmentCount(n)
        BY <4>1 DEF IdleClient
      <4>3. FragmentCount(n) > 0
        BY SizeFacts DEF FragmentCount
      <4> QED
        BY <4>2, <4>3
    <3>2. CASE DoWorkBegin(c)
      BY <3>2 DEF DoWorkBegin, TakeSlot
    <3>3. CASE DoWorkFill(c)
      BY <3>3, DataFillEffect DEF DataFilled
    <3>4. CASE DoWorkLock(c) \/ DoWorkSleep(c) \/ DoWorkWake(c)
      <4>1. CASE DoWorkLock(c)
        BY <4>1 DEF DoWorkLock
      <4>2. CASE DoWorkSleep(c)
        BY <4>2, SleepEffect
      <4>3. CASE DoWorkWake(c)
        BY <4>3 DEF DoWorkWake
      <4> QED
        BY <3>4, <4>1, <4>2, <4>3
    <3>5. CASE DoWorkSignalReady(c)
      <4>1. /\ client[c].fragmentCount \in Int
            /\ \/ client[c].fragmentCount > 0 /\ client'[c].pc = "testItem"
                  /\ client'[c].fragmentCount = client[c].fragmentCount - 1
               \/ client'[c].pc = "await" /\ client'[c].fragmentCount = 0
        BY <3>5, SignalReadyEffect
      <4> QED
        BY <4>1
    <3>6. CASE DoWorkInline(c) \/ DoWorkAwait(c) \/ DoWorkFreeFirst(c) \/ DoWorkSignalFirst(c)
               \/ DoWorkReturn(c)
      BY <3>6 DEF DoWorkInline, DoWorkAwait, DoWorkFreeFirst, DoWorkSignalFirst, DoWorkReturn,
                  IdleClient
    <3> QED
      BY <1>2, <3>1, <3>2, <3>3, <3>4, <3>5, <3>6 DEF EncryptionThreadPoolDoWork
  <2>2. \A d \in DataClients \ {c} : client'[d] = client[d]
    BY <1>0, <1>2, ClientFrame
  <2> QED
    BY <1>0, <2>1, <2>2 DEF LeftInv
<1> QED
  BY <1>0, <1>1, <1>2, WorkerFrame, KeyFrame DEF Next, Pool, Start, StartFails,
     EncryptionThreadPoolStop, Stop, StopSignal, StopJoined, clients, vars


-----------------------------------------------------------------------------
(* Exclusion *)

\* A first item that a call has filled is not the one a worker releases.
LEMMA ReleasedApart ==
    ASSUME TypeInv, WorkerInv, NEW w \in Workers, WorkerFree(w), NEW f \in Slots,
           queue[f].FirstFragment = f, queue[f].Type = "Data"
    PROVE  f # worker[w].item
  BY WorkerFreeEffect DEF WorkerInv, WorkerAt

\* What the caller of a finished call holds.
LEMMA FreeFirstEffect ==
    ASSUME TypeInv, FirstInv, NEW c \in DataClients, DoWorkFreeFirst(c)
    PROVE  /\ client[c].first \in Slots /\ Free(client[c].first) /\ ~IsFree(client[c].first)
           /\ queue[client[c].first].Type = "Data" /\ queue[client[c].first].Owner = c
           /\ queue[client[c].first].FirstFragment = client[c].first
           /\ ClientAt(c, "freeFirst") /\ client'[c].pc = "signalFirst"
           /\ UNCHANGED <<EnqueuePosition, EnqueueMutex>>
<1>1. ClientAt(c, "freeFirst") /\ client[c].first \in Slots
  BY ItemTypes DEF DoWorkFreeFirst, TypeInv
<1> QED
  BY <1>1, GoesEffect DEF DoWorkFreeFirst, FirstInv, ClientAt, IsFree, ring

\* Only the worker itself changes the item it is working on.
LEMMA ProcessedKept ==
    ASSUME PInv, [Next]_vars, NEW v \in Workers, Processing(v), worker'[v] = worker[v]
    PROVE  Kept(worker[v].item)
<1> DEFINE s == worker[v].item
<1>0. /\ TypeInv /\ ControlInv /\ EnqueueInv /\ FirstInv /\ WorkerInv /\ ItemExclusive
      /\ s \in Slots /\ queue[s].State = "Busy"
  BY ItemTypes DEF PInv, TypeInv, ItemExclusive
<1>1. ASSUME NEW w \in Workers, EncryptionThreadProc(w) PROVE Kept(s)
  <2>1. CASE WorkerQuiet(w)
    BY <1>0, <2>1 DEF WorkerQuiet
  <2>2. CASE WorkerTake(w)
    <3>1. worker[w].item # s \/ queue'[s].State = "Busy"
      BY <1>0, <2>2, TakeEffect
    <3> QED
      BY <1>0, <2>2, <3>1, TakeEffect DEF Kept
  <2>3. CASE WorkerFree(w)
    <3>1. w # v
      BY <2>3, WorkerFreeEffect, <1>0 DEF WorkerAt
    <3>2. Processing(w)
      BY <2>3 DEF WorkerFree, Processing
    <3>3. worker[w].item # s
      BY <1>0, <3>1, <3>2 DEF ItemExclusive
    <3> QED
      BY <1>0, <2>3, <3>3, WorkerFreeEffect, FreeEffect DEF Kept
  <2> QED
    BY <1>0, <1>1, <2>1, <2>2, <2>3, WorkerKinds
<1>2. ASSUME NEW c \in DataClients, EncryptionThreadPoolDoWork(c) \/ DoWorkCall(c)
      PROVE  Kept(s)
  <2>1. CASE DataFilled(c)
    <3>1. client[c].item # s
      BY <1>0, <2>1 DEF DataFilled, IsFree
    <3> QED
      BY <1>0, <2>1, <3>1 DEF DataFilled, Kept
  <2>2. CASE DoWorkFreeFirst(c)
    <3> DEFINE f == client[c].first
    <3>1. CASE f = s
      <4>1. queue[s].Type = "Data" /\ queue[s].FirstFragment = s /\ ClientAt(c, "freeFirst")
            /\ queue[s].Owner = c
        BY <1>0, <2>2, <3>1, FreeFirstEffect
      <4>2. Attached(v) \/ worker[v].pc \in {"derive", "signalKey", "decrementKey", "signalNoOutstanding", "freeKey"}
        BY <1>0, <4>1 DEF Processing, Attached
      <4>3. ~Attached(v)
        <5>1. SUFFICES ASSUME Attached(v) PROVE FALSE
          OBVIOUS
        <5>2. Held(s)
          BY <5>1 DEF Held
        <5>3. PICK d \in DataClients : client[d].pc \in InCall /\ client[d].first = s
          BY <1>0, <4>1, <5>2 DEF PInv, HeldInv
        <5>4. queue[s].Owner = d
          BY <1>0, <5>3 DEF FirstInv
        <5> QED
          BY <4>1, <5>3, <5>4 DEF ClientAt, InCall
      <4> QED
        BY <1>0, <4>1, <4>2, <4>3 DEF WorkerInv
    <3>2. CASE f # s
      BY <1>0, <2>2, <3>2, FreeFirstEffect, FreeEffect DEF Kept
    <3> QED
      BY <3>1, <3>2
  <2> QED
    BY <1>0, <1>2, <2>1, <2>2, ClientKinds
<1>3. ASSUME NEW k \in KeyClients, EncryptionThreadPoolBeginKeyDerivation(k) \/ KeyCaller(k)
      PROVE  Kept(s)
  <2>1. CASE KeyFilled(k)
    <3>1. IsFree(key[k].item)
      BY <1>0, <2>1 DEF KeyFilled, EnqueueInv, KeyAt
    <3> QED
      BY <1>0, <2>1, <3>1 DEF KeyFilled, Kept, IsFree
  <2> QED
    BY <1>0, <1>3, <2>1, KeyKinds DEF Kept
<1>4. CASE Start \/ StartFails
  <2>1. worker[v].pc \in {"none", "exited"}
    BY <1>0, <1>4 DEF Start, StartFails, ControlInv
  <2> QED
    BY <2>1 DEF Processing, WorkerAt
<1>5. CASE EncryptionThreadPoolStop \/ UNCHANGED vars
  BY <1>5 DEF EncryptionThreadPoolStop, Stop, StopSignal, StopJoined, vars, Kept
<1> QED
  BY <1>1, <1>2, <1>3, <1>4, <1>5 DEF Next, Pool

\* How a worker comes to be working on an item.
LEMMA ProcessingFrom ==
    ASSUME PInv, [Next]_vars, NEW v \in Workers, Processing(v)'
    PROVE  \/ /\ Processing(v) /\ worker'[v].item = worker[v].item
              /\ Kept(worker[v].item)
           \/ WorkerTake(v) /\ ~StopPending
<1>0. TypeInv /\ ControlInv /\ worker[v].item \in Slots
  BY ItemTypes DEF PInv, TypeInv
<1>1. CASE EncryptionThreadProc(v)
  <2>1. CASE WorkerQuiet(v)
    BY <1>0, <2>1 DEF WorkerQuiet, Detached
  <2>2. CASE WorkerTake(v)
    BY <1>0, <2>2, TakeEffect, WorkerFrame, <1>1 DEF Processing, WorkerAt
  <2>3. CASE WorkerFree(v)
    BY <1>0, <2>3, WorkerFreeEffect DEF Processing, WorkerAt
  <2> QED
    BY <1>0, <1>1, <2>1, <2>2, <2>3, WorkerKinds
<1>2. CASE worker'[v] = worker[v] /\ StopPending' = StopPending
  BY <1>2, ProcessedKept DEF Processing, WorkerAt
<1>3. CASE Start \/ StartFails
  BY <1>3 DEF Start, StartFails, Created, Processing, WorkerAt
<1>4. CASE EncryptionThreadPoolStop
  <2>1. worker'[v] = worker[v] /\ (StopPending => StopPending')
    BY <1>4 DEF EncryptionThreadPoolStop, Stop, StopSignal, StopJoined
  <2>2. Processing(v)
    BY <2>1 DEF Processing, WorkerAt
  <2> QED
    BY <2>1, <2>2, ProcessedKept
<1>5. ASSUME NEW w \in Workers, w # v, EncryptionThreadProc(w)
      PROVE  worker'[v] = worker[v] /\ StopPending' = StopPending
  BY <1>0, <1>5, WorkerFrame
<1>6. CASE Pool \/ Next \/ UNCHANGED vars
  <2>1. ASSUME NEW c \in DataClients, EncryptionThreadPoolDoWork(c) \/ DoWorkCall(c)
        PROVE  worker'[v] = worker[v] /\ StopPending' = StopPending
    BY <1>0, <2>1, ClientFrame
  <2>2. ASSUME NEW k \in KeyClients, EncryptionThreadPoolBeginKeyDerivation(k) \/ KeyCaller(k)
        PROVE  worker'[v] = worker[v] /\ StopPending' = StopPending
    BY <1>0, <2>2, KeyFrame
  <2> QED
    BY <1>1, <1>2, <1>3, <1>4, <1>5, <1>6, <2>1, <2>2 DEF Next, Pool, vars
<1> QED
  BY <1>6

LEMMA ExclusiveStep ==
    ASSUME PInv, [Next]_vars
    PROVE  ItemExclusive'
<1>0. /\ TypeInv /\ ControlInv /\ ItemExclusive /\ EnqueueInv'
      /\ \A v \in Workers : worker[v].item \in Slots
  BY EnqueueStep, ItemTypes DEF PInv, TypeInv
<1>1. ASSUME NEW w \in Workers, Processing(w)'
      PROVE  queue'[worker'[w].item].State = "Busy"
  <2>1. CASE WorkerTake(w)
    BY <1>0, <2>1, TakeEffect
  <2>2. CASE Processing(w) /\ worker'[w].item = worker[w].item /\ Kept(worker[w].item)
    BY <1>0, <2>2 DEF ItemExclusive, Kept
  <2> QED
    BY <1>1, <2>1, <2>2, ProcessingFrom
<1>2. ASSUME NEW w \in Workers, Processing(w)'
      PROVE  ~Filling(worker[w].item)'
  BY <1>0, <1>1, <1>2 DEF Filling, IsFree, EnqueueInv
<1>3. ASSUME NEW v \in Workers, NEW w \in Workers, v # w, WorkerTake(w), ~StopPending,
             Processing(v), worker'[v].item = worker[v].item
      PROVE  worker'[v].item # worker'[w].item
  BY <1>0, <1>3, TakeEffect DEF ItemExclusive
<1>4. ASSUME NEW v \in Workers, NEW w \in Workers, v # w, Processing(v)', Processing(w)'
      PROVE  worker'[v].item # worker'[w].item
  <2>1. ~(WorkerTake(v) /\ WorkerTake(w))
    <3>1. SUFFICES ASSUME WorkerTake(v), WorkerTake(w) PROVE FALSE
      OBVIOUS
    <3>2. worker'[v].pc = "stopCheck" /\ worker[v].pc = "test"
      BY <1>0, <3>1, TakeEffect DEF WorkerAt
    <3>3. worker'[v] = worker[v]
      BY <1>0, <1>4, <3>1, WorkerFrame DEF EncryptionThreadProc
    <3> QED
      BY <3>2, <3>3
  <2>2. CASE WorkerTake(v) /\ ~StopPending
    BY <1>3, <1>4, <2>1, <2>2, ProcessingFrom
  <2>3. CASE WorkerTake(w) /\ ~StopPending
    BY <1>3, <1>4, <2>1, <2>3, ProcessingFrom
  <2>4. CASE Processing(v) /\ Processing(w) /\ worker'[v].item = worker[v].item
             /\ worker'[w].item = worker[w].item
    BY <1>0, <1>4, <2>4 DEF ItemExclusive
  <2> QED
    BY <1>4, <2>2, <2>3, <2>4, ProcessingFrom
<1> QED
  BY <1>1, <1>2, <1>4 DEF ItemExclusive

LEMMA WorkerInvStep ==
    ASSUME PInv, [Next]_vars
    PROVE  WorkerInv'
<1> DEFINE Keyed == {"derive", "signalKey", "decrementKey", "signalNoOutstanding", "freeKey"}
<1>0. /\ TypeInv /\ WorkerInv
      /\ \A v \in Workers : worker[v].item \in Slots
      /\ \A i \in Slots : queue[i].Type \in {"Data", "DeriveKey"}
      /\ worker \in [Workers -> [pc : WorkerPc, item : Slots]]
  BY ItemTypes DEF PInv, TypeInv, TypeOK
<1> SUFFICES ASSUME NEW v \in Workers
             PROVE  /\ worker'[v].pc = "free" =>
                          queue'[worker'[v].item].FirstFragment # worker'[v].item
                    /\ worker'[v].pc \in Keyed => queue'[worker'[v].item].Type = "DeriveKey"
  BY DEF WorkerInv, WorkerAt
<1>1. CASE worker'[v].pc = "free" \/ worker'[v].pc \in Keyed
  <2>1. Processing(v)'
    BY <1>1 DEF Processing
  <2>2. ~WorkerTake(v)
    BY <1>0, <1>1, TakeEffect
  <2>3. Processing(v) /\ worker'[v].item = worker[v].item /\ Kept(worker[v].item)
    BY <2>1, <2>2, ProcessingFrom
  <2>4. CASE worker'[v].pc = worker[v].pc
    BY <1>0, <2>3, <2>4 DEF Kept, WorkerInv, WorkerAt
  <2>5. CASE EncryptionThreadProc(v) /\ worker'[v].pc # worker[v].pc
    <3> USE <1>0 DEF WorkerGoes, WorkerAt
    <3>1. CASE WorkerStopCheck(v)
      BY <1>1, <2>3, <3>1 DEF WorkerStopCheck, Kept
    <3>2. CASE WorkerTransform(v)
      BY <1>1, <2>3, <3>2 DEF WorkerTransform, ReleasedByWorker, Kept
    <3>3. CASE WorkerDerive(v) \/ WorkerSignalKey(v) \/ WorkerDecrementKey(v)
               \/ WorkerSignalNoOutstanding(v)
      <4>1. worker[v].pc \in Keyed /\ worker'[v].pc \in Keyed
        BY <3>3 DEF WorkerDerive, WorkerSignalKey, WorkerDecrementKey, WorkerSignalNoOutstanding
      <4> QED
        BY <2>3, <4>1 DEF Kept, WorkerInv
    <3>4. CASE WorkerLoop(v) \/ WorkerAcquire(v) \/ WorkerSleep(v) \/ WorkerWake(v)
               \/ WorkerTake(v)
      BY <1>1, <3>4 DEF WorkerLoop, WorkerAcquire, WorkerSleep, WorkerWake, WorkerTake
    <3>5. CASE WorkerFree(v) \/ WorkerSignalFree(v) \/ WorkerDecrement(v) \/ WorkerSignalDone(v)
      <4>1. worker'[v].pc \in {"signalFree", "signalFreeKey", "decrement", "loop", "signalDone"}
        <5>1. CASE WorkerFree(v)
          BY <5>1 DEF WorkerFree
        <5>2. CASE WorkerSignalFree(v) \/ WorkerSignalDone(v)
          BY <5>2 DEF WorkerSignalFree, WorkerSignalDone
        <5>3. CASE WorkerDecrement(v)
          BY <5>3 DEF WorkerDecrement
        <5> QED
          BY <3>5, <5>1, <5>2, <5>3
      <4> QED
        BY <1>1, <4>1
    <3> QED
      BY <2>5, <3>1, <3>2, <3>3, <3>4, <3>5 DEF EncryptionThreadProc
  <2>6. worker'[v].pc = worker[v].pc \/ EncryptionThreadProc(v)
    <3>1. ASSUME NEW w \in Workers, w # v, EncryptionThreadProc(w)
          PROVE  worker'[v].pc = worker[v].pc
      BY <1>0, <3>1, WorkerFrame
    <3>2. ASSUME NEW c \in DataClients, EncryptionThreadPoolDoWork(c) \/ DoWorkCall(c)
          PROVE  worker'[v].pc = worker[v].pc
      BY <1>0, <3>2, ClientFrame
    <3>3. ASSUME NEW k \in KeyClients, EncryptionThreadPoolBeginKeyDerivation(k) \/ KeyCaller(k)
          PROVE  worker'[v].pc = worker[v].pc
      BY <1>0, <3>3, KeyFrame
    <3>4. ~(Start \/ StartFails)
      BY <1>1 DEF Start, StartFails, Created
    <3>5. CASE EncryptionThreadPoolStop \/ UNCHANGED vars
      BY <3>5 DEF EncryptionThreadPoolStop, Stop, StopSignal, StopJoined, vars
    <3> QED
      BY <3>1, <3>2, <3>3, <3>4, <3>5 DEF Next, Pool
  <2> QED
    BY <2>4, <2>5, <2>6
<1> QED
  BY <1>1


-----------------------------------------------------------------------------
(* The ring: no item is refilled while its FirstFragment is to be read. *)

\* What a caller's step does to its place in the ring and in its call.
CallerMoves(c) ==
    /\ client[c].pc \in FillingItem =>
          /\ client'[c].pc \in FillingItem /\ client'[c].item = client[c].item
          /\ UNCHANGED EnqueuePosition
    /\ client[c].pc \notin FillingItem /\ client'[c].pc \in FillingItem =>
          client'[c].item = EnqueuePosition /\ EnqueueMutex = c
    /\ client'[c].pc \in FillingItem \/ UNCHANGED EnqueuePosition
    /\ client'[c].pc \in InCall =>
          (client[c].pc \in InCall /\ client'[c].first = client[c].first) \/ DoWorkBegin(c)
    /\ client[c].pc \in InCall =>
          (client'[c].pc \in InCall /\ client'[c].first = client[c].first) \/ DoWorkAwait(c)

LEMMA BeginEffect ==
    ASSUME TypeInv, EnqueueInv, NEW c \in DataClients, DoWorkBegin(c)
    PROVE  /\ ClientAt(c, "testFirst") /\ client'[c].pc = "testItem"
           /\ client[c].first = EnqueuePosition
           /\ client'[c].item = EnqueuePosition /\ client'[c].first = EnqueuePosition
           /\ client'[c].fragmentCount = client[c].fragmentCount - 1
           /\ IsFree(EnqueuePosition) /\ EnqueueMutex = c
           /\ \A i \in Slots : /\ Kept(i)
                               /\ queue'[i].ItemCompletedEvent = queue[i].ItemCompletedEvent
                               /\ i # EnqueuePosition => queue'[i] = queue[i]
           /\ queue'[EnqueuePosition].OutstandingFragmentCount = client[c].fragmentCount
<1>1. /\ client[c] \in DoWorkLocals /\ client \in [DataClients -> DoWorkLocals]
      /\ queue \in [Slots -> WorkItem] /\ EnqueuePosition \in Slots
  BY DEF TypeInv, TypeOK
<1>2. ClientAt(c, "testFirst") /\ client[c].first = EnqueuePosition /\ EnqueueMutex = c
  BY DEF DoWorkBegin, EnqueueInv, ClientAt
<1>3. /\ client'[c].pc = "testItem" /\ client'[c].item = EnqueuePosition
      /\ client'[c].first = client[c].first
      /\ client'[c].fragmentCount = client[c].fragmentCount - 1
  BY <1>1 DEF DoWorkBegin, TakeSlot, DoWorkLocals
<1> QED
  BY <1>1, <1>2, <1>3 DEF DoWorkBegin, Kept, WorkItem

LEMMA CallerMovement ==
    ASSUME TypeInv, EnqueueInv, NEW c \in DataClients,
           EncryptionThreadPoolDoWork(c) \/ DoWorkCall(c)
    PROVE  CallerMoves(c) \/ DataFilled(c)
<1> USE DEF CallerMoves, FillingItem, InCall, ClientAt, TypeInv
<1>1. CASE DoWorkCall(c)
  <2>1. client'[c].pc \in {"inline", "lock"} /\ ClientAt(c, "idle") /\ UNCHANGED EnqueuePosition
    <3>1. PICK called \in {[IdleClient EXCEPT
                  !.pc = IF ~ThreadPoolRunning \/ n = 1 THEN "inline" ELSE "lock",
                  !.unitCount = n,
                  !.fragmentCount = FragmentCount(n),
                  !.unitsPerFragment = UnitsPerFragment(n),
                  !.remainder = Remainder(n)] : n \in 1 .. MaxUnits} :
                client' = [client EXCEPT ![c] = called]
      BY <1>1 DEF DoWorkCall
    <3>2. called.pc \in {"inline", "lock"}
      BY <3>1 DEF IdleClient
    <3> QED
      BY <1>1, <3>1, <3>2 DEF DoWorkCall, TypeOK, ring
  <2> QED
    BY <2>1
<1>2. CASE DoWorkLock(c)
  BY <1>2 DEF DoWorkLock, TypeOK
<1>3. CASE DoWorkBegin(c)
  BY <1>3, BeginEffect
<1>4. CASE DoWorkFill(c)
  BY <1>4, DataFillEffect
<1>5. CASE DoWorkSleep(c)
  BY <1>5, SleepEffect DEF DoWorkSleep, ring
<1>6. CASE DoWorkWake(c)
  <2>1. ClientGoes(c, IF ClientAt(c, "sleepFirst") THEN "testFirst" ELSE "testItem")
        /\ client[c].pc \in {"sleepFirst", "sleepItem"} /\ UNCHANGED EnqueuePosition
    BY <1>6 DEF DoWorkWake, ring
  <2> QED
    BY <2>1, GoesEffect
<1>7. CASE DoWorkSignalReady(c)
  <2>1. EnqueueMutex = c
    BY <1>7 DEF DoWorkSignalReady, EnqueueInv
  <2> QED
    BY <1>7, <2>1, SignalReadyEffect
<1>8. CASE DoWorkInline(c) \/ DoWorkFreeFirst(c) \/ DoWorkSignalFirst(c)
  <2>1. PICK pc \in {"return", "signalFirst"} : ClientGoes(c, pc)
    BY <1>8 DEF DoWorkInline, DoWorkFreeFirst, DoWorkSignalFirst
  <2> QED
    BY <1>8, <2>1, GoesEffect DEF DoWorkInline, DoWorkFreeFirst, DoWorkSignalFirst, ring
<1>9. CASE DoWorkAwait(c)
  BY <1>9, GoesEffect DEF DoWorkAwait, ring
<1>10. CASE DoWorkReturn(c)
  BY <1>10 DEF DoWorkReturn, IdleClient, TypeOK, ring
<1> QED
  BY <1>1, <1>2, <1>3, <1>4, <1>5, <1>6, <1>7, <1>8, <1>9, <1>10 DEF EncryptionThreadPoolDoWork

\* The item that is filled next advances with the filling only.
LEMMA NextFilled ==
    ASSUME PInv, [Next]_vars, ~(Start \/ StartFails), NEW h \in Slots, NextToFill(h)'
    PROVE  \/ NextToFill(h)
           \/ \E c \in DataClients : /\ EncryptionThreadPoolDoWork(c) /\ DataFilled(c)
                                     /\ h = Advance(client[c].item) /\ NextToFill(client[c].item)
           \/ \E k \in KeyClients : /\ EncryptionThreadPoolBeginKeyDerivation(k) /\ KeyFilled(k)
                                    /\ h = Advance(key[k].item) /\ NextToFill(key[k].item)
<1>0. TypeInv /\ EnqueueInv
  BY DEF PInv
<1>01. /\ \A c \in DataClients, k \in KeyClients : c # k
       /\ \A c \in DataClients : c # None
       /\ \A k \in KeyClients : k # None
  BY PoolAssumption DEF PoolAssumption
<1>02. /\ \A c \in DataClients : client[c].pc \in FillingItem =>
             EnqueueMutex = c /\ EnqueuePosition = Advance(client[c].item)
       /\ \A k \in KeyClients : key[k].pc \in FillingKey =>
             EnqueueMutex = k /\ EnqueuePosition = Advance(key[k].item)
  BY <1>0 DEF EnqueueInv, FillingItem, FillingKey
<1>1. CASE UNCHANGED <<client, key, EnqueuePosition>>
  BY <1>1 DEF NextToFill
<1>2. ASSUME NEW c \in DataClients, EncryptionThreadPoolDoWork(c) \/ DoWorkCall(c)
      PROVE  NextToFill(h) \/ (EncryptionThreadPoolDoWork(c) /\ DataFilled(c)
                /\ h = Advance(client[c].item) /\ NextToFill(client[c].item))
  <2>1. UNCHANGED key /\ \A d \in DataClients \ {c} : client'[d] = client[d]
    BY <1>0, <1>2, ClientFrame
  <2>2. CASE DataFilled(c)
    <3>1. EncryptionThreadPoolDoWork(c)
      BY <1>2, <2>2 DEF DataFilled, DoWorkCall, ClientAt
    <3>2. client[c].pc \in FillingItem /\ UNCHANGED EnqueuePosition /\ client'[c].pc \notin FillingItem
      BY <2>2 DEF DataFilled, ClientAt, FillingItem
    <3>3. \A d \in DataClients : client'[d].pc \notin FillingItem
      BY <1>01, <1>02, <2>1, <3>2
    <3>4. \A k \in KeyClients : key'[k].pc \notin FillingKey
      BY <1>01, <1>02, <2>1, <3>2
    <3>5. h = EnqueuePosition
      BY <3>2, <3>3, <3>4 DEF NextToFill
    <3> QED
      BY <1>02, <2>2, <3>1, <3>2, <3>5 DEF NextToFill
  <2>3. CASE CallerMoves(c)
    <3>1. CASE client[c].pc \in FillingItem
      BY <2>1, <2>3, <3>1 DEF NextToFill, CallerMoves
    <3>2. CASE client[c].pc \notin FillingItem /\ client'[c].pc \in FillingItem
      <4>1. client'[c].item = EnqueuePosition /\ EnqueueMutex = c
        BY <2>3, <3>2 DEF CallerMoves
      <4>2. /\ \A d \in DataClients : client[d].pc \notin FillingItem
            /\ \A k \in KeyClients : key[k].pc \notin FillingKey
        BY <1>01, <1>02, <3>2, <4>1
      <4>3. NextToFill(EnqueuePosition)
        BY <4>2 DEF NextToFill
      <4>4. h = EnqueuePosition
        BY <2>1, <3>2, <4>1, <4>2 DEF NextToFill
      <4> QED
        BY <4>3, <4>4
    <3>3. CASE client[c].pc \notin FillingItem /\ client'[c].pc \notin FillingItem
      <4>1. UNCHANGED EnqueuePosition
        BY <2>3, <3>3 DEF CallerMoves
      <4> QED
        BY <2>1, <3>3, <4>1 DEF NextToFill
    <3> QED
      BY <3>1, <3>2, <3>3
  <2> QED
    BY <1>0, <1>2, <2>2, <2>3, CallerMovement
<1>3. ASSUME NEW k \in KeyClients, EncryptionThreadPoolBeginKeyDerivation(k) \/ KeyCaller(k)
      PROVE  NextToFill(h) \/ (EncryptionThreadPoolBeginKeyDerivation(k) /\ KeyFilled(k)
                /\ h = Advance(key[k].item) /\ NextToFill(key[k].item))
  <2>1. UNCHANGED client /\ \A l \in KeyClients \ {k} : key'[l] = key[l]
    BY <1>0, <1>3, KeyFrame
  <2>2. CASE KeyFilled(k)
    <3>1. EncryptionThreadPoolBeginKeyDerivation(k)
      BY <1>3, <2>2 DEF KeyFilled, KeyCaller, BeginKeyDerivation, KeyAt
    <3>2. key[k].pc \in FillingKey /\ UNCHANGED EnqueuePosition /\ key'[k].pc \notin FillingKey
      BY <2>2 DEF KeyFilled, KeyAt, FillingKey
    <3>3. \A d \in DataClients : client'[d].pc \notin FillingItem
      BY <1>01, <1>02, <2>1, <3>2
    <3>4. \A l \in KeyClients : key'[l].pc \notin FillingKey
      BY <1>01, <1>02, <2>1, <3>2
    <3>5. h = EnqueuePosition
      BY <3>2, <3>3, <3>4 DEF NextToFill
    <3> QED
      BY <1>02, <2>2, <3>1, <3>2, <3>5 DEF NextToFill
  <2>3. CASE ~KeyFilled(k)
    <3> DEFINE E == EnqueuePosition
    <3>1. \/ /\ key[k].pc \in FillingKey /\ key'[k].pc \in FillingKey /\ key'[k].item = key[k].item
             /\ UNCHANGED EnqueuePosition
          \/ /\ key[k].pc \notin FillingKey /\ key'[k].pc \notin FillingKey
             /\ UNCHANGED EnqueuePosition
          \/ /\ key[k].pc \notin FillingKey /\ key'[k].pc \in FillingKey
             /\ key'[k].item = EnqueuePosition /\ EnqueueMutex = None
      <4> USE <1>0 DEF TypeInv, TypeOK, FillingKey, KeyGoes, KeyAt, ring
      <4>1. CASE KeyCaller(k)
        BY <4>1 DEF KeyCaller, BeginKeyDerivation
      <4>2. CASE BeginKeyLock(k)
        BY <4>2 DEF BeginKeyLock
      <4>3. CASE BeginKeySleep(k) \/ BeginKeyWake(k)
        BY <4>3 DEF BeginKeySleep, BeginKeyWake
      <4>4. CASE BeginKeyCount(k) \/ BeginKeyClear(k)
        BY <4>4 DEF BeginKeyCount, BeginKeyClear
      <4>5. CASE BeginKeySignalReady(k)
        BY <4>5 DEF BeginKeySignalReady, IdleKey
      <4> QED
        BY <1>3, <2>3, <4>1, <4>2, <4>3, <4>4, <4>5, KeyFillEffect
        DEF EncryptionThreadPoolBeginKeyDerivation
    <3>2. CASE /\ key[k].pc \notin FillingKey /\ key'[k].pc \in FillingKey
               /\ key'[k].item = EnqueuePosition /\ EnqueueMutex = None
      <4>1. /\ \A d \in DataClients : client[d].pc \notin FillingItem
            /\ \A l \in KeyClients : key[l].pc \notin FillingKey
        BY <1>01, <1>02, <3>2
      <4>2. NextToFill(EnqueuePosition)
        BY <4>1 DEF NextToFill
      <4>3. h = EnqueuePosition
        BY <2>1, <3>2, <4>1 DEF NextToFill
      <4> QED
        BY <4>2, <4>3
    <3>3. CASE UNCHANGED EnqueuePosition
      BY <2>1, <3>1, <3>2, <3>3 DEF NextToFill
    <3> QED
      BY <3>1, <3>2, <3>3
  <2> QED
    BY <2>2, <2>3
<1>4. ASSUME NEW w \in Workers, EncryptionThreadProc(w)
      PROVE  UNCHANGED <<client, key, EnqueuePosition>>
  BY <1>0, <1>4, WorkerFrame
<1>5. CASE EncryptionThreadPoolStop \/ UNCHANGED vars
  BY <1>1, <1>5 DEF EncryptionThreadPoolStop, Stop, StopSignal, StopJoined, vars, clients, keys, ring
<1> QED
  BY <1>1, <1>2, <1>3, <1>4, <1>5 DEF Next, Pool


\* Two callers have different first items.
LEMMA OwnFirst ==
    ASSUME FirstInv, NEW c \in DataClients, NEW d \in DataClients,
           client[c].pc \in InCall \cup {"freeFirst"}, client[d].pc \in InCall \cup {"freeFirst"},
           client[c].first = client[d].first, ~IsFree(client[c].first)
    PROVE  c = d
  BY DEF FirstInv, IsFree

LEMMA HeldCounted ==
    ASSUME TypeInv, NEW s \in Slots, Held(s)
    PROVE  \/ Waiting(queue[s].FirstFragment) # {}
           \/ Uncounted(queue[s].FirstFragment) # {}
           \/ \E w \in Workers : WorkerAt(w, "signalDone") /\ worker[w].item = s
<1>1. CASE queue[s].State = "Ready" /\ queue[s].Type = "Data"
  <2>1. s \in Waiting(queue[s].FirstFragment)
    BY <1>1 DEF Waiting
  <2> QED
    BY <2>1
<1>2. ASSUME NEW w \in Workers, worker[w].item = s, Attached(w), ~WorkerAt(w, "signalDone")
      PROVE  w \in Uncounted(queue[s].FirstFragment)
  BY <1>2 DEF Uncounted, Attached, WorkerAt
<1> QED
  BY <1>1, <1>2 DEF Held

\* When the caller has been signalled, nothing of its call is left.
LEMMA NothingLeft ==
    ASSUME PInv, NEW c \in DataClients, DoWorkAwait(c)
    PROVE  /\ \A s \in Slots : Held(s) => queue[s].FirstFragment # client[c].first
           /\ \A w \in Workers : WorkerAt(w, "signalDone") =>
                 queue[worker[w].item].FirstFragment # client[c].first
<1> DEFINE f == client[c].first
<1>0. /\ TypeInv /\ FirstInv /\ LeftInv /\ SignalInv /\ FragmentAccounting
      /\ f \in Slots
  BY ItemTypes DEF PInv, TypeInv, PoolAccounting
<1>1. ClientAt(c, "await") /\ queue[f].ItemCompletedEvent
  BY DEF DoWorkAwait
<1>2. PICK d \in DataClients : /\ client[d].first = f /\ queue[f].OutstandingFragmentCount = 0
                               /\ client[d].pc \in {"await", "signalReady"}
  BY <1>0, <1>1 DEF SignalInv, Done, ClientAt
<1>3. Unfilled(c) = 0
  BY <1>0, <1>1 DEF LeftInv, Unfilled, ClientAt
<1>4. queue[f].OutstandingFragmentCount =
         Unfilled(c) + Cardinality(Waiting(f)) + Cardinality(Uncounted(f))
  BY <1>0, <1>1 DEF FragmentAccounting, ClientAt
<1>5. Cardinality(Waiting(f)) = 0 /\ Cardinality(Uncounted(f)) = 0
  BY <1>2, <1>3, <1>4, Counted
<1>6. Waiting(f) = {} /\ Uncounted(f) = {}
  BY <1>5, Counted, FS_EmptySet
<1>7. \A w \in Workers : WorkerAt(w, "signalDone") => queue[worker[w].item].FirstFragment # f
  BY <1>0, <1>1 DEF SignalInv
<1> QED
  BY <1>0, <1>6, <1>7, HeldCounted

\* In a pool that is not used, no item is held.
LEMMA NothingHeld ==
    ASSUME PInv, control \in {"stopped", "stopping", "joining"} \/ StopPending
    PROVE  \A s \in Slots : ~Held(s)
  BY Unused DEF PInv, HeldInv, InCall

LEMMA HeldKept ==
    ASSUME TypeInv, HeldInv,
           \A h \in Slots : NextToFill(h)' => NextToFill(h),
           \A s \in Slots : Held(s)' =>
               Held(s) /\ queue'[s].FirstFragment = queue[s].FirstFragment,
           \A c \in DataClients : client[c].pc \in InCall =>
               \/ client'[c].pc \in InCall /\ client'[c].first = client[c].first
               \/ \A s \in Slots : Held(s) => queue[s].FirstFragment # client[c].first,
           \A s \in Slots : Held(s) => queue'[queue[s].FirstFragment].State # "Free"
    PROVE  HeldInv'
  BY DEF HeldInv, IsFree

\* Filling the next item with a fragment, or with a derivation, moves on past it.
LEMMA BetweenMoves ==
    ASSUME NEW h \in Slots, NEW f \in Slots, NEW s \in Slots, h # f, Between(h, f, s)
    PROVE  Between(Advance(h), f, s)
  BY SizeFacts DEF Between, Advance, Slots

LEMMA BetweenFilled ==
    ASSUME NEW f \in Slots, NEW s \in Slots, s # f
    PROVE  Between(Advance(s), f, s) /\ ~Between(s, f, s)
  BY SizeFacts DEF Between, Advance, Slots

\* What is filled was not held.
LEMMA FilledNotHeld ==
    ASSUME TypeInv, HeldInv, NEW h \in Slots, NextToFill(h), IsFree(h)
    PROVE  ~Held(h)
<1> SUFFICES ASSUME Held(h) PROVE FALSE
  OBVIOUS
<1>1. /\ queue[h].FirstFragment \in Slots /\ ~IsFree(queue[h].FirstFragment)
      /\ h # queue[h].FirstFragment => Between(h, queue[h].FirstFragment, h)
  BY ItemTypes DEF HeldInv, TypeInv
<1> QED
  BY <1>1, BetweenFilled

LEMMA HeldStep ==
    ASSUME PInv, [Next]_vars
    PROVE  HeldInv'
<1>0. /\ TypeInv /\ ControlInv /\ EnqueueInv /\ HeldInv /\ FirstInv /\ WorkerInv /\ ItemExclusive
      /\ \A i \in Slots : queue[i].FirstFragment \in Slots
      /\ \A w \in Workers : worker[w].item \in Slots
      /\ \A c \in DataClients : client[c].item \in Slots /\ client[c].first \in Slots
      /\ \A k \in KeyClients : key[k].item \in Slots
  BY ItemTypes DEF PInv, TypeInv
<1>1. ASSUME NEW w \in Workers, EncryptionThreadProc(w) PROVE HeldInv'
  <2>0. /\ UNCHANGED <<client, key, EnqueuePosition, StopPending>>
        /\ \A v \in Workers \ {w} : worker'[v] = worker[v]
    BY <1>0, <1>1, WorkerFrame
  <2>1. \A h \in Slots : NextToFill(h)' => NextToFill(h)
    BY <2>0 DEF NextToFill
  <2>2. CASE WorkerQuiet(w)
    <3>1. \A v \in Workers : Attached(v)' => Attached(v) /\ worker'[v].item = worker[v].item
      BY <1>0, <2>0, <2>2 DEF WorkerQuiet, Detached, Attached, Kept, WorkerAt
    <3>2. \A s \in Slots : Held(s)' => Held(s)
      BY <2>2, <3>1 DEF Held, WorkerQuiet, Kept
    <3>3. \A s \in Slots : /\ queue'[s].FirstFragment = queue[s].FirstFragment
                           /\ queue'[s].State = queue[s].State
      BY <2>2 DEF WorkerQuiet, Kept
    <3>4. \A s \in Slots : Held(s) => queue'[queue[s].FirstFragment].State # "Free"
      BY <1>0, <3>3 DEF HeldInv, IsFree
    <3> QED
      BY <1>0, <2>0, <2>1, <3>2, <3>3, <3>4, HeldKept
  <2>3. CASE WorkerTake(w)
    <3>1. \A s \in Slots : /\ queue'[s].FirstFragment = queue[s].FirstFragment
                           /\ queue'[s].Type = queue[s].Type
                           /\ queue'[s].State = queue[s].State \/ queue'[s].State = "Busy"
      BY <1>0, <2>3, TakeEffect
    <3>2. \A v \in Workers \ {w} : Attached(v)' <=> Attached(v)
      BY <1>0, <2>0, <3>1 DEF Attached, WorkerAt
    <3>3. \A s \in Slots : Held(s)' => Held(s)
      <4>1. Attached(w)' => Held(worker[w].item)
        BY <1>0, <2>0, <2>3, <3>1, TakeEffect DEF Attached, WorkerAt, Held
      <4>2. worker'[w].item = worker[w].item
        BY <1>0, <2>3, TakeEffect
      <4> QED
        BY <2>0, <3>1, <3>2, <4>1, <4>2 DEF Held
    <3>4. \A s \in Slots : Held(s) => queue'[queue[s].FirstFragment].State # "Free"
      BY <1>0, <3>1 DEF HeldInv, IsFree
    <3> QED
      BY <1>0, <2>0, <2>1, <3>1, <3>3, <3>4, HeldKept
  <2>4. CASE WorkerFree(w)
    <3> DEFINE i == worker[w].item
    <3>1. /\ \A s \in Slots : s # i => queue'[s] = queue[s]
          /\ queue'[i].FirstFragment = queue[i].FirstFragment
          /\ queue'[i].State = "Free"
      BY <1>0, <2>4, WorkerFreeEffect, FreeEffect
    <3>2. \A v \in Workers \ {w} : Attached(v)' => Attached(v)
      <4> SUFFICES ASSUME NEW v \in Workers \ {w}, Attached(v)', ~Attached(v) PROVE FALSE
        OBVIOUS
      <4>1. WorkerAt(v, "stopCheck") /\ ~StopPending /\ queue'[worker[v].item].Type = "Data"
            /\ queue[worker[v].item].Type # "Data"
        BY <2>0 DEF Attached, WorkerAt
      <4>2. worker[v].item = i
        BY <1>0, <3>1, <4>1
      <4>3. Processing(v) /\ Processing(w)
        BY <2>4, <4>1 DEF Processing, WorkerFree
      <4> QED
        BY <1>0, <4>2, <4>3 DEF ItemExclusive
    <3>3. Attached(w)' => Attached(w) /\ worker'[w].item = worker[w].item
      BY <1>0, <2>4, WorkerFreeEffect DEF Attached, WorkerAt
    <3>4. \A s \in Slots : Held(s)' => Held(s)
      BY <1>0, <2>0, <3>1, <3>2, <3>3 DEF Held
    <3>5. ASSUME NEW s \in Slots, Held(s) PROVE queue'[queue[s].FirstFragment].State # "Free"
      <4>1. PICK c \in DataClients : /\ client[c].pc \in InCall
                                     /\ client[c].first = queue[s].FirstFragment
        BY <1>0, <3>5 DEF HeldInv
      <4>2. /\ ~IsFree(client[c].first) /\ queue[client[c].first].Type = "Data"
            /\ queue[client[c].first].FirstFragment = client[c].first
        BY <1>0, <3>5, <4>1 DEF HeldInv, FirstInv, IsFree
      <4>3. client[c].first # i
        BY <1>0, <2>4, <4>2, ReleasedApart
      <4> QED
        BY <1>0, <3>1, <4>1, <4>2, <4>3 DEF IsFree
    <3> QED
      BY <1>0, <2>0, <2>1, <3>1, <3>4, <3>5, HeldKept
  <2> QED
    BY <1>0, <1>1, <2>2, <2>3, <2>4, WorkerKinds
<1>2. ASSUME NEW c \in DataClients, EncryptionThreadPoolDoWork(c) \/ DoWorkCall(c)
      PROVE  HeldInv'
  <2>0. /\ UNCHANGED <<worker, key, StopPending>>
        /\ \A d \in DataClients \ {c} : client'[d] = client[d]
    BY <1>0, <1>2, ClientFrame
  <2>1. CASE ~DataFilled(c)
    <3>1. CallerMoves(c)
      BY <1>0, <1>2, <2>1, CallerMovement
    <3>2. ASSUME NEW h \in Slots, NextToFill(h)' PROVE NextToFill(h)
      <4>1. ASSUME NEW d \in DataClients, EncryptionThreadPoolDoWork(d), DataFilled(d) PROVE d = c
        BY <1>0, <2>0, <4>1, <1>2 DEF DataFilled, ClientAt
      <4>2. ASSUME NEW k \in KeyClients, KeyFilled(k) PROVE FALSE
        BY <2>0, <4>2 DEF KeyFilled, KeyAt
      <4>3. ~(Start \/ StartFails)
        BY <1>0, <1>2, ClientFrame DEF Start, StartFails
      <4> QED
        BY <2>1, <3>2, <4>1, <4>2, <4>3, NextFilled
    <3>3. \A d \in DataClients : client[d].pc \in InCall =>
               \/ client'[d].pc \in InCall /\ client'[d].first = client[d].first
               \/ \A s \in Slots : Held(s) => queue[s].FirstFragment # client[d].first
      BY <2>0, <3>1, NothingLeft DEF CallerMoves
    <3>4. CASE \A i \in Slots : Kept(i)
      <4>1. \A v \in Workers : Attached(v)' <=> Attached(v)
        BY <1>0, <2>0, <3>4 DEF Attached, Kept, WorkerAt
      <4>2. \A s \in Slots : Held(s)' => Held(s) /\ queue'[s].FirstFragment = queue[s].FirstFragment
        BY <2>0, <3>4, <4>1 DEF Held, Kept
      <4>3. \A s \in Slots : Held(s) => queue'[queue[s].FirstFragment].State # "Free"
        BY <1>0, <3>4 DEF HeldInv, IsFree, Kept
      <4> QED
        BY <1>0, <3>2, <3>3, <4>2, <4>3, HeldKept
    <3>5. CASE DoWorkFreeFirst(c)
      <4> DEFINE f == client[c].first
      <4>1. /\ f \in Slots /\ ~IsFree(f) /\ queue[f].Type = "Data" /\ ClientAt(c, "freeFirst")
            /\ queue[f].FirstFragment = f
            /\ \A s \in Slots : s # f => queue'[s] = queue[s]
            /\ queue'[f].FirstFragment = f /\ queue'[f].State = "Free" /\ queue'[f].Type = "Data"
        BY <1>0, <3>5, FreeFirstEffect, FreeEffect
      <4>2. \A v \in Workers : Attached(v)' <=> Attached(v)
        BY <1>0, <2>0, <4>1 DEF Attached, WorkerAt
      <4>3. \A s \in Slots : Held(s)' => Held(s) /\ queue'[s].FirstFragment = queue[s].FirstFragment
        BY <2>0, <4>1, <4>2 DEF Held
      <4>4. ASSUME NEW s \in Slots, Held(s) PROVE queue'[queue[s].FirstFragment].State # "Free"
        <5>1. PICK d \in DataClients : /\ client[d].pc \in InCall
                                       /\ client[d].first = queue[s].FirstFragment
          BY <1>0, <4>4 DEF HeldInv
        <5>2. queue[s].FirstFragment # f
          BY <1>0, <4>1, <5>1, OwnFirst DEF InCall, ClientAt
        <5> QED
          BY <1>0, <4>1, <4>4, <5>2 DEF HeldInv, IsFree
      <4> QED
        BY <1>0, <3>2, <3>3, <4>3, <4>4, HeldKept
    <3> QED
      BY <1>0, <1>2, <2>1, <3>4, <3>5, ClientKinds
  <2>2. CASE DataFilled(c)
    <3> DEFINE i == client[c].item
               f == client[c].first
    <3>1. /\ i \in Slots /\ f \in Slots /\ IsFree(i) /\ client'[c].pc = "signalReady"
          /\ client[c].pc = "testItem" /\ client'[c].first = f
          /\ queue'[i].State = "Ready" /\ queue'[i].Type = "Data" /\ queue'[i].FirstFragment = f
          /\ \A s \in Slots : s # i => queue'[s] = queue[s]
      BY <1>0, <2>2 DEF DataFilled, ClientAt
    <3>2. NextToFill(i)
      BY <3>1 DEF NextToFill, FillingItem
    <3>3. ~Held(i)
      BY <1>0, <3>1, <3>2, FilledNotHeld
    <3>4. ASSUME NEW h \in Slots, NextToFill(h)' PROVE h = Advance(i)
      <4>1. /\ \A d \in DataClients : client'[d].pc \notin FillingItem
            /\ \A k \in KeyClients : key'[k].pc \notin FillingKey
            /\ EnqueuePosition' = Advance(i)
        <5>1. EnqueueMutex = c /\ EnqueuePosition = Advance(i) /\ UNCHANGED EnqueuePosition
          BY <1>0, <2>2, <3>1 DEF EnqueueInv, FillingItem, DataFilled
        <5>2. \A k \in KeyClients : c # k
          BY PoolAssumption DEF PoolAssumption
        <5> QED
          BY <1>0, <2>0, <3>1, <5>1, <5>2 DEF EnqueueInv, FillingItem, FillingKey
      <4> QED
        BY <3>4, <4>1 DEF NextToFill
    <3>5. ASSUME NEW s \in Slots, s # i, Held(s)'
          PROVE  Held(s) /\ queue'[s].FirstFragment = queue[s].FirstFragment
      BY <1>0, <2>0, <3>1, <3>5 DEF Held, Attached, WorkerAt
    <3>6. ASSUME NEW s \in Slots, s # i, Held(s)'
          PROVE  /\ \E d \in DataClients : client'[d].pc \in InCall
                                           /\ client'[d].first = queue'[s].FirstFragment
                 /\ queue'[queue'[s].FirstFragment].State # "Free"
                 /\ s # queue'[s].FirstFragment =>
                       \A h \in Slots : NextToFill(h)' => Between(h, queue'[s].FirstFragment, s)
      <4> DEFINE g == queue[s].FirstFragment
      <4>1. /\ Held(s) /\ queue'[s].FirstFragment = g /\ g \in Slots /\ ~IsFree(g)
            /\ s # g => Between(i, g, s)
            /\ \E d \in DataClients : client[d].pc \in InCall /\ client[d].first = g
        BY <1>0, <3>1, <3>2, <3>5, <3>6 DEF HeldInv
      <4>2. g # i /\ queue'[g].State # "Free"
        BY <3>1, <4>1 DEF IsFree
      <4>3. \E d \in DataClients : client'[d].pc \in InCall /\ client'[d].first = g
        BY <2>0, <3>1, <4>1 DEF InCall
      <4> HIDE DEF g
      <4>4. s # g => Between(Advance(i), g, s)
        BY <3>1, <4>1, <4>2, BetweenMoves
      <4> QED
        BY <3>4, <4>1, <4>2, <4>3, <4>4
    <3>7. /\ \E d \in DataClients : client'[d].pc \in InCall /\ client'[d].first = f
          /\ queue'[f].State # "Free"
          /\ i # f => \A h \in Slots : NextToFill(h)' => Between(h, f, i)
      <4>1. client'[c].pc \in InCall
        BY <3>1 DEF InCall
      <4>2. queue'[f].State # "Free"
        <5>1. CASE f = i
          BY <3>1, <5>1
        <5>2. CASE f # i
          <6>1. queue[f].State # "Free"
            BY <1>0, <3>1, <5>2 DEF FirstInv, InCall
          <6> QED
            BY <3>1, <5>2, <6>1
        <5> QED
          BY <5>1, <5>2
      <4> QED
        BY <3>1, <3>4, <4>1, <4>2, BetweenFilled
    <3> QED
      BY <3>1, <3>6, <3>7 DEF HeldInv, IsFree
  <2> QED
    BY <2>1, <2>2
<1>3. ASSUME NEW k \in KeyClients, EncryptionThreadPoolBeginKeyDerivation(k) \/ KeyCaller(k)
      PROVE  HeldInv'
  <2>0. UNCHANGED <<worker, client, StopPending, control>>
    BY <1>0, <1>3, KeyFrame
  <2>1. ~(Start \/ StartFails)
    BY <2>0 DEF Start, StartFails
  <2>2. ASSUME NEW d \in DataClients, DataFilled(d) PROVE FALSE
    BY <2>0, <2>2 DEF DataFilled, ClientAt
  <2>3. CASE KeyFilled(k)
    <3> DEFINE i == key[k].item
    <3>1. /\ i \in Slots /\ IsFree(i) /\ queue'[i].State = "Ready" /\ queue'[i].Type = "DeriveKey"
          /\ key[k].pc = "fill" /\ \A s \in Slots : s # i => queue'[s] = queue[s]
      BY <1>0, <2>3 DEF KeyFilled, KeyAt, EnqueueInv
    <3>2. NextToFill(i)
      BY <3>1 DEF NextToFill, FillingKey
    <3>3. ~Held(i)
      BY <1>0, <3>1, <3>2, FilledNotHeld
    <3>4. ASSUME NEW h \in Slots, NextToFill(h)' PROVE h = Advance(i)
      <4>1. UNCHANGED EnqueuePosition /\ EnqueueMutex = k /\ EnqueuePosition = Advance(i)
            /\ key'[k].pc = "signalReady"
        BY <1>0, <2>3, <3>1 DEF KeyFilled, EnqueueInv, FillingKey
      <4>2. /\ \A d \in DataClients : d # k
            /\ \A l \in KeyClients \ {k} : key'[l] = key[l]
        BY <1>0, <1>3, KeyFrame, PoolAssumption DEF PoolAssumption
      <4>3. /\ \A d \in DataClients : client'[d].pc \notin FillingItem
            /\ \A l \in KeyClients : key'[l].pc \notin FillingKey
        BY <1>0, <2>0, <4>1, <4>2 DEF EnqueueInv, FillingItem, FillingKey
      <4> QED
        BY <3>4, <4>1, <4>3 DEF NextToFill
    <3>5. ASSUME NEW s \in Slots, Held(s)' PROVE s # i /\ Held(s)
      <4>1. s = i => queue'[s].Type = "DeriveKey" /\ ~Held(s)
        BY <3>1, <3>3
      <4>2. queue'[s].Type = "DeriveKey" => Held(s)
        BY <2>0, <3>5 DEF Held, Attached, WorkerAt
      <4>3. s # i
        BY <4>1, <4>2
      <4> QED
        BY <1>0, <2>0, <3>1, <3>5, <4>3 DEF Held, Attached, WorkerAt
    <3>6. ASSUME NEW s \in Slots, Held(s)'
          PROVE  /\ \E d \in DataClients : client'[d].pc \in InCall
                                           /\ client'[d].first = queue'[s].FirstFragment
                 /\ queue'[queue'[s].FirstFragment].State # "Free"
                 /\ s # queue'[s].FirstFragment =>
                       \A h \in Slots : NextToFill(h)' => Between(h, queue'[s].FirstFragment, s)
      <4> DEFINE g == queue[s].FirstFragment
      <4>1. /\ Held(s) /\ queue'[s].FirstFragment = g /\ g \in Slots /\ ~IsFree(g)
            /\ s # g => Between(i, g, s)
            /\ \E d \in DataClients : client[d].pc \in InCall /\ client[d].first = g
        BY <1>0, <3>1, <3>2, <3>5, <3>6 DEF HeldInv
      <4>2. g # i /\ queue'[g].State # "Free"
        BY <3>1, <4>1 DEF IsFree
      <4> HIDE DEF g
      <4>3. s # g => Between(Advance(i), g, s)
        BY <3>1, <4>1, <4>2, BetweenMoves
      <4> QED
        BY <2>0, <3>4, <4>1, <4>2, <4>3
    <3> QED
      BY <3>6 DEF HeldInv, IsFree
  <2>4. CASE ~KeyFilled(k)
    <3>1. queue' = queue
      BY <1>0, <1>3, <2>4, KeyKinds
    <3>2. ASSUME NEW h \in Slots, NextToFill(h)' PROVE NextToFill(h)
      <4>1. ASSUME NEW l \in KeyClients, KeyFilled(l) PROVE FALSE
        <5>1. queue'[key[l].item] = queue[key[l].item] /\ IsFree(key[l].item)
          BY <1>0, <3>1, <4>1 DEF KeyFilled, KeyAt, EnqueueInv
        <5> QED
          BY <4>1, <5>1 DEF KeyFilled, IsFree
      <4> QED
        BY <2>1, <2>2, <3>2, <4>1, NextFilled
    <3>3. \A s \in Slots : Held(s)' => Held(s)
      BY <2>0, <3>1 DEF Held, Attached, WorkerAt
    <3>4. \A s \in Slots : Held(s) => queue'[queue[s].FirstFragment].State # "Free"
      BY <1>0, <3>1 DEF HeldInv, IsFree
    <3> QED
      BY <1>0, <2>0, <3>1, <3>2, <3>3, <3>4, HeldKept
  <2> QED
    BY <2>3, <2>4
<1>4. CASE Start \/ StartFails
  BY <1>4 DEF Start, StartFails, Reset, Created, HeldInv, Held, Attached, WorkerAt, EmptyItem
<1>5. CASE EncryptionThreadPoolStop \/ UNCHANGED vars
  <2>1. UNCHANGED <<queue, worker, client, key, EnqueuePosition>> /\ (StopPending => StopPending')
    BY <1>5 DEF EncryptionThreadPoolStop, Stop, StopSignal, StopJoined, vars, clients, keys, ring
  <2>2. \A s \in Slots : Held(s)' => Held(s)
    BY <2>1 DEF Held, Attached, WorkerAt
  <2>3. \A s \in Slots : Held(s) => queue'[queue[s].FirstFragment].State # "Free"
    BY <1>0, <2>1 DEF HeldInv, IsFree
  <2>4. \A h \in Slots : NextToFill(h)' => NextToFill(h)
    BY <2>1 DEF NextToFill
  <2> QED
    BY <1>0, <2>1, <2>2, <2>3, <2>4, HeldKept
<1> QED
  BY <1>1, <1>2, <1>3, <1>4, <1>5 DEF Next, Pool


\* The first item of a call stays the caller's.
Owned(c) ==
    \/ /\ queue[client[c].first].State # "Free" /\ queue[client[c].first].Type = "Data"
       /\ queue[client[c].first].FirstFragment = client[c].first
       /\ queue[client[c].first].Owner = c
    \/ /\ ClientAt(c, "testItem") /\ client[c].item = client[c].first
       /\ queue[client[c].first].State = "Free"

LEMMA FirstStep ==
    ASSUME PInv, [Next]_vars
    PROVE  FirstInv'
<1>0. /\ TypeInv /\ ControlInv /\ EnqueueInv /\ FirstInv /\ WorkerInv
      /\ \A c \in DataClients : client[c].item \in Slots /\ client[c].first \in Slots
  BY ItemTypes DEF PInv, TypeInv
<1>01. \A c \in DataClients : client[c].pc \in InCall \cup {"freeFirst"} => Owned(c)
  BY <1>0 DEF FirstInv, Owned
<1> SUFFICES \A c \in DataClients : client'[c].pc \in InCall \cup {"freeFirst"} => Owned(c)'
  BY DEF FirstInv, Owned
<1>1. ASSUME NEW w \in Workers, EncryptionThreadProc(w), NEW c \in DataClients,
             client'[c].pc \in InCall \cup {"freeFirst"}
      PROVE  Owned(c)'
  <2> DEFINE f == client[c].first
  <2>0. UNCHANGED client /\ Owned(c) /\ f \in Slots
    BY <1>0, <1>01, <1>1, WorkerFrame
  <2>1. CASE WorkerQuiet(w)
    BY <2>0, <2>1 DEF WorkerQuiet, Kept, Owned, ClientAt
  <2>2. CASE WorkerTake(w)
    <3>1. ~StopPending
      BY <1>0, <1>1, <2>0, Unused DEF InCall
    <3>2. f = worker[w].item => queue[f].State = "Ready"
      BY <1>0, <2>2, <3>1, TakeEffect
    <3> QED
      BY <1>0, <2>0, <2>2, <3>2, TakeEffect DEF Owned, ClientAt
  <2>3. CASE WorkerFree(w)
    <3>1. CASE queue[f].State # "Free"
      <4>1. queue[f].Type = "Data" /\ queue[f].FirstFragment = f
        BY <2>0, <3>1 DEF Owned
      <4>2. f # worker[w].item
        BY <1>0, <2>0, <2>3, <4>1, ReleasedApart
      <4> QED
        BY <1>0, <2>0, <2>3, <4>2, WorkerFreeEffect, FreeEffect DEF Owned, ClientAt
    <3>2. CASE queue[f].State = "Free"
      <4>1. queue'[f].State = "Free"
        BY <1>0, <2>0, <2>3, <3>2, WorkerFreeEffect, FreeEffect
      <4> QED
        BY <2>0, <3>2, <4>1 DEF Owned, ClientAt
    <3> QED
      BY <3>1, <3>2
  <2> QED
    BY <1>0, <1>1, <2>1, <2>2, <2>3, WorkerKinds
<1>2. ASSUME NEW c \in DataClients, EncryptionThreadPoolDoWork(c) \/ DoWorkCall(c),
             NEW d \in DataClients, client'[d].pc \in InCall \cup {"freeFirst"}
      PROVE  Owned(d)'
  <2>0. /\ \A e \in DataClients \ {c} : client'[e] = client[e]
        /\ \A k \in KeyClients : c # k
    BY <1>0, <1>2, ClientFrame, PoolAssumption DEF PoolAssumption
  <2>1. CASE d # c
    <3> DEFINE f == client[d].first
    <3>0. client'[d] = client[d] /\ Owned(d) /\ f \in Slots
      BY <1>0, <1>01, <1>2, <2>0, <2>1
    <3>1. CASE \A i \in Slots : Kept(i)
      BY <3>0, <3>1 DEF Kept, Owned, ClientAt
    <3>2. CASE DataFilled(c)
      <4>1. queue[f].State # "Free"
        <5>1. EnqueueMutex = c /\ IsFree(client[c].item)
          BY <1>0, <3>2 DEF DataFilled, EnqueueInv, ClientAt
        <5>2. ~ClientAt(d, "testItem")
          BY <1>0, <2>1, <5>1 DEF EnqueueInv, ClientAt
        <5> QED
          BY <3>0, <5>2 DEF Owned
      <4>2. f # client[c].item
        BY <3>2, <4>1 DEF DataFilled, IsFree
      <4> QED
        BY <3>0, <3>2, <4>1, <4>2 DEF Owned, DataFilled
    <3>3. CASE DoWorkFreeFirst(c)
      <4>1. client[c].first # f
        BY <1>0, <1>2, <2>1, <3>0, <3>3, FreeFirstEffect, OwnFirst DEF ClientAt
      <4> QED
        BY <1>0, <3>0, <3>3, <4>1, FreeFirstEffect, FreeEffect DEF Owned, ClientAt
    <3> QED
      BY <1>0, <1>2, <3>1, <3>2, <3>3, ClientKinds
  <2>2. CASE d = c
    <3> DEFINE f == client[c].first
    <3>1. CASE DoWorkBegin(c)
      BY <1>0, <3>1, <2>2, BeginEffect DEF Owned, Kept, IsFree, ClientAt, TypeInv, TypeOK
    <3>2. CASE DataFilled(c)
      <4>1. client'[c].first = f /\ f \in Slots /\ client[c].item \in Slots
        BY <1>0, <3>2 DEF DataFilled
      <4>2. CASE f = client[c].item
        BY <2>2, <3>2, <4>1, <4>2 DEF Owned, DataFilled
      <4>3. CASE f # client[c].item
        <5>1. queue[f].State # "Free" /\ Owned(c)
          BY <1>01, <3>2, <4>3 DEF Owned, DataFilled, ClientAt, InCall
        <5> QED
          BY <2>2, <3>2, <4>1, <4>3, <5>1 DEF Owned, DataFilled
      <4> QED
        BY <4>2, <4>3
    <3>3. CASE DoWorkSleep(c)
      <4>1. UNCHANGED queue /\ client'[c].first = f /\ client'[c].pc = "sleepItem"
            /\ ClientAt(c, "testItem") /\ ~IsFree(client[c].item)
        BY <1>0, <1>2, <2>2, <3>3, SleepEffect DEF InCall
      <4>2. Owned(c)
        BY <1>01, <4>1 DEF ClientAt, InCall
      <4> QED
        BY <2>2, <4>1, <4>2 DEF Owned, IsFree
    <3>4. CASE DoWorkWake(c)
      <4>1. UNCHANGED queue /\ client'[c].first = f /\ client[c].pc = "sleepItem"
        <5>1. ClientGoes(c, IF ClientAt(c, "sleepFirst") THEN "testFirst" ELSE "testItem")
              /\ client[c].pc \in {"sleepFirst", "sleepItem"} /\ UNCHANGED queue
          BY <3>4 DEF DoWorkWake
        <5> QED
          BY <1>0, <1>2, <2>2, <5>1, GoesEffect DEF InCall, ClientAt
      <4>2. Owned(c) /\ ~ClientAt(c, "testItem")
        BY <1>01, <4>1 DEF ClientAt, InCall
      <4> QED
        BY <2>2, <4>1, <4>2 DEF Owned
    <3>5. CASE DoWorkSignalReady(c)
      <4>1. UNCHANGED queue /\ client'[c].first = f /\ ClientAt(c, "signalReady")
        BY <1>0, <3>5, SignalReadyEffect
      <4>2. Owned(c) /\ ~ClientAt(c, "testItem")
        BY <1>01, <4>1 DEF ClientAt, InCall
      <4> QED
        BY <2>2, <4>1, <4>2 DEF Owned
    <3>6. CASE DoWorkAwait(c)
      <4>1. (\A i \in Slots : Kept(i)) /\ client'[c].first = f /\ ClientAt(c, "await")
        <5>1. ~DataFilled(c) /\ ~DoWorkFreeFirst(c)
          BY <3>6 DEF DoWorkAwait, DataFilled, DoWorkFreeFirst, ClientAt
        <5> QED
          BY <1>0, <1>2, <3>6, <5>1, ClientKinds, GoesEffect DEF DoWorkAwait
      <4>2. Owned(c) /\ ~ClientAt(c, "testItem") /\ f \in Slots
        BY <1>0, <1>01, <4>1 DEF ClientAt, InCall
      <4> QED
        BY <2>2, <4>1, <4>2 DEF Owned, Kept
    <3>7. CASE DoWorkCall(c)
      <4>1. PICK called \in {[IdleClient EXCEPT
                  !.pc = IF ~ThreadPoolRunning \/ n = 1 THEN "inline" ELSE "lock",
                  !.unitCount = n,
                  !.fragmentCount = FragmentCount(n),
                  !.unitsPerFragment = UnitsPerFragment(n),
                  !.remainder = Remainder(n)] : n \in 1 .. MaxUnits} :
                client' = [client EXCEPT ![c] = called]
        BY <3>7 DEF DoWorkCall
      <4>2. called.pc \in {"inline", "lock"}
        BY <4>1 DEF IdleClient
      <4> QED
        BY <1>0, <1>2, <2>2, <4>1, <4>2 DEF TypeInv, TypeOK, InCall
    <3>8. CASE DoWorkInline(c) \/ DoWorkLock(c) \/ DoWorkFreeFirst(c) \/ DoWorkSignalFirst(c)
               \/ DoWorkReturn(c)
      <4>1. CASE DoWorkInline(c) \/ DoWorkFreeFirst(c) \/ DoWorkSignalFirst(c)
        <5>1. PICK pc \in {"return", "signalFirst"} : ClientGoes(c, pc)
          BY <4>1 DEF DoWorkInline, DoWorkFreeFirst, DoWorkSignalFirst
        <5> QED
          BY <1>0, <1>2, <2>2, <5>1, GoesEffect DEF InCall
      <4>2. CASE DoWorkLock(c)
        <5>1. client'[c].pc = "testFirst"
          BY <1>0, <4>2 DEF DoWorkLock, TypeInv, TypeOK, DoWorkLocals
        <5> QED
          BY <1>2, <2>2, <5>1 DEF InCall
      <4>3. CASE DoWorkReturn(c)
        <5>1. client'[c].pc = "idle"
          BY <1>0, <4>3 DEF DoWorkReturn, IdleClient, TypeInv, TypeOK
        <5> QED
          BY <1>2, <2>2, <5>1 DEF InCall
      <4> QED
        BY <3>8, <4>1, <4>2, <4>3
    <3> QED
      BY <1>0, <1>2, <3>1, <3>2, <3>3, <3>4, <3>5, <3>6, <3>7, <3>8, DataFillEffect
      DEF EncryptionThreadPoolDoWork
  <2> QED
    BY <2>1, <2>2
<1>3. ASSUME NEW k \in KeyClients, EncryptionThreadPoolBeginKeyDerivation(k) \/ KeyCaller(k),
             NEW c \in DataClients, client'[c].pc \in InCall \cup {"freeFirst"}
      PROVE  Owned(c)'
  <2> DEFINE f == client[c].first
  <2>0. UNCHANGED client /\ Owned(c) /\ f \in Slots /\ c # k
    BY <1>0, <1>01, <1>3, KeyFrame, PoolAssumption DEF PoolAssumption
  <2>1. CASE queue' = queue
    BY <2>0, <2>1 DEF Owned, ClientAt
  <2>2. CASE KeyFilled(k)
    <3>1. EnqueueMutex = k /\ IsFree(key[k].item)
      BY <1>0, <2>2 DEF KeyFilled, EnqueueInv, KeyAt, FillingKey
    <3>2. queue[f].State # "Free"
      BY <1>0, <2>0, <3>1 DEF EnqueueInv, Owned, ClientAt
    <3> QED
      BY <2>0, <2>2, <3>1, <3>2 DEF KeyFilled, Owned, IsFree
  <2> QED
    BY <1>0, <1>3, <2>1, <2>2, KeyKinds
<1>4. CASE Start \/ StartFails \/ EncryptionThreadPoolStop \/ UNCHANGED vars
  <2>1. UNCHANGED client
    BY <1>4 DEF Start, StartFails, EncryptionThreadPoolStop, Stop, StopSignal, StopJoined, clients, vars
  <2>2. control = "stopped" \/ UNCHANGED queue
    BY <1>4 DEF Start, StartFails, EncryptionThreadPoolStop, Stop, StopSignal, StopJoined, vars
  <2> QED
    BY <1>0, <1>01, <2>1, <2>2, Unused DEF Owned, ClientAt, InCall
<1> QED
  BY <1>1, <1>2, <1>3, <1>4 DEF Next, Pool


-----------------------------------------------------------------------------
(* Accounting *)

\* A worker with a fragment that it has still to count off.
Counting(w) == Attached(w) /\ ~WorkerAt(w, "signalDone")

LEMMA UncountedIs ==
    \A f : Uncounted(f) = {w \in Workers : queue[worker[w].item].FirstFragment = f /\ Counting(w)}
  BY DEF Uncounted, Counting, Attached, WorkerAt

LEMMA UncountedKept ==
    ASSUME \A v \in Workers : Counting(v)' <=> Counting(v),
           \A v \in Workers : Counting(v) =>
               queue'[worker'[v].item].FirstFragment = queue[worker[v].item].FirstFragment,
           NEW f
    PROVE  Uncounted(f)' = Uncounted(f)
<1>1. Uncounted(f) = {w \in Workers : queue[worker[w].item].FirstFragment = f /\ Counting(w)}
  BY UncountedIs
<1>2. Uncounted(f)' =
        {w \in Workers : queue'[worker'[w].item].FirstFragment = f /\ Counting(w)'}
  BY DEF Uncounted, Counting, Attached, WorkerAt
<1> QED
  BY <1>1, <1>2

LEMMA WaitingKept ==
    ASSUME \A i \in Slots : Kept(i), NEW f
    PROVE  Waiting(f)' = Waiting(f)
  BY DEF Waiting, Kept

\* The item's numbers.
NumbersKept(i) ==
    /\ queue'[i].OutstandingFragmentCount = queue[i].OutstandingFragmentCount
    /\ queue'[i].ItemCompletedEvent = queue[i].ItemCompletedEvent

\* Only decrementing and taking change what is counted.
LEMMA WorkerCounting ==
    ASSUME PInv, NEW w \in Workers, EncryptionThreadProc(w), ~WorkerTake(w), ~WorkerDecrement(w)
    PROVE  /\ \A v \in Workers : Counting(v)' <=> Counting(v)
           /\ \A v \in Workers : Counting(v) => worker'[v].item = worker[v].item
           /\ \A i \in Slots : queue'[i].FirstFragment = queue[i].FirstFragment
           /\ \A f : Waiting(f)' = Waiting(f)
           /\ \A i \in Slots :
                 queue'[i].OutstandingFragmentCount = queue[i].OutstandingFragmentCount
           /\ ~WorkerSignalDone(w) => \A i \in Slots : NumbersKept(i)
<1>0. /\ TypeInv /\ ItemExclusive
      /\ \A i \in Slots : queue[i].FirstFragment \in Slots
      /\ \A i \in Slots : queue[i].Type \in {"Data", "DeriveKey"}
      /\ \A v \in Workers : worker[v].item \in Slots
      /\ worker \in [Workers -> [pc : WorkerPc, item : Slots]]
      /\ queue \in [Slots -> WorkItem]
  BY ItemTypes DEF PInv, TypeInv, TypeOK
<1>01. /\ StopPending' = StopPending
       /\ \A v \in Workers \ {w} : worker'[v] = worker[v]
  BY <1>0, WorkerFrame
<1>1. CASE WorkerFree(w)
  <2> DEFINE i == worker[w].item
  <2>1. /\ \A s \in Slots : s # i => queue'[s] = queue[s]
        /\ queue'[i].FirstFragment = queue[i].FirstFragment
        /\ queue'[i].State = "Free" /\ i \in Slots
        /\ queue'[i].OutstandingFragmentCount = queue[i].OutstandingFragmentCount
        /\ queue'[i].ItemCompletedEvent = queue[i].ItemCompletedEvent
    BY <1>0, <1>1, WorkerFreeEffect, FreeEffect
  <2>2. Processing(w) /\ queue[i].State = "Busy"
    BY <1>0, <1>1 DEF WorkerFree, Processing, ItemExclusive
  <2>3. ASSUME NEW v \in Workers \ {w} PROVE Counting(v)' <=> Counting(v)
    <3>1. CASE worker[v].item # i
      BY <1>0, <1>01, <2>1, <3>1 DEF Counting, Attached, WorkerAt
    <3>2. CASE worker[v].item = i
      <4>1. ~Processing(v)
        BY <1>0, <2>2, <3>2 DEF ItemExclusive
      <4>2. ~(WorkerAt(v, "stopCheck") /\ ~StopPending)
        BY <4>1 DEF Processing
      <4> QED
        BY <1>01, <4>2 DEF Counting, Attached, WorkerAt
    <3> QED
      BY <3>1, <3>2
  <2>4. Counting(w)' <=> Counting(w)
    BY <1>0, <1>1, WorkerFreeEffect DEF Counting, Attached, WorkerAt
  <2>5. worker'[w].item = i
    BY <1>0, <1>1, WorkerFreeEffect
  <2>6. \A f : Waiting(f)' = Waiting(f)
    <3>1. \A s \in Slots : (queue'[s].State = "Ready" /\ queue'[s].Type = "Data") <=>
                           (queue[s].State = "Ready" /\ queue[s].Type = "Data")
      BY <2>1, <2>2
    <3>2. \A s \in Slots : queue'[s].FirstFragment = queue[s].FirstFragment
      BY <2>1
    <3> QED
      BY <3>1, <3>2 DEF Waiting
  <2> QED
    BY <1>01, <2>1, <2>3, <2>4, <2>5, <2>6 DEF NumbersKept
<1>2. CASE WorkerQuiet(w)
  <2>1. \A i \in Slots : Kept(i)
    BY <1>2 DEF WorkerQuiet
  <2>2. Counting(w)' <=> Counting(w)
    <3> USE <1>0 DEF WorkerGoes, WorkerAt, Counting, Attached
    <3>1. CASE WorkerStopCheck(w)
      BY <1>01, <2>1, <3>1 DEF WorkerStopCheck, Kept
    <3>2. CASE WorkerTransform(w)
      BY <3>2 DEF WorkerTransform
    <3>3. CASE WorkerDerive(w) \/ WorkerSignalKey(w) \/ WorkerDecrementKey(w)
               \/ WorkerSignalNoOutstanding(w)
      BY <3>3 DEF WorkerDerive, WorkerSignalKey, WorkerDecrementKey, WorkerSignalNoOutstanding
    <3>4. CASE WorkerLoop(w) \/ WorkerAcquire(w) \/ WorkerSleep(w) \/ WorkerWake(w)
      BY <3>4 DEF WorkerLoop, WorkerAcquire, WorkerSleep, WorkerWake
    <3>5. CASE WorkerSignalFree(w) \/ WorkerSignalDone(w)
      BY <3>5 DEF WorkerSignalFree, WorkerSignalDone
    <3> QED
      BY <1>1, <3>1, <3>2, <3>3, <3>4, <3>5, <1>2, WorkerFreeEffect
      DEF EncryptionThreadProc, WorkerQuiet, Detached, Processing
  <2>3. \A v \in Workers \ {w} : Counting(v)' <=> Counting(v)
    BY <1>0, <1>01, <2>1 DEF Counting, Attached, WorkerAt, Kept
  <2>4. Counting(w) => worker'[w].item = worker[w].item
    BY <1>2, <2>2 DEF WorkerQuiet, Counting, Detached
  <2>5. \A i \in Slots : queue'[i].OutstandingFragmentCount = queue[i].OutstandingFragmentCount
    <3>1. CASE WorkerSignalDone(w)
      BY <1>0, <3>1 DEF WorkerSignalDone, WorkItem
    <3>2. CASE WorkerFree(w)
      BY <1>0, <3>2, WorkerFreeEffect, FreeEffect
    <3>3. CASE queue' = queue
      BY <3>3
    <3> QED
      BY <3>1, <3>2, <3>3 DEF EncryptionThreadProc, WorkerLoop, WorkerAcquire, WorkerSleep,
         WorkerWake, WorkerStopCheck, WorkerTransform, WorkerSignalFree, WorkerDerive,
         WorkerSignalKey, WorkerDecrementKey, WorkerSignalNoOutstanding
  <2>6. ~WorkerSignalDone(w) /\ ~WorkerFree(w) => queue' = queue
    BY DEF EncryptionThreadProc, WorkerLoop, WorkerAcquire, WorkerSleep,
         WorkerWake, WorkerStopCheck, WorkerTransform, WorkerSignalFree, WorkerDerive,
         WorkerSignalKey, WorkerDecrementKey, WorkerSignalNoOutstanding
  <2>7. ~WorkerSignalDone(w) => \A i \in Slots : NumbersKept(i)
    BY <1>1, <2>6 DEF NumbersKept
  <2> QED
    BY <1>01, <2>1, <2>2, <2>3, <2>4, <2>5, <2>7, WaitingKept DEF Kept
<1> QED
  BY <1>0, <1>1, <1>2, WorkerKinds

\* A worker that takes a fragment has it instead of the queue.
LEMMA TakeCounting ==
    ASSUME PInv, NEW w \in Workers, WorkerTake(w), ~StopPending, NEW f
    PROVE  /\ \A i \in Slots : NumbersKept(i)
           /\ \/ Waiting(f)' = Waiting(f) /\ Uncounted(f)' = Uncounted(f)
              \/ /\ Waiting(f)' = Waiting(f) \ {worker[w].item} /\ worker[w].item \in Waiting(f)
                 /\ Uncounted(f)' = Uncounted(f) \cup {w} /\ w \notin Uncounted(f)
<1> DEFINE i == worker[w].item
<1>0. /\ TypeInv /\ i \in Slots
      /\ \A v \in Workers : worker[v].item \in Slots
  BY ItemTypes DEF PInv, TypeInv
<1>1. /\ WorkerAt(w, "test") /\ queue[i].State = "Ready" /\ queue'[i].State = "Busy"
      /\ \A s \in Slots : /\ s # i => queue'[s] = queue[s]
                          /\ queue'[s].Type = queue[s].Type
                          /\ queue'[s].FirstFragment = queue[s].FirstFragment
                          /\ queue'[s].OutstandingFragmentCount = queue[s].OutstandingFragmentCount
                          /\ queue'[s].ItemCompletedEvent = queue[s].ItemCompletedEvent
      /\ worker'[w].pc = "stopCheck" /\ worker'[w].item = i
  BY <1>0, TakeEffect
<1>2. StopPending' = StopPending /\ \A v \in Workers \ {w} : worker'[v] = worker[v]
  BY <1>0, WorkerFrame DEF EncryptionThreadProc
<1>3. \A v \in Workers \ {w} : Counting(v)' <=> Counting(v)
  BY <1>0, <1>1, <1>2 DEF Counting, Attached, WorkerAt
<1>4. ~Counting(w) /\ (Counting(w)' <=> queue[i].Type = "Data")
  BY <1>0, <1>1, <1>2 DEF Counting, Attached, WorkerAt
<1>5. Uncounted(f)' = {v \in Workers : queue'[worker'[v].item].FirstFragment = f /\ Counting(v)'}
  BY DEF Uncounted, Counting, Attached, WorkerAt
<1>6. Uncounted(f) = {v \in Workers : queue[worker[v].item].FirstFragment = f /\ Counting(v)}
  BY UncountedIs
<1>7. CASE queue[i].Type = "Data" /\ queue[i].FirstFragment = f
  <2>1. Uncounted(f)' = Uncounted(f) \cup {w} /\ w \notin Uncounted(f)
    BY <1>0, <1>1, <1>2, <1>3, <1>4, <1>5, <1>6, <1>7
  <2>2. Waiting(f)' = Waiting(f) \ {i} /\ i \in Waiting(f)
    BY <1>0, <1>1, <1>7 DEF Waiting
  <2> QED
    BY <1>1, <2>1, <2>2 DEF NumbersKept
<1>8. CASE ~(queue[i].Type = "Data" /\ queue[i].FirstFragment = f)
  <2>1. Uncounted(f)' = Uncounted(f)
    BY <1>0, <1>1, <1>2, <1>3, <1>4, <1>5, <1>6, <1>8
  <2>2. Waiting(f)' = Waiting(f)
    BY <1>0, <1>1, <1>8 DEF Waiting
  <2> QED
    BY <1>1, <2>1, <2>2 DEF NumbersKept
<1> QED
  BY <1>7, <1>8

\* A worker counts its fragment off.
LEMMA DecrementCounting ==
    ASSUME PInv, NEW w \in Workers, WorkerDecrement(w), NEW first,
           first = queue[worker[w].item].FirstFragment
    PROVE  /\ \A f : Waiting(f)' = Waiting(f)
           /\ \A f : f # first => Uncounted(f)' = Uncounted(f)
           /\ Uncounted(first)' = Uncounted(first) \ {w} /\ w \in Uncounted(first)
           /\ \A i \in Slots : Kept(i) /\ queue'[i].ItemCompletedEvent = queue[i].ItemCompletedEvent
           /\ \A i \in Slots : i # first => queue'[i] = queue[i]
           /\ queue'[first].OutstandingFragmentCount = queue[first].OutstandingFragmentCount - 1
           /\ \/ worker'[w].pc = "signalDone" /\ queue[first].OutstandingFragmentCount = 1
                 /\ worker'[w].item = worker[w].item
              \/ worker'[w].pc = "loop" /\ queue[first].OutstandingFragmentCount # 1
           /\ first \in Slots
<1>0. /\ TypeInv /\ first \in Slots
      /\ \A v \in Workers : worker[v].item \in Slots
      /\ queue \in [Slots -> WorkItem] /\ worker \in [Workers -> [pc : WorkerPc, item : Slots]]
      /\ queue[first].OutstandingFragmentCount \in Int
  BY ItemTypes DEF PInv, TypeInv, TypeOK
<1>1. queue' = [queue EXCEPT ![first].OutstandingFragmentCount =
                                 queue[first].OutstandingFragmentCount - 1]
      /\ WorkerAt(w, "decrement")
      /\ WorkerGoes(w, IF queue[first].OutstandingFragmentCount - 1 = 0 THEN "signalDone" ELSE "loop")
  BY DEF WorkerDecrement
<1>2. /\ \A i \in Slots : Kept(i) /\ queue'[i].ItemCompletedEvent = queue[i].ItemCompletedEvent
      /\ \A i \in Slots : i # first => queue'[i] = queue[i]
      /\ queue'[first].OutstandingFragmentCount = queue[first].OutstandingFragmentCount - 1
  <2>1. queue[first] \in WorkItem
    BY <1>0
  <2>2. /\ queue'[first].OutstandingFragmentCount = queue[first].OutstandingFragmentCount - 1
        /\ Kept(first) /\ queue'[first].ItemCompletedEvent = queue[first].ItemCompletedEvent
    BY <1>0, <1>1, <2>1 DEF Kept, WorkItem
  <2>3. \A i \in Slots : i # first => queue'[i] = queue[i]
    BY <1>0, <1>1
  <2> QED
    BY <2>2, <2>3 DEF Kept
<1>3. \/ worker'[w].pc = "signalDone" /\ queue[first].OutstandingFragmentCount = 1
         /\ worker'[w].item = worker[w].item
      \/ worker'[w].pc = "loop" /\ queue[first].OutstandingFragmentCount # 1
  <2>1. CASE queue[first].OutstandingFragmentCount = 1
    <3>1. WorkerGoes(w, "signalDone")
      BY <1>0, <1>1, <2>1
    <3> QED
      BY <1>0, <2>1, <3>1 DEF WorkerGoes
  <2>2. CASE queue[first].OutstandingFragmentCount # 1
    <3>1. WorkerGoes(w, "loop")
      BY <1>0, <1>1, <2>2
    <3> QED
      BY <1>0, <2>2, <3>1 DEF WorkerGoes
  <2> QED
    BY <2>1, <2>2
<1>4. StopPending' = StopPending /\ \A v \in Workers \ {w} : worker'[v] = worker[v]
  BY <1>0, WorkerFrame DEF EncryptionThreadProc
<1>5. \A v \in Workers \ {w} : Counting(v)' <=> Counting(v)
  BY <1>0, <1>2, <1>4 DEF Counting, Attached, WorkerAt, Kept
<1>6. Counting(w) /\ ~Counting(w)'
  BY <1>1, <1>3 DEF Counting, Attached, WorkerAt
<1>7. \A f : Uncounted(f)' = {v \in Workers : queue'[worker'[v].item].FirstFragment = f /\ Counting(v)'}
  BY DEF Uncounted, Counting, Attached, WorkerAt
<1>8. \A f : Uncounted(f) = {v \in Workers : queue[worker[v].item].FirstFragment = f /\ Counting(v)}
  BY UncountedIs
<1>9. \A v \in Workers \ {w} :
         queue'[worker'[v].item].FirstFragment = queue[worker[v].item].FirstFragment
  BY <1>0, <1>2, <1>4 DEF Kept
<1>10. Uncounted(first)' = Uncounted(first) \ {w} /\ w \in Uncounted(first)
  BY <1>5, <1>6, <1>7, <1>8, <1>9
<1>11. ASSUME NEW f, f # first PROVE Uncounted(f)' = Uncounted(f)
  BY <1>5, <1>6, <1>7, <1>8, <1>9, <1>11
<1> QED
  BY <1>0, <1>2, <1>3, <1>10, <1>11, WaitingKept

\* Two calls have different first items.
LEMMA FirstsDiffer ==
    ASSUME EnqueueInv, FirstInv, NEW c \in DataClients, NEW d \in DataClients,
           client[c].pc \in InCall \cup {"freeFirst"}, client[d].pc \in InCall \cup {"freeFirst"},
           client[c].first = client[d].first
    PROVE  c = d
  BY OwnFirst DEF FirstInv, EnqueueInv, IsFree, ClientAt

\* The item that a caller is about to fill is the next one.
LEMMA FillingNext ==
    ASSUME TypeInv, HeldInv, ItemExclusive
    PROVE  /\ \A c \in DataClients : ClientAt(c, "testItem") /\ IsFree(client[c].item) =>
                 ~Held(client[c].item)
           /\ \A k \in KeyClients : KeyAt(k, "fill") /\ IsFree(key[k].item) =>
                 ~Held(key[k].item)
<1>1. ASSUME NEW c \in DataClients, ClientAt(c, "testItem"), IsFree(client[c].item)
      PROVE  ~Held(client[c].item)
  <2>1. client[c].item \in Slots /\ NextToFill(client[c].item)
    BY <1>1, ItemTypes DEF TypeInv, NextToFill, FillingItem, ClientAt
  <2> QED
    BY <1>1, <2>1, FilledNotHeld
<1>2. ASSUME NEW k \in KeyClients, KeyAt(k, "fill"), IsFree(key[k].item)
      PROVE  ~Held(key[k].item)
  <2>1. key[k].item \in Slots /\ NextToFill(key[k].item)
    BY <1>2, ItemTypes DEF TypeInv, NextToFill, FillingKey, KeyAt
  <2> QED
    BY <1>2, <2>1, FilledNotHeld
<1> QED
  BY <1>1, <1>2

\* The first item of a call that has been signalled is not held.
LEMMA FinishedNotHeld ==
    ASSUME PInv, NEW c \in DataClients, DoWorkFreeFirst(c)
    PROVE  ~Held(client[c].first)
<1>0. TypeInv /\ EnqueueInv /\ FirstInv /\ HeldInv
  BY DEF PInv
<1> SUFFICES ASSUME Held(client[c].first) PROVE FALSE
  OBVIOUS
<1>1. /\ client[c].first \in Slots /\ ClientAt(c, "freeFirst")
      /\ queue[client[c].first].FirstFragment = client[c].first
  BY <1>0, FreeFirstEffect
<1>2. PICK d \in DataClients : client[d].pc \in InCall /\ client[d].first = client[c].first
  BY <1>0, <1>1 DEF HeldInv
<1>3. d = c
  BY <1>0, <1>1, <1>2, FirstsDiffer DEF ClientAt
<1> QED
  BY <1>1, <1>2, <1>3 DEF ClientAt, InCall

\* What is counted of a fragment is its item's, while the item is held.
LEMMA CountingHeld ==
    ASSUME NEW w \in Workers, Counting(w)
    PROVE  Held(worker[w].item)
  BY DEF Counting, Held

\* A caller's step counts nothing off, and adds the fragment it fills.
LEMMA ClientCounting ==
    ASSUME PInv, NEW c \in DataClients, EncryptionThreadPoolDoWork(c) \/ DoWorkCall(c), NEW f
    PROVE  /\ Uncounted(f)' = Uncounted(f)
           /\ IF DataFilled(c) /\ f = client[c].first
              THEN Waiting(f)' = Waiting(f) \cup {client[c].item} /\ client[c].item \notin Waiting(f)
              ELSE Waiting(f)' = Waiting(f)
<1>0. /\ TypeInv /\ FirstInv /\ HeldInv /\ ItemExclusive
      /\ \A v \in Workers : worker[v].item \in Slots
      /\ client[c].item \in Slots /\ client[c].first \in Slots
      /\ worker' = worker /\ StopPending' = StopPending
  BY ClientFrame, ItemTypes DEF PInv, TypeInv
<1>1. CASE \A i \in Slots : Kept(i)
  <2>1. \A v \in Workers : Counting(v)' <=> Counting(v)
    BY <1>0, <1>1 DEF Counting, Attached, WorkerAt, Kept
  <2>2. \A v \in Workers :
           queue'[worker'[v].item].FirstFragment = queue[worker[v].item].FirstFragment
    BY <1>0, <1>1 DEF Kept
  <2>3. ~DataFilled(c)
    BY <1>0, <1>1 DEF Kept, DataFilled, IsFree
  <2> QED
    BY <1>1, <2>1, <2>2, <2>3, UncountedKept, WaitingKept
<1>2. CASE DataFilled(c)
  <2> DEFINE s == client[c].item
  <2>1. ~Held(s) /\ queue[s].State = "Free"
    BY <1>0, <1>2, FillingNext DEF DataFilled, IsFree
  <2>2. ASSUME NEW v \in Workers PROVE Counting(v)' <=> Counting(v)
    <3>1. CASE worker[v].item # s
      BY <1>0, <1>2, <3>1 DEF DataFilled, Counting, Attached, WorkerAt
    <3>2. CASE worker[v].item = s
      <4>1. ~Attached(v) /\ ~Processing(v)
        BY <1>0, <2>1, <3>2 DEF Held, ItemExclusive
      <4> QED
        BY <1>0, <4>1 DEF Counting, Attached, Processing, WorkerAt
    <3> QED
      BY <3>1, <3>2
  <2>3. ASSUME NEW v \in Workers, Counting(v)
        PROVE  queue'[worker'[v].item].FirstFragment = queue[worker[v].item].FirstFragment
    BY <1>0, <1>2, <2>1, <2>3, CountingHeld DEF DataFilled
  <2>4. Uncounted(f)' = Uncounted(f)
    BY <2>2, <2>3, UncountedKept
  <2>5. s \notin Waiting(f)
    BY <2>1 DEF Waiting
  <2>6. CASE f = client[c].first
    BY <1>0, <1>2, <2>4, <2>5, <2>6 DEF Waiting, DataFilled
  <2>7. CASE f # client[c].first
    <3>1. Waiting(f)' = Waiting(f)
      BY <1>0, <1>2, <2>1, <2>7 DEF Waiting, DataFilled
    <3> QED
      BY <2>4, <2>7, <3>1
  <2> QED
    BY <2>6, <2>7
<1>3. CASE DoWorkFreeFirst(c)
  <2> DEFINE s == client[c].first
  <2>1. ~Held(s)
    BY <1>3, FinishedNotHeld
  <2>2. /\ \A i \in Slots \ {s} : queue'[i] = queue[i]
        /\ queue'[s].State = "Free" /\ queue'[s].Type = "Data" /\ queue[s].Type = "Data"
        /\ queue'[s].FirstFragment = queue[s].FirstFragment
    BY <1>0, <1>3, FreeFirstEffect, FreeEffect
  <2>3. \A v \in Workers : Counting(v)' <=> Counting(v)
    BY <1>0, <2>2 DEF Counting, Attached, WorkerAt
  <2>4. \A v \in Workers :
           queue'[worker'[v].item].FirstFragment = queue[worker[v].item].FirstFragment
    BY <1>0, <2>2
  <2>5. Uncounted(f)' = Uncounted(f)
    BY <2>3, <2>4, UncountedKept
  <2>6. queue[s].State # "Ready"
    BY <2>1, <2>2 DEF Held
  <2>7. Waiting(f)' = Waiting(f)
    BY <2>2, <2>6 DEF Waiting
  <2>8. ~DataFilled(c)
    BY <1>3 DEF DoWorkFreeFirst, DataFilled, ClientAt
  <2> QED
    BY <2>5, <2>7, <2>8
<1> QED
  BY <1>0, <1>1, <1>2, <1>3, ClientKinds

\* A key client's step changes nothing of it.
LEMMA KeyClientCounting ==
    ASSUME PInv, NEW k \in KeyClients,
           EncryptionThreadPoolBeginKeyDerivation(k) \/ KeyCaller(k)
    PROVE  /\ \A f : Uncounted(f)' = Uncounted(f) /\ Waiting(f)' = Waiting(f)
           /\ \A i \in Slots : NumbersKept(i)
<1>0. /\ TypeInv /\ EnqueueInv /\ HeldInv /\ ItemExclusive
      /\ \A v \in Workers : worker[v].item \in Slots
      /\ key[k].item \in Slots
      /\ worker' = worker /\ StopPending' = StopPending
  BY KeyFrame, ItemTypes DEF PInv, TypeInv
<1>1. CASE queue' = queue
  <2>1. \A v \in Workers : Counting(v)' <=> Counting(v)
    BY <1>0, <1>1 DEF Counting, Attached, WorkerAt
  <2>2. \A v \in Workers :
           queue'[worker'[v].item].FirstFragment = queue[worker[v].item].FirstFragment
    BY <1>0, <1>1
  <2> QED
    BY <1>1, <2>1, <2>2, UncountedKept, WaitingKept DEF Kept, NumbersKept
<1>2. CASE KeyFilled(k)
  <2> DEFINE s == key[k].item
  <2>1. ~Held(s) /\ queue[s].State = "Free"
    BY <1>0, <1>2, FillingNext DEF KeyFilled, EnqueueInv, KeyAt, IsFree
  <2>2. ASSUME NEW v \in Workers PROVE Counting(v)' <=> Counting(v)
    <3>1. CASE worker[v].item # s
      BY <1>0, <1>2, <3>1 DEF KeyFilled, Counting, Attached, WorkerAt
    <3>2. CASE worker[v].item = s
      <4>1. ~Attached(v) /\ ~Processing(v)
        BY <1>0, <2>1, <3>2 DEF Held, ItemExclusive
      <4> QED
        BY <1>0, <4>1 DEF Counting, Attached, Processing, WorkerAt
    <3> QED
      BY <3>1, <3>2
  <2>3. \A v \in Workers :
           queue'[worker'[v].item].FirstFragment = queue[worker[v].item].FirstFragment
    BY <1>0, <1>2 DEF KeyFilled
  <2>4. \A f : Uncounted(f)' = Uncounted(f)
    BY <2>2, <2>3, UncountedKept
  <2>5. \A f : Waiting(f)' = Waiting(f)
    BY <1>0, <1>2, <2>1 DEF Waiting, KeyFilled
  <2> QED
    BY <1>0, <1>2, <2>4, <2>5 DEF KeyFilled, NumbersKept
<1> QED
  BY <1>0, <1>1, <1>2, KeyKinds

\* One element less.
LEMMA OneLess ==
    ASSUME NEW S, NEW T, NEW x, IsFiniteSet(S), x \in S, T = S \ {x}
    PROVE  Cardinality(T) = Cardinality(S) - 1
  BY FS_RemoveElement

\* What is left of a call is filled one fragment at a time.
LEMMA UnfilledStep ==
    ASSUME TypeInv, EnqueueInv, LeftInv, NEW c \in DataClients,
           EncryptionThreadPoolDoWork(c) \/ DoWorkCall(c), client'[c].pc \in InCall
    PROVE  \/ DoWorkBegin(c)
           \/ /\ client[c].pc \in InCall /\ client'[c].first = client[c].first
              /\ Unfilled(c)' = IF DataFilled(c) THEN Unfilled(c) - 1 ELSE Unfilled(c)
              /\ \A i \in Slots :
                    queue'[i].OutstandingFragmentCount = queue[i].OutstandingFragmentCount
<1>0. client[c].fragmentCount \in Int /\ client[c].item \in Slots
  BY ItemTypes DEF TypeInv
<1>1. CASE DoWorkFill(c)
  <2>1. DataFilled(c)
    BY <1>1, DataFillEffect
  <2> QED
    BY <1>0, <2>1 DEF DataFilled, Unfilled, ClientAt, InCall
<1>2. CASE DoWorkSleep(c)
  <2>1. /\ UNCHANGED queue /\ client'[c].first = client[c].first /\ client'[c].pc = "sleepItem"
        /\ ClientAt(c, "testItem") /\ client'[c].fragmentCount = client[c].fragmentCount
    BY <1>2, SleepEffect DEF InCall
  <2> QED
    BY <1>0, <2>1 DEF DataFilled, Unfilled, ClientAt, InCall
<1>3. CASE DoWorkWake(c)
  <2>1. ClientGoes(c, IF ClientAt(c, "sleepFirst") THEN "testFirst" ELSE "testItem")
        /\ client[c].pc \in {"sleepFirst", "sleepItem"} /\ UNCHANGED queue
    BY <1>3 DEF DoWorkWake
  <2>2. /\ client'[c].first = client[c].first /\ client'[c].pc = "testItem"
        /\ ClientAt(c, "sleepItem") /\ client'[c].fragmentCount = client[c].fragmentCount
    BY <2>1, GoesEffect DEF InCall, ClientAt
  <2> QED
    BY <1>0, <2>1, <2>2 DEF DataFilled, Unfilled, ClientAt, InCall
<1>4. CASE DoWorkSignalReady(c)
  <2>1. ~DataFilled(c) /\ ClientAt(c, "signalReady")
    BY <1>4 DEF DataFilled, DoWorkSignalReady, ClientAt
  <2> QED
    BY <1>0, <1>4, <2>1, SignalReadyEffect DEF Unfilled, ClientAt, InCall
<1>5. CASE DoWorkAwait(c) \/ DoWorkInline(c) \/ DoWorkFreeFirst(c) \/ DoWorkSignalFirst(c)
  <2>1. PICK pc \in {"return", "signalFirst", "freeFirst"} : ClientGoes(c, pc)
    BY <1>5 DEF DoWorkAwait, DoWorkInline, DoWorkFreeFirst, DoWorkSignalFirst
  <2> QED
    BY <2>1, GoesEffect DEF InCall
<1>6. CASE DoWorkCall(c)
  <2>1. PICK called \in {[IdleClient EXCEPT
                  !.pc = IF ~ThreadPoolRunning \/ n = 1 THEN "inline" ELSE "lock",
                  !.unitCount = n,
                  !.fragmentCount = FragmentCount(n),
                  !.unitsPerFragment = UnitsPerFragment(n),
                  !.remainder = Remainder(n)] : n \in 1 .. MaxUnits} :
                client' = [client EXCEPT ![c] = called]
    BY <1>6 DEF DoWorkCall
  <2>2. called.pc \in {"inline", "lock"}
    BY <2>1 DEF IdleClient
  <2> QED
    BY <2>1, <2>2 DEF TypeInv, TypeOK, InCall
<1>7. CASE DoWorkLock(c)
  <2>1. client'[c].pc = "testFirst"
    BY <1>7 DEF DoWorkLock, TypeInv, TypeOK, DoWorkLocals
  <2> QED
    BY <2>1 DEF InCall
<1>8. CASE DoWorkReturn(c)
  <2>1. client'[c].pc = "idle"
    BY <1>8 DEF DoWorkReturn, IdleClient, TypeInv, TypeOK
  <2> QED
    BY <2>1 DEF InCall
<1> QED
  BY <1>1, <1>2, <1>3, <1>4, <1>5, <1>6, <1>7, <1>8 DEF EncryptionThreadPoolDoWork

\* The count in the first item of a call whose first item is f.
CountIs(c, f) ==
    queue[f].OutstandingFragmentCount =
        Unfilled(c) + Cardinality(Waiting(f)) + Cardinality(Uncounted(f))

LEMMA FragmentStep ==
    ASSUME PInv, [Next]_vars
    PROVE  FragmentAccounting'
<1>0. /\ TypeInv /\ ControlInv /\ EnqueueInv /\ LeftInv /\ HeldInv /\ FirstInv
      /\ \A c \in DataClients : client[c].pc \in InCall => CountIs(c, client[c].first)
      /\ \A c \in DataClients : client[c].first \in Slots /\ client[c].fragmentCount \in Int
  BY ItemTypes DEF PInv, PoolAccounting, FragmentAccounting, CountIs, InCall, TypeInv
<1>01. ASSUME NEW c \in DataClients PROVE Unfilled(c) \in Int
  BY <1>0 DEF Unfilled
<1>02. \A f : /\ IsFiniteSet(Waiting(f)) /\ Cardinality(Waiting(f)) \in Nat
              /\ IsFiniteSet(Uncounted(f)) /\ Cardinality(Uncounted(f)) \in Nat
  BY Counted
<1> SUFFICES ASSUME NEW c \in DataClients, client'[c].pc \in InCall, NEW f, f = client'[c].first
             PROVE  CountIs(c, f)'
  BY DEF FragmentAccounting, CountIs, InCall, Waiting, Uncounted
<1>1. ASSUME client'[c] = client[c], queue'[f].OutstandingFragmentCount = queue[f].OutstandingFragmentCount,
             Waiting(f)' = Waiting(f), Uncounted(f)' = Uncounted(f)
      PROVE  CountIs(c, f)'
  <2>1. Unfilled(c)' = Unfilled(c) /\ CountIs(c, f)
    BY <1>0, <1>1 DEF Unfilled
  <2> QED
    BY <1>1, <2>1 DEF CountIs
<1>2. ASSUME NEW w \in Workers, EncryptionThreadProc(w) PROVE CountIs(c, f)'
  <2>0. /\ client'[c] = client[c] /\ f = client[c].first /\ f \in Slots /\ CountIs(c, f)
        /\ Unfilled(c)' = Unfilled(c) /\ queue[f].OutstandingFragmentCount \in Int
    BY <1>0, <1>2, WorkerFrame, ItemTypes DEF Unfilled, TypeInv
  <2>01. ~StopPending
    BY <1>0, <2>0, Unused DEF InCall
  <2>1. CASE WorkerTake(w)
    <3>1. NumbersKept(f)
      BY <2>0, <2>01, <2>1, TakeCounting
    <3>2. CASE Waiting(f)' = Waiting(f) /\ Uncounted(f)' = Uncounted(f)
      BY <1>1, <2>0, <3>1, <3>2 DEF NumbersKept
    <3>3. CASE /\ Waiting(f)' = Waiting(f) \ {worker[w].item} /\ worker[w].item \in Waiting(f)
               /\ Uncounted(f)' = Uncounted(f) \cup {w} /\ w \notin Uncounted(f)
      <4>1. Cardinality(Waiting(f)') = Cardinality(Waiting(f)) - 1
        BY <1>02, <3>3, OneLess
      <4>2. Cardinality(Uncounted(f)') = Cardinality(Uncounted(f)) + 1
        BY <1>02, <3>3, FS_AddElement
      <4> QED
        BY <1>01, <1>02, <2>0, <3>1, <4>1, <4>2 DEF CountIs, NumbersKept
    <3> QED
      BY <2>01, <2>1, <3>2, <3>3, TakeCounting
  <2>2. CASE WorkerDecrement(w)
    <3>1. PICK first : first = queue[worker[w].item].FirstFragment
      OBVIOUS
    <3>2. CASE f = first
      <4>1. /\ Waiting(f)' = Waiting(f)
            /\ Uncounted(f)' = Uncounted(f) \ {w} /\ w \in Uncounted(f)
            /\ queue'[f].OutstandingFragmentCount = queue[f].OutstandingFragmentCount - 1
        BY <2>2, <3>1, <3>2, DecrementCounting
      <4>2. Cardinality(Uncounted(f)') = Cardinality(Uncounted(f)) - 1
        BY <1>02, <4>1, OneLess
      <4> QED
        BY <1>01, <1>02, <2>0, <4>1, <4>2 DEF CountIs
    <3>3. CASE f # first
      <4>1. Waiting(f)' = Waiting(f) /\ Uncounted(f)' = Uncounted(f) /\ queue'[f] = queue[f]
        BY <2>0, <2>2, <3>1, <3>3, DecrementCounting
      <4> QED
        BY <1>1, <2>0, <4>1
    <3> QED
      BY <3>2, <3>3
  <2>3. CASE ~WorkerTake(w) /\ ~WorkerDecrement(w)
    <3>1. /\ \A v \in Workers : Counting(v)' <=> Counting(v)
          /\ \A v \in Workers : Counting(v) => worker'[v].item = worker[v].item
          /\ \A i \in Slots : queue'[i].FirstFragment = queue[i].FirstFragment
          /\ Waiting(f)' = Waiting(f)
          /\ queue'[f].OutstandingFragmentCount = queue[f].OutstandingFragmentCount
      BY <1>2, <2>0, <2>3, WorkerCounting
    <3>2. \A v \in Workers : worker[v].item \in Slots
      BY <1>0, ItemTypes DEF TypeInv
    <3>3. Uncounted(f)' = Uncounted(f)
      BY <3>1, <3>2, UncountedKept
    <3> QED
      BY <1>1, <2>0, <3>1, <3>3
  <2> QED
    BY <2>1, <2>2, <2>3
<1>3. ASSUME NEW d \in DataClients, EncryptionThreadPoolDoWork(d) \/ DoWorkCall(d)
      PROVE  CountIs(c, f)'
  <2>0. Uncounted(f)' = Uncounted(f)
        /\ IF DataFilled(d) /\ f = client[d].first
           THEN Waiting(f)' = Waiting(f) \cup {client[d].item} /\ client[d].item \notin Waiting(f)
           ELSE Waiting(f)' = Waiting(f)
    BY <1>3, ClientCounting
  <2>1. CASE d # c
    <3>1. client'[c] = client[c] /\ f = client[c].first /\ client[c].pc \in InCall /\ f \in Slots
      BY <1>0, <1>3, <2>1, ClientFrame
    <3>2. ~(DataFilled(d) /\ f = client[d].first)
      BY <1>0, <2>1, <3>1, FirstsDiffer DEF DataFilled, ClientAt, InCall
    <3>3. queue'[f].OutstandingFragmentCount = queue[f].OutstandingFragmentCount
      <4>1. CASE DoWorkBegin(d)
        <5>1. f # EnqueuePosition
          BY <1>0, <2>1, <3>1, <4>1, BeginEffect DEF FirstInv, EnqueueInv, IsFree, ClientAt
        <5> QED
          BY <1>0, <3>1, <4>1, <5>1, BeginEffect
      <4>2. CASE DoWorkFill(d)
        BY <1>0, <3>1, <4>2, DataFillEffect, ItemTypes DEF DataFilled
      <4>3. CASE DoWorkFreeFirst(d)
        BY <1>0, <3>1, <4>3, FreeFirstEffect, FreeEffect
      <4>4. CASE DoWorkAwait(d)
        BY <1>0, <3>1, <4>4 DEF DoWorkAwait, TypeInv, TypeOK, WorkItem
      <4>5. CASE queue' = queue
        BY <4>5
      <4> QED
        BY <1>3, <4>1, <4>2, <4>3, <4>4, <4>5 DEF EncryptionThreadPoolDoWork, DoWorkCall,
           DoWorkInline, DoWorkLock, DoWorkSleep, DoWorkWake, DoWorkSignalReady,
           DoWorkSignalFirst, DoWorkReturn
    <3> QED
      BY <1>1, <2>0, <3>1, <3>2, <3>3
  <2>2. CASE d = c /\ DoWorkBegin(c)
    <3>1. /\ f = EnqueuePosition /\ IsFree(f) /\ client'[c].pc = "testItem" /\ ClientAt(c, "testFirst")
          /\ client'[c].fragmentCount = client[c].fragmentCount - 1
          /\ queue'[f].OutstandingFragmentCount = client[c].fragmentCount
      BY <1>0, <2>2, BeginEffect
    <3>2. Unfilled(c)' = client[c].fragmentCount
      BY <1>0, <3>1 DEF Unfilled
    <3>3. \A s \in Slots : Held(s) => queue[s].FirstFragment # f
      BY <1>0, <3>1 DEF HeldInv
    <3>4. Waiting(f) = {}
      BY <3>3 DEF Waiting, Held
    <3>5. Uncounted(f) = {}
      <4>1. \A w \in Workers : worker[w].item \in Slots
        BY <1>0, ItemTypes DEF TypeInv
      <4> QED
        BY <3>3, <4>1, UncountedIs, CountingHeld
    <3>6. ~DataFilled(c)
      BY <3>1 DEF DataFilled, ClientAt
    <3>7. Waiting(f)' = {} /\ Uncounted(f)' = {}
      BY <2>0, <2>2, <3>4, <3>5, <3>6
    <3>8. Cardinality({}) = 0
      BY FS_EmptySet
    <3> QED
      BY <1>0, <3>1, <3>2, <3>7, <3>8 DEF CountIs
  <2>3. CASE d = c /\ ~DoWorkBegin(c)
    <3>1. /\ client[c].pc \in InCall /\ f = client[c].first /\ f \in Slots
          /\ Unfilled(c)' = IF DataFilled(c) THEN Unfilled(c) - 1 ELSE Unfilled(c)
          /\ queue'[f].OutstandingFragmentCount = queue[f].OutstandingFragmentCount
      BY <1>0, <1>3, <2>3, UnfilledStep
    <3>2. CountIs(c, f)
      BY <1>0, <3>1
    <3>3. CASE DataFilled(c)
      <4>1. Cardinality(Waiting(f)') = Cardinality(Waiting(f)) + 1
        BY <1>02, <2>0, <2>3, <3>1, <3>3, FS_AddElement
      <4> QED
        BY <1>01, <1>02, <2>0, <3>1, <3>2, <3>3, <4>1 DEF CountIs
    <3>4. CASE ~DataFilled(c)
      BY <2>0, <2>3, <3>1, <3>2, <3>4 DEF CountIs
    <3> QED
      BY <3>3, <3>4
  <2> QED
    BY <2>1, <2>2, <2>3
<1>4. ASSUME NEW k \in KeyClients, EncryptionThreadPoolBeginKeyDerivation(k) \/ KeyCaller(k)
      PROVE  CountIs(c, f)'
  <2>1. client'[c] = client[c] /\ f \in Slots
    BY <1>0, <1>4, KeyFrame
  <2> QED
    BY <1>1, <1>4, <2>1, KeyClientCounting DEF NumbersKept
<1>5. CASE Start \/ StartFails \/ EncryptionThreadPoolStop
  <2>1. UNCHANGED client
    BY <1>5 DEF Start, StartFails, EncryptionThreadPoolStop, Stop, StopSignal, StopJoined, clients
  <2>2. Stop \/ control \in {"stopped", "stopping", "joining"}
    BY <1>5 DEF Start, StartFails, EncryptionThreadPoolStop, StopSignal, StopJoined
  <2> QED
    BY <1>0, <2>1, <2>2, Unused DEF Stop, Quiescent, ClientAt, InCall
<1>6. CASE UNCHANGED vars
  <2>1. Waiting(f)' = Waiting(f) /\ Uncounted(f)' = Uncounted(f)
    BY <1>6 DEF vars, Waiting, Uncounted, WorkerAt
  <2> QED
    BY <1>1, <1>6, <2>1 DEF vars
<1> QED
  BY <1>2, <1>3, <1>4, <1>5, <1>6 DEF Next, Pool

-----------------------------------------------------------------------------
(* The caller is signalled once. *)

\* What a caller's step does to the numbers of the items.
LEMMA ClientNumbers ==
    ASSUME TypeInv, EnqueueInv, FirstInv, NEW c \in DataClients,
           EncryptionThreadPoolDoWork(c) \/ DoWorkCall(c), NEW i \in Slots
    PROVE  /\ \/ queue'[i].OutstandingFragmentCount = queue[i].OutstandingFragmentCount
              \/ DoWorkBegin(c) /\ i = EnqueuePosition /\ IsFree(i)
           /\ \/ queue'[i].ItemCompletedEvent = queue[i].ItemCompletedEvent
              \/ DoWorkAwait(c) /\ i = client[c].first
           /\ DoWorkAwait(c) => ~queue'[client[c].first].ItemCompletedEvent
<1>0. /\ queue \in [Slots -> WorkItem] /\ client[c].first \in Slots /\ client[c].item \in Slots
  BY ItemTypes DEF TypeInv, TypeOK
<1>1. CASE DoWorkBegin(c)
  BY <1>1, BeginEffect DEF DoWorkBegin, DoWorkAwait, ClientAt
<1>2. CASE DoWorkFill(c)
  BY <1>0, <1>2, DataFillEffect DEF DataFilled, DoWorkAwait, ClientAt
<1>3. CASE DoWorkFreeFirst(c)
  BY <1>0, <1>3, FreeFirstEffect, FreeEffect DEF DoWorkFreeFirst, DoWorkAwait, ClientAt
<1>4. CASE DoWorkAwait(c)
  <2>1. queue[client[c].first] \in WorkItem
    BY <1>0
  <2> QED
    BY <1>0, <1>4, <2>1 DEF DoWorkAwait, WorkItem
<1>5. CASE queue' = queue /\ ~DoWorkAwait(c)
  BY <1>5
<1> QED
  BY <1>1, <1>2, <1>3, <1>4, <1>5 DEF EncryptionThreadPoolDoWork, DoWorkCall,
     DoWorkInline, DoWorkLock, DoWorkSleep, DoWorkWake, DoWorkSignalReady,
     DoWorkSignalFirst, DoWorkReturn

\* A fragment that is counted off had been counted; the last one is counted off when
\* the caller has filled all of them.
LEMMA LastFragment ==
    ASSUME PInv, NEW w \in Workers, WorkerDecrement(w), NEW f,
           f = queue[worker[w].item].FirstFragment
    PROVE  /\ queue[f].OutstandingFragmentCount >= 1
           /\ queue[f].OutstandingFragmentCount = 1 =>
                 \E c \in DataClients :
                    /\ client[c].first = f
                    /\ ClientAt(c, "await") \/ (ClientAt(c, "signalReady") /\ client[c].fragmentCount = 0)
<1>0. /\ TypeInv /\ LeftInv /\ HeldInv /\ worker[w].item \in Slots
  BY ItemTypes DEF PInv, TypeInv
<1>1. Held(worker[w].item)
  BY DEF WorkerDecrement, Held, Attached, WorkerAt
<1>2. PICK c \in DataClients : client[c].pc \in InCall /\ client[c].first = f
  BY <1>0, <1>1 DEF HeldInv
<1>3. queue[f].OutstandingFragmentCount =
         Unfilled(c) + Cardinality(Waiting(f)) + Cardinality(Uncounted(f))
  BY <1>2 DEF PInv, PoolAccounting, FragmentAccounting, InCall
<1>4. w \in Uncounted(f)
  BY DecrementCounting
<1>5. Cardinality(Uncounted(f)) # 0
  BY <1>4, Counted, FS_EmptySet
<1>6. client[c].fragmentCount \in Int
  BY <1>0, ItemTypes DEF TypeInv
<1>7. Unfilled(c) \in Int /\ Unfilled(c) >= 0
  BY <1>0, <1>2, <1>6 DEF Unfilled, LeftInv, InCall, FillingItem
<1>8. queue[f].OutstandingFragmentCount >= 1
      /\ (queue[f].OutstandingFragmentCount = 1 => Unfilled(c) = 0)
  BY <1>3, <1>5, <1>7, Counted
<1>9. Unfilled(c) = 0 => ClientAt(c, "await") \/ (ClientAt(c, "signalReady") /\ client[c].fragmentCount = 0)
  BY <1>0, <1>2, <1>6 DEF Unfilled, LeftInv, InCall, FillingItem, ClientAt
<1> QED
  BY <1>2, <1>8, <1>9

\* While it is held, an item is of the same fragment.
LEMMA HeldFragment ==
    ASSUME PInv, [Next]_vars, NEW s \in Slots, Held(s)
    PROVE  queue'[s].FirstFragment = queue[s].FirstFragment
<1>0. TypeInv /\ ControlInv /\ EnqueueInv /\ HeldInv /\ FirstInv /\ ItemExclusive
  BY DEF PInv
<1>1. ASSUME NEW w \in Workers, EncryptionThreadProc(w)
      PROVE  queue'[s].FirstFragment = queue[s].FirstFragment
  <2>1. CASE WorkerQuiet(w)
    BY <2>1 DEF WorkerQuiet, Kept
  <2>2. CASE WorkerTake(w)
    BY <1>0, <2>2, TakeEffect
  <2>3. CASE WorkerFree(w)
    BY <1>0, <2>3, WorkerFreeEffect, FreeEffect
  <2> QED
    BY <1>0, <1>1, <2>1, <2>2, <2>3, WorkerKinds
<1>2. ASSUME NEW c \in DataClients, EncryptionThreadPoolDoWork(c) \/ DoWorkCall(c)
      PROVE  queue'[s].FirstFragment = queue[s].FirstFragment
  <2>1. CASE DataFilled(c)
    BY <1>0, <2>1, FillingNext DEF DataFilled
  <2>2. CASE DoWorkFreeFirst(c)
    BY <1>0, <2>2, FreeFirstEffect, FreeEffect
  <2> QED
    BY <1>0, <1>2, <2>1, <2>2, ClientKinds DEF Kept
<1>3. ASSUME NEW k \in KeyClients, EncryptionThreadPoolBeginKeyDerivation(k) \/ KeyCaller(k)
      PROVE  queue'[s].FirstFragment = queue[s].FirstFragment
  BY <1>0, <1>3, KeyKinds DEF KeyFilled
<1>4. CASE Start \/ StartFails
  BY <1>4, NothingHeld DEF Start, StartFails
<1>5. CASE EncryptionThreadPoolStop \/ UNCHANGED vars
  BY <1>5 DEF EncryptionThreadPoolStop, Stop, StopSignal, StopJoined, vars
<1> QED
  BY <1>1, <1>2, <1>3, <1>4, <1>5 DEF Next, Pool

\* How a worker comes to signal the caller.
LEMMA SignalFrom ==
    ASSUME TypeInv, [Next]_vars, NEW v \in Workers, worker'[v].pc = "signalDone"
    PROVE  worker'[v] = worker[v] \/ WorkerDecrement(v)
<1>1. CASE EncryptionThreadProc(v)
  <2> USE DEF WorkerGoes, WorkerAt, TypeInv, TypeOK
  <2>1. CASE WorkerLoop(v) \/ WorkerAcquire(v) \/ WorkerTake(v) \/ WorkerSleep(v) \/ WorkerWake(v)
             \/ WorkerStopCheck(v) \/ WorkerTransform(v) \/ WorkerFree(v)
    BY <2>1 DEF WorkerLoop, WorkerAcquire, WorkerTake, WorkerSleep, WorkerWake, WorkerStopCheck,
                WorkerTransform, WorkerFree
  <2>2. CASE WorkerSignalFree(v) \/ WorkerSignalDone(v) \/ WorkerDerive(v)
    BY <2>2 DEF WorkerSignalFree, WorkerSignalDone, WorkerDerive
  <2>3. CASE WorkerSignalKey(v) \/ WorkerDecrementKey(v) \/ WorkerSignalNoOutstanding(v)
    BY <2>3 DEF WorkerSignalKey, WorkerDecrementKey, WorkerSignalNoOutstanding
  <2> QED
    BY <1>1, <2>1, <2>2, <2>3 DEF EncryptionThreadProc
<1>2. ASSUME NEW w \in Workers \ {v}, EncryptionThreadProc(w) PROVE worker'[v] = worker[v]
  BY <1>2, WorkerFrame
<1>3. ASSUME NEW c \in DataClients, EncryptionThreadPoolDoWork(c) \/ DoWorkCall(c)
      PROVE  worker'[v] = worker[v]
  BY <1>3, ClientFrame
<1>4. ASSUME NEW k \in KeyClients, EncryptionThreadPoolBeginKeyDerivation(k) \/ KeyCaller(k)
      PROVE  worker'[v] = worker[v]
  BY <1>4, KeyFrame
<1>5. CASE Start \/ StartFails
  BY <1>5 DEF Start, StartFails, Created
<1>6. CASE EncryptionThreadPoolStop \/ UNCHANGED vars
  BY <1>6 DEF EncryptionThreadPoolStop, Stop, StopSignal, StopJoined, vars
<1> QED
  BY <1>1, <1>2, <1>3, <1>4, <1>5, <1>6 DEF Next, Pool

\* A call that is finished stays finished until its caller has seen it.
LEMMA DoneKept ==
    ASSUME PInv, [Next]_vars, NEW f \in Slots, Done(f),
           \A c \in DataClients : DoWorkAwait(c) => client[c].first # f
    PROVE  Done(f)'
<1>0. TypeInv /\ ControlInv /\ EnqueueInv /\ LeftInv /\ FirstInv
  BY DEF PInv
<1>1. PICK c \in DataClients :
        /\ client[c].first = f /\ queue[f].OutstandingFragmentCount = 0
        /\ ClientAt(c, "await") \/ (ClientAt(c, "signalReady") /\ client[c].fragmentCount = 0)
  BY DEF Done
<1>2. ~IsFree(f)
  BY <1>0, <1>1 DEF FirstInv, InCall, ClientAt, IsFree
<1>3. CASE client'[c] = client[c] /\ queue'[f].OutstandingFragmentCount = queue[f].OutstandingFragmentCount
  BY <1>1, <1>3 DEF Done, ClientAt
<1>4. ASSUME NEW w \in Workers, EncryptionThreadProc(w) PROVE Done(f)'
  <2>1. client'[c] = client[c]
    BY <1>0, <1>4, WorkerFrame
  <2>2. CASE WorkerTake(w)
    BY <1>0, <1>3, <2>1, <2>2, TakeEffect
  <2>3. CASE WorkerDecrement(w)
    <3>1. f # queue[worker[w].item].FirstFragment
      BY <1>1, <2>3, LastFragment
    <3>2. queue'[f] = queue[f]
      BY <2>3, <3>1, DecrementCounting
    <3> QED
      BY <1>3, <2>1, <3>2
  <2>4. CASE ~WorkerTake(w) /\ ~WorkerDecrement(w)
    BY <1>3, <1>4, <2>1, <2>4, WorkerCounting
  <2> QED
    BY <2>2, <2>3, <2>4
<1>5. ASSUME NEW d \in DataClients, EncryptionThreadPoolDoWork(d) \/ DoWorkCall(d) PROVE Done(f)'
  <2>1. queue'[f].OutstandingFragmentCount = queue[f].OutstandingFragmentCount
    BY <1>0, <1>2, <1>5, ClientNumbers
  <2>2. CASE d # c
    BY <1>0, <1>3, <1>5, <2>1, <2>2, ClientFrame
  <2>3. CASE d = c
    <3>1. DoWorkSignalReady(c)
      BY <1>1, <1>5, <2>3 DEF EncryptionThreadPoolDoWork, DoWorkCall, DoWorkInline, DoWorkLock,
         DoWorkBegin, DoWorkFill, DoWorkSleep, DoWorkWake, DoWorkAwait, DoWorkFreeFirst,
         DoWorkSignalFirst, DoWorkReturn, ClientAt
    <3>2. client[c].fragmentCount = 0 /\ ClientAt(c, "signalReady")
      BY <1>1, <3>1 DEF DoWorkSignalReady, ClientAt
    <3>3. client'[c].pc = "await" /\ client'[c].first = f
      BY <1>0, <1>1, <3>1, <3>2, SignalReadyEffect
    <3> QED
      BY <1>1, <2>1, <3>3 DEF Done, ClientAt
  <2> QED
    BY <2>2, <2>3
<1>6. ASSUME NEW k \in KeyClients, EncryptionThreadPoolBeginKeyDerivation(k) \/ KeyCaller(k)
      PROVE  Done(f)'
  BY <1>0, <1>3, <1>6, KeyFrame, KeyClientCounting DEF NumbersKept
<1>7. CASE Start \/ StartFails
  BY <1>0, <1>1, <1>7, Unused DEF Start, StartFails, ClientAt
<1>8. CASE EncryptionThreadPoolStop \/ UNCHANGED vars
  BY <1>3, <1>8 DEF EncryptionThreadPoolStop, Stop, StopSignal, StopJoined, vars, clients
<1> QED
  BY <1>4, <1>5, <1>6, <1>7, <1>8 DEF Next, Pool

\* Only the worker that counted off the last fragment sets the event.
LEMMA EventFrom ==
    ASSUME PInv, [Next]_vars, NEW f \in Slots, queue'[f].ItemCompletedEvent
    PROVE  \/ queue[f].ItemCompletedEvent
              /\ \A c \in DataClients : DoWorkAwait(c) => client[c].first # f
           \/ \E w \in Workers : /\ WorkerSignalDone(w) /\ worker'[w].pc = "loop"
                                 /\ f = queue[worker[w].item].FirstFragment
                                 /\ client' = client
<1>0. TypeInv /\ EnqueueInv /\ FirstInv /\ queue \in [Slots -> WorkItem]
  BY DEF PInv, TypeInv, TypeOK
<1>1. ASSUME NEW c \in DataClients, DoWorkAwait(c) PROVE client[c].first # f
  BY <1>0, <1>1, ClientNumbers DEF EncryptionThreadPoolDoWork
<1>2. ASSUME NEW w \in Workers, EncryptionThreadProc(w), ~WorkerSignalDone(w)
      PROVE  queue[f].ItemCompletedEvent
  <2>1. CASE WorkerTake(w)
    BY <1>0, <2>1, TakeEffect
  <2>2. CASE WorkerDecrement(w)
    BY <2>2, DecrementCounting
  <2> QED
    BY <1>2, <2>1, <2>2, WorkerCounting DEF NumbersKept
<1>3. ASSUME NEW w \in Workers, WorkerSignalDone(w), ~queue[f].ItemCompletedEvent
      PROVE  /\ worker'[w].pc = "loop" /\ f = queue[worker[w].item].FirstFragment
             /\ client' = client
  BY <1>0, <1>3 DEF WorkerSignalDone, WorkerGoes, clients, TypeInv, TypeOK, WorkItem
<1>4. ASSUME NEW c \in DataClients, EncryptionThreadPoolDoWork(c) \/ DoWorkCall(c)
      PROVE  queue[f].ItemCompletedEvent
  BY <1>0, <1>1, <1>4, ClientNumbers
<1>5. ASSUME NEW k \in KeyClients, EncryptionThreadPoolBeginKeyDerivation(k) \/ KeyCaller(k)
      PROVE  queue[f].ItemCompletedEvent
  BY <1>5, KeyClientCounting DEF NumbersKept
<1>6. CASE Start \/ StartFails
  BY <1>6 DEF Start, StartFails, Reset, EmptyItem
<1>7. CASE EncryptionThreadPoolStop \/ UNCHANGED vars
  BY <1>1, <1>7 DEF EncryptionThreadPoolStop, Stop, StopSignal, StopJoined, vars
<1> QED
  BY <1>1, <1>2, <1>3, <1>4, <1>5, <1>6, <1>7 DEF Next, Pool

LEMMA SignalStep ==
    ASSUME PInv, [Next]_vars
    PROVE  SignalInv'
<1>0. /\ TypeInv /\ SignalInv
      /\ \A w \in Workers : worker[w].item \in Slots
      /\ \A s \in Slots : queue[s].FirstFragment \in Slots
  BY ItemTypes DEF PInv, TypeInv
<1>1. ASSUME NEW f \in Slots, queue'[f].ItemCompletedEvent PROVE Done(f)'
  <2>1. CASE queue[f].ItemCompletedEvent
             /\ \A c \in DataClients : DoWorkAwait(c) => client[c].first # f
    BY <1>0, <2>1, DoneKept DEF SignalInv
  <2>2. ASSUME NEW w \in Workers, WorkerSignalDone(w), f = queue[worker[w].item].FirstFragment,
               client' = client
        PROVE  Done(f)'
    <3>1. Done(f)
      BY <1>0, <2>2 DEF SignalInv, WorkerSignalDone
    <3>2. \A c \in DataClients : DoWorkAwait(c) => client[c].first # f
      BY NothingLeft, <2>2 DEF WorkerSignalDone
    <3> QED
      BY <3>1, <3>2, DoneKept
  <2> QED
    BY <1>1, <2>1, <2>2, EventFrom
<1>2. ASSUME NEW w \in Workers, worker'[w].pc = "signalDone"
      PROVE  \E f \in Slots :
             /\ f = queue'[worker'[w].item].FirstFragment
             /\ Done(f)' /\ ~queue'[f].ItemCompletedEvent
             /\ \A v \in Workers \ {w} :
                   worker'[v].pc = "signalDone" => queue'[worker'[v].item].FirstFragment # f
  <2>0. PICK f : f = queue[worker[w].item].FirstFragment
    OBVIOUS
  <2>1. CASE worker'[w] = worker[w]
    <3>1. WorkerAt(w, "signalDone") /\ Held(worker[w].item) /\ f \in Slots
      BY <1>0, <1>2, <2>0, <2>1 DEF Held, Attached, WorkerAt
    <3>2. queue'[worker'[w].item].FirstFragment = f
      BY <1>0, <2>0, <2>1, <3>1, HeldFragment
    <3>3. /\ Done(f) /\ ~queue[f].ItemCompletedEvent
          /\ \A v \in Workers \ {w} :
                WorkerAt(v, "signalDone") => queue[worker[v].item].FirstFragment # f
      BY <1>0, <2>0, <3>1 DEF SignalInv
    <3>4. Done(f)'
      <4>1. \A c \in DataClients : DoWorkAwait(c) => client[c].first # f
        BY <2>0, <3>1, NothingLeft
      <4> QED
        BY <3>1, <3>3, <4>1, DoneKept
    <3>5. ~queue'[f].ItemCompletedEvent
      BY <1>2, <3>1, <3>3, EventFrom DEF WorkerSignalDone
    <3>6. ASSUME NEW v \in Workers \ {w}, worker'[v].pc = "signalDone"
          PROVE  queue'[worker'[v].item].FirstFragment # f
      <4>1. CASE worker'[v] = worker[v]
        <5>1. WorkerAt(v, "signalDone") /\ Held(worker[v].item)
          BY <3>6, <4>1 DEF Held, Attached, WorkerAt
        <5> QED
          BY <1>0, <3>3, <4>1, <5>1, HeldFragment
      <4>2. CASE WorkerDecrement(v)
        <5>1. queue[worker[v].item].FirstFragment # f
          BY <3>3, <4>2, LastFragment DEF Done
        <5> QED
          BY <1>0, <3>6, <4>2, <5>1, DecrementCounting DEF Kept
      <4> QED
        BY <1>0, <3>6, <4>1, <4>2, SignalFrom
    <3> QED
      BY <3>1, <3>2, <3>4, <3>5, <3>6
  <2>2. CASE WorkerDecrement(w)
    <3>1. /\ \A i \in Slots : Kept(i) /\ queue'[i].ItemCompletedEvent = queue[i].ItemCompletedEvent
          /\ queue'[f].OutstandingFragmentCount = queue[f].OutstandingFragmentCount - 1
          /\ queue[f].OutstandingFragmentCount = 1 /\ worker'[w].item = worker[w].item
          /\ f \in Slots
      BY <1>2, <2>0, <2>2, DecrementCounting
    <3>2. client' = client /\ \A v \in Workers \ {w} : worker'[v] = worker[v]
      BY <1>0, <2>2, WorkerFrame DEF EncryptionThreadProc
    <3>3. queue'[worker'[w].item].FirstFragment = f
      BY <1>0, <2>0, <3>1 DEF Kept
    <3>4. ~Done(f)
      BY <3>1 DEF Done
    <3>5. Done(f)'
      <4>1. PICK c \in DataClients :
              /\ client[c].first = f
              /\ ClientAt(c, "await") \/ (ClientAt(c, "signalReady") /\ client[c].fragmentCount = 0)
        BY <2>0, <2>2, <3>1, LastFragment
      <4> QED
        BY <3>1, <3>2, <4>1 DEF Done, ClientAt
    <3>6. ~queue'[f].ItemCompletedEvent
      BY <1>0, <3>1, <3>4 DEF SignalInv
    <3>7. ASSUME NEW v \in Workers \ {w}, worker'[v].pc = "signalDone"
          PROVE  queue'[worker'[v].item].FirstFragment # f
      <4>1. Done(queue[worker[v].item].FirstFragment)
        BY <1>0, <3>2, <3>7 DEF SignalInv, WorkerAt
      <4> QED
        BY <1>0, <3>1, <3>2, <3>4, <4>1 DEF Kept
    <3> QED
      BY <3>1, <3>3, <3>5, <3>6, <3>7
  <2> QED
    BY <1>0, <1>2, <2>1, <2>2, SignalFrom
<1>3. ASSUME NEW f \in Slots, queue'[f].ItemCompletedEvent
      PROVE  \E c \in DataClients :
        /\ client'[c].first = f /\ queue'[f].OutstandingFragmentCount = 0
        /\ ClientAt(c, "await")' \/ (ClientAt(c, "signalReady")' /\ client'[c].fragmentCount = 0)
  BY <1>1, <1>3 DEF Done
<1>4. ASSUME NEW w \in Workers, worker'[w].pc = "signalDone"
      PROVE  \E f \in Slots :
        /\ f = queue'[worker'[w].item].FirstFragment
        /\ \E c \in DataClients :
              /\ client'[c].first = f /\ queue'[f].OutstandingFragmentCount = 0
              /\ ClientAt(c, "await")' \/ (ClientAt(c, "signalReady")' /\ client'[c].fragmentCount = 0)
        /\ ~queue'[f].ItemCompletedEvent
        /\ \A v \in Workers \ {w} :
              worker'[v].pc = "signalDone" => queue'[worker'[v].item].FirstFragment # f
  BY <1>2, <1>4 DEF Done
<1> QED
  BY <1>3, <1>4 DEF SignalInv, Done, WorkerAt, ClientAt

-----------------------------------------------------------------------------
(* The derivations of a key client. *)

KeyCountIs(k) ==
    outstandingWorkItemCount[k] =
        Beginning(k) + Cardinality(ReadyKeys(k)) + Cardinality(DerivingKeys(k))

\* A worker with a derivation of k that is not counted off.
KeyWorker(v, k) ==
    queue[worker[v].item].Owner = k /\ queue[worker[v].item].Type = "DeriveKey" /\ Deriving(v)

LEMMA DerivingKept ==
    ASSUME NEW k, \A v \in Workers : KeyWorker(v, k)' <=> KeyWorker(v, k)
    PROVE  DerivingKeys(k)' = DerivingKeys(k)
  BY DEF DerivingKeys, KeyWorker

\* Only the worker itself changes whether it has a derivation.
LEMMA OtherDeriving ==
    ASSUME PInv, [Next]_vars, NEW v \in Workers, worker'[v] = worker[v],
           StopPending' = StopPending, NEW k
    PROVE  KeyWorker(v, k)' <=> KeyWorker(v, k)
<1>1. Deriving(v)' <=> Deriving(v)
  BY DEF Deriving, WorkerAt
<1>2. ASSUME Deriving(v) PROVE Kept(worker[v].item)
  BY <1>2, ProcessedKept DEF Deriving, Processing
<1> QED
  BY <1>1, <1>2 DEF KeyWorker, Kept

\* Without outstanding derivations there are none.
LEMMA NoKeys ==
    ASSUME PInv, NEW k \in KeyClients, outstandingWorkItemCount[k] = 0
    PROVE  ReadyKeys(k) = {} /\ DerivingKeys(k) = {} /\ Beginning(k) = 0
<1>1. KeyCountIs(k)
  BY KeyCount DEF PInv, PoolAccounting, KeyCountIs
<1>2. Beginning(k) \in Nat
  BY DEF Beginning
<1>3. Cardinality(ReadyKeys(k)) = 0 /\ Cardinality(DerivingKeys(k)) = 0 /\ Beginning(k) = 0
  BY <1>1, <1>2, Counted DEF KeyCountIs
<1> QED
  BY <1>3, Counted, FS_EmptySet

\* Steps of a worker that do not take a derivation or count one off.
LEMMA WorkerDerivations ==
    ASSUME PInv, NEW w \in Workers, EncryptionThreadProc(w), ~WorkerTake(w),
           ~WorkerDecrementKey(w), NEW k \in KeyClients
    PROVE  /\ KeyWorker(w, k)' <=> KeyWorker(w, k)
           /\ ReadyKeys(k)' = ReadyKeys(k)
           /\ outstandingWorkItemCount' = outstandingWorkItemCount
<1>0. /\ TypeInv /\ WorkerInv /\ ItemExclusive /\ worker[w].item \in Slots
      /\ worker \in [Workers -> [pc : WorkerPc, item : Slots]]
      /\ \A i \in Slots : queue[i].Type \in {"Data", "DeriveKey"}
      /\ StopPending' = StopPending
  BY ItemTypes, WorkerFrame DEF PInv, TypeInv, TypeOK
<1>1. outstandingWorkItemCount' = outstandingWorkItemCount
  BY DEF EncryptionThreadProc, WorkerLoop, WorkerAcquire, WorkerSleep, WorkerWake,
     WorkerStopCheck, WorkerTransform, WorkerFree, WorkerSignalFree, WorkerDecrement,
     WorkerSignalDone, WorkerDerive, WorkerSignalKey, WorkerSignalNoOutstanding, keys, keyEvents
<1>2. CASE WorkerFree(w)
  <2> DEFINE i == worker[w].item
  <2>1. /\ \A s \in Slots : s # i => queue'[s] = queue[s]
        /\ queue'[i].State = "Free"
    BY <1>0, <1>2, WorkerFreeEffect, FreeEffect
  <2>2. queue[i].State = "Busy"
    BY <1>0, <1>2 DEF WorkerFree, Processing, ItemExclusive
  <2>3. ReadyKeys(k)' = ReadyKeys(k)
    BY <1>0, <2>1, <2>2 DEF ReadyKeys
  <2>4. ~Deriving(w) /\ ~Deriving(w)'
    BY <1>0, <1>2, WorkerFreeEffect DEF Deriving, WorkerAt
  <2> QED
    BY <1>1, <2>3, <2>4 DEF KeyWorker
<1>3. CASE \A i \in Slots : Kept(i)
  <2>1. ReadyKeys(k)' = ReadyKeys(k)
    BY <1>3 DEF ReadyKeys, Kept
  <2>2. ASSUME Deriving(w)' <=> Deriving(w), worker'[w].item = worker[w].item
        PROVE  KeyWorker(w, k)' <=> KeyWorker(w, k)
    BY <1>0, <1>3, <2>2 DEF KeyWorker, Kept
  <2>3. CASE WorkerStopCheck(w)
    <3>1. worker'[w].item = worker[w].item \/ (StopPending /\ ~Deriving(w)')
      BY <1>0, <2>3 DEF WorkerStopCheck, WorkerGoes, Deriving, WorkerAt
    <3>2. queue[worker[w].item].Type = "DeriveKey" => (Deriving(w)' <=> Deriving(w))
      BY <1>0, <2>3 DEF WorkerStopCheck, WorkerGoes, Deriving, WorkerAt
    <3>3. StopPending => ~Deriving(w)
      BY <2>3 DEF WorkerStopCheck, Deriving, WorkerAt
    <3> QED
      BY <1>0, <1>1, <1>3, <2>1, <3>1, <3>2, <3>3 DEF KeyWorker, Kept
  <2>4. CASE WorkerDerive(w) \/ WorkerSignalKey(w)
    <3>1. (Deriving(w)' <=> Deriving(w)) /\ worker'[w].item = worker[w].item
      BY <1>0, <2>4 DEF WorkerDerive, WorkerSignalKey, WorkerGoes, Deriving, WorkerAt
    <3> QED
      BY <1>1, <2>1, <2>2, <3>1
  <2>5. CASE ~Deriving(w) /\ ~Deriving(w)'
    BY <1>1, <2>1, <2>5 DEF KeyWorker
  <2>6. CASE WorkerLoop(w) \/ WorkerAcquire(w) \/ WorkerSleep(w) \/ WorkerWake(w)
    <3>1. ~Deriving(w) /\ ~Deriving(w)'
      BY <1>0, <2>6 DEF WorkerLoop, WorkerAcquire, WorkerSleep, WorkerWake, WorkerGoes, Deriving,
         WorkerAt
    <3> QED
      BY <2>5, <3>1
  <2>7. CASE WorkerTransform(w) \/ WorkerSignalFree(w) \/ WorkerSignalNoOutstanding(w)
    <3>1. ~Deriving(w) /\ ~Deriving(w)'
      BY <1>0, <2>7 DEF WorkerTransform, WorkerSignalFree, WorkerSignalNoOutstanding, WorkerGoes,
         Deriving, WorkerAt
    <3> QED
      BY <2>5, <3>1
  <2>8. CASE WorkerDecrement(w) \/ WorkerSignalDone(w)
    <3>1. ~Deriving(w) /\ ~Deriving(w)'
      <4>1. worker[w].pc \in {"decrement", "signalDone"} /\ worker'[w].pc \in {"loop", "signalDone"}
        <5>1. CASE WorkerDecrement(w)
          BY <1>0, <5>1 DEF WorkerDecrement, WorkerGoes, WorkerAt
        <5>2. CASE WorkerSignalDone(w)
          BY <1>0, <5>2 DEF WorkerSignalDone, WorkerGoes, WorkerAt
        <5> QED
          BY <2>8, <5>1, <5>2
      <4> QED
        BY <4>1 DEF Deriving, WorkerAt
    <3> QED
      BY <2>5, <3>1
  <2> QED
    BY <1>2, <2>3, <2>4, <2>6, <2>7, <2>8 DEF EncryptionThreadProc
<1> QED
  BY <1>0, <1>2, <1>3, WorkerKinds DEF WorkerQuiet

LEMMA KeyStep ==
    ASSUME PInv, [Next]_vars
    PROVE  KeyAccounting'
<1>0. /\ TypeInv /\ ControlInv /\ EnqueueInv /\ FirstInv /\ WorkerInv /\ ItemExclusive
      /\ \A k \in KeyClients : KeyCountIs(k)
      /\ \A k \in KeyClients : key[k].item \in Slots /\ outstandingWorkItemCount[k] \in Int
      /\ outstandingWorkItemCount \in [KeyClients -> Int]
      /\ \A v \in Workers : worker[v].item \in Slots
  BY ItemTypes, KeyCount DEF PInv, TypeInv, TypeOK, PoolAccounting, KeyCountIs
<1> SUFFICES ASSUME NEW k \in KeyClients PROVE KeyCountIs(k)'
  BY DEF KeyAccounting, KeyCountIs, Beginning, ReadyKeys, DerivingKeys, Deriving, WorkerAt
<1>01. /\ IsFiniteSet(ReadyKeys(k)) /\ Cardinality(ReadyKeys(k)) \in Nat
       /\ IsFiniteSet(DerivingKeys(k)) /\ Cardinality(DerivingKeys(k)) \in Nat
       /\ Beginning(k) \in Nat
  BY Counted DEF Beginning
<1>02. KeyCountIs(k)
  BY <1>0
<1>1. ASSUME Beginning(k)' = Beginning(k), ReadyKeys(k)' = ReadyKeys(k),
             \A v \in Workers : KeyWorker(v, k)' <=> KeyWorker(v, k),
             outstandingWorkItemCount'[k] = outstandingWorkItemCount[k]
      PROVE  KeyCountIs(k)'
  BY <1>02, <1>1, DerivingKept DEF KeyCountIs
<1>2. ASSUME NEW w \in Workers, EncryptionThreadProc(w) PROVE KeyCountIs(k)'
  <2>0. Beginning(k)' = Beginning(k) /\ StopPending' = StopPending
    BY <1>0, <1>2, WorkerFrame DEF Beginning
  <2>1. \A v \in Workers \ {w} : KeyWorker(v, k)' <=> KeyWorker(v, k)
    BY <1>0, <1>2, <2>0, WorkerFrame, OtherDeriving
  <2>2. CASE WorkerTake(w)
    <3> DEFINE i == worker[w].item
    <3>1. /\ WorkerAt(w, "test") /\ (~StopPending => queue[i].State = "Ready")
          /\ queue'[i].State = "Busy"
          /\ \A s \in Slots : /\ s # i => queue'[s] = queue[s]
                              /\ queue'[s].Type = queue[s].Type
                              /\ queue'[s].Owner = queue[s].Owner
          /\ worker'[w].pc = "stopCheck" /\ worker'[w].item = i /\ i \in Slots
      BY <1>0, <2>2, TakeEffect
    <3>2. outstandingWorkItemCount' = outstandingWorkItemCount
      BY <2>2 DEF WorkerTake, keys, keyEvents
    <3>3. CASE ~StopPending /\ queue[i].Type = "DeriveKey" /\ queue[i].Owner = k
      <4>1. ReadyKeys(k)' = ReadyKeys(k) \ {i} /\ i \in ReadyKeys(k)
        BY <3>1, <3>3 DEF ReadyKeys
      <4>2. ~KeyWorker(w, k) /\ KeyWorker(w, k)'
        BY <2>0, <3>1, <3>3 DEF KeyWorker, Deriving, WorkerAt
      <4>3. DerivingKeys(k)' = DerivingKeys(k) \cup {w} /\ w \notin DerivingKeys(k)
        BY <2>1, <4>2 DEF DerivingKeys, KeyWorker
      <4>4. Cardinality(ReadyKeys(k)') = Cardinality(ReadyKeys(k)) - 1
        BY <1>01, <4>1, OneLess
      <4>5. Cardinality(DerivingKeys(k)') = Cardinality(DerivingKeys(k)) + 1
        BY <1>01, <4>3, FS_AddElement
      <4> QED
        BY <1>01, <1>02, <2>0, <3>2, <4>4, <4>5 DEF KeyCountIs
    <3>4. CASE StopPending \/ ~(queue[i].Type = "DeriveKey" /\ queue[i].Owner = k)
      <4>1. ~KeyWorker(w, k) /\ ~KeyWorker(w, k)'
        BY <2>0, <3>1, <3>4 DEF KeyWorker, Deriving, WorkerAt
      <4>2. i \notin ReadyKeys(k)
        <5>1. StopPending => ReadyKeys(k) = {}
          BY <1>0, Unused, NoKeys
        <5> QED
          BY <3>4, <5>1 DEF ReadyKeys
      <4>3. ReadyKeys(k)' = ReadyKeys(k)
        BY <3>1, <4>2 DEF ReadyKeys
      <4> QED
        BY <1>1, <2>0, <2>1, <3>2, <4>1, <4>3
    <3> QED
      BY <3>3, <3>4
  <2>3. CASE WorkerDecrementKey(w)
    <3> DEFINE o == queue[worker[w].item].Owner
    <3>1. /\ outstandingWorkItemCount' =
                [outstandingWorkItemCount EXCEPT ![o] = outstandingWorkItemCount[o] - 1]
          /\ queue' = queue /\ WorkerAt(w, "decrementKey")
          /\ worker'[w].pc \in {"signalNoOutstanding", "freeKey"}
      BY <1>0, <2>3 DEF WorkerDecrementKey, WorkerGoes, TypeInv, TypeOK
    <3>2. queue[worker[w].item].Type = "DeriveKey" /\ Deriving(w) /\ ~Deriving(w)'
      BY <1>0, <3>1 DEF WorkerInv, WorkerAt, Deriving
    <3>3. ReadyKeys(k)' = ReadyKeys(k)
      BY <3>1 DEF ReadyKeys
    <3>4. CASE o = k
      <4>1. KeyWorker(w, k) /\ ~KeyWorker(w, k)'
        BY <3>2, <3>4 DEF KeyWorker
      <4>2. DerivingKeys(k)' = DerivingKeys(k) \ {w} /\ w \in DerivingKeys(k)
        BY <2>1, <4>1 DEF DerivingKeys, KeyWorker
      <4>3. Cardinality(DerivingKeys(k)') = Cardinality(DerivingKeys(k)) - 1
        BY <1>01, <4>2, OneLess
      <4>4. outstandingWorkItemCount'[k] = outstandingWorkItemCount[k] - 1
        BY <1>0, <3>1, <3>4
      <4> QED
        BY <1>01, <1>02, <2>0, <3>3, <4>3, <4>4 DEF KeyCountIs
    <3>5. CASE o # k
      <4>1. ~KeyWorker(w, k) /\ ~KeyWorker(w, k)'
        BY <3>2, <3>5 DEF KeyWorker
      <4>2. outstandingWorkItemCount'[k] = outstandingWorkItemCount[k]
        BY <1>0, <3>1, <3>5
      <4> QED
        BY <1>1, <2>0, <2>1, <3>3, <4>1, <4>2
    <3> QED
      BY <3>4, <3>5
  <2>4. CASE ~WorkerTake(w) /\ ~WorkerDecrementKey(w)
    BY <1>1, <1>2, <2>0, <2>1, <2>4, WorkerDerivations
  <2> QED
    BY <2>2, <2>3, <2>4
<1>3. ASSUME NEW c \in DataClients, EncryptionThreadPoolDoWork(c) \/ DoWorkCall(c)
      PROVE  KeyCountIs(k)'
  <2>0. /\ UNCHANGED <<worker, key, outstandingWorkItemCount, StopPending>>
        /\ client[c].item \in Slots /\ client[c].first \in Slots
    BY <1>0, <1>3, ClientFrame, ItemTypes DEF TypeInv
  <2>1. \A v \in Workers : KeyWorker(v, k)' <=> KeyWorker(v, k)
    BY <2>0, OtherDeriving
  <2>3. ReadyKeys(k)' = ReadyKeys(k)
    <3>1. CASE \A i \in Slots : Kept(i)
      BY <3>1 DEF ReadyKeys, Kept
    <3>2. CASE DataFilled(c)
      BY <2>0, <3>2 DEF ReadyKeys, DataFilled, IsFree
    <3>3. CASE DoWorkFreeFirst(c)
      <4>1. /\ \A i \in Slots : i # client[c].first => queue'[i] = queue[i]
            /\ queue'[client[c].first].State = "Free" /\ queue[client[c].first].Type = "Data"
        BY <1>0, <3>3, FreeFirstEffect, FreeEffect
      <4> QED
        BY <4>1 DEF ReadyKeys
    <3> QED
      BY <1>0, <1>3, <3>1, <3>2, <3>3, ClientKinds
  <2> QED
    BY <1>1, <2>0, <2>1, <2>3 DEF Beginning
<1>4. ASSUME NEW l \in KeyClients, EncryptionThreadPoolBeginKeyDerivation(l) \/ KeyCaller(l)
      PROVE  KeyCountIs(k)'
  <2>0. worker' = worker /\ StopPending' = StopPending
    BY <1>0, <1>4, KeyFrame
  <2>1. \A v \in Workers : KeyWorker(v, k)' <=> KeyWorker(v, k)
    BY <2>0, OtherDeriving
  <2>2. CASE l # k
    <3>1. key'[k] = key[k] /\ outstandingWorkItemCount'[k] = outstandingWorkItemCount[k]
      BY <1>0, <1>4, <2>2, KeyFrame
    <3>2. ReadyKeys(k)' = ReadyKeys(k)
      <4>1. CASE KeyFilled(l)
        <5>1. queue[key[l].item].State = "Free"
          BY <1>0, <4>1 DEF KeyFilled, EnqueueInv, KeyAt, IsFree
        <5> QED
          BY <1>0, <2>2, <4>1, <5>1 DEF KeyFilled, ReadyKeys
      <4>2. CASE queue' = queue
        BY <4>2 DEF ReadyKeys
      <4> QED
        BY <1>0, <1>4, <4>1, <4>2, KeyKinds
    <3> QED
      BY <1>1, <2>1, <3>1, <3>2 DEF Beginning
  <2>3. CASE l = k /\ BeginKeyFill(k)
    <3>1. KeyFilled(k)
      BY <1>0, <2>3, KeyFillEffect
    <3>2. queue[key[k].item].State = "Free" /\ key[k].item \in Slots
      BY <1>0, <3>1 DEF KeyFilled, EnqueueInv, KeyAt, IsFree
    <3>3. ReadyKeys(k)' = ReadyKeys(k) \cup {key[k].item} /\ key[k].item \notin ReadyKeys(k)
      BY <3>1, <3>2 DEF KeyFilled, ReadyKeys
    <3>4. Cardinality(ReadyKeys(k)') = Cardinality(ReadyKeys(k)) + 1
      BY <1>01, <3>3, FS_AddElement
    <3>5. Beginning(k) = 1 /\ Beginning(k)' = 0
      BY <3>1 DEF KeyFilled, KeyAt, Beginning
    <3>6. DerivingKeys(k)' = DerivingKeys(k)
      BY <2>1, DerivingKept
    <3> QED
      BY <1>01, <1>02, <3>1, <3>4, <3>5, <3>6 DEF KeyCountIs, KeyFilled
  <2>4. CASE l = k /\ BeginKeyCount(k)
    <3>1. queue' = queue /\ outstandingWorkItemCount'[k] = outstandingWorkItemCount[k] + 1
      BY <1>0, <2>4 DEF BeginKeyCount
    <3>2. Beginning(k) = 0 /\ Beginning(k)' = 1
      BY <1>0, <2>4 DEF BeginKeyCount, KeyGoes, KeyAt, Beginning, TypeInv, TypeOK
    <3>3. DerivingKeys(k)' = DerivingKeys(k)
      BY <2>1, DerivingKept
    <3>4. ReadyKeys(k)' = ReadyKeys(k)
      BY <3>1 DEF ReadyKeys
    <3> QED
      BY <1>01, <1>02, <3>1, <3>2, <3>3, <3>4 DEF KeyCountIs
  <2>5. CASE l = k /\ ~BeginKeyFill(k) /\ ~BeginKeyCount(k)
    <3>1. queue' = queue /\ outstandingWorkItemCount' = outstandingWorkItemCount
      BY <1>4, <2>5 DEF EncryptionThreadPoolBeginKeyDerivation, KeyCaller, BeginKeyDerivation,
         BeginKeyLock, BeginKeySleep, BeginKeyWake, BeginKeyClear, BeginKeySignalReady, keyEvents
    <3>2. Beginning(k)' = Beginning(k)
      BY <1>0, <1>4, <2>5 DEF EncryptionThreadPoolBeginKeyDerivation, KeyCaller, BeginKeyDerivation,
         BeginKeyLock, BeginKeySleep, BeginKeyWake, BeginKeyClear, BeginKeySignalReady, IdleKey,
         KeyGoes, KeyAt, Beginning, TypeInv, TypeOK
    <3>3. ReadyKeys(k)' = ReadyKeys(k)
      BY <3>1 DEF ReadyKeys
    <3> QED
      BY <1>1, <2>1, <3>1, <3>2, <3>3
  <2> QED
    BY <1>4, <2>2, <2>3, <2>4, <2>5
<1>5. CASE Start \/ StartFails \/ Stop
  <2>1. outstandingWorkItemCount[k] = 0 /\ Beginning(k) = 0
        /\ UNCHANGED <<key, outstandingWorkItemCount>>
    BY <1>0, <1>5, Unused
    DEF Start, StartFails, Stop, Quiescent, KeyAt, Beginning, keys, keyEvents
  <2>2. ReadyKeys(k) = {} /\ DerivingKeys(k) = {}
    BY <2>1, NoKeys
  <2>3. CASE Stop
    <3>1. \A v \in Workers : Deriving(v)' => Deriving(v)
      BY <2>3 DEF Stop, Deriving, WorkerAt
    <3>2. DerivingKeys(k)' = {} /\ ReadyKeys(k)' = {}
      BY <2>2, <2>3, <3>1 DEF Stop, DerivingKeys, ReadyKeys
    <3> QED
      BY <2>1, <3>2, FS_EmptySet DEF KeyCountIs, Beginning
  <2>4. CASE Start \/ StartFails
    <3>1. \A i \in Slots : queue'[i].State = "Free"
      BY <2>4 DEF Start, StartFails, Reset, EmptyItem
    <3>2. \A v \in Workers : ~Deriving(v)'
      BY <2>4 DEF Start, StartFails, Created, Deriving, WorkerAt
    <3>3. DerivingKeys(k)' = {} /\ ReadyKeys(k)' = {}
      BY <3>1, <3>2 DEF DerivingKeys, ReadyKeys
    <3> QED
      BY <2>1, <3>3, FS_EmptySet DEF KeyCountIs, Beginning
  <2> QED
    BY <1>5, <2>3, <2>4
<1>6. CASE StopSignal \/ StopJoined \/ UNCHANGED vars
  <2>1. UNCHANGED <<queue, worker, key, outstandingWorkItemCount, StopPending>>
    BY <1>6 DEF StopSignal, StopJoined, vars, keys, keyEvents
  <2>2. ReadyKeys(k)' = ReadyKeys(k) /\ Beginning(k)' = Beginning(k)
    BY <2>1 DEF ReadyKeys, Beginning
  <2>3. \A v \in Workers : KeyWorker(v, k)' <=> KeyWorker(v, k)
    BY <2>1, OtherDeriving
  <2> QED
    BY <1>1, <2>1, <2>2, <2>3
<1> QED
  BY <1>2, <1>3, <1>4, <1>5, <1>6 DEF Next, Pool, EncryptionThreadPoolStop

-----------------------------------------------------------------------------

LEMMA PInvStep == PInv /\ [Next]_vars => PInv'
<1> SUFFICES ASSUME PInv, [Next]_vars PROVE PInv'
  OBVIOUS
<1>1. TypeInv'
  BY TypeStep DEF PInv
<1>2. ControlInv' /\ EnqueueInv' /\ LeftInv' /\ HeldInv' /\ FirstInv' /\ WorkerInv' /\ SignalInv'
  BY ControlStep, EnqueueStep, LeftStep, HeldStep, FirstStep, WorkerInvStep, SignalStep
<1>3. ItemExclusive' /\ PoolAccounting'
  BY ExclusiveStep, FragmentStep, KeyStep DEF PoolAccounting
<1> QED
  BY <1>1, <1>2, <1>3 DEF PInv

\* No item is worked on by two threads, nor filled while a worker reads it: the states of
\* the items (GetWorkItemState, SetWorkItemState) hand each from the thread that fills it to
\* one worker and back, although a worker takes a position of the ring whatever is there.
THEOREM ItemsExclusive == Spec => []ItemExclusive
<1>1. PInv => ItemExclusive
  BY DEF PInv
<1> QED
  BY InitPool, PInvStep, <1>1, PTL DEF Spec

\* The counts that callers wait for (OutstandingFragmentCount, outstandingWorkItemCount) are
\* exact in every state, although a worker reads FirstFragment from an item that it has
\* released before it counts its fragment off.
THEOREM CountsExact == Spec => []PoolAccounting
<1>1. PInv => PoolAccounting
  BY DEF PInv
<1> QED
  BY InitPool, PInvStep, <1>1, PTL DEF Spec

-----------------------------------------------------------------------------
(* What becomes of the data: DoWork is one transformation of the caller's buffer. *)

\* A worker with a fragment that is still to be transformed, the item of such a fragment, and
\* its units.
Transforming(w) ==
    \/ WorkerAt(w, "transform")
    \/ WorkerAt(w, "stopCheck") /\ ~StopPending /\ queue[worker[w].item].Type = "Data"
Pending(i) ==
    \/ queue[i].State = "Ready" /\ queue[i].Type = "Data"
    \/ \E w \in Workers : worker[w].item = i /\ Transforming(w)
Units(i) == queue[i].Data .. queue[i].Data + queue[i].UnitCount - 1

\* The units of the call that have been given to a fragment are those below HandedOut.
HandedOut(c) == IF ClientAt(c, "await") THEN client[c].unitCount ELSE client[c].fragmentData

\* The units of the next k fragments, the first `longer' ones of `size' units.
UnitsLeft(k, size, longer) == k * size - (IF longer > 0 THEN k - longer ELSE 0)

Starting == {"lock", "testFirst", "sleepFirst"}

\* What is left of the call is what the fragments not yet filled will take.
Plan(c) ==
    /\ IF ClientAt(c, "idle") THEN client[c].unitCount = 0 ELSE client[c].unitCount \in 1 .. MaxUnits
    /\ client[c].pc \in Starting => client[c].fragmentData = 0
    /\ client[c].pc \in Starting \cup FillingItem \cup {"signalReady"} =>
          /\ client[c].fragmentStartUnitNo = client[c].fragmentData
          /\ client[c].remainder > 0 => client[c].remainder < Unfilled(c)
          /\ client[c].unitCount = client[c].fragmentData +
                UnitsLeft(Unfilled(c), client[c].unitsPerFragment, client[c].remainder)
PlanInv == \A c \in DataClients : Plan(c)

\* A fragment not yet transformed is one of a call that waits for it, and its units are
\* untouched.
PendingOf(i, c) ==
    /\ queue[i].Owner = c /\ client[c].pc \in InCall /\ queue[i].FirstFragment = client[c].first
    /\ queue[i].StartUnitNo = queue[i].Data
    /\ queue[i].Data + queue[i].UnitCount <= HandedOut(c)
    /\ \A u \in Units(i) : buffer[c][u] = << >>
PendingInv == \A i \in Slots : Pending(i) => \E c \in DataClients : PendingOf(i, c)

\* No two of them have a unit in common.
ApartInv ==
    \A i \in Slots : \A j \in Slots \ {i} :
        Pending(i) /\ Pending(j) /\ queue[i].Owner = queue[j].Owner => Units(i) \cap Units(j) = {}

\* The units handed out are done or in such a fragment; the others are untouched.
UnitsInv ==
    \A c \in DataClients : client[c].pc \in InCall => \A u \in Unit :
        IF u < HandedOut(c)
        THEN \/ buffer[c][u] = <<u>>
             \/ \E i \in Slots : Pending(i) /\ queue[i].Owner = c /\ u \in Units(i)
        ELSE buffer[c][u] = << >>

\* Before and after the work.
BufferInv ==
    \A c \in DataClients :
        /\ client[c].pc \in {"idle", "inline"} \cup Starting => buffer[c] = Clear
        /\ client[c].pc \in {"freeFirst", "signalFirst", "return"} =>
              buffer[c] = Service!Done(client[c].unitCount)

DataInv == PInv /\ PlanInv /\ PendingInv /\ ApartInv /\ UnitsInv /\ BufferInv


\* A call is split exactly.
LEMMA SplitExact ==
    ASSUME NEW n \in Nat, n > 0
    PROVE  /\ FragmentCount(n) \in Nat /\ FragmentCount(n) > 0
           /\ Remainder(n) > 0 => Remainder(n) < FragmentCount(n)
           /\ n = UnitsLeft(FragmentCount(n), UnitsPerFragment(n), Remainder(n))
<1>1. CASE n <= ThreadCount
  BY <1>1, SizeFacts DEF FragmentCount, Remainder, UnitsPerFragment, UnitsLeft
<1>2. CASE n > ThreadCount
  <2> DEFINE t == ThreadCount
             q == n \div t
             r == n % t
  <2>1. t \in Nat /\ t >= 2
    BY SizeFacts
  <2>2. /\ FragmentCount(n) = t /\ Remainder(n) = r
        /\ UnitsPerFragment(n) = IF r > 0 THEN q + 1 ELSE q
    BY <1>2, <2>1 DEF FragmentCount, Remainder, UnitsPerFragment
  <2> HIDE DEF t
  <2>3. q \in Nat /\ r \in Nat /\ r < t /\ n = t * q + r
    BY <2>1, SMT
  <2> HIDE DEF q, r
  <2>4. t * (q + 1) = t * q + t
    BY <2>1, <2>3, SMT
  <2>5. t * q \in Nat
    BY <2>1, <2>3, SMT
  <2> QED
    BY <2>1, <2>2, <2>3, <2>4, <2>5 DEF UnitsLeft
<1> QED
  BY <1>1, <1>2, SizeFacts

\* What is left before and after a fragment is filled, and in the end.
LEMMA LeftAfter ==
    ASSUME NEW k \in Nat, k > 0, NEW size \in Nat, NEW longer \in Nat,
           longer > 0 => longer < k /\ size > 0,
           NEW size2, size2 = IF longer = 1 THEN size - 1 ELSE size,
           NEW longer2, longer2 = IF longer > 0 THEN longer - 1 ELSE 0
    PROVE  /\ UnitsLeft(k, size, longer) = size + UnitsLeft(k - 1, size2, longer2)
           /\ longer2 > 0 => longer2 < k - 1
<1>1. (k - 1) * size = k * size - size /\ k * size \in Nat /\ (k - 1) * size \in Nat
  BY SMT
<1>2. longer = 1 => (k - 1) * (size - 1) = k * size - size - (k - 1)
  BY SMT
<1>3. longer2 > 0 => longer2 < k - 1
  OBVIOUS
<1>4. CASE longer = 1
  BY <1>1, <1>2, <1>4 DEF UnitsLeft
<1>5. CASE longer # 1
  BY <1>1, <1>5 DEF UnitsLeft
<1> QED
  BY <1>3, <1>4, <1>5

LEMMA LeftBounds ==
    ASSUME NEW k \in Nat, NEW size \in Nat, NEW longer \in Nat,
           longer > 0 => longer < k /\ size > 0
    PROVE  /\ UnitsLeft(k, size, longer) \in Nat
           /\ k = 0 => UnitsLeft(k, size, longer) = 0
<1>1. k * size \in Nat /\ (size > 0 => k * size >= k)
  BY SMT
<1>2. k = 0 => k * size = 0
  BY SMT
<1> QED
  BY <1>1, <1>2 DEF UnitsLeft


\* What the item says of its fragment.
JobSame(i) ==
    /\ queue'[i].Type = queue[i].Type /\ queue'[i].Owner = queue[i].Owner
    /\ queue'[i].FirstFragment = queue[i].FirstFragment /\ queue'[i].Data = queue[i].Data
    /\ queue'[i].StartUnitNo = queue[i].StartUnitNo /\ queue'[i].UnitCount = queue[i].UnitCount

LEMMA PendingHeld ==
    ASSUME NEW s \in Slots, Pending(s)
    PROVE  Held(s)
  BY DEF Pending, Transforming, Held, Attached, WorkerAt

\* Until it is transformed, the item of a fragment is ready or its worker's.
LEMMA PendingState ==
    ASSUME PInv, NEW s \in Slots, Pending(s)
    PROVE  ~IsFree(s) /\ queue[s].State \in {"Ready", "Busy"} /\ ~StopPending
<1>1. queue[s].State = "Ready" \/ \E w \in Workers : worker[w].item = s /\ Processing(w)
  BY DEF Pending, Transforming, Processing, WorkerAt
<1>2. queue[s].State \in {"Ready", "Busy"}
  BY <1>1 DEF PInv, ItemExclusive
<1>3. ~StopPending
  BY PendingHeld, NothingHeld
<1> QED
  BY <1>2, <1>3 DEF IsFree

LEMMA WorkerJobs ==
    ASSUME TypeInv, NEW w \in Workers, EncryptionThreadProc(w), NEW i \in Slots
    PROVE  JobSame(i) \/ (WorkerFree(w) /\ i = worker[w].item)
<1>0. queue \in [Slots -> WorkItem] /\ worker[w].item \in Slots
      /\ queue[worker[w].item].FirstFragment \in Slots
  BY ItemTypes DEF TypeInv, TypeOK
<1>1. CASE WorkerFree(w)
  BY <1>0, <1>1, WorkerFreeEffect, FreeEffect DEF JobSame
<1>2. CASE WorkerTake(w)
  BY <1>0, <1>2 DEF WorkerTake, JobSame, WorkItem
<1>3. CASE WorkerDecrement(w)
  <2> DEFINE f == queue[worker[w].item].FirstFragment
             left == queue[f].OutstandingFragmentCount - 1
  <2>1. queue' = [queue EXCEPT ![f].OutstandingFragmentCount = left]
    BY <1>3 DEF WorkerDecrement
  <2>2. f \in Slots /\ queue[f] \in WorkItem
    BY <1>0
  <2> HIDE DEF f, left
  <2> QED
    BY <1>0, <2>1, <2>2 DEF JobSame, WorkItem
<1>4. CASE WorkerSignalDone(w)
  <2> DEFINE f == queue[worker[w].item].FirstFragment
  <2>1. queue' = [queue EXCEPT ![f].ItemCompletedEvent = TRUE]
    BY <1>4 DEF WorkerSignalDone
  <2>2. f \in Slots /\ queue[f] \in WorkItem
    BY <1>0
  <2> HIDE DEF f
  <2> QED
    BY <1>0, <2>1, <2>2 DEF JobSame, WorkItem
<1>5. CASE queue' = queue
  BY <1>5 DEF JobSame
<1> QED
  BY <1>1, <1>2, <1>3, <1>4, <1>5 DEF EncryptionThreadProc, WorkerLoop, WorkerAcquire, WorkerSleep,
     WorkerWake, WorkerStopCheck, WorkerTransform, WorkerSignalFree, WorkerDerive,
     WorkerSignalKey, WorkerDecrementKey, WorkerSignalNoOutstanding

LEMMA ClientJobs ==
    ASSUME TypeInv, NEW c \in DataClients, EncryptionThreadPoolDoWork(c) \/ DoWorkCall(c),
           NEW i \in Slots
    PROVE  \/ JobSame(i)
           \/ DoWorkFill(c) /\ i = client[c].item
           \/ DoWorkFreeFirst(c) /\ i = client[c].first
<1>0. queue \in [Slots -> WorkItem] /\ client[c].first \in Slots /\ client[c].item \in Slots
  BY ItemTypes DEF TypeInv, TypeOK
<1>1. CASE DoWorkFill(c)
  BY <1>0, <1>1, DataFillEffect DEF DataFilled, JobSame
<1>2. CASE DoWorkFreeFirst(c)
  BY <1>0, <1>2, FreeEffect DEF DoWorkFreeFirst, JobSame
<1>3. CASE DoWorkBegin(c)
  BY <1>0, <1>3 DEF DoWorkBegin, JobSame, WorkItem
<1>4. CASE DoWorkAwait(c)
  BY <1>0, <1>4 DEF DoWorkAwait, JobSame, WorkItem
<1>5. CASE queue' = queue
  BY <1>5 DEF JobSame
<1> QED
  BY <1>1, <1>2, <1>3, <1>4, <1>5 DEF EncryptionThreadPoolDoWork, DoWorkCall, DoWorkInline,
     DoWorkLock, DoWorkSleep, DoWorkWake, DoWorkSignalReady, DoWorkSignalFirst, DoWorkReturn

\* A fragment that waits for its worker, or is its worker's, is not exchanged.
LEMMA PendingJob ==
    ASSUME PInv, [Next]_vars, NEW s \in Slots, Pending(s)
    PROVE  JobSame(s)
<1>0. /\ TypeInv /\ EnqueueInv /\ HeldInv /\ ItemExclusive /\ Held(s) /\ ~IsFree(s)
      /\ ~StopPending
  BY PendingHeld, PendingState DEF PInv
<1>1. ASSUME NEW w \in Workers, EncryptionThreadProc(w) PROVE JobSame(s)
  <2>1. ASSUME WorkerFree(w), s = worker[w].item PROVE FALSE
    <3>1. Processing(w) /\ queue[s].State = "Busy" /\ ~Transforming(w)
      BY <1>0, <2>1 DEF WorkerFree, Processing, ItemExclusive, Transforming, WorkerAt
    <3>2. PICK v \in Workers : worker[v].item = s /\ Transforming(v)
      BY <3>1 DEF Pending
    <3>3. Processing(v) /\ v # w
      BY <3>1, <3>2 DEF Transforming, Processing, WorkerAt
    <3> QED
      BY <1>0, <2>1, <3>1, <3>2, <3>3 DEF ItemExclusive
  <2> QED
    BY <1>0, <1>1, <2>1, WorkerJobs
<1>2. ASSUME NEW c \in DataClients, EncryptionThreadPoolDoWork(c) \/ DoWorkCall(c)
      PROVE  JobSame(s)
  <2>1. DoWorkFill(c) => s # client[c].item
    BY <1>0 DEF DoWorkFill
  <2>2. DoWorkFreeFirst(c) => s # client[c].first
    BY <1>0, FinishedNotHeld
  <2> QED
    BY <1>0, <1>2, <2>1, <2>2, ClientJobs
<1>3. ASSUME NEW k \in KeyClients, EncryptionThreadPoolBeginKeyDerivation(k) \/ KeyCaller(k)
      PROVE  JobSame(s)
  <2>1. KeyFilled(k) => s # key[k].item
    BY <1>0 DEF KeyFilled, EnqueueInv, KeyAt
  <2> QED
    BY <1>0, <1>3, <2>1, KeyKinds DEF KeyFilled, JobSame
<1>4. CASE Start \/ StartFails
  BY <1>0, <1>4, NothingHeld DEF Start, StartFails
<1>5. CASE EncryptionThreadPoolStop \/ UNCHANGED vars
  BY <1>5 DEF EncryptionThreadPoolStop, Stop, StopSignal, StopJoined, vars, JobSame
<1> QED
  BY <1>1, <1>2, <1>3, <1>4, <1>5 DEF Next, Pool


LEMMA OtherClientKinds ==
    ASSUME TypeInv, NEW c \in DataClients, EncryptionThreadPoolDoWork(c) \/ DoWorkCall(c),
           ~DoWorkFill(c), ~DoWorkFreeFirst(c), NEW i \in Slots
    PROVE  Kept(i)
<1>0. queue \in [Slots -> WorkItem] /\ client[c].first \in Slots
  BY ItemTypes DEF TypeInv, TypeOK
<1>1. CASE DoWorkBegin(c)
  BY <1>0, <1>1 DEF DoWorkBegin, Kept, WorkItem
<1>2. CASE DoWorkAwait(c)
  BY <1>0, <1>2 DEF DoWorkAwait, Kept, WorkItem
<1>3. CASE queue' = queue
  BY <1>3 DEF Kept
<1> QED
  BY <1>1, <1>2, <1>3 DEF EncryptionThreadPoolDoWork, DoWorkCall, DoWorkInline, DoWorkLock,
     DoWorkSleep, DoWorkWake, DoWorkSignalReady, DoWorkSignalFirst, DoWorkReturn

\* How a worker comes to have a fragment to transform.
LEMMA TransformingFrom ==
    ASSUME PInv, [Next]_vars, NEW v \in Workers, Transforming(v)'
    PROVE  \/ Transforming(v) /\ worker'[v].item = worker[v].item
           \/ /\ WorkerTake(v) /\ worker'[v].item = worker[v].item
              /\ queue[worker[v].item].State = "Ready" /\ queue[worker[v].item].Type = "Data"
<1>0. TypeInv /\ ControlInv /\ worker[v].item \in Slots
  BY ItemTypes DEF PInv, TypeInv
<1>1. Processing(v)'
  BY DEF Transforming, Processing, WorkerAt
<1>2. CASE WorkerTake(v) /\ ~StopPending
  <2>1. worker'[v].pc = "stopCheck" /\ worker'[v].item = worker[v].item
        /\ queue[worker[v].item].State = "Ready"
        /\ queue'[worker[v].item].Type = queue[worker[v].item].Type
    BY <1>0, <1>2, TakeEffect
  <2>2. queue'[worker'[v].item].Type = "Data"
    BY <2>1 DEF Transforming, WorkerAt
  <2> QED
    BY <1>2, <2>1, <2>2
<1>3. CASE /\ Processing(v) /\ worker'[v].item = worker[v].item /\ Kept(worker[v].item)
  <2>1. queue'[worker[v].item].Type = queue[worker[v].item].Type
    BY <1>3 DEF Kept
  <2>2. WorkerAt(v, "transform") \/ (WorkerAt(v, "stopCheck") /\ ~StopPending
                                       /\ queue[worker[v].item].Type = "Data")
    <3>1. CASE EncryptionThreadProc(v)
      <4> USE DEF WorkerGoes, WorkerAt, TypeInv, TypeOK
      <4>1. worker'[v].pc \in {"transform", "stopCheck"}
        BY DEF Transforming
      <4>2. CASE WorkerStopCheck(v)
        BY <1>0, <1>3, <4>1, <4>2 DEF WorkerStopCheck, flags, Processing
      <4>3. ~(WorkerLoop(v) \/ WorkerAcquire(v) \/ WorkerSleep(v) \/ WorkerWake(v)
                \/ WorkerTransform(v) \/ WorkerFree(v))
        BY <1>0, <4>1 DEF WorkerLoop, WorkerAcquire, WorkerSleep, WorkerWake,
                          WorkerTransform, WorkerFree
      <4>4. ~(WorkerSignalFree(v) \/ WorkerDecrement(v) \/ WorkerSignalDone(v) \/ WorkerDerive(v))
        BY <1>0, <4>1 DEF WorkerSignalFree, WorkerDecrement, WorkerSignalDone, WorkerDerive
      <4>5. ~(WorkerSignalKey(v) \/ WorkerDecrementKey(v) \/ WorkerSignalNoOutstanding(v))
        BY <1>0, <4>1 DEF WorkerSignalKey, WorkerDecrementKey, WorkerSignalNoOutstanding
      <4>6. ~WorkerTake(v)
        BY <1>3 DEF WorkerTake, Processing
      <4> QED
        BY <3>1, <4>2, <4>3, <4>4, <4>5, <4>6 DEF EncryptionThreadProc
    <3>2. CASE worker'[v] = worker[v] /\ (StopPending => StopPending')
      BY <1>3, <2>1, <3>2 DEF Transforming, WorkerAt
    <3>3. CASE Start \/ StartFails
      BY <3>3 DEF Start, StartFails, Created, Transforming, WorkerAt
    <3>4. CASE EncryptionThreadPoolStop \/ UNCHANGED vars
      BY <3>2, <3>4 DEF EncryptionThreadPoolStop, Stop, StopSignal, StopJoined, vars
    <3>5. ASSUME NEW w \in Workers \ {v}, EncryptionThreadProc(w)
          PROVE  worker'[v] = worker[v] /\ StopPending' = StopPending
      BY <1>0, <3>5, WorkerFrame
    <3>6. ASSUME NEW c \in DataClients, EncryptionThreadPoolDoWork(c) \/ DoWorkCall(c)
          PROVE  worker'[v] = worker[v] /\ StopPending' = StopPending
      BY <1>0, <3>6, ClientFrame
    <3>7. ASSUME NEW k \in KeyClients, EncryptionThreadPoolBeginKeyDerivation(k) \/ KeyCaller(k)
          PROVE  worker'[v] = worker[v] /\ StopPending' = StopPending
      BY <1>0, <3>7, KeyFrame
    <3> QED
      BY <3>1, <3>2, <3>3, <3>4, <3>5, <3>6, <3>7 DEF Next, Pool
  <2> QED
    BY <1>3, <2>2 DEF Transforming
<1> QED
  BY <1>1, <1>2, <1>3, ProcessingFrom

\* A fragment that is still to be transformed was so before, or has just been filled.
LEMMA PendingFrom ==
    ASSUME PInv, [Next]_vars, NEW i \in Slots, Pending(i)'
    PROVE  \/ Pending(i) /\ JobSame(i)
           \/ \E c \in DataClients : DoWorkFill(c) /\ i = client[c].item
<1>0. TypeInv /\ EnqueueInv /\ FirstInv
  BY DEF PInv
<1>1. ASSUME NEW v \in Workers, worker'[v].item = i, Transforming(v)' PROVE Pending(i)
  BY <1>1, TransformingFrom DEF Pending
<1>2. CASE queue'[i].State = "Ready" /\ queue'[i].Type = "Data"
  <2>1. ASSUME Kept(i) PROVE Pending(i)
    BY <1>2, <2>1 DEF Kept, Pending
  <2>2. ASSUME NEW w \in Workers, EncryptionThreadProc(w) PROVE Pending(i)
    <3>1. CASE WorkerQuiet(w)
      BY <2>1, <3>1 DEF WorkerQuiet
    <3>2. CASE WorkerTake(w)
      BY <1>0, <1>2, <2>1, <3>2, TakeEffect DEF Kept
    <3>3. CASE WorkerFree(w)
      BY <1>0, <1>2, <2>1, <3>3, WorkerFreeEffect, FreeEffect DEF Kept
    <3> QED
      BY <1>0, <2>2, <3>1, <3>2, <3>3, WorkerKinds
  <2>3. ASSUME NEW c \in DataClients, EncryptionThreadPoolDoWork(c) \/ DoWorkCall(c)
        PROVE  Pending(i) \/ (DoWorkFill(c) /\ i = client[c].item)
    <3>1. CASE DoWorkFill(c)
      BY <1>0, <2>1, <3>1, DataFillEffect DEF DataFilled, Kept
    <3>2. CASE DoWorkFreeFirst(c)
      BY <1>0, <1>2, <2>1, <3>2, FreeFirstEffect, FreeEffect DEF Kept
    <3>3. CASE ~DoWorkFill(c) /\ ~DoWorkFreeFirst(c)
      BY <1>0, <2>1, <2>3, <3>3, OtherClientKinds
    <3> QED
      BY <3>1, <3>2, <3>3
  <2>4. ASSUME NEW k \in KeyClients, EncryptionThreadPoolBeginKeyDerivation(k) \/ KeyCaller(k)
        PROVE  Pending(i)
    <3>1. CASE KeyFilled(k)
      BY <1>2, <2>1, <3>1 DEF KeyFilled, Kept
    <3> QED
      BY <1>0, <2>1, <2>4, <3>1, KeyKinds DEF Kept
  <2>5. ~(Start \/ StartFails)
    BY <1>2 DEF Start, StartFails, Reset, EmptyItem
  <2>6. CASE EncryptionThreadPoolStop \/ UNCHANGED vars
    <3>1. queue' = queue
      BY <2>6 DEF EncryptionThreadPoolStop, Stop, StopSignal, StopJoined, vars
    <3>2. Pending(i)
      BY <2>1, <3>1 DEF Kept
    <3> QED
      BY <3>2, PendingJob
  <2>7. Pending(i) \/ \E c \in DataClients : DoWorkFill(c) /\ i = client[c].item
    BY <2>2, <2>3, <2>4, <2>5, <2>6 DEF Next, Pool
  <2> QED
    BY <2>7, PendingJob
<1>3. (\E v \in Workers : worker'[v].item = i /\ Transforming(v)')
        \/ (queue'[i].State = "Ready" /\ queue'[i].Type = "Data")
  BY DEF Pending
<1>4. Pending(i) \/ \E c \in DataClients : DoWorkFill(c) /\ i = client[c].item
  BY <1>1, <1>2, <1>3
<1> QED
  BY <1>4, PendingJob

\* It remains so until a worker transforms it.
LEMMA PendingTo ==
    ASSUME PInv, [Next]_vars, NEW s \in Slots, Pending(s),
           \A w \in Workers : ~(WorkerTransform(w) /\ worker[w].item = s)
    PROVE  Pending(s)'
<1>0. /\ TypeInv /\ ControlInv /\ EnqueueInv /\ HeldInv /\ Held(s) /\ ~IsFree(s) /\ ~StopPending
  BY PendingHeld, PendingState DEF PInv
<1>1. JobSame(s)
  BY PendingJob
<1>2. StopPending' = FALSE /\ ~(Start \/ StartFails)
  <2>1. control \notin {"stopped", "stopping", "joining"}
    BY <1>0, NothingHeld
  <2>2. ~Stop
    <3>1. PICK c \in DataClients : client[c].pc \in InCall
      BY <1>0 DEF HeldInv
    <3> QED
      BY <3>1 DEF Stop, Quiescent, ClientAt, InCall
  <2>3. StopPending' = StopPending
    BY <1>0, <2>1, <2>2, WorkerFrame, ClientFrame, KeyFrame
    DEF Next, Pool, EncryptionThreadPoolStop, StopSignal, StopJoined, Start, StartFails, vars
  <2> QED
    BY <1>0, <2>1, <2>3 DEF Start, StartFails, TypeInv, TypeOK
<1>3. ASSUME NEW v \in Workers, worker[v].item = s, Transforming(v) PROVE Pending(s)'
  <2>1. CASE worker'[v] = worker[v]
    BY <1>1, <1>2, <1>3, <2>1 DEF Pending, Transforming, WorkerAt, JobSame
  <2>2. CASE EncryptionThreadProc(v)
    <3>1. WorkerStopCheck(v)
      BY <1>3, <2>2 DEF Transforming, WorkerAt, EncryptionThreadProc, WorkerLoop, WorkerAcquire,
         WorkerTake, WorkerSleep, WorkerWake, WorkerTransform, WorkerFree, WorkerSignalFree,
         WorkerDecrement, WorkerSignalDone, WorkerDerive, WorkerSignalKey, WorkerDecrementKey,
         WorkerSignalNoOutstanding
    <3>2. worker'[v].pc = "transform" /\ worker'[v].item = s
      BY <1>0, <1>3, <3>1 DEF WorkerStopCheck, WorkerGoes, Transforming, WorkerAt, TypeInv, TypeOK
    <3> QED
      BY <3>2 DEF Pending, Transforming, WorkerAt
  <2>3. ASSUME NEW w \in Workers \ {v}, EncryptionThreadProc(w) PROVE worker'[v] = worker[v]
    BY <1>0, <2>3, WorkerFrame
  <2>4. ASSUME NEW c \in DataClients, EncryptionThreadPoolDoWork(c) \/ DoWorkCall(c)
        PROVE  worker'[v] = worker[v]
    BY <1>0, <2>4, ClientFrame
  <2>5. ASSUME NEW k \in KeyClients, EncryptionThreadPoolBeginKeyDerivation(k) \/ KeyCaller(k)
        PROVE  worker'[v] = worker[v]
    BY <1>0, <2>5, KeyFrame
  <2>6. CASE EncryptionThreadPoolStop \/ UNCHANGED vars
    BY <2>1, <2>6 DEF EncryptionThreadPoolStop, Stop, StopSignal, StopJoined, vars
  <2> QED
    BY <1>2, <2>1, <2>2, <2>3, <2>4, <2>5, <2>6 DEF Next, Pool
<1>4. CASE queue[s].State = "Ready" /\ queue[s].Type = "Data"
  <2>1. ASSUME queue'[s].State = queue[s].State PROVE Pending(s)'
    BY <1>1, <1>4, <2>1 DEF Pending, JobSame
  <2>2. ASSUME NEW w \in Workers, EncryptionThreadProc(w) PROVE Pending(s)'
    <3>1. CASE WorkerQuiet(w)
      BY <2>1, <3>1 DEF WorkerQuiet, Kept
    <3>2. CASE WorkerTake(w)
      <4>1. CASE worker[w].item = s
        <5>1. worker'[w].pc = "stopCheck" /\ worker'[w].item = s
          BY <1>0, <3>2, <4>1, TakeEffect
        <5> QED
          BY <1>1, <1>2, <1>4, <5>1 DEF Pending, Transforming, WorkerAt, JobSame
      <4>2. CASE worker[w].item # s
        BY <1>0, <2>1, <3>2, <4>2, TakeEffect
      <4> QED
        BY <4>1, <4>2
    <3>3. CASE WorkerFree(w)
      <4>1. worker[w].item # s
        <5>1. Processing(w)
          BY <3>3 DEF WorkerFree, Processing
        <5> QED
          BY <1>4, <5>1 DEF PInv, ItemExclusive
      <4> QED
        BY <1>0, <2>1, <3>3, <4>1, WorkerFreeEffect, FreeEffect
    <3> QED
      BY <1>0, <2>2, <3>1, <3>2, <3>3, WorkerKinds
  <2>3. ASSUME NEW c \in DataClients, EncryptionThreadPoolDoWork(c) \/ DoWorkCall(c)
        PROVE  Pending(s)'
    <3>1. CASE DataFilled(c)
      BY <1>0, <1>4, <2>1, <3>1 DEF DataFilled, IsFree
    <3>2. CASE DoWorkFreeFirst(c)
      BY <1>0, <2>1, <3>2, FinishedNotHeld, FreeFirstEffect, FreeEffect DEF PInv
    <3> QED
      BY <1>0, <2>1, <2>3, <3>1, <3>2, ClientKinds DEF Kept
  <2>4. ASSUME NEW k \in KeyClients, EncryptionThreadPoolBeginKeyDerivation(k) \/ KeyCaller(k)
        PROVE  Pending(s)'
    <3>1. CASE KeyFilled(k)
      BY <1>0, <2>1, <3>1 DEF KeyFilled, EnqueueInv, KeyAt
    <3> QED
      BY <1>0, <2>1, <2>4, <3>1, KeyKinds
  <2>5. CASE EncryptionThreadPoolStop \/ UNCHANGED vars
    BY <2>1, <2>5 DEF EncryptionThreadPoolStop, Stop, StopSignal, StopJoined, vars
  <2> QED
    BY <1>2, <2>2, <2>3, <2>4, <2>5 DEF Next, Pool
<1> QED
  BY <1>3, <1>4 DEF Pending


-----------------------------------------------------------------------------
(* The caller's plan. *)

Splitting == Starting \cup FillingItem \cup {"signalReady"}

LEMMA LocalTypes ==
    ASSUME TypeInv, NEW c \in DataClients
    PROVE  /\ client \in [DataClients -> DoWorkLocals] /\ client[c] \in DoWorkLocals
           /\ client[c].unitCount \in Nat /\ client[c].fragmentCount \in Int
           /\ client[c].unitsPerFragment \in Nat /\ client[c].remainder \in Nat
           /\ client[c].fragmentData \in Nat /\ client[c].fragmentStartUnitNo \in Nat
           /\ client[c].pc \in ClientPc
           /\ client[c].remainder > 0 => client[c].unitsPerFragment > 0
  BY DEF TypeInv, TypeOK, DoWorkLocals, LongerFragments

\* Whose step changes a caller's locals.
LEMMA ClientFrom ==
    ASSUME TypeInv, [Next]_vars, NEW c \in DataClients
    PROVE  client'[c] = client[c] \/ EncryptionThreadPoolDoWork(c) \/ DoWorkCall(c)
<1>1. ASSUME NEW w \in Workers, EncryptionThreadProc(w) PROVE client'[c] = client[c]
  BY <1>1, WorkerFrame
<1>2. ASSUME NEW d \in DataClients \ {c}, EncryptionThreadPoolDoWork(d) \/ DoWorkCall(d)
      PROVE  client'[c] = client[c]
  BY <1>2, ClientFrame
<1>3. ASSUME NEW k \in KeyClients, EncryptionThreadPoolBeginKeyDerivation(k) \/ KeyCaller(k)
      PROVE  client'[c] = client[c]
  BY <1>3, KeyFrame
<1>4. CASE Start \/ StartFails \/ EncryptionThreadPoolStop \/ UNCHANGED vars
  BY <1>4 DEF Start, StartFails, EncryptionThreadPoolStop, Stop, StopSignal, StopJoined, vars, clients
<1> QED
  BY <1>1, <1>2, <1>3, <1>4 DEF Next, Pool

\* A call begins with nothing handed out, and its units are split exactly.
LEMMA CallEffect ==
    ASSUME TypeInv, NEW c \in DataClients, DoWorkCall(c)
    PROVE  \E n \in 1 .. MaxUnits :
              /\ client'[c].pc \in {"inline", "lock"} /\ client'[c].unitCount = n
              /\ client'[c].fragmentCount = FragmentCount(n)
              /\ client'[c].unitsPerFragment = UnitsPerFragment(n)
              /\ client'[c].remainder = Remainder(n)
              /\ client'[c].fragmentData = 0 /\ client'[c].fragmentStartUnitNo = 0
              /\ client' = [client EXCEPT ![c] = client'[c]]
              /\ ClientAt(c, "idle") /\ buffer' = buffer
<1>1. PICK n \in 1 .. MaxUnits :
          client' = [client EXCEPT ![c] =
              [IdleClient EXCEPT
                  !.pc = IF ~ThreadPoolRunning \/ n = 1 THEN "inline" ELSE "lock",
                  !.unitCount = n,
                  !.fragmentCount = FragmentCount(n),
                  !.unitsPerFragment = UnitsPerFragment(n),
                  !.remainder = Remainder(n)]]
  BY DEF DoWorkCall
<1> DEFINE called == [IdleClient EXCEPT
                  !.pc = IF ~ThreadPoolRunning \/ n = 1 THEN "inline" ELSE "lock",
                  !.unitCount = n,
                  !.fragmentCount = FragmentCount(n),
                  !.unitsPerFragment = UnitsPerFragment(n),
                  !.remainder = Remainder(n)]
<1>2. /\ called.pc \in {"inline", "lock"} /\ called.unitCount = n
      /\ called.fragmentCount = FragmentCount(n)
      /\ called.unitsPerFragment = UnitsPerFragment(n) /\ called.remainder = Remainder(n)
      /\ called.fragmentData = 0 /\ called.fragmentStartUnitNo = 0
  BY DEF IdleClient
<1>3. client' = [client EXCEPT ![c] = called] /\ client \in [DataClients -> DoWorkLocals]
  BY <1>1, LocalTypes
<1> HIDE DEF called
<1>4. client'[c] = called
  BY <1>3
<1> QED
  BY <1>2, <1>3, <1>4 DEF DoWorkCall

LEMMA FillEffect ==
    ASSUME TypeInv, NEW c \in DataClients, DoWorkFill(c)
    PROVE  LET me == client[c] IN
           /\ ClientAt(c, "testItem") /\ client'[c].pc = "signalReady"
           /\ client'[c].unitCount = me.unitCount
           /\ client'[c].fragmentCount = me.fragmentCount /\ client'[c].first = me.first
           /\ client'[c].fragmentData = me.fragmentData + me.unitsPerFragment
           /\ client'[c].fragmentStartUnitNo = me.fragmentStartUnitNo + me.unitsPerFragment
           /\ client'[c].remainder = IF me.remainder > 0 THEN me.remainder - 1 ELSE 0
           /\ client'[c].unitsPerFragment =
                 IF me.remainder = 1 THEN me.unitsPerFragment - 1 ELSE me.unitsPerFragment
           /\ buffer' = buffer
           /\ queue'[me.item].Owner = c /\ queue'[me.item].FirstFragment = me.first
           /\ queue'[me.item].Data = me.fragmentData
           /\ queue'[me.item].StartUnitNo = me.fragmentStartUnitNo
           /\ queue'[me.item].UnitCount = me.unitsPerFragment
<1>0. /\ client \in [DataClients -> DoWorkLocals] /\ client[c] \in DoWorkLocals
      /\ queue \in [Slots -> WorkItem] /\ client[c].item \in Slots
  BY LocalTypes, ItemTypes DEF TypeInv, TypeOK
<1>1. /\ queue'[client[c].item].Owner = c /\ queue'[client[c].item].FirstFragment = client[c].first
      /\ queue'[client[c].item].Data = client[c].fragmentData
      /\ queue'[client[c].item].StartUnitNo = client[c].fragmentStartUnitNo
      /\ queue'[client[c].item].UnitCount = client[c].unitsPerFragment
  BY <1>0 DEF DoWorkFill, WorkItem
<1>2. ClientAt(c, "testItem") /\ buffer' = buffer
  BY DEF DoWorkFill
<1> QED
  BY <1>0, <1>1, <1>2 DEF DoWorkFill, DoWorkLocals

\* All other steps of a call leave the plan as it is.
PlanKept(c) ==
    /\ client'[c].unitCount = client[c].unitCount /\ ~ClientAt(c, "idle") /\ ~ClientAt(c, "idle")'
    /\ client'[c].pc \in Splitting =>
          /\ client[c].pc \in Splitting /\ (client'[c].pc \in Starting => client[c].pc \in Starting)
          /\ client'[c].fragmentData = client[c].fragmentData
          /\ client'[c].fragmentStartUnitNo = client[c].fragmentStartUnitNo
          /\ client'[c].remainder = client[c].remainder
          /\ client'[c].unitsPerFragment = client[c].unitsPerFragment
          /\ Unfilled(c)' = Unfilled(c)

LEMMA PlanKeeping ==
    ASSUME TypeInv, NEW c \in DataClients, EncryptionThreadPoolDoWork(c),
           ~DoWorkFill(c), ~DoWorkReturn(c)
    PROVE  PlanKept(c)
<1> USE LocalTypes DEF PlanKept, Splitting, Starting, FillingItem, ClientAt, Unfilled
<1>1. CASE DoWorkInline(c) \/ DoWorkAwait(c) \/ DoWorkFreeFirst(c) \/ DoWorkSignalFirst(c)
  BY <1>1 DEF DoWorkInline, DoWorkAwait, DoWorkFreeFirst, DoWorkSignalFirst, ClientGoes, DoWorkLocals
<1>2. CASE DoWorkLock(c)
  BY <1>2 DEF DoWorkLock, DoWorkLocals
<1>3. CASE DoWorkBegin(c)
  BY <1>3 DEF DoWorkBegin, TakeSlot, DoWorkLocals
<1>4. CASE DoWorkSleep(c)
  BY <1>4 DEF DoWorkSleep, ClientGoes, DoWorkLocals
<1>5. CASE DoWorkWake(c)
  BY <1>5 DEF DoWorkWake, ClientGoes, DoWorkLocals
<1>6. CASE DoWorkSignalReady(c)
  <2>1. CASE client[c].fragmentCount > 0 /\ TakeSlot(c)
    BY <1>6, <2>1 DEF DoWorkSignalReady, TakeSlot, DoWorkLocals
  <2>2. CASE client' = [client EXCEPT ![c] =
                 [IdleClient EXCEPT !.pc = "await", !.first = client[c].first,
                                    !.unitCount = client[c].unitCount]]
    <3> DEFINE waiting == [IdleClient EXCEPT !.pc = "await", !.first = client[c].first,
                                    !.unitCount = client[c].unitCount]
    <3>1. waiting.pc = "await" /\ waiting.unitCount = client[c].unitCount
      BY DEF IdleClient
    <3>2. client'[c] = waiting
      BY <2>2
    <3> HIDE DEF waiting
    <3> QED
      BY <1>6, <3>1, <3>2 DEF DoWorkSignalReady
  <2> QED
    BY <1>6, <2>1, <2>2 DEF DoWorkSignalReady
<1> QED
  BY <1>1, <1>2, <1>3, <1>4, <1>5, <1>6 DEF EncryptionThreadPoolDoWork

LEMMA ReturnEffect ==
    ASSUME TypeInv, NEW c \in DataClients, DoWorkReturn(c)
    PROVE  /\ ClientAt(c, "return") /\ ClientAt(c, "idle")' /\ client'[c].unitCount = 0
           /\ buffer' = [buffer EXCEPT ![c] = Clear] /\ buffer'[c] = Clear
  BY LocalTypes DEF DoWorkReturn, IdleClient, ClientAt, TypeInv, TypeOK

LEMMA PlanStep ==
    ASSUME TypeInv, LeftInv, PlanInv, [Next]_vars
    PROVE  PlanInv'
<1> SUFFICES ASSUME NEW c \in DataClients PROVE Plan(c)'
  BY DEF PlanInv
<1>0. Plan(c)
  BY DEF PlanInv
<1>1. CASE client'[c] = client[c]
  BY <1>0, <1>1 DEF Plan, ClientAt, Unfilled
<1>2. CASE DoWorkCall(c)
  <2>1. PICK n \in 1 .. MaxUnits :
              /\ client'[c].pc \in {"inline", "lock"} /\ client'[c].unitCount = n
              /\ client'[c].fragmentCount = FragmentCount(n)
              /\ client'[c].unitsPerFragment = UnitsPerFragment(n)
              /\ client'[c].remainder = Remainder(n)
              /\ client'[c].fragmentData = 0 /\ client'[c].fragmentStartUnitNo = 0
    BY <1>2, CallEffect
  <2>2. n \in Nat /\ n > 0
    BY PoolAssumption DEF PoolAssumption
  <2>3. Unfilled(c)' = FragmentCount(n)
    BY <2>1, <2>2, SplitExact DEF Unfilled
  <2>4. Remainder(n) > 0 => Remainder(n) < FragmentCount(n)
    BY <2>2, SplitExact
  <2>5. n = 0 + UnitsLeft(FragmentCount(n), UnitsPerFragment(n), Remainder(n))
    BY <2>2, SplitExact
  <2> QED
    BY <2>1, <2>3, <2>4, <2>5 DEF Plan, ClientAt
<1>3. CASE DoWorkFill(c)
  <2> DEFINE me == client[c]
             k == me.fragmentCount + 1
             size == me.unitsPerFragment
             longer == me.remainder
             size2 == IF longer = 1 THEN size - 1 ELSE size
             longer2 == IF longer > 0 THEN longer - 1 ELSE 0
  <2>0. /\ me.pc = "testItem" /\ client'[c].pc = "signalReady"
        /\ client'[c].unitCount = me.unitCount
        /\ client'[c].fragmentCount = me.fragmentCount
        /\ client'[c].fragmentData = me.fragmentData + size
        /\ client'[c].fragmentStartUnitNo = me.fragmentStartUnitNo + size
        /\ client'[c].remainder = longer2 /\ client'[c].unitsPerFragment = size2
    BY <1>3, FillEffect DEF ClientAt
  <2>1. /\ Unfilled(c) = k /\ Unfilled(c)' = k - 1 /\ k \in Nat /\ k > 0
    BY <2>0, LocalTypes DEF Unfilled, LeftInv, FillingItem
  <2>2. /\ size \in Nat /\ longer \in Nat /\ me.fragmentData \in Nat
        /\ longer > 0 => longer < k /\ size > 0
        /\ me.fragmentStartUnitNo = me.fragmentData
        /\ me.unitCount = me.fragmentData + UnitsLeft(k, size, longer)
        /\ me.unitCount \in 1 .. MaxUnits
    BY <1>0, <2>0, <2>1, LocalTypes DEF Plan, FillingItem, ClientAt
  <2>3. UnitsLeft(k - 1, size2, longer2) \in Int
    BY <2>1, <2>2 DEF UnitsLeft
  <2>4. /\ size2 = IF longer = 1 THEN size - 1 ELSE size
        /\ longer2 = IF longer > 0 THEN longer - 1 ELSE 0
    OBVIOUS
  <2> HIDE DEF k, size, longer, size2, longer2, me
  <2>5. /\ UnitsLeft(k, size, longer) = size + UnitsLeft(k - 1, size2, longer2)
        /\ longer2 > 0 => longer2 < k - 1
    BY <2>1, <2>2, <2>4, LeftAfter
  <2>6. me.unitCount = (me.fragmentData + size) + UnitsLeft(k - 1, size2, longer2)
    BY <2>2, <2>5, <2>3
  <2>7. client'[c].unitCount = client'[c].fragmentData
             + UnitsLeft(Unfilled(c)', client'[c].unitsPerFragment, client'[c].remainder)
    BY <2>0, <2>1, <2>6
  <2>8. (client[c].remainder > 0 => client[c].remainder < Unfilled(c))'
    BY <2>0, <2>1, <2>5
  <2> QED
    BY <2>0, <2>2, <2>7, <2>8 DEF Plan, ClientAt, Starting
<1>4. CASE DoWorkReturn(c)
  BY <1>4, ReturnEffect DEF Plan, ClientAt, Starting, FillingItem
<1>5. CASE PlanKept(c)
  BY <1>0, <1>5 DEF PlanKept, Plan, Splitting, Starting, FillingItem, ClientAt
<1> QED
  BY <1>1, <1>2, <1>3, <1>4, <1>5, ClientFrom, PlanKeeping


-----------------------------------------------------------------------------
(* The units of a call. *)

LEMMA UnitFacts == MaxUnits \in Nat /\ Unit = 0 .. MaxUnits - 1 /\ \A u \in Unit : u \in Nat
  BY PoolAssumption DEF PoolAssumption, Unit

\* What has been handed out are units of the call; all of them once the caller waits.
LEMMA HandedBounds ==
    ASSUME TypeInv, LeftInv, PlanInv, NEW c \in DataClients, client[c].pc \in InCall
    PROVE  /\ HandedOut(c) \in Nat /\ HandedOut(c) <= client[c].unitCount
           /\ client[c].unitCount \in Nat /\ client[c].unitCount <= MaxUnits
           /\ ClientAt(c, "signalReady") /\ client[c].fragmentCount = 0 =>
                 HandedOut(c) = client[c].unitCount
<1>1. CASE ClientAt(c, "await")
  BY <1>1, UnitFacts DEF HandedOut, ClientAt, PlanInv, Plan
<1>2. CASE ~ClientAt(c, "await")
  <2> DEFINE left == UnitsLeft(Unfilled(c), client[c].unitsPerFragment, client[c].remainder)
  <2>1. /\ Unfilled(c) \in Nat
        /\ ClientAt(c, "signalReady") /\ client[c].fragmentCount = 0 => Unfilled(c) = 0
    BY <1>2, LocalTypes DEF Unfilled, LeftInv, InCall, FillingItem, ClientAt
  <2>2. /\ client[c].remainder > 0 => client[c].remainder < Unfilled(c)
        /\ client[c].unitCount = client[c].fragmentData + left
        /\ client[c].unitCount \in 1 .. MaxUnits
    BY <1>2 DEF PlanInv, Plan, InCall, FillingItem, ClientAt
  <2>3. left \in Nat /\ (Unfilled(c) = 0 => left = 0)
    BY <2>1, <2>2, LocalTypes, LeftBounds
  <2> HIDE DEF left
  <2> QED
    BY <1>2, <2>1, <2>2, <2>3, LocalTypes, UnitFacts DEF HandedOut, ClientAt
<1> QED
  BY <1>1, <1>2

\* A call goes on to the end, with its first item.
LEMMA CallGoesOn ==
    ASSUME PInv, [Next]_vars, NEW c \in DataClients, client[c].pc \in InCall
    PROVE  \/ client'[c].pc \in InCall /\ client'[c].first = client[c].first
           \/ DoWorkAwait(c)
<1>0. TypeInv /\ EnqueueInv
  BY DEF PInv
<1>1. CASE DataFilled(c)
  BY <1>1 DEF DataFilled, InCall
<1> QED
  BY <1>0, <1>1, ClientFrom, CallerMovement DEF CallerMoves

LEMMA CallBegins ==
    ASSUME PInv, [Next]_vars, NEW c \in DataClients, client[c].pc \notin InCall,
           client'[c].pc \in InCall
    PROVE  DoWorkBegin(c)
<1>0. TypeInv /\ EnqueueInv
  BY DEF PInv
<1>1. ~DataFilled(c)
  BY DEF DataFilled, InCall, ClientAt
<1> QED
  BY <1>0, <1>1, ClientFrom, CallerMovement DEF CallerMoves

\* Only filling an item hands out units.
LEMMA HandedKept ==
    ASSUME TypeInv, LeftInv, PlanInv, [Next]_vars, NEW c \in DataClients,
           client[c].pc \in InCall, client'[c].pc \in InCall, ~DoWorkFill(c)
    PROVE  HandedOut(c)' = HandedOut(c)
<1>1. CASE client'[c] = client[c]
  BY <1>1 DEF HandedOut, ClientAt
<1>2. CASE EncryptionThreadPoolDoWork(c) /\ client'[c].pc # "await"
  <2>1. PlanKept(c)
    BY <1>2, PlanKeeping, ReturnEffect DEF InCall, ClientAt
  <2>2. client[c].pc \in Splitting /\ client'[c].pc \in Splitting
        /\ client'[c].fragmentData = client[c].fragmentData
    BY <1>2, <2>1 DEF PlanKept, Splitting, InCall, FillingItem
  <2> QED
    BY <1>2, <2>2 DEF HandedOut, ClientAt, Splitting, Starting, FillingItem
<1>3. CASE EncryptionThreadPoolDoWork(c) /\ client'[c].pc = "await"
  <2>1. PlanKept(c)
    BY <1>3, PlanKeeping, ReturnEffect DEF ClientAt
  <2>2. CASE DoWorkSignalReady(c)
    <3>1. ClientAt(c, "signalReady") /\ client[c].fragmentCount = 0
      BY <1>3, <2>2, SignalReadyEffect
    <3>2. HandedOut(c) = client[c].unitCount
      BY <3>1, HandedBounds
    <3> QED
      BY <1>3, <2>1, <3>2 DEF HandedOut, ClientAt, PlanKept
  <2>3. CASE ~DoWorkSignalReady(c)
    <3> USE <1>3, <2>3, LocalTypes DEF ClientGoes, DoWorkLocals, ClientAt
    <3>1. ~DoWorkInline(c) /\ ~DoWorkLock(c) /\ ~DoWorkSleep(c) /\ ~DoWorkWake(c)
      BY DEF DoWorkInline, DoWorkLock, DoWorkSleep, DoWorkWake
    <3>2. ~DoWorkBegin(c)
      BY DEF DoWorkBegin, TakeSlot
    <3>3. ~DoWorkAwait(c) /\ ~DoWorkFreeFirst(c) /\ ~DoWorkSignalFirst(c) /\ ~DoWorkReturn(c)
      BY DEF DoWorkAwait, DoWorkFreeFirst, DoWorkSignalFirst, DoWorkReturn, IdleClient
    <3> QED
      BY <3>1, <3>2, <3>3 DEF EncryptionThreadPoolDoWork
  <2> QED
    BY <2>2, <2>3
<1>4. ~DoWorkCall(c)
  BY DEF DoWorkCall, InCall, ClientAt
<1> QED
  BY <1>1, <1>2, <1>3, <1>4, ClientFrom

\* Who changes a caller's buffer.
LEMMA BufferFrom ==
    ASSUME TypeInv, [Next]_vars, NEW c \in DataClients
    PROVE  \/ buffer'[c] = buffer[c]
           \/ \E w \in Workers : WorkerTransform(w) /\ queue[worker[w].item].Owner = c
           \/ DoWorkInline(c) \/ DoWorkReturn(c)
<1>0. buffer \in [DataClients -> [Unit -> Seq(Nat)]]
  BY DEF TypeInv, TypeOK
<1>1. ASSUME NEW w \in Workers, EncryptionThreadProc(w)
      PROVE  buffer'[c] = buffer[c] \/ (WorkerTransform(w) /\ queue[worker[w].item].Owner = c)
  <2>1. CASE WorkerTransform(w)
    BY <1>0, <2>1 DEF WorkerTransform
  <2> QED
    BY <1>1, <2>1 DEF EncryptionThreadProc, WorkerLoop, WorkerAcquire, WorkerTake, WorkerSleep,
       WorkerWake, WorkerStopCheck, WorkerFree, WorkerSignalFree, WorkerDecrement,
       WorkerSignalDone, WorkerDerive, WorkerSignalKey, WorkerDecrementKey,
       WorkerSignalNoOutstanding, clients
<1>2. ASSUME NEW d \in DataClients, EncryptionThreadPoolDoWork(d) \/ DoWorkCall(d)
      PROVE  buffer'[c] = buffer[c] \/ DoWorkInline(c) \/ DoWorkReturn(c)
  <2>1. CASE DoWorkInline(d) \/ DoWorkReturn(d)
    BY <1>0, <2>1 DEF DoWorkInline, DoWorkReturn
  <2> QED
    BY <1>2, <2>1 DEF EncryptionThreadPoolDoWork, DoWorkCall, DoWorkLock, DoWorkBegin, DoWorkFill,
       DoWorkSleep, DoWorkWake, DoWorkSignalReady, DoWorkAwait, DoWorkFreeFirst, DoWorkSignalFirst
<1>3. ASSUME NEW k \in KeyClients, EncryptionThreadPoolBeginKeyDerivation(k) \/ KeyCaller(k)
      PROVE  buffer' = buffer
  BY <1>3 DEF EncryptionThreadPoolBeginKeyDerivation, KeyCaller, BeginKeyDerivation, BeginKeyLock,
     BeginKeySleep, BeginKeyWake, BeginKeyCount, BeginKeyClear, BeginKeyFill,
     BeginKeySignalReady, clients
<1>4. CASE Start \/ StartFails \/ EncryptionThreadPoolStop \/ UNCHANGED vars
  BY <1>4 DEF Start, StartFails, EncryptionThreadPoolStop, Stop, StopSignal, StopJoined, vars, clients
<1> QED
  BY <1>1, <1>2, <1>3, <1>4 DEF Next, Pool


\* A fragment's units are units of its call.
LEMMA PendingUnits ==
    ASSUME TypeInv, LeftInv, PlanInv, NEW i \in Slots, NEW c \in DataClients, PendingOf(i, c)
    PROVE  /\ Units(i) \subseteq Unit
           /\ \A u \in Units(i) : u \in Nat /\ u < HandedOut(c) /\ u < client[c].unitCount
<1>1. queue[i].Data \in Nat /\ queue[i].UnitCount \in Nat
  BY DEF TypeInv, TypeOK, WorkItem
<1>2. HandedOut(c) \in Nat /\ HandedOut(c) <= client[c].unitCount /\ client[c].unitCount \in Nat
      /\ client[c].unitCount <= MaxUnits
  BY HandedBounds DEF PendingOf
<1>3. queue[i].Data + queue[i].UnitCount <= HandedOut(c)
  BY DEF PendingOf
<1>4. ASSUME NEW u \in Units(i)
      PROVE  u \in Unit /\ u \in Nat /\ u < HandedOut(c) /\ u < client[c].unitCount
  <2>1. u \in queue[i].Data .. queue[i].Data + queue[i].UnitCount - 1
    BY DEF Units
  <2> QED
    BY <1>1, <1>2, <1>3, <2>1, UnitFacts
<1> QED
  BY <1>4

\* The units of a fragment are transformed once, and the worker has done with it.
LEMMA TransformEffect ==
    ASSUME DataInv, NEW w \in Workers, WorkerTransform(w)
    PROVE  \E c \in DataClients, i \in Slots :
              /\ i = worker[w].item /\ Pending(i) /\ PendingOf(i, c)
              /\ buffer' = [buffer EXCEPT ![c] =
                     [u \in Unit |-> IF u \in Units(i) THEN <<u>> ELSE buffer[c][u]]]
              /\ ~Pending(i)'
              /\ \A v \in Workers : WorkerTransform(v) => v = w
              /\ UNCHANGED <<client, queue>>
<1>00. PICK i \in Slots : i = worker[w].item
  BY ItemTypes DEF DataInv, PInv, TypeInv
<1>0. /\ TypeInv /\ LeftInv /\ PlanInv /\ ItemExclusive
      /\ queue \in [Slots -> WorkItem] /\ worker \in [Workers -> [pc : WorkerPc, item : Slots]]
  BY ItemTypes DEF DataInv, PInv, TypeInv, TypeOK
<1>1. WorkerAt(w, "transform") /\ Transforming(w) /\ Pending(i)
  BY <1>00 DEF WorkerTransform, Transforming, Pending
<1>2. PICK c \in DataClients : PendingOf(i, c)
  BY <1>0, <1>1 DEF DataInv, PendingInv
<1>3. /\ queue[i].Owner = c /\ queue[i].StartUnitNo = queue[i].Data
      /\ \A u \in Units(i) : buffer[c][u] = << >>
  BY <1>2 DEF PendingOf
<1>4. buffer' = [buffer EXCEPT ![c] =
                    Transformed(buffer[c], queue[i].Data, queue[i].StartUnitNo, queue[i].UnitCount)]
  BY <1>00, <1>3 DEF WorkerTransform
<1>5. Transformed(buffer[c], queue[i].Data, queue[i].StartUnitNo, queue[i].UnitCount)
        = [u \in Unit |-> IF u \in Units(i) THEN <<u>> ELSE buffer[c][u]]
  <2>1. queue[i].Data \in Nat /\ queue[i].UnitCount \in Nat
    BY <1>0 DEF WorkItem
  <2>2. ASSUME NEW u \in Unit, u \in Units(i)
        PROVE  Append(buffer[c][u], queue[i].StartUnitNo + (u - queue[i].Data)) = <<u>>
    <3>1. u \in Nat /\ queue[i].StartUnitNo + (u - queue[i].Data) = u
      BY <1>3, <2>1, <2>2, UnitFacts
    <3>2. buffer[c][u] = << >>
      BY <1>3, <2>2
    <3> QED
      BY <3>1, <3>2
  <2> QED
    BY <2>2 DEF Transformed, Units
<1>6. UNCHANGED <<client, queue>> /\ UNCHANGED StopPending
  BY DEF WorkerTransform, flags
<1>7. /\ worker'[w].pc \in {"free", "decrement"} /\ \A v \in Workers \ {w} : worker'[v] = worker[v]
  BY <1>0 DEF WorkerTransform, WorkerGoes
<1>8. ~Pending(i)'
  <2>1. Processing(w) /\ queue[i].State = "Busy"
    BY <1>00, <1>0, <1>1 DEF Processing, ItemExclusive, WorkerAt
  <2>2. ASSUME NEW v \in Workers, worker'[v].item = i, Transforming(v)' PROVE FALSE
    <3>1. v # w
      BY <1>7, <2>2 DEF Transforming, WorkerAt
    <3>2. worker[v].item = i /\ Processing(v)
      BY <1>6, <1>7, <2>2, <3>1 DEF Transforming, Processing, WorkerAt
    <3> QED
      BY <1>00, <1>0, <2>1, <3>1, <3>2 DEF ItemExclusive
  <2> QED
    BY <1>6, <2>1, <2>2 DEF Pending
<1>9. ASSUME NEW v \in Workers, WorkerTransform(v), v # w PROVE FALSE
  <2>1. worker'[w] = worker[w]
    BY <1>0, <1>9 DEF WorkerTransform, WorkerGoes
  <2> QED
    BY <1>1, <1>7, <2>1 DEF WorkerAt
<1> QED
  BY <1>00, <1>1, <1>2, <1>4, <1>5, <1>6, <1>8, <1>9

\* A fragment takes its units from what is left of the call.
LEMMA FillBounds ==
    ASSUME TypeInv, LeftInv, PlanInv, NEW c \in DataClients, DoWorkFill(c)
    PROVE  /\ client[c].fragmentData + client[c].unitsPerFragment <= MaxUnits
           /\ client[c].fragmentStartUnitNo = client[c].fragmentData
           /\ HandedOut(c) = client[c].fragmentData
           /\ HandedOut(c)' = client[c].fragmentData + client[c].unitsPerFragment
<1> DEFINE me == client[c]
           k == me.fragmentCount + 1
           size == me.unitsPerFragment
           longer == me.remainder
           size2 == IF longer = 1 THEN size - 1 ELSE size
           longer2 == IF longer > 0 THEN longer - 1 ELSE 0
<1>0. ClientAt(c, "testItem") /\ client'[c].pc = "signalReady"
      /\ client'[c].fragmentData = me.fragmentData + size
  BY FillEffect
<1>1. Unfilled(c) = k /\ k \in Nat /\ k > 0
  BY <1>0, LocalTypes DEF Unfilled, LeftInv, FillingItem, ClientAt
<1>2. /\ size \in Nat /\ longer \in Nat /\ me.fragmentData \in Nat
      /\ longer > 0 => longer < k /\ size > 0
      /\ me.fragmentStartUnitNo = me.fragmentData
      /\ me.unitCount = me.fragmentData + UnitsLeft(k, size, longer)
      /\ me.unitCount \in 1 .. MaxUnits
  BY <1>0, <1>1, LocalTypes DEF PlanInv, Plan, FillingItem, ClientAt
<1>3. HandedOut(c) = me.fragmentData /\ HandedOut(c)' = me.fragmentData + size
  BY <1>0 DEF HandedOut, ClientAt
<1>4. /\ size2 = IF longer = 1 THEN size - 1 ELSE size
      /\ longer2 = IF longer > 0 THEN longer - 1 ELSE 0
  OBVIOUS
<1> HIDE DEF k, size, longer, size2, longer2
<1>5. /\ UnitsLeft(k, size, longer) = size + UnitsLeft(k - 1, size2, longer2)
      /\ longer2 > 0 => longer2 < k - 1
  BY <1>1, <1>2, <1>4, LeftAfter
<1>6. UnitsLeft(k - 1, size2, longer2) \in Nat
  <2>1. size2 \in Nat /\ longer2 \in Nat /\ (longer2 > 0 => size2 > 0) /\ k - 1 \in Nat
    BY <1>1, <1>2, <1>4
  <2> QED
    BY <1>5, <2>1, LeftBounds
<1>7. me.fragmentData + size <= MaxUnits
  BY <1>2, <1>5, <1>6, UnitFacts
<1> QED
  BY <1>2, <1>3, <1>7 DEF size


\* A fragment that is filled is one of the units that come next, and then to be transformed.
LEMMA Filled ==
    ASSUME PInv, [Next]_vars, NEW c \in DataClients, DoWorkFill(c)
    PROVE  /\ \A d \in DataClients : DoWorkFill(d) => d = c
           /\ \A w \in Workers : ~WorkerTransform(w)
           /\ client[c].pc \in InCall /\ client'[c].pc \in InCall
           /\ \E i \in Slots : i = client[c].item /\ Pending(i)'
<1>0. TypeInv /\ EnqueueInv
  BY DEF PInv
<1>1. ASSUME NEW d \in DataClients, DoWorkFill(d) PROVE d = c
  BY <1>0, <1>1 DEF DoWorkFill, EnqueueInv, ClientAt, FillingItem
<1>2. DataFilled(c)
  BY <1>0, DataFillEffect
<1>3. client[c].pc = "testItem" /\ client'[c].pc = "signalReady"
  BY <1>2 DEF DataFilled, ClientAt
<1>4. \A w \in Workers : ~WorkerTransform(w)
  BY <1>3 DEF WorkerTransform
<1>5. PICK i \in Slots : i = client[c].item
  BY <1>0, ItemTypes DEF TypeInv
<1>6. Pending(i)'
  BY <1>2, <1>5 DEF DataFilled, Pending
<1> QED
  BY <1>1, <1>3, <1>4, <1>5, <1>6 DEF InCall

\* What becomes of a fragment that waits, and of its units.
LEMMA PendingOfStep ==
    ASSUME DataInv, [Next]_vars, NEW i \in Slots, Pending(i), Pending(i)', JobSame(i),
           NEW c \in DataClients, PendingOf(i, c)
    PROVE  PendingOf(i, c)'
<1>0. /\ PInv /\ TypeInv /\ LeftInv /\ PlanInv /\ Held(i)
      /\ buffer \in [DataClients -> [Unit -> Seq(Nat)]]
  BY PendingHeld DEF DataInv, PInv, TypeInv, TypeOK
<1>1. client[c].pc \in InCall /\ queue[i].FirstFragment = client[c].first
      /\ queue[i].Owner = c /\ queue[i].StartUnitNo = queue[i].Data
      /\ queue[i].Data + queue[i].UnitCount <= HandedOut(c)
  BY DEF PendingOf
<1>2. client'[c].pc \in InCall /\ client'[c].first = client[c].first
  <2>1. ~DoWorkAwait(c)
    BY <1>0, <1>1, NothingLeft
  <2> QED
    BY <1>0, <1>1, <2>1, CallGoesOn
<1>3. /\ queue'[i].Owner = c /\ queue'[i].FirstFragment = client'[c].first
      /\ queue'[i].StartUnitNo = queue'[i].Data /\ queue'[i].Data = queue[i].Data
      /\ queue'[i].UnitCount = queue[i].UnitCount
  BY <1>1, <1>2 DEF JobSame
<1>4. queue'[i].Data + queue'[i].UnitCount <= HandedOut(c)'
  <2>1. queue[i].Data \in Nat /\ queue[i].UnitCount \in Nat
    BY <1>0 DEF TypeInv, TypeOK, WorkItem
  <2>2. CASE DoWorkFill(c)
    <3>1. HandedOut(c)' = HandedOut(c) + client[c].unitsPerFragment
          /\ HandedOut(c) = client[c].fragmentData
      BY <1>0, <2>2, FillBounds
    <3> QED
      BY <1>0, <1>1, <1>3, <2>1, <3>1, LocalTypes
  <2>3. CASE ~DoWorkFill(c)
    BY <1>0, <1>1, <1>2, <1>3, <2>3, HandedKept
  <2> QED
    BY <2>2, <2>3
<1>5. ASSUME NEW u \in Units(i) PROVE buffer'[c][u] = << >>
  <2>1. buffer[c][u] = << >> /\ u \in Unit
    BY <1>0, PendingUnits DEF PendingOf
  <2>2. ASSUME NEW w \in Workers, WorkerTransform(w) PROVE buffer'[c][u] = << >>
    <3>1. PICK d \in DataClients, j \in Slots :
              /\ Pending(j) /\ PendingOf(j, d) /\ ~Pending(j)'
              /\ buffer' = [buffer EXCEPT ![d] =
                     [v \in Unit |-> IF v \in Units(j) THEN <<v>> ELSE buffer[d][v]]]
      BY <2>2, TransformEffect
    <3>2. CASE d = c
      <4>1. i # j /\ queue[j].Owner = c
        BY <3>1, <3>2 DEF PendingOf
      <4>2. u \notin Units(j)
        BY <1>1, <3>1, <4>1 DEF DataInv, ApartInv
      <4> QED
        BY <1>0, <2>1, <3>1, <3>2, <4>2
    <3>3. CASE d # c
      BY <1>0, <2>1, <3>1, <3>3
    <3> QED
      BY <3>2, <3>3
  <2>3. ~DoWorkInline(c) /\ ~DoWorkReturn(c)
    BY <1>1 DEF DoWorkInline, DoWorkReturn, InCall, ClientAt
  <2> QED
    BY <1>0, <2>1, <2>2, <2>3, BufferFrom
<1>6. Units(i)' = Units(i)
  BY <1>3 DEF Units
<1> QED
  BY <1>2, <1>3, <1>4, <1>5, <1>6 DEF PendingOf

LEMMA PendingStep ==
    ASSUME DataInv, [Next]_vars
    PROVE  PendingInv'
<1> SUFFICES ASSUME NEW i \in Slots, Pending(i)' PROVE \E c \in DataClients : PendingOf(i, c)'
  BY DEF PendingInv
<1>0. PInv /\ TypeInv /\ LeftInv /\ PlanInv
  BY DEF DataInv, PInv
<1>1. CASE Pending(i) /\ JobSame(i)
  <2>1. PICK c \in DataClients : PendingOf(i, c)
    BY <1>1 DEF DataInv, PendingInv
  <2> QED
    BY <1>1, <2>1, PendingOfStep
<1>2. ASSUME NEW c \in DataClients, DoWorkFill(c), i = client[c].item PROVE PendingOf(i, c)'
  <2>1. /\ queue'[i].Owner = c /\ queue'[i].FirstFragment = client[c].first
        /\ queue'[i].Data = client[c].fragmentData
        /\ queue'[i].StartUnitNo = client[c].fragmentStartUnitNo
        /\ queue'[i].UnitCount = client[c].unitsPerFragment
        /\ client'[c].first = client[c].first /\ buffer' = buffer
    BY <1>0, <1>2, FillEffect
  <2>2. /\ client[c].fragmentData + client[c].unitsPerFragment <= MaxUnits
        /\ client[c].fragmentStartUnitNo = client[c].fragmentData
        /\ HandedOut(c) = client[c].fragmentData
        /\ HandedOut(c)' = client[c].fragmentData + client[c].unitsPerFragment
    BY <1>0, <1>2, FillBounds
  <2>3. client[c].fragmentData \in Nat /\ client[c].unitsPerFragment \in Nat
    BY <1>0, LocalTypes
  <2>4. client[c].pc \in InCall /\ client'[c].pc \in InCall
    BY <1>0, <1>2, Filled
  <2>5. ASSUME NEW u \in Units(i)' PROVE buffer'[c][u] = << >>
    <3>1. u \in client[c].fragmentData .. client[c].fragmentData + client[c].unitsPerFragment - 1
      BY <2>1, <2>5 DEF Units
    <3>2. u \in Unit /\ ~(u < HandedOut(c))
      BY <2>2, <2>3, <3>1, UnitFacts
    <3> QED
      BY <2>1, <2>4, <3>2 DEF DataInv, UnitsInv
  <2>6. queue'[i].Data + queue'[i].UnitCount <= HandedOut(c)'
    BY <2>1, <2>2, <2>3
  <2> QED
    BY <2>1, <2>2, <2>4, <2>5, <2>6 DEF PendingOf
<1> QED
  BY <1>0, <1>1, <1>2, PendingFrom

LEMMA ApartStep ==
    ASSUME DataInv, [Next]_vars
    PROVE  ApartInv'
<1> SUFFICES ASSUME NEW i \in Slots, NEW j \in Slots \ {i}, Pending(i)', Pending(j)',
                    queue'[i].Owner = queue'[j].Owner
             PROVE  Units(i)' \cap Units(j)' = {}
  BY DEF ApartInv
<1>0. PInv /\ TypeInv /\ LeftInv /\ PlanInv
  BY DEF DataInv, PInv
<1>1. ASSUME NEW s \in Slots, JobSame(s) PROVE Units(s)' = Units(s) /\ queue'[s].Owner = queue[s].Owner
  BY <1>1 DEF Units, JobSame
<1>2. CASE Pending(i) /\ JobSame(i) /\ Pending(j) /\ JobSame(j)
  BY <1>1, <1>2 DEF DataInv, ApartInv
\* The units filled are beyond those handed out before.
<1>3. ASSUME NEW s \in Slots, NEW t \in Slots, Pending(t), JobSame(t),
             queue'[s].Owner = queue'[t].Owner,
             NEW c \in DataClients, DoWorkFill(c), s = client[c].item
      PROVE  Units(s)' \cap Units(t)' = {}
  <2>1. /\ queue'[s].Owner = c
        /\ queue'[s].Data = client[c].fragmentData
        /\ queue'[s].UnitCount = client[c].unitsPerFragment
    BY <1>0, <1>3, FillEffect
  <2>2. HandedOut(c) = client[c].fragmentData /\ HandedOut(c) \in Nat
        /\ client[c].unitsPerFragment \in Nat
    BY <1>0, <1>3, FillBounds, LocalTypes
  <2>3. PICK d \in DataClients : PendingOf(t, d)
    BY <1>3 DEF DataInv, PendingInv
  <2>4. d = c
    BY <1>1, <1>3, <2>1, <2>3 DEF PendingOf
  <2>5. \A u \in Units(t) : u \in Nat /\ u < client[c].fragmentData
    BY <1>0, <2>2, <2>3, <2>4, PendingUnits
  <2>6. \A u \in Units(s)' : u \in Int /\ u >= client[c].fragmentData
    BY <2>1, <2>2 DEF Units
  <2>7. Units(t)' = Units(t)
    BY <1>1, <1>3
  <2> QED
    BY <2>2, <2>5, <2>6, <2>7
<1>4. \/ Pending(i) /\ JobSame(i)
      \/ \E c \in DataClients : DoWorkFill(c) /\ i = client[c].item
  BY <1>0, PendingFrom
<1>5. \/ Pending(j) /\ JobSame(j)
      \/ \E c \in DataClients : DoWorkFill(c) /\ j = client[c].item
  BY <1>0, PendingFrom
<1>6. ~((\E c \in DataClients : DoWorkFill(c) /\ i = client[c].item)
          /\ (\E c \in DataClients : DoWorkFill(c) /\ j = client[c].item))
  BY <1>0, Filled
<1> QED
  BY <1>2, <1>3, <1>4, <1>5, <1>6


LEMMA BeginsClear ==
    ASSUME DataInv, NEW c \in DataClients, DoWorkBegin(c)
    PROVE  HandedOut(c)' = 0 /\ buffer'[c] = Clear
<1>0. TypeInv /\ EnqueueInv
  BY DEF DataInv, PInv
<1>1. client[c].pc = "testFirst" /\ client'[c].pc = "testItem" /\ buffer' = buffer
  BY <1>0, BeginEffect DEF DoWorkBegin, ClientAt
<1>2. PlanKept(c)
  BY <1>0, <1>1, PlanKeeping, ReturnEffect DEF EncryptionThreadPoolDoWork, DoWorkFill, ClientAt
<1>3. client'[c].fragmentData = client[c].fragmentData /\ client[c].fragmentData = 0
  BY <1>1, <1>2 DEF PlanKept, Splitting, Starting, FillingItem, DataInv, PlanInv, Plan
<1>4. buffer[c] = Clear
  BY <1>1 DEF DataInv, BufferInv, Starting
<1> QED
  BY <1>1, <1>3, <1>4 DEF HandedOut, ClientAt

LEMMA UnitsStep ==
    ASSUME DataInv, [Next]_vars
    PROVE  UnitsInv'
<1> SUFFICES ASSUME NEW c \in DataClients, client'[c].pc \in InCall, NEW u \in Unit
             PROVE  IF u < HandedOut(c)'
                    THEN \/ buffer'[c][u] = <<u>>
                         \/ \E i \in Slots : Pending(i)' /\ queue'[i].Owner = c /\ u \in Units(i)'
                    ELSE buffer'[c][u] = << >>
  BY DEF UnitsInv
<1>0. /\ PInv /\ TypeInv /\ LeftInv /\ PlanInv /\ u \in Nat
      /\ buffer \in [DataClients -> [Unit -> Seq(Nat)]]
  BY UnitFacts DEF DataInv, PInv, TypeInv, TypeOK
<1>1. CASE client[c].pc \notin InCall
  <2>1. HandedOut(c)' = 0 /\ buffer'[c] = Clear
    BY <1>0, <1>1, CallBegins, BeginsClear
  <2> QED
    BY <1>0, <2>1 DEF Clear
<1>2. CASE client[c].pc \in InCall
  \* A fragment that is not transformed by this step.
  <2>1. ASSUME NEW i \in Slots, Pending(i), queue[i].Owner = c, u \in Units(i),
               \A w \in Workers : ~(WorkerTransform(w) /\ worker[w].item = i)
        PROVE  \E j \in Slots : Pending(j)' /\ queue'[j].Owner = c /\ u \in Units(j)'
    <3>1. Pending(i)' /\ JobSame(i)
      BY <1>0, <2>1, PendingTo, PendingJob
    <3>2. queue'[i].Owner = c /\ Units(i)' = Units(i)
      BY <2>1, <3>1 DEF JobSame, Units
    <3> QED
      BY <2>1, <3>1, <3>2
  <2>2. CASE DoWorkFill(c)
    <3>1. HandedOut(c)' = HandedOut(c) + client[c].unitsPerFragment
          /\ HandedOut(c) = client[c].fragmentData /\ buffer' = buffer
      BY <1>0, <2>2, FillBounds, FillEffect
    <3>2. client[c].unitsPerFragment \in Nat /\ client[c].fragmentData \in Nat
      BY <1>0, LocalTypes
    <3>3. \A w \in Workers : ~WorkerTransform(w)
      BY <1>0, <2>2, Filled
    <3>4. CASE u < HandedOut(c)
      <4>1. \/ buffer[c][u] = <<u>>
            \/ \E i \in Slots : Pending(i) /\ queue[i].Owner = c /\ u \in Units(i)
        BY <1>2, <3>4 DEF DataInv, UnitsInv
      <4>2. u < HandedOut(c)'
        BY <1>0, <3>1, <3>2, <3>4
      <4> QED
        BY <2>1, <3>1, <3>3, <4>1, <4>2
    <3>5. CASE ~(u < HandedOut(c))
      <4>1. buffer'[c][u] = << >>
        BY <1>2, <3>1, <3>5 DEF DataInv, UnitsInv
      <4>2. ASSUME u < HandedOut(c)'
            PROVE  \E i \in Slots : Pending(i)' /\ queue'[i].Owner = c /\ u \in Units(i)'
        <5>1. PICK i \in Slots : i = client[c].item /\ Pending(i)'
          BY <1>0, <2>2, Filled
        <5>2. queue'[i].Owner = c /\ queue'[i].Data = client[c].fragmentData
              /\ queue'[i].UnitCount = client[c].unitsPerFragment
          BY <1>0, <2>2, <5>1, FillEffect
        <5>3. u \in client[c].fragmentData .. client[c].fragmentData + client[c].unitsPerFragment - 1
          BY <1>0, <3>1, <3>2, <3>5, <4>2
        <5> QED
          BY <5>1, <5>2, <5>3 DEF Units
      <4> QED
        BY <4>1, <4>2
    <3> QED
      BY <3>4, <3>5
  <2>3. CASE ~DoWorkFill(c)
    <3>1. HandedOut(c)' = HandedOut(c)
      BY <1>0, <1>2, <2>3, HandedKept
    <3>2. IF u < HandedOut(c)
          THEN \/ buffer[c][u] = <<u>>
               \/ \E i \in Slots : Pending(i) /\ queue[i].Owner = c /\ u \in Units(i)
          ELSE buffer[c][u] = << >>
      BY <1>2 DEF DataInv, UnitsInv
    <3>3. ASSUME NEW w \in Workers, WorkerTransform(w), queue[worker[w].item].Owner = c
          PROVE  IF u < HandedOut(c)'
                 THEN \/ buffer'[c][u] = <<u>>
                      \/ \E i \in Slots : Pending(i)' /\ queue'[i].Owner = c /\ u \in Units(i)'
                 ELSE buffer'[c][u] = << >>
      <4>1. PICK d \in DataClients, j \in Slots :
              /\ j = worker[w].item /\ PendingOf(j, d)
              /\ buffer' = [buffer EXCEPT ![d] =
                     [v \in Unit |-> IF v \in Units(j) THEN <<v>> ELSE buffer[d][v]]]
              /\ \A v \in Workers : WorkerTransform(v) => v = w
        BY <3>3, TransformEffect
      <4>2. d = c
        BY <3>3, <4>1 DEF PendingOf
      <4>3. buffer'[c][u] = IF u \in Units(j) THEN <<u>> ELSE buffer[c][u]
        BY <1>0, <4>1, <4>2
      <4>4. CASE u \in Units(j)
        <5>1. u < HandedOut(c)
          BY <1>0, <4>1, <4>2, <4>4, PendingUnits
        <5> QED
          BY <3>1, <4>3, <4>4, <5>1
      <4>5. CASE u \notin Units(j)
        <5>1. ASSUME NEW i \in Slots, Pending(i), queue[i].Owner = c, u \in Units(i)
              PROVE  \A v \in Workers : ~(WorkerTransform(v) /\ worker[v].item = i)
          BY <4>1, <4>5, <5>1
        <5> QED
          BY <2>1, <3>1, <3>2, <4>3, <4>5, <5>1
      <4> QED
        BY <4>4, <4>5
    <3>4. CASE ~\E w \in Workers : WorkerTransform(w) /\ queue[worker[w].item].Owner = c
      <4>1. buffer'[c] = buffer[c]
        BY <1>0, <1>2, <3>4, BufferFrom DEF DoWorkInline, DoWorkReturn, InCall, ClientAt
      <4>2. ASSUME NEW i \in Slots, Pending(i), queue[i].Owner = c, u \in Units(i)
            PROVE  \A v \in Workers : ~(WorkerTransform(v) /\ worker[v].item = i)
        BY <3>4, <4>2
      <4> QED
        BY <2>1, <3>1, <3>2, <4>1, <4>2
    <3> QED
      BY <3>3, <3>4
  <2> QED
    BY <2>2, <2>3
<1> QED
  BY <1>1, <1>2

\* A caller in no call to the pool has its buffer to itself.
LEMMA BufferAlone ==
    ASSUME DataInv, [Next]_vars, NEW c \in DataClients, client[c].pc \notin InCall,
           ~DoWorkInline(c), ~DoWorkReturn(c)
    PROVE  buffer'[c] = buffer[c]
<1>1. TypeInv
  BY DEF DataInv, PInv
<1>2. ASSUME NEW w \in Workers, WorkerTransform(w) PROVE queue[worker[w].item].Owner # c
  <2>1. PICK d \in DataClients, j \in Slots : j = worker[w].item /\ PendingOf(j, d)
    BY <1>2, TransformEffect
  <2> QED
    BY <2>1 DEF PendingOf
<1> QED
  BY <1>1, <1>2, BufferFrom

\* Without a pool the caller transforms its units itself.
LEMMA InlineEffect ==
    ASSUME DataInv, NEW c \in DataClients, DoWorkInline(c)
    PROVE  /\ client'[c].pc = "return" /\ client'[c].unitCount = client[c].unitCount
           /\ client[c].unitCount \in 1 .. MaxUnits /\ buffer[c] = Clear
           /\ buffer' = [buffer EXCEPT ![c] = Service!Done(client[c].unitCount)]
<1>0. TypeInv /\ ClientAt(c, "inline")
  BY DEF DataInv, PInv, DoWorkInline
<1>1. client[c].unitCount \in 1 .. MaxUnits /\ buffer[c] = Clear
  BY <1>0 DEF DataInv, PlanInv, Plan, BufferInv, ClientAt
<1>2. Transformed(Clear, 0, 0, client[c].unitCount) = Service!Done(client[c].unitCount)
  <2>1. ASSUME NEW u \in Unit
        PROVE  (IF u \in 0 .. 0 + client[c].unitCount - 1 THEN Append(Clear[u], 0 + (u - 0)) ELSE Clear[u])
                 = (IF u < client[c].unitCount THEN <<u>> ELSE << >>)
    <3>1. u \in Nat /\ Clear[u] = << >> /\ client[c].unitCount \in Nat
      BY <1>1, UnitFacts DEF Clear
    <3>2. u \in 0 .. 0 + client[c].unitCount - 1 <=> u < client[c].unitCount
      BY <3>1
    <3>3. 0 + (u - 0) = u
      BY <3>1
    <3> QED
      BY <3>1, <3>2, <3>3
  <2> QED
    BY <2>1 DEF Transformed, Service!Done, Service!Unit, Unit
<1>3. client'[c].pc = "return" /\ client'[c].unitCount = client[c].unitCount
  BY <1>0, LocalTypes DEF DoWorkInline, ClientGoes, DoWorkLocals
<1> QED
  BY <1>1, <1>2, <1>3 DEF DoWorkInline


\* When the caller is woken, every unit of its call has been transformed.
LEMMA AllDone ==
    ASSUME DataInv, NEW c \in DataClients, DoWorkAwait(c)
    PROVE  buffer[c] = Service!Done(client[c].unitCount)
<1>0. /\ PInv /\ TypeInv /\ ClientAt(c, "await") /\ client[c].pc \in InCall
      /\ buffer[c] \in [Unit -> Seq(Nat)]
  BY DEF DataInv, PInv, DoWorkAwait, TypeInv, TypeOK, ClientAt, InCall
<1>1. HandedOut(c) = client[c].unitCount
  BY <1>0 DEF HandedOut
<1>2. ASSUME NEW i \in Slots, Pending(i), queue[i].Owner = c PROVE FALSE
  <2>1. PICK d \in DataClients : PendingOf(i, d)
    BY <1>2 DEF DataInv, PendingInv
  <2>2. queue[i].FirstFragment = client[c].first
    BY <1>2, <2>1 DEF PendingOf
  <2> QED
    BY <1>0, <1>2, <2>2, PendingHeld, NothingLeft
<1>3. ASSUME NEW u \in Unit
      PROVE  buffer[c][u] = IF u < client[c].unitCount THEN <<u>> ELSE << >>
  BY <1>0, <1>1, <1>2 DEF DataInv, UnitsInv
<1> QED
  BY <1>0, <1>3 DEF Service!Done, Service!Unit, Unit

\* Where a caller is after the work.
LEMMA AfterWork ==
    ASSUME TypeInv, NEW c \in DataClients, EncryptionThreadPoolDoWork(c),
           client'[c].pc \in {"freeFirst", "signalFirst", "return"},
           ~DoWorkInline(c), ~DoWorkAwait(c)
    PROVE  client[c].pc \in {"freeFirst", "signalFirst"}
<1> USE LocalTypes DEF ClientGoes, DoWorkLocals, ClientAt
<1>1. ~DoWorkLock(c) /\ ~DoWorkSleep(c) /\ ~DoWorkWake(c)
  BY DEF DoWorkLock, DoWorkSleep, DoWorkWake
<1>2. ~DoWorkFill(c) /\ ~DoWorkReturn(c)
  BY FillEffect, ReturnEffect
<1>3. ~DoWorkBegin(c)
  BY DEF DoWorkBegin, TakeSlot
<1>4. ~DoWorkSignalReady(c)
  BY SignalReadyEffect
<1> QED
  BY <1>1, <1>2, <1>3, <1>4 DEF EncryptionThreadPoolDoWork, DoWorkFreeFirst, DoWorkSignalFirst

LEMMA NotInline ==
    ASSUME TypeInv, NEW c \in DataClients, EncryptionThreadPoolDoWork(c)
    PROVE  client'[c].pc # "inline"
<1> USE LocalTypes DEF ClientGoes, DoWorkLocals, ClientAt
<1>1. CASE DoWorkInline(c) \/ DoWorkLock(c) \/ DoWorkSleep(c) \/ DoWorkWake(c)
  BY <1>1 DEF DoWorkInline, DoWorkLock, DoWorkSleep, DoWorkWake
<1>2. CASE DoWorkFill(c) \/ DoWorkReturn(c) \/ DoWorkSignalReady(c)
  BY <1>2, FillEffect, ReturnEffect, SignalReadyEffect
<1>3. CASE DoWorkBegin(c)
  BY <1>3 DEF DoWorkBegin, TakeSlot
<1>4. CASE DoWorkAwait(c) \/ DoWorkFreeFirst(c) \/ DoWorkSignalFirst(c)
  BY <1>4 DEF DoWorkAwait, DoWorkFreeFirst, DoWorkSignalFirst
<1> QED
  BY <1>1, <1>2, <1>3, <1>4 DEF EncryptionThreadPoolDoWork

LEMMA BufferStep ==
    ASSUME DataInv, [Next]_vars
    PROVE  BufferInv'
<1> SUFFICES ASSUME NEW c \in DataClients
             PROVE  /\ client'[c].pc \in {"idle", "inline"} \cup Starting => buffer'[c] = Clear
                    /\ client'[c].pc \in {"freeFirst", "signalFirst", "return"} =>
                          buffer'[c] = Service!Done(client'[c].unitCount)
  BY DEF BufferInv, Service!Done, Service!Unit
<1>0. TypeInv /\ (client[c].pc \in {"idle", "inline"} \cup Starting => buffer[c] = Clear)
      /\ (client[c].pc \in {"freeFirst", "signalFirst", "return"} =>
             buffer[c] = Service!Done(client[c].unitCount))
      /\ buffer \in [DataClients -> [Unit -> Seq(Nat)]]
  BY DEF DataInv, PInv, BufferInv, TypeInv, TypeOK
<1>1. CASE DoWorkInline(c)
  BY <1>0, <1>1, InlineEffect DEF Starting
<1>2. CASE DoWorkReturn(c)
  BY <1>0, <1>2, ReturnEffect DEF Starting, ClientAt
<1>3. CASE DoWorkAwait(c)
  <2>1. client'[c].pc = "freeFirst" /\ client'[c].unitCount = client[c].unitCount
        /\ buffer' = buffer
    BY <1>0, <1>3, LocalTypes DEF DoWorkAwait, ClientGoes, DoWorkLocals
  <2> QED
    BY <1>3, <2>1, AllDone DEF Starting
<1>4. CASE DoWorkCall(c)
  <2>1. buffer' = buffer /\ client[c].pc = "idle" /\ client'[c].pc \in {"inline", "lock"}
    BY <1>0, <1>4, CallEffect DEF ClientAt
  <2> QED
    BY <1>0, <2>1
<1>5. CASE client'[c] = client[c] /\ ~DoWorkInline(c) /\ ~DoWorkReturn(c)
  <2>1. client[c].pc \notin InCall => buffer'[c] = buffer[c]
    BY <1>5, BufferAlone
  <2> QED
    BY <1>0, <1>5, <2>1 DEF Starting, InCall
<1>6. CASE /\ EncryptionThreadPoolDoWork(c)
           /\ ~DoWorkInline(c) /\ ~DoWorkReturn(c) /\ ~DoWorkAwait(c)
  <2>1. ASSUME client'[c].pc \in {"idle", "inline"} \cup Starting PROVE client[c].pc \in Starting
    <3>1. ~DoWorkFill(c)
      BY <1>0, <2>1, FillEffect DEF Starting
    <3>2. PlanKept(c)
      BY <1>0, <1>6, <3>1, PlanKeeping
    <3>3. client'[c].pc \in Starting
      BY <1>0, <1>6, <2>1, <3>2, NotInline DEF PlanKept, ClientAt
    <3> QED
      BY <3>2, <3>3 DEF PlanKept, Splitting
  <2>2. ASSUME client'[c].pc \in {"freeFirst", "signalFirst", "return"}
        PROVE  client[c].pc \in {"freeFirst", "signalFirst"} /\ client'[c].unitCount = client[c].unitCount
    <3>1. client[c].pc \in {"freeFirst", "signalFirst"}
      BY <1>0, <1>6, <2>2, AfterWork
    <3>2. ~DoWorkFill(c)
      BY <3>1 DEF DoWorkFill, ClientAt
    <3> QED
      BY <1>0, <1>6, <3>1, <3>2, PlanKeeping DEF PlanKept
  <2>3. client[c].pc \in Starting \cup {"freeFirst", "signalFirst"} => buffer'[c] = buffer[c]
    BY <1>6, BufferAlone DEF Starting, InCall
  <2> QED
    BY <1>0, <2>1, <2>2, <2>3
<1> QED
  BY <1>0, <1>1, <1>2, <1>3, <1>4, <1>5, <1>6, ClientFrom

-----------------------------------------------------------------------------
(* The pool implements the service. *)

LEMMA InitData == Init => DataInv
<1> SUFFICES ASSUME Init PROVE DataInv
  OBVIOUS
<1>1. PInv
  BY InitPool
<1>2. /\ client = [c \in DataClients |-> IdleClient] /\ buffer = [c \in DataClients |-> Clear]
      /\ IdleClient.pc = "idle" /\ IdleClient.unitCount = 0
  BY DEF Init, IdleClient
<1>3. \A i \in Slots : ~Pending(i)
  <2>1. \A i \in Slots : queue[i].State = "Free"
    BY DEF Init, EmptyItem
  <2>2. \A w \in Workers : ~Transforming(w)
    BY DEF Init, Transforming, WorkerAt
  <2> QED
    BY <2>1, <2>2 DEF Pending
<1>4. PlanInv
  BY <1>2 DEF PlanInv, Plan, ClientAt, Starting, FillingItem
<1>5. UnitsInv /\ BufferInv
  BY <1>2 DEF UnitsInv, BufferInv, InCall, Starting
<1>6. PendingInv /\ ApartInv
  BY <1>3 DEF PendingInv, ApartInv
<1> QED
  BY <1>1, <1>4, <1>5, <1>6 DEF DataInv

LEMMA DataStep == DataInv /\ [Next]_vars => DataInv'
<1> SUFFICES ASSUME DataInv, [Next]_vars PROVE DataInv'
  OBVIOUS
<1>1. PInv'
  BY PInvStep DEF DataInv
<1>2. PlanInv'
  BY PlanStep DEF DataInv, PInv
<1> QED
  BY <1>1, <1>2, PendingStep, ApartStep, UnitsStep, BufferStep DEF DataInv

\* What the callers of the service see of a call.
units == [c \in DataClients |-> client[c].unitCount]

LEMMA ServiceInit == Init => Service!Init
  BY DEF Init, Service!Init, Service!Clear, Service!Unit, Clear, Unit, IdleClient

\* A step of a call that is not its beginning or its end leaves the number of its units.
LEMMA UnitsKept ==
    ASSUME DataInv, [Next]_vars, NEW c \in DataClients, ~DoWorkCall(c), ~DoWorkReturn(c)
    PROVE  client'[c].unitCount = client[c].unitCount
<1>1. TypeInv
  BY DEF DataInv, PInv
<1>2. CASE EncryptionThreadPoolDoWork(c)
  BY <1>1, <1>2, PlanKeeping, FillEffect DEF PlanKept
<1> QED
  BY <1>1, <1>2, ClientFrom

LEMMA ServiceStep ==
    ASSUME DataInv, [Next]_vars
    PROVE  [Service!Next]_<<units, buffer>>
<1> USE DEF units
<1>0. /\ TypeInv /\ LeftInv /\ PlanInv /\ buffer \in [DataClients -> [Unit -> Seq(Nat)]]
      /\ DOMAIN buffer = DataClients
  BY DEF DataInv, PInv, TypeInv, TypeOK
<1>1. ASSUME NEW c \in DataClients, DoWorkCall(c) PROVE Service!Call(c)
  <2>1. PICK n \in 1 .. MaxUnits : client'[c].unitCount = n /\ buffer' = buffer /\ ClientAt(c, "idle")
    BY <1>0, <1>1, CallEffect
  <2>2. \A d \in DataClients \ {c} : client'[d] = client[d]
    BY <1>0, <1>1, ClientFrame
  <2>3. units[c] = 0
    BY <1>0, <2>1 DEF PlanInv, Plan
  <2>4. units' = [units EXCEPT ![c] = n]
    BY <2>1, <2>2
  <2> QED
    BY <2>1, <2>3, <2>4 DEF Service!Call
<1>2. ASSUME NEW c \in DataClients, DoWorkReturn(c) PROVE Service!Return(c)
  <2>1. /\ ClientAt(c, "return") /\ client'[c].unitCount = 0
        /\ buffer' = [buffer EXCEPT ![c] = Clear]
    BY <1>0, <1>2, ReturnEffect
  <2>2. \A d \in DataClients \ {c} : client'[d] = client[d]
    BY <1>0, <1>2, ClientFrame DEF EncryptionThreadPoolDoWork
  <2>3. units[c] \in 1 .. MaxUnits /\ buffer[c] = Service!Done(units[c])
    BY <1>0, <2>1 DEF PlanInv, Plan, ClientAt, DataInv, BufferInv
  <2>4. units' = [units EXCEPT ![c] = 0]
    BY <2>1, <2>2
  <2>5. Service!Clear = Clear
    BY DEF Service!Clear, Service!Unit, Clear, Unit
  <2>6. units[c] > 0
    BY <2>3, UnitFacts
  <2> QED
    BY <2>1, <2>3, <2>4, <2>5, <2>6 DEF Service!Return
\* Some units of a call are transformed.
<1>3. ASSUME NEW c \in DataClients, NEW us \in SUBSET Nat, units' = units,
             \A u \in us : u < client[c].unitCount /\ buffer[c][u] = << >>,
             client[c].unitCount \in Nat,
             buffer' = [buffer EXCEPT ![c] =
                            [u \in Unit |-> IF u \in us THEN <<u>> ELSE buffer[c][u]]]
      PROVE  Service!Transform(c)
  <2>1. us \in SUBSET {u \in 0 .. units[c] - 1 : buffer[c][u] = << >>}
    BY <1>3
  <2> QED
    BY <1>3, <2>1 DEF Service!Transform, Service!Unit, Unit
<1>4. ASSUME NEW c \in DataClients, DoWorkInline(c) PROVE Service!Transform(c)
  <2>1. /\ client[c].unitCount \in 1 .. MaxUnits /\ buffer[c] = Clear
        /\ client'[c].unitCount = client[c].unitCount
        /\ buffer' = [buffer EXCEPT ![c] = Service!Done(client[c].unitCount)]
    BY <1>4, InlineEffect
  <2>2. units' = units
    BY <1>0, <1>4, <2>1, ClientFrame DEF EncryptionThreadPoolDoWork
  <2> DEFINE us == 0 .. client[c].unitCount - 1
  <2>3. client[c].unitCount \in Nat /\ us \in SUBSET Nat
        /\ \A u \in us : u \in Unit /\ u < client[c].unitCount /\ buffer[c][u] = << >>
    BY <2>1, UnitFacts DEF Clear
  <2>4. Service!Done(client[c].unitCount) = [u \in Unit |-> IF u \in us THEN <<u>> ELSE buffer[c][u]]
    <3>1. \A u \in Unit : (u \in us <=> u < client[c].unitCount) /\ buffer[c][u] = << >>
      BY <2>1, <2>3, UnitFacts DEF Clear
    <3> HIDE DEF us
    <3> QED
      BY <3>1 DEF Service!Done, Service!Unit, Unit
  <2> HIDE DEF us
  <2> QED
    BY <1>3, <2>1, <2>2, <2>3, <2>4
<1>5. ASSUME NEW w \in Workers, WorkerTransform(w) PROVE Service!Next
  <2>1. PICK c \in DataClients, i \in Slots :
              /\ PendingOf(i, c)
              /\ buffer' = [buffer EXCEPT ![c] =
                     [u \in Unit |-> IF u \in Units(i) THEN <<u>> ELSE buffer[c][u]]]
              /\ client' = client
    BY <1>5, TransformEffect
  <2>2. \A u \in Units(i) : u \in Nat /\ u < client[c].unitCount /\ buffer[c][u] = << >>
    BY <1>0, <2>1, PendingUnits DEF PendingOf
  <2>3. client[c].unitCount \in Nat
    BY <1>0, LocalTypes
  <2>4. Units(i) \in SUBSET Nat /\ units' = units
    BY <2>1, <2>2
  <2>5. Service!Transform(c)
    BY <1>3, <2>1, <2>2, <2>3, <2>4
  <2> QED
    BY <2>5 DEF Service!Next
<1>6. CASE /\ \A c \in DataClients : ~DoWorkCall(c) /\ ~DoWorkReturn(c) /\ ~DoWorkInline(c)
           /\ \A w \in Workers : ~WorkerTransform(w)
  <2>1. \A c \in DataClients : buffer'[c] = buffer[c]
    BY <1>0, <1>6, BufferFrom
  <2>2. TypeOK'
    BY TypeStep DEF DataInv, PInv, TypeInv
  <2>3. buffer' = buffer
    BY <1>0, <2>1, <2>2 DEF TypeOK
  <2>4. units' = units
    BY <1>6, UnitsKept
  <2> QED
    BY <2>3, <2>4
<1> QED
  BY <1>1, <1>2, <1>4, <1>5, <1>6 DEF Service!Next

\* DoWork is one transformation of its caller's buffer: whatever the number of threads and the
\* order in which they take the fragments, each data unit is transformed once, with its own
\* unit number, before the call returns (EncryptionThreadPoolDoWork, EncryptionThreadProc).
THEOREM PoolIsTransform == Spec => ImplementsTransform
<1>1. Init => Service!Init
  BY ServiceInit
<1>2. DataInv /\ [Next]_vars => [Service!Next]_<<units, buffer>>
  BY ServiceStep
<1> QED
  BY InitData, DataStep, <1>1, <1>2, PTL DEF Spec, ImplementsTransform, Service!Spec, units

-----------------------------------------------------------------------------
(***************************************************************************)
(* ReadVolumeHeader.  The loop variable is stepped back while a call       *)
(* waits, so no single variable says how far it has come; the invariant    *)
(* relates it to the key items in use, to the PRFs already tried and to    *)
(* the count of queued derivations.                                        *)
(***************************************************************************)
\* The key items in use.
Busy(items) == {i \in KeyItems : items[i] # NoPrf}

\* The last PRF whose derivation has been begun.
Begun(h) == IF h.pc = "for" THEN h.prf - 1 ELSE h.prf

CallType ==
    [pc : {"ready", "for", "queueing", "scan", "sleep", "finish", "returned"},
     threads : {0, ThreadCount}, right : Prfs \cup {NoPrf},
     prf : 0 .. PrfCount + 1, queued : 0 .. ThreadCount,
     items : [KeyItems -> Prfs \cup {NoPrf}], tried : SUBSET Prfs,
     status : {"none", "success", "error", "passwordWrong"}]

\* No PRF is in two key items, or in one after it has been tried.
Distinct(h) ==
    \A i \in KeyItems : h.items[i] # NoPrf =>
        /\ h.items[i] \notin h.tried
        /\ \A j \in KeyItems \ {i} : h.items[j] # h.items[i]

\* In the loop: the PRFs begun are those tried and those in a key item, and
\* queuedWorkItems counts the key items.
Accounted(h) ==
    /\ Begun(h) \in 0 .. PrfCount
    /\ \A p \in Prfs : p <= Begun(h) <=> p \in h.tried \/ \E i \in KeyItems : h.items[i] = p
    /\ Cardinality(Busy(h.items)) = h.queued + IF h.pc = "queueing" THEN 1 ELSE 0

CallInv(h) ==
    /\ h \in CallType
    /\ Distinct(h)
    /\ h.pc \in {"for", "queueing", "scan", "sleep"} => Accounted(h)
    /\ h.pc = "queueing" => h.queued < ThreadCount
    /\ h.status = "passwordWrong" => h.tried = Prfs

\* The inductive invariant.
HeaderInv ==
    /\ header \in [KeyClients -> CallType]
    /\ \A k \in KeyClients : CallInv(header[k])

-----------------------------------------------------------------------------

LEMMA HeaderFacts ==
    /\ PrfCount \in Nat \ {0} /\ KeyItems = 1 .. PrfCount
    /\ ThreadCount \in Nat /\ ThreadCount >= 2
    /\ IsFiniteSet(KeyItems)
<1>1. IsFiniteSet(1 .. PrfCount)
  BY PrfAssumption, FS_Interval DEF PrfAssumption
<1> QED
  BY <1>1, PrfAssumption, PoolAssumption DEF PrfAssumption, PoolAssumption

\* queuedWorkItems is a size: the key items in use are finitely many.
LEMMA BusyFacts ==
    ASSUME NEW items
    PROVE  /\ IsFiniteSet(Busy(items)) /\ Cardinality(Busy(items)) \in Nat
           /\ Cardinality(Busy(items)) = 0 <=> Busy(items) = {}
<1>1. Busy(items) \in SUBSET KeyItems
  BY DEF Busy
<1>2. IsFiniteSet(Busy(items))
  BY <1>1, HeaderFacts, FS_Subset
<1> QED
  BY <1>2, FS_CardinalityType, FS_EmptySet

LEMMA BusyAdd ==
    ASSUME NEW old, NEW new, NEW i \in KeyItems, old[i] = NoPrf, new[i] # NoPrf,
           \A j \in KeyItems \ {i} : new[j] = old[j]
    PROVE  Cardinality(Busy(new)) = Cardinality(Busy(old)) + 1
<1>1. Busy(new) = Busy(old) \cup {i} /\ i \notin Busy(old)
  BY DEF Busy
<1> QED
  BY <1>1, BusyFacts, FS_AddElement

LEMMA NewCallInv == \A t \in {0, ThreadCount} : \A right \in Prfs \cup {NoPrf} :
    /\ CallInv(NewCall)
    /\ CallInv([NewCall EXCEPT !.pc = "for", !.right = right, !.threads = t])
<1> TAKE t \in {0, ThreadCount}
<1> TAKE right \in Prfs \cup {NoPrf}
<1> DEFINE called == [NewCall EXCEPT !.pc = "for", !.right = right, !.threads = t]
<1>1. NewCall \in CallType /\ called \in CallType
  <2>1. [i \in KeyItems |-> NoPrf] \in [KeyItems -> Prfs \cup {NoPrf}]
    OBVIOUS
  <2>2. 1 \in 0 .. PrfCount + 1 /\ 0 \in 0 .. ThreadCount /\ NoPrf \in Prfs \cup {NoPrf}
    BY HeaderFacts
  <2> QED
    BY <2>1, <2>2 DEF NewCall, CallType
<1>2. /\ \A i \in KeyItems : NewCall.items[i] = NoPrf /\ called.items[i] = NoPrf
      /\ NewCall.pc = "ready" /\ NewCall.status = "none" /\ called.pc = "for"
      /\ called.status = "none" /\ called.prf = 1 /\ called.tried = {} /\ called.queued = 0
  BY DEF NewCall
<1> HIDE DEF called
<1>3. Distinct(NewCall) /\ Distinct(called)
  BY <1>2 DEF Distinct
<1>4. Cardinality(Busy(called.items)) = 0
  <2>1. Busy(called.items) = {}
    BY <1>2 DEF Busy
  <2> QED
    BY <2>1, BusyFacts
<1>5. Accounted(called)
  <2>1. Begun(called) = 0
    BY <1>2 DEF Begun
  <2> QED
    BY <1>2, <1>4, <2>1, HeaderFacts DEF Accounted, Prfs, NoPrf
<1>6. CallInv(NewCall) /\ CallInv(called)
  BY <1>1, <1>2, <1>3, <1>5 DEF CallInv
<1> QED
  BY <1>6 DEF called

\* What a step of one call has to establish.
LEMMA OneCall ==
    ASSUME HeaderInv, NEW k \in KeyClients, NEW g, CallInv(g),
           header' = [header EXCEPT ![k] = g]
    PROVE  HeaderInv'
<1>1. header' \in [KeyClients -> CallType]
  BY DEF HeaderInv, CallInv
<1>2. ASSUME NEW j \in KeyClients PROVE CallInv(header'[j])
  BY DEF HeaderInv
<1> QED
  BY <1>1, <1>2 DEF HeaderInv

-----------------------------------------------------------------------------
(* Trying a derived key *)

Tried(h, prf, next, items, queued, status) ==
    [h EXCEPT !.tried = h.tried \cup {prf}, !.items = items, !.queued = queued,
              !.prf = next, !.status = status,
              !.pc = IF status = "none" THEN "for" ELSE "finish"]

\* Nothing is asked of a call that leaves the loop but that no PRF it has tried
\* is in a key item.
LEMMA TryInv ==
    ASSUME NEW h, CallInv(h), h.pc \in {"for", "scan"},
           NEW prf \in Prfs, NEW next \in 0 .. PrfCount + 1,
           \/ next = Begun(h) + 1 /\ \E i \in KeyItems : h.items[i] = prf
           \/ next = Begun(h) + 2 /\ prf = Begun(h) + 1,
           NEW items \in [KeyItems -> Prfs \cup {NoPrf}], NEW queued \in 0 .. ThreadCount,
           NEW status \in {"none", "success", "error"},
           Cardinality(Busy(items)) = queued,
           \A j \in KeyItems : items[j] # NoPrf => items[j] = h.items[j] /\ items[j] # prf,
           \A j \in KeyItems : h.items[j] # NoPrf /\ h.items[j] # prf => items[j] = h.items[j]
    PROVE  CallInv(Tried(h, prf, next, items, queued, status))
<1> DEFINE g == Tried(h, prf, next, items, queued, status)
<1>1. g \in CallType
  BY HeaderFacts DEF CallInv, CallType, Tried
<1>2. /\ g.tried = h.tried \cup {prf} /\ g.items = items /\ g.queued = queued
      /\ g.prf = next /\ g.status = status
      /\ g.pc = IF status = "none" THEN "for" ELSE "finish"
  BY DEF CallInv, CallType, Tried
<1> HIDE DEF g
<1>3. Distinct(g)
  BY <1>2 DEF CallInv, Distinct
<1>4. ASSUME g.pc = "for" PROVE Accounted(g)
  <2>1. Accounted(h)
    BY DEF CallInv
  <2>2. Begun(g) = next - 1
    BY <1>2, <1>4 DEF Begun
  <2>3. Begun(h) \in 0 .. PrfCount /\ Begun(g) \in 0 .. PrfCount
    BY <2>1, <2>2, HeaderFacts DEF Accounted, Prfs
  <2>4. ASSUME NEW p \in Prfs
        PROVE  p <= Begun(g) <=> p \in g.tried \/ \E i \in KeyItems : g.items[i] = p
    <3>0. p <= Begun(h) <=> p \in h.tried \/ \E i \in KeyItems : h.items[i] = p
      BY <2>1 DEF Accounted
    <3>1. p # NoPrf /\ prf # NoPrf /\ p \in Nat /\ Begun(h) \in Nat /\ prf \in Nat
      BY <2>3, HeaderFacts DEF Prfs, NoPrf
    <3>2. p <= Begun(g) <=> p <= Begun(h) \/ p = prf
      <4>1. prf <= Begun(h) <=> prf \in h.tried \/ \E i \in KeyItems : h.items[i] = prf
        BY <2>1 DEF Accounted
      <4> QED
        BY <2>2, <3>1, <4>1
    <3>3. (p \in g.tried \/ \E i \in KeyItems : g.items[i] = p)
            <=> (p \in h.tried \/ (\E i \in KeyItems : h.items[i] = p) \/ p = prf)
      BY <1>2, <3>1
    <3> QED
      BY <3>0, <3>2, <3>3
  <2> QED
    BY <1>2, <1>4, <2>3, <2>4, HeaderFacts DEF Accounted, Busy
<1>5. CallInv(g)
  BY <1>1, <1>2, <1>3, <1>4 DEF CallInv
<1> QED
  BY <1>5 DEF g

-----------------------------------------------------------------------------
(* One step of one call, a part of the loop at a time *)

LEMMA CallStep ==
    ASSUME HeaderInv, NEW k \in KeyClients, Call(k)
    PROVE  HeaderInv'
<1>1. PICK right \in Prfs \cup {NoPrf} :
          header' = [header EXCEPT ![k] =
              [NewCall EXCEPT !.pc = "for", !.right = right,
                  !.threads = IF ThreadPoolRunning THEN ThreadCount ELSE 0]]
  BY DEF Call
<1> DEFINE t == IF ThreadPoolRunning THEN ThreadCount ELSE 0
<1>2. CallInv([NewCall EXCEPT !.pc = "for", !.right = right, !.threads = t])
  BY NewCallInv
<1> QED
  BY <1>1, <1>2, OneCall

LEMMA TryInlineStep ==
    ASSUME HeaderInv, NEW k \in KeyClients, TryInline(k)
    PROVE  HeaderInv'
<1> DEFINE h == header[k]
<1>1. CallInv(h) /\ h.pc = "for" /\ h.prf <= PrfCount
  BY DEF HeaderInv, TryInline, HeaderAt
<1>2. /\ h.items \in [KeyItems -> Prfs \cup {NoPrf}] /\ h.queued \in 0 .. ThreadCount
      /\ h.prf \in 0 .. PrfCount + 1 /\ Accounted(h) /\ Distinct(h)
  BY <1>1 DEF CallInv, CallType
<1>3. Begun(h) = h.prf - 1 /\ h.prf \in Prfs /\ h.prf + 1 \in 0 .. PrfCount + 1
  BY <1>1, <1>2, HeaderFacts DEF Begun, Accounted, Prfs
<1>4. PICK status \in {"none", "success", "error"} :
         header' = [header EXCEPT ![k] =
                       Tried(h, h.prf, h.prf + 1, h.items, h.queued, status)]
  BY DEF TryInline, Try, Tried
<1>5. Cardinality(Busy(h.items)) = h.queued
  BY <1>1, <1>2 DEF Busy, Accounted
<1>6. \A j \in KeyItems : h.items[j] # h.prf
  <2> SUFFICES ASSUME NEW j \in KeyItems, h.items[j] = h.prf PROVE FALSE
    OBVIOUS
  <2>1. h.prf <= Begun(h)
    BY <1>2, <1>3 DEF Accounted
  <2> QED
    BY <1>2, <1>3, <2>1
<1> HIDE DEF h
<1>7. CallInv(Tried(h, h.prf, h.prf + 1, h.items, h.queued, status))
  <2>1. h.prf + 1 = Begun(h) + 2 /\ h.prf = Begun(h) + 1
    BY <1>2, <1>3
  <2> QED
    BY <1>1, <1>2, <1>3, <1>5, <1>6, <2>1, TryInv
<1> QED
  BY <1>4, <1>7, OneCall DEF h

LEMMA QueueStep ==
    ASSUME HeaderInv, NEW k \in KeyClients, Queue(k)
    PROVE  HeaderInv'
<1> DEFINE h == header[k]
<1>1. PICK i \in KeyItems : /\ h.items[i] = NoPrf
                           /\ header' = [header EXCEPT ![k].items[i] = h.prf,
                                                       ![k].pc = "queueing"]
  BY DEF Queue
<1>2. CallInv(h) /\ h.pc = "for" /\ h.prf <= PrfCount /\ h.queued < h.threads
  BY DEF HeaderInv, Queue, CanQueue, HeaderAt
<1>3. /\ h.items \in [KeyItems -> Prfs \cup {NoPrf}] /\ h.queued \in 0 .. ThreadCount
      /\ h.prf \in 0 .. PrfCount + 1 /\ Accounted(h) /\ Distinct(h)
      /\ h.threads \in {0, ThreadCount} /\ h \in CallType
  BY <1>2 DEF CallInv, CallType
<1>4. Begun(h) = h.prf - 1 /\ h.prf \in Prfs /\ h.prf # NoPrf
  BY <1>2, <1>3, HeaderFacts DEF Begun, Accounted, Prfs, NoPrf
<1> DEFINE g == [h EXCEPT !.items = [h.items EXCEPT ![i] = h.prf], !.pc = "queueing"]
<1>5. header' = [header EXCEPT ![k] = g]
  BY <1>1, <1>3 DEF CallType, HeaderInv
<1>6. g \in CallType /\ g.tried = h.tried /\ g.queued = h.queued /\ g.prf = h.prf
      /\ g.pc = "queueing" /\ g.status = h.status
      /\ g.items[i] = h.prf /\ \A j \in KeyItems \ {i} : g.items[j] = h.items[j]
  BY <1>3, <1>4 DEF CallType
<1>7. \A p \in Prfs : p < h.prf <=> p \in h.tried \/ \E j \in KeyItems : h.items[j] = p
  BY <1>3, <1>4, HeaderFacts DEF Accounted, Prfs
<1>8. h.prf \notin h.tried /\ \A j \in KeyItems : h.items[j] # h.prf
  BY <1>4, <1>7, HeaderFacts DEF Prfs
<1> HIDE DEF g, h
<1>9. Distinct(g)
  BY <1>3, <1>6, <1>8 DEF Distinct
<1>10. Accounted(g)
  <2>1. Begun(g) = h.prf
    BY <1>6 DEF Begun
  <2>2. Cardinality(Busy(g.items)) = g.queued + 1
    <3>1. Cardinality(Busy(g.items)) = Cardinality(Busy(h.items)) + 1
      BY <1>1, <1>4, <1>6, BusyAdd
    <3>2. Cardinality(Busy(h.items)) = h.queued
      BY <1>2, <1>3, HeaderFacts DEF Accounted
    <3> QED
      BY <1>6, <3>1, <3>2
  <2>3. ASSUME NEW p \in Prfs
        PROVE  p <= h.prf <=> p \in g.tried \/ \E j \in KeyItems : g.items[j] = p
    <3>1. p <= h.prf <=> p < h.prf \/ p = h.prf
      BY <1>3, HeaderFacts DEF Prfs
    <3>2. (\E j \in KeyItems : g.items[j] = p)
             <=> (\E j \in KeyItems : h.items[j] = p) \/ p = h.prf
      <4>1. p # NoPrf
        BY HeaderFacts DEF Prfs, NoPrf
      <4> QED
        BY <1>1, <1>6, <4>1
    <3> QED
      BY <1>6, <1>7, <3>1, <3>2
  <2> QED
    BY <1>4, <1>6, <2>1, <2>2, <2>3, HeaderFacts DEF Accounted, Prfs
<1>11. CallInv(g)
  BY <1>2, <1>3, <1>6, <1>9, <1>10, HeaderFacts DEF CallInv
<1> QED
  BY <1>5, <1>11, OneCall DEF h

LEMMA QueuedStep ==
    ASSUME HeaderInv, NEW k \in KeyClients, Queued(k)
    PROVE  HeaderInv'
<1> DEFINE h == header[k]
           g == [h EXCEPT !.queued = h.queued + 1,
                          !.prf = IF h.prf < PrfCount THEN h.prf + 1 ELSE h.prf,
                          !.pc = IF h.prf < PrfCount THEN "for" ELSE "scan"]
<1>1. CallInv(h) /\ h.pc = "queueing" /\ header' = [header EXCEPT ![k] = g]
  BY DEF HeaderInv, Queued, HeaderAt
<1>2. h \in CallType /\ Accounted(h) /\ Distinct(h) /\ h.queued < ThreadCount
      /\ h.queued \in 0 .. ThreadCount /\ h.prf \in 0 .. PrfCount + 1
  BY <1>1 DEF CallInv, CallType
<1>3. g.items = h.items /\ g.tried = h.tried /\ g.status = h.status
      /\ g.queued = h.queued + 1 /\ g.pc \in {"for", "scan"}
      /\ Begun(g) = Begun(h)
  BY <1>1, <1>2, HeaderFacts DEF CallType, Begun
<1>4. g \in CallType
  <2>1. h.queued + 1 \in 0 .. ThreadCount
        /\ (IF h.prf < PrfCount THEN h.prf + 1 ELSE h.prf) \in 0 .. PrfCount + 1
    BY <1>2, HeaderFacts
  <2> QED
    BY <1>2, <2>1 DEF CallType
<1>5. Busy(g.items) = Busy(h.items) /\ Distinct(g)
  BY <1>2, <1>3 DEF Busy, Distinct
<1> HIDE DEF g, h
<1>6. Accounted(g)
  BY <1>1, <1>2, <1>3, <1>5, HeaderFacts DEF Accounted
<1>7. CallInv(g)
  BY <1>1, <1>3, <1>5, <1>6, <1>4 DEF CallInv
<1> QED
  BY <1>1, <1>7, OneCall DEF h

LEMMA WaitStep ==
    ASSUME HeaderInv, NEW k \in KeyClients, Wait(k)
    PROVE  HeaderInv'
<1> DEFINE h == header[k]
           g == [h EXCEPT !.prf = h.prf - 1, !.pc = "scan"]
<1>1. CallInv(h) /\ h.pc = "for" /\ header' = [header EXCEPT ![k] = g]
  BY DEF HeaderInv, Wait, HeaderAt
<1>2. h \in CallType /\ Accounted(h) /\ Distinct(h) /\ Begun(h) = h.prf - 1
      /\ h.prf \in 0 .. PrfCount + 1 /\ Begun(h) \in 0 .. PrfCount
  BY <1>1 DEF CallInv, CallType, Begun, Accounted
<1>3. h.prf - 1 \in 0 .. PrfCount + 1
  BY <1>2, HeaderFacts
<1>4. g \in CallType /\ g.items = h.items /\ g.tried = h.tried /\ g.status = h.status
      /\ g.queued = h.queued /\ g.pc = "scan" /\ Begun(g) = Begun(h)
  BY <1>2, <1>3 DEF CallType, Begun
<1>5. Busy(g.items) = Busy(h.items) /\ Distinct(g)
  BY <1>2, <1>4 DEF Busy, Distinct
<1> HIDE DEF g, h
<1>6. Accounted(g)
  BY <1>1, <1>2, <1>4, <1>5 DEF Accounted
<1>7. CallInv(g)
  BY <1>1, <1>4, <1>5, <1>6 DEF CallInv
<1> QED
  BY <1>1, <1>7, OneCall DEF h

LEMMA CollectStep ==
    ASSUME HeaderInv, NEW k \in KeyClients, Collect(k)
    PROVE  HeaderInv'
<1> DEFINE h == header[k]
<1>1. CallInv(h) /\ h.pc = "scan"
  BY DEF HeaderInv, Collect, HeaderAt
<1>2. PICK i \in KeyItems : /\ h.items[i] # NoPrf
        /\ Try(k, h.items[i], h.prf + 1, [h.items EXCEPT ![i] = NoPrf], h.queued - 1)
  BY DEF Collect, Completed
<1> DEFINE prf == h.items[i]
           items == [h.items EXCEPT ![i] = NoPrf]
<1>3. /\ h.items \in [KeyItems -> Prfs \cup {NoPrf}] /\ h.queued \in 0 .. ThreadCount
      /\ h.prf \in 0 .. PrfCount + 1 /\ Accounted(h) /\ Distinct(h) /\ h \in CallType
  BY <1>1 DEF CallInv, CallType
<1>4. Begun(h) = h.prf /\ h.prf \in 0 .. PrfCount /\ h.prf + 1 \in 0 .. PrfCount + 1
  BY <1>1, <1>3, HeaderFacts DEF Begun, Accounted
<1>5. PICK status \in {"none", "success", "error"} :
         header' = [header EXCEPT ![k] =
                       Tried(h, prf, h.prf + 1, items, h.queued - 1, status)]
  BY <1>2 DEF Try, Tried
<1>6. prf \in Prfs /\ items \in [KeyItems -> Prfs \cup {NoPrf}]
  BY <1>2, <1>3
<1>7. items[i] = NoPrf /\ \A j \in KeyItems \ {i} : items[j] = h.items[j] /\ items[j] # prf
  BY <1>2, <1>3 DEF Distinct
<1>8. /\ Cardinality(Busy(items)) = h.queued - 1
      /\ h.queued - 1 \in 0 .. ThreadCount
  <2> HIDE DEF items
  <2>1. Cardinality(Busy(h.items)) = Cardinality(Busy(items)) + 1
    BY <1>2, <1>7, BusyAdd
  <2>2. Cardinality(Busy(h.items)) = h.queued
    BY <1>1, <1>3, HeaderFacts DEF Accounted
  <2>3. Cardinality(Busy(items)) \in Nat
    BY BusyFacts
  <2> QED
    BY <1>3, <2>1, <2>2, <2>3, HeaderFacts
<1> HIDE DEF h, items
<1>9. /\ \A j \in KeyItems : items[j] # NoPrf => items[j] = h.items[j] /\ items[j] # prf
      /\ \A j \in KeyItems : h.items[j] # NoPrf /\ h.items[j] # prf => items[j] = h.items[j]
  BY <1>7
<1>10. h.prf + 1 = Begun(h) + 1 /\ \E j \in KeyItems : h.items[j] = prf
  BY <1>4
<1> HIDE DEF prf
<1>11. CallInv(Tried(h, prf, h.prf + 1, items, h.queued - 1, status))
  BY <1>1, <1>3, <1>4, <1>6, <1>8, <1>9, <1>10, TryInv
<1> QED
  BY <1>5, <1>11, OneCall DEF h

\* Sleep, Wake and Finish only move the call on.
LEMMA GoesInv ==
    ASSUME NEW h, CallInv(h),
           NEW pc \in {"scan", "sleep", "returned"}, NEW g, g = [h EXCEPT !.pc = pc],
           pc # "returned" => h.pc \in {"scan", "sleep"}
    PROVE  CallInv(g)
<1>1. g \in CallType /\ g.pc = pc /\ g.items = h.items /\ g.tried = h.tried
      /\ g.queued = h.queued /\ g.prf = h.prf /\ g.status = h.status
  BY DEF CallInv, CallType
<1>2. Distinct(g) /\ Busy(g.items) = Busy(h.items)
  BY <1>1 DEF CallInv, Distinct, Busy
<1>3. pc # "returned" => Begun(g) = Begun(h) /\ Accounted(h)
  BY <1>1 DEF Begun, CallInv
<1>4. pc # "returned" => Accounted(g)
  BY <1>1, <1>2, <1>3 DEF Accounted
<1> QED
  BY <1>1, <1>2, <1>4 DEF CallInv

LEMMA MoveStep ==
    ASSUME HeaderInv, NEW k \in KeyClients, Sleep(k) \/ Wake(k) \/ Finish(k)
    PROVE  HeaderInv'
<1>1. CallInv(header[k])
  BY DEF HeaderInv
<1>2. PICK pc \in {"scan", "sleep", "returned"} :
          /\ HeaderGoes(k, pc)
          /\ pc # "returned" => header[k].pc \in {"scan", "sleep"}
  BY DEF Sleep, Wake, Finish, HeaderAt
<1> DEFINE g == [header[k] EXCEPT !.pc = pc]
<1>3. CallInv(g)
  BY <1>1, <1>2, GoesInv
<1>4. header' = [header EXCEPT ![k] = g]
  BY <1>2 DEF HeaderGoes
<1> QED
  BY <1>3, <1>4, OneCall

\* With nothing queued no key item is in use, so every PRF begun has been tried.
LEMMA GiveUpStep ==
    ASSUME HeaderInv, NEW k \in KeyClients, GiveUp(k)
    PROVE  HeaderInv'
<1> DEFINE h == header[k]
           g == [h EXCEPT !.status = "passwordWrong", !.pc = "finish"]
<1>1. CallInv(h) /\ h.pc = "for" /\ h.prf > PrfCount /\ h.queued = 0
      /\ header' = [header EXCEPT ![k] = g]
  BY DEF HeaderInv, GiveUp, HeaderAt
<1>2. h \in CallType /\ Accounted(h) /\ Distinct(h) /\ h.prf \in 0 .. PrfCount + 1
      /\ h.tried \in SUBSET Prfs
  BY <1>1 DEF CallInv, CallType
<1>3. g \in CallType /\ g.items = h.items /\ g.tried = h.tried /\ g.pc = "finish"
  BY <1>2 DEF CallType
<1> HIDE DEF g, h
<1>4. Begun(h) = PrfCount
  BY <1>1, <1>2, HeaderFacts DEF Begun
<1>5. \A j \in KeyItems : h.items[j] = NoPrf
  <2>1. Cardinality(Busy(h.items)) = 0
    BY <1>1, <1>2 DEF Accounted
  <2> QED
    BY <2>1, BusyFacts DEF Busy
<1>6. h.tried = Prfs
  <2>1. ASSUME NEW p \in Prfs PROVE p \in h.tried
    BY <1>2, <1>4, <1>5, HeaderFacts DEF Accounted, Prfs, NoPrf
  <2> QED
    BY <1>2, <2>1
<1>7. Distinct(g)
  BY <1>2, <1>3 DEF Distinct
<1>8. CallInv(g)
  BY <1>3, <1>6, <1>7 DEF CallInv
<1> QED
  BY <1>1, <1>8, OneCall DEF h

-----------------------------------------------------------------------------

LEMMA HeaderInitInv == HeaderInit => HeaderInv
<1> SUFFICES ASSUME HeaderInit PROVE HeaderInv
  OBVIOUS
<1>1. CallInv(NewCall)
  BY NewCallInv
<1>2. NewCall \in CallType
  BY <1>1 DEF CallInv
<1> QED
  BY <1>1, <1>2 DEF HeaderInit, HeaderInv

LEMMA HeaderStepInv == HeaderInv /\ [HeaderNext]_<<vars, header>> => HeaderInv'
<1> SUFFICES ASSUME HeaderInv, [HeaderNext]_<<vars, header>> PROVE HeaderInv'
  OBVIOUS
<1>1. CASE UNCHANGED header
  BY <1>1 DEF HeaderInv
<1>2. CASE \E k \in KeyClients : Call(k) \/ Header(k)
  BY <1>2, CallStep, TryInlineStep, QueueStep, QueuedStep, WaitStep, CollectStep,
     MoveStep, GiveUpStep DEF Header
<1> QED
  BY <1>1, <1>2 DEF HeaderNext

THEOREM HeaderInvariant == HeaderSpec => []HeaderInv
<1> QED
  BY HeaderInitInv, HeaderStepInv, PTL DEF HeaderSpec

\* The locals of every call keep their types: the loop variable does not leave
\* 0 .. PrfCount + 1 though it is stepped back, and queuedWorkItems neither goes
\* below zero nor above the number of threads.
THEOREM HeaderTypeCorrect == HeaderSpec => []HeaderTypeOK
<1>1. HeaderInv => HeaderTypeOK
  BY DEF HeaderInv, CallType, HeaderTypeOK
<1> QED
  BY <1>1, HeaderInvariant, PTL

\* The password is called wrong only when every PRF has been tried.
THEOREM EveryPrfTried == HeaderSpec => []WrongOnlyAfterAll
<1>1. HeaderInv => WrongOnlyAfterAll
  BY DEF HeaderInv, CallInv, WrongOnlyAfterAll
<1> QED
  BY <1>1, HeaderInvariant, PTL

\* No PRF is derived twice by one call.
THEOREM NoPrfTwice == HeaderSpec => []DerivedOnce
<1>1. HeaderInv => DerivedOnce
  BY DEF HeaderInv, CallInv, Distinct, DerivedOnce
<1> QED
  BY <1>1, HeaderInvariant, PTL

=============================================================================
