----------------------- MODULE EncryptedIoQueue_proofs -----------------------
(* Theorems about the I/O queue, for any number of clients, sizes of the pools, devices and
   requests: the counts and pools are exact, a holder of the queue is alone with the device,
   the queue is stopped with nothing under way, protected regions are not written, sectors are
   encrypted exactly in the encrypted area, reads return plain text, and, on a device without
   faults, the queue is a plain disk to its clients (LogicalDisk). *)
EXTENDS EncryptedIoQueue, FiniteSetTheorems, SequenceTheorems, TLAPS

(* An IRP that a thread works on has been added and not been completed. *)
Working == {"gate", "resumeWait", "accept", "misaligned", "fragment", "getRequest", "queue",
            "finish", "handOver", "complete"}
Waiting == {"gate", "resumeWait", "accept"}
Splitting == {"fragment", "getRequest", "queue"}

ThreadType == [pc : ThreadPc, irp : Irps \cup {None}, request : Request]

Types ==
    /\ queue \in Queues
    /\ irp \in [Irps -> IrpType]
    /\ mainQueue \in Seq(Irps) /\ ioQueue \in Seq(Request) /\ completionQueue \in Seq(Request)
    /\ thread \in [Threads -> ThreadType]

PcInv ==
    /\ thread["main"].pc \in {"idle", "gate", "resumeWait", "accept", "misaligned", "fragment",
                              "getRequest", "queue", "complete", "decrement", "signal", "exited"}
    /\ thread["io"].pc \in {"idle", "finish", "handOver", "complete", "readAhead",
                            "readAheadDone", "signalReadAhead", "decrement", "signal", "exited"}
    /\ thread["completion"].pc \in {"idle", "complete", "decrement", "signal", "exited"}

PendingInv ==
    /\ \A n \in 1 .. Len(mainQueue) : irp[mainQueue[n]].pc = "pending"
    /\ \A n \in 1 .. Len(ioQueue) :
          ioQueue[n].irp \in Irps /\ irp[ioQueue[n].irp].pc = "pending"
    /\ \A n \in 1 .. Len(completionQueue) :
          /\ completionQueue[n].irp \in Irps /\ irp[completionQueue[n].irp].pc = "pending"
          /\ ~irp[completionQueue[n].irp].write
    /\ \A t \in Threads : thread[t].pc \in Working =>
          /\ thread[t].irp \in Irps /\ irp[thread[t].irp].pc = "pending"
          /\ t # "main" \/ At(t, "queue") => thread[t].request.irp = thread[t].irp
    /\ At("io", "handOver") => ~irp[thread["io"].irp].write
    /\ At("io", "complete") => irp[thread["io"].irp].write /\ thread["io"].request.last
    /\ At("completion", "complete") =>
          ~irp[thread["completion"].irp].write /\ thread["completion"].request.last

(* IRPs that wait are in no other place, ... *)
WaitingInv ==
    LET main == thread["main"] IN
    /\ \A m, n \in 1 .. Len(mainQueue) : m # n => mainQueue[m] # mainQueue[n]
    /\ \A n \in 1 .. Len(mainQueue) :
          /\ \A t \in Threads : thread[t].pc \in Working => thread[t].irp # mainQueue[n]
          /\ \A m \in 1 .. Len(ioQueue) : ioQueue[m].irp # mainQueue[n]
          /\ \A m \in 1 .. Len(completionQueue) : completionQueue[m].irp # mainQueue[n]
    /\ main.pc \in Working =>
          /\ \A n \in 1 .. Len(ioQueue) :
                ioQueue[n].irp = main.irp => main.pc \in Splitting /\ ~ioQueue[n].last
          /\ \A n \in 1 .. Len(completionQueue) :
                completionQueue[n].irp = main.irp => main.pc \in Splitting /\ ~completionQueue[n].last
          /\ \A t \in {"io", "completion"} : thread[t].pc \in Working /\ thread[t].irp = main.irp =>
                main.pc \in Splitting /\ ~thread[t].request.last

(* ... and no request of an IRP is behind its last one. *)
LastInv ==
    LET handled(t) == thread[t].pc \in Working IN
    /\ \A m, n \in 1 .. Len(ioQueue) :
          m < n /\ ioQueue[m].last => ioQueue[n].irp # ioQueue[m].irp
    /\ \A m, n \in 1 .. Len(completionQueue) :
          m < n /\ completionQueue[m].last => completionQueue[n].irp # completionQueue[m].irp
    /\ \A m \in 1 .. Len(completionQueue) : completionQueue[m].last =>
          /\ \A n \in 1 .. Len(ioQueue) : ioQueue[n].irp # completionQueue[m].irp
          /\ handled("io") => thread["io"].irp # completionQueue[m].irp
    /\ handled("io") /\ thread["io"].request.last =>
          \A n \in 1 .. Len(ioQueue) : ioQueue[n].irp # thread["io"].irp
    /\ handled("completion") =>
          /\ \A n \in 1 .. Len(ioQueue) : ioQueue[n].irp # thread["completion"].irp
          /\ \A n \in 1 .. Len(completionQueue) :
                completionQueue[n].irp # thread["completion"].irp
          /\ handled("io") => thread["io"].irp # thread["completion"].irp

Pipeline == Types /\ PcInv /\ PendingInv /\ WaitingInv /\ LastInv

(* The counts. *)
Outstanding == {i \in Irps : irp[i].pc \in {"counted", "pending"}}
Counting == {t \in Threads : thread[t].pc \in {"decrement", "readAhead", "readAheadDone"}}

\* IRPs that have an item of the pool.
Accepted ==
    {i \in Irps :
        /\ irp[i].pc = "pending"
        /\ \A n \in 1 .. Len(mainQueue) : mainQueue[n] # i
        /\ thread["main"].pc \in Waiting => thread["main"].irp # i}
Releasing == {t \in Threads : thread[t].pc \in {"decrement", "signal"}}

Bit(condition) == IF condition THEN 1 ELSE 0

ItemsInv ==
    /\ itemsFree + Cardinality(Accepted) + Cardinality(Releasing) = ItemCount
    /\ itemsFree \in Nat

\* Requests are in the two queues or with a thread, ...
InMain == Bit(At("main", "queue"))
InIo == Bit(thread["io"].pc \in {"finish", "handOver", "complete", "decrement", "signal"})
InCompletion == Bit(thread["completion"].pc \in {"complete", "decrement", "signal"})
\* ... and the main thread announces one before it has it.
Announced == Bit(thread["main"].pc \in {"getRequest", "queue"})

RequestsInv ==
    /\ requestsFree + Len(ioQueue) + Len(completionQueue) + InMain + InIo + InCompletion = RequestCount
    /\ requestsFree \in Nat
    /\ IoThreadPendingRequestCount = Len(ioQueue) + Announced

PoolInv == ItemsInv /\ RequestsInv

(* The main thread does not pass the gate while the queue is held. *)
HeldInv ==
    /\ hold # "idle" => IsFilterDevice
    /\ hold \in {"suspend", "confirm", "invalidate", "held", "resume"} => ~QueueResumedEvent
    /\ hold \in {"confirm", "invalidate", "held"} => Suspended
    /\ hold \in {"invalidate", "held"} =>
          ioQueue = << >> /\ completionQueue = << >> /\ \A t \in Threads : Harmless(t)

(* Once the I/O has been drained for a stop, no IRP gets into the queue. *)
StopInv ==
    /\ IsFilterDevice => stop = "running"
    /\ stop # "running" => StopPending
    /\ ThreadExitRequested <=> stop \in Threads \cup {"stopped"}
    /\ ThreadExitRequested =>
          /\ \A i \in Irps : irp[i].pc # "pending"
          /\ \A t \in Threads : thread[t].pc \in {"idle", "signal", "signalReadAhead", "exited"}
    /\ (\E t \in Threads : At(t, "exited")) => ThreadExitRequested
    /\ stop \in {"io", "completion", "stopped"} => At("main", "exited")
    /\ stop \in {"completion", "stopped"} => At("io", "exited")
    /\ stop = "stopped" => At("completion", "exited")

RestTypes ==
    /\ fragmentBufferFree \in [{"A", "B"} -> BOOLEAN]
    /\ EncryptedAreaEnd \in Int
    /\ NoOutstandingIoEvent \in BOOLEAN /\ Suspended \in BOOLEAN /\ SuspendPending \in BOOLEAN
    /\ QueueResumedEvent \in BOOLEAN /\ StopPending \in BOOLEAN
    /\ ThreadExitRequested \in BOOLEAN /\ ProtectionAction \in BOOLEAN
    /\ hold \in HoldPc /\ stop \in StopPc

CursorInv ==
    /\ cursor \in [offset : Nat, remaining : Nat] /\ activeFragmentBuffer \in {"A", "B"}
    /\ At("main", "queue") /\ ~thread["main"].request.last => cursor.remaining > MaxFragment

AllInv == Pipeline /\ Accounted /\ PoolInv /\ HeldInv /\ StopInv /\ RestTypes /\ CursorInv

-----------------------------------------------------------------------------
(* How threads and queues change. *)
LEMMA IdleType == Idle \in ThreadType /\ NoRequest \in Request /\ Idle.pc = "idle"
  BY DEF Idle, NoRequest, ThreadType, ThreadPc, Request

LEMMA GoesFacts ==
    ASSUME Types, NEW t \in Threads, NEW pc \in ThreadPc, Goes(t, pc)
    PROVE  /\ thread' \in [Threads -> ThreadType] /\ thread'[t].pc = pc
           /\ pc \notin {"idle", "exited"} =>
                 thread'[t].irp = thread[t].irp /\ thread'[t].request = thread[t].request
           /\ \A u \in Threads : u # t => thread'[u] = thread[u]
<1>1. thread[t] \in ThreadType
  BY DEF Types
<1>2. CASE pc \in {"idle", "exited"}
  <2>1. [Idle EXCEPT !.pc = pc] \in ThreadType /\ [Idle EXCEPT !.pc = pc].pc = pc
    BY IdleType DEF Idle, ThreadType
  <2> QED
    BY <1>2, <2>1 DEF Goes, Types
<1>3. CASE pc \notin {"idle", "exited"}
  <2> DEFINE new == [thread[t] EXCEPT !.pc = pc]
  <2>1. /\ new \in ThreadType /\ new.pc = pc
        /\ new.irp = thread[t].irp /\ new.request = thread[t].request
    BY <1>1 DEF ThreadType
  <2>2. thread' = [thread EXCEPT ![t] = new]
    BY <1>3 DEF Goes
  <2> HIDE DEF new
  <2> QED
    BY <1>3, <2>1, <2>2 DEF Types
<1> QED
  BY <1>2, <1>3

\* The elements of a queue to which one is added, or from which the first is taken.
LEMMA Added ==
    ASSUME NEW S, NEW q \in Seq(S), NEW x \in S
    PROVE  /\ Append(q, x) \in Seq(S) /\ Len(Append(q, x)) = Len(q) + 1
           /\ Append(q, x)[Len(q) + 1] = x
           /\ \A n \in 1 .. Len(q) : Append(q, x)[n] = q[n]
  OBVIOUS

LEMMA Taken ==
    ASSUME NEW S, NEW q \in Seq(S), q # << >>
    PROVE  /\ Tail(q) \in Seq(S) /\ Len(Tail(q)) = Len(q) - 1 /\ Len(q) \in Nat \ {0}
           /\ Head(q) = q[1] /\ Head(q) \in S
           /\ \A n \in 1 .. Len(q) - 1 : Tail(q)[n] = q[n + 1]
  OBVIOUS

LEMMA Lengths ==
    ASSUME Types
    PROVE  /\ Len(mainQueue) \in Nat /\ Len(ioQueue) \in Nat /\ Len(completionQueue) \in Nat
           /\ \A n \in 1 .. Len(mainQueue) : mainQueue[n] \in Irps
           /\ \A n \in 1 .. Len(ioQueue) : ioQueue[n] \in Request
           /\ \A n \in 1 .. Len(completionQueue) : completionQueue[n] \in Request
  BY DEF Types

\* A thread moves on, with its IRP or without it.
IrpsKept ==
    /\ UNCHANGED <<queue, queues>> /\ irp' \in [Irps -> IrpType]
    /\ \A i \in Irps : irp'[i].pc = irp[i].pc /\ irp'[i].write = irp[i].write
MovesOn(t, pc) ==
    /\ pc \in Working => /\ thread[t].pc \in Working /\ pc # "queue" /\ t # "completion"
                         /\ thread[t].pc \in Splitting => pc \in Splitting
    /\ t = "io" /\ pc = "handOver" => ~irp[thread[t].irp].write
    /\ t = "io" /\ pc = "complete" => irp[thread[t].irp].write /\ thread[t].request.last

LEMMA PipelineMove ==
    ASSUME Pipeline, NEW t \in Threads, NEW pc \in ThreadPc, Goes(t, pc),
           IrpsKept, PcInv', MovesOn(t, pc)
    PROVE  Pipeline'
<1>0. /\ UNCHANGED <<queue, queues>> /\ irp' \in [Irps -> IrpType]
      /\ \A i \in Irps : irp'[i].pc = irp[i].pc /\ irp'[i].write = irp[i].write
  BY DEF IrpsKept
<1>1. /\ thread' \in [Threads -> ThreadType] /\ thread'[t].pc = pc
      /\ pc \in Working => /\ thread'[t].irp = thread[t].irp
                           /\ thread'[t].request = thread[t].request
      /\ \A u \in Threads : u # t => thread'[u] = thread[u]
  BY GoesFacts DEF Pipeline, Working
<1>2. /\ mainQueue' = mainQueue /\ ioQueue' = ioQueue /\ completionQueue' = completionQueue
      /\ queue' = queue
  BY <1>0 DEF queues
<1>3. Types'
  BY <1>0, <1>1, <1>2 DEF Pipeline, Types
<1>4. PendingInv'
  <2>1. \A n \in 1 .. Len(mainQueue) : irp'[mainQueue[n]].pc = "pending"
    BY <1>0, Lengths DEF Pipeline, PendingInv
  <2>2. \A n \in 1 .. Len(ioQueue) :
           ioQueue[n].irp \in Irps /\ irp'[ioQueue[n].irp].pc = "pending"
    BY <1>0 DEF Pipeline, PendingInv
  <2>3. \A n \in 1 .. Len(completionQueue) :
           /\ completionQueue[n].irp \in Irps /\ irp'[completionQueue[n].irp].pc = "pending"
           /\ ~irp'[completionQueue[n].irp].write
    BY <1>0 DEF Pipeline, PendingInv
  <2>4. \A u \in Threads : thread'[u].pc \in Working =>
          /\ thread'[u].irp \in Irps /\ irp'[thread'[u].irp].pc = "pending"
          /\ u # "main" \/ thread'[u].pc = "queue" => thread'[u].request.irp = thread'[u].irp
    BY <1>0, <1>1 DEF MovesOn, Pipeline, PendingInv, At
  <2>5. /\ At("io", "handOver")' => ~irp'[thread'["io"].irp].write
        /\ At("io", "complete")' => irp'[thread'["io"].irp].write /\ thread'["io"].request.last
        /\ At("completion", "complete")' =>
              ~irp'[thread'["completion"].irp].write /\ thread'["completion"].request.last
    BY <1>0, <1>1 DEF MovesOn, Pipeline, PendingInv, At, Working, Threads
  <2> QED
    BY <1>2, <2>1, <2>2, <2>3, <2>4, <2>5 DEF PendingInv, At
<1>5. WaitingInv'
  BY <1>1, <1>2 DEF MovesOn, Pipeline, WaitingInv, Threads
<1>6. LastInv'
  BY <1>1, <1>2 DEF MovesOn, Pipeline, LastInv, Threads
<1> QED
  BY <1>3, <1>4, <1>5, <1>6 DEF Pipeline

\* IRPs that are not under way are added, refused and collected.
LEMMA PipelineClient ==
    ASSUME Pipeline, NEW i \in Irps, irp[i].pc # "pending", NEW new \in IrpType,
           irp' = [irp EXCEPT ![i] = new], UNCHANGED <<queue, queues, thread>>
    PROVE  Pipeline'
<1>1. /\ irp' \in [Irps -> IrpType]
      /\ \A j \in Irps : irp[j].pc = "pending" => irp'[j] = irp[j]
  BY DEF Pipeline, Types
<1>2. /\ mainQueue' = mainQueue /\ ioQueue' = ioQueue /\ completionQueue' = completionQueue
      /\ queue' = queue /\ thread' = thread
  BY DEF queues
<1>3. Types' /\ PcInv' /\ WaitingInv' /\ LastInv'
  <2>1. Types' /\ PcInv'
    BY <1>1, <1>2 DEF Pipeline, Types, PcInv
  <2>2. WaitingInv'
    BY <1>2 DEF Pipeline, WaitingInv
  <2>3. LastInv'
    BY <1>2 DEF Pipeline, LastInv
  <2> QED
    BY <2>1, <2>2, <2>3
<1>4. PendingInv'
  <2>1. /\ \A n \in 1 .. Len(mainQueue) : irp'[mainQueue[n]].pc = "pending"
        /\ \A n \in 1 .. Len(ioQueue) :
              ioQueue[n].irp \in Irps /\ irp'[ioQueue[n].irp].pc = "pending"
        /\ \A n \in 1 .. Len(completionQueue) :
              /\ completionQueue[n].irp \in Irps /\ irp'[completionQueue[n].irp].pc = "pending"
              /\ ~irp'[completionQueue[n].irp].write
    BY <1>1, Lengths DEF Pipeline, PendingInv
  <2>2. \A t \in Threads : thread[t].pc \in Working =>
          /\ thread[t].irp \in Irps /\ irp'[thread[t].irp] = irp[thread[t].irp]
          /\ irp'[thread[t].irp].pc = "pending"
          /\ t # "main" \/ At(t, "queue") => thread[t].request.irp = thread[t].irp
    BY <1>1 DEF Pipeline, PendingInv
  <2>3. /\ At("io", "handOver") => ~irp'[thread["io"].irp].write
        /\ At("io", "complete") => irp'[thread["io"].irp].write /\ thread["io"].request.last
        /\ At("completion", "complete") =>
              ~irp'[thread["completion"].irp].write /\ thread["completion"].request.last
    BY <2>2 DEF Pipeline, PendingInv, At, Working, Threads
  <2> QED
    BY <1>2, <2>1, <2>2, <2>3 DEF PendingInv, At
<1> QED
  BY <1>3, <1>4 DEF Pipeline

\* An IRP is completed by a thread that alone has it.
LEMMA PipelineComplete ==
    ASSUME Pipeline, NEW t \in Threads, Complete(t)
    PROVE  Pipeline'
<1> DEFINE i == thread[t].irp
<1>1. /\ thread[t].pc = "complete" /\ i \in Irps /\ irp[i].pc = "pending"
      /\ irp' = [irp EXCEPT ![i].pc = "done"]
      /\ mainQueue' = mainQueue /\ ioQueue' = ioQueue /\ completionQueue' = completionQueue
      /\ queue' = queue
  BY DEF Complete, At, Pipeline, PendingInv, Working, device, queues
<1>2. /\ thread' \in [Threads -> ThreadType] /\ thread'[t].pc = "decrement"
      /\ \A u \in Threads : u # t => thread'[u] = thread[u]
  BY GoesFacts DEF Complete, Pipeline, ThreadPc
<1>3. /\ irp' \in [Irps -> IrpType]
      /\ \A j \in Irps : j # i => irp'[j] = irp[j]
  BY ZenonT(60), <1>1 DEF Pipeline, Types, IrpType, ClientPc
<1>4. /\ \A n \in 1 .. Len(mainQueue) : mainQueue[n] # i
      /\ \A n \in 1 .. Len(ioQueue) : ioQueue[n].irp # i
      /\ \A n \in 1 .. Len(completionQueue) : completionQueue[n].irp # i
      /\ \A u \in Threads : u # t /\ thread[u].pc \in Working => thread[u].irp # i
  <2>1. CASE t = "main"
    BY <1>1, <2>1 DEF Pipeline, WaitingInv, Threads, Working, Splitting
  <2>2. CASE t = "io"
    BY <1>1, <2>2 DEF Pipeline, PendingInv, WaitingInv, LastInv, Threads, Working, At, PcInv
  <2>3. CASE t = "completion"
    BY <1>1, <2>3 DEF Pipeline, PendingInv, WaitingInv, LastInv, Threads, Working, At
  <2> QED
    BY <2>1, <2>2, <2>3 DEF Threads
<1>5. Types' /\ PcInv' /\ WaitingInv' /\ LastInv'
  <2>1. Types' /\ PcInv'
    BY <1>1, <1>2, <1>3 DEF Pipeline, Types, PcInv, Threads
  <2>2. WaitingInv'
    BY <1>1, <1>2 DEF Pipeline, WaitingInv, Threads, Working
  <2>3. LastInv'
    BY <1>1, <1>2 DEF Pipeline, LastInv, Threads, Working
  <2> QED
    BY <2>1, <2>2, <2>3
<1>6. PendingInv'
  BY <1>1, <1>2, <1>3, <1>4, Lengths DEF Pipeline, PendingInv, At, Working, Threads
<1> QED
  BY <1>5, <1>6 DEF Pipeline

\* The IRP enters the queue of the main thread, ...
LEMMA PipelineAdd ==
    ASSUME Pipeline, NEW i \in Irps, AddIrpQueue(i)
    PROVE  Pipeline'
<1>1. /\ irp[i].pc = "counted" /\ irp' = [irp EXCEPT ![i].pc = "pending"]
      /\ mainQueue' = Append(mainQueue, i)
      /\ ioQueue' = ioQueue /\ completionQueue' = completionQueue
      /\ queue' = queue /\ thread' = thread
  BY DEF AddIrpQueue, IrpAt, IrpGoes, device
<1>2. /\ irp' \in [Irps -> IrpType] /\ irp'[i].pc = "pending"
      /\ \A j \in Irps : j # i => irp'[j] = irp[j]
  BY <1>1 DEF Pipeline, Types, IrpType, ClientPc
<1>3. /\ mainQueue' \in Seq(Irps) /\ Len(mainQueue') = Len(mainQueue) + 1
      /\ mainQueue'[Len(mainQueue) + 1] = i
      /\ \A n \in 1 .. Len(mainQueue) : mainQueue'[n] = mainQueue[n]
  BY <1>1, Added DEF Pipeline, Types
<1>4. /\ \A n \in 1 .. Len(mainQueue) : mainQueue[n] # i
      /\ \A n \in 1 .. Len(ioQueue) : ioQueue[n].irp # i
      /\ \A n \in 1 .. Len(completionQueue) : completionQueue[n].irp # i
      /\ \A t \in Threads : thread[t].pc \in Working => thread[t].irp # i
  BY <1>1 DEF Pipeline, PendingInv
<1>5. Types' /\ PcInv' /\ LastInv'
  BY <1>1, <1>2, <1>3 DEF Pipeline, Types, PcInv, LastInv
<1>6. PendingInv'
  <2>1. \A n \in 1 .. Len(mainQueue) + 1 : irp'[mainQueue'[n]].pc = "pending"
    BY <1>2, <1>3, <1>4, Lengths DEF Pipeline, PendingInv
  <2>2. /\ \A n \in 1 .. Len(ioQueue) :
              ioQueue[n].irp \in Irps /\ irp'[ioQueue[n].irp].pc = "pending"
        /\ \A n \in 1 .. Len(completionQueue) :
              /\ completionQueue[n].irp \in Irps /\ irp'[completionQueue[n].irp].pc = "pending"
              /\ ~irp'[completionQueue[n].irp].write
    BY <1>2, <1>4 DEF Pipeline, PendingInv
  <2>3. \A t \in Threads : thread[t].pc \in Working =>
          /\ thread[t].irp \in Irps /\ irp'[thread[t].irp] = irp[thread[t].irp]
          /\ irp'[thread[t].irp].pc = "pending"
          /\ t # "main" \/ At(t, "queue") => thread[t].request.irp = thread[t].irp
    BY <1>2, <1>4 DEF Pipeline, PendingInv
  <2>4. /\ At("io", "handOver") => ~irp'[thread["io"].irp].write
        /\ At("io", "complete") => irp'[thread["io"].irp].write /\ thread["io"].request.last
        /\ At("completion", "complete") =>
              ~irp'[thread["completion"].irp].write /\ thread["completion"].request.last
    BY <2>3 DEF Pipeline, PendingInv, At, Working, Threads
  <2> QED
    BY <1>1, <1>3, <2>1, <2>2, <2>3, <2>4 DEF PendingInv, At
<1>7. WaitingInv'
  <2>1. \A m, n \in 1 .. Len(mainQueue') : m # n => mainQueue'[m] # mainQueue'[n]
    BY <1>3, <1>4, Lengths DEF Pipeline, WaitingInv
  <2>2. \A n \in 1 .. Len(mainQueue') :
          /\ \A t \in Threads : thread[t].pc \in Working => thread[t].irp # mainQueue'[n]
          /\ \A m \in 1 .. Len(ioQueue) : ioQueue[m].irp # mainQueue'[n]
          /\ \A m \in 1 .. Len(completionQueue) : completionQueue[m].irp # mainQueue'[n]
    BY <1>3, <1>4, Lengths DEF Pipeline, WaitingInv
  <2> QED
    BY <1>1, <2>1, <2>2 DEF Pipeline, WaitingInv
<1> QED
  BY <1>5, <1>6, <1>7 DEF Pipeline

\* ... and is taken from it.
LEMMA PipelineDequeue ==
    ASSUME Pipeline, MainDequeue
    PROVE  Pipeline'
<1> DEFINE i == Head(mainQueue)
<1>1. /\ thread["main"].pc = "idle" /\ mainQueue # << >> /\ mainQueue' = Tail(mainQueue)
      /\ ioQueue' = ioQueue /\ completionQueue' = completionQueue
      /\ queue' = queue /\ irp' = irp
      /\ thread' = [thread EXCEPT !["main"] = [@ EXCEPT !.pc = "gate", !.irp = i]]
  BY DEF MainDequeue, At, device, clients
<1>2. /\ mainQueue' \in Seq(Irps) /\ Len(mainQueue') = Len(mainQueue) - 1
      /\ Len(mainQueue) \in Nat \ {0} /\ i = mainQueue[1] /\ i \in Irps
      /\ \A n \in 1 .. Len(mainQueue) - 1 : mainQueue'[n] = mainQueue[n + 1]
  BY <1>1, Taken DEF Pipeline, Types
<1>3. /\ thread' \in [Threads -> ThreadType]
      /\ thread'["main"].pc = "gate" /\ thread'["main"].irp = i
      /\ \A u \in Threads : u # "main" => thread'[u] = thread[u]
  <2> DEFINE new == [thread["main"] EXCEPT !.pc = "gate", !.irp = i]
  <2>1. new \in ThreadType /\ new.pc = "gate" /\ new.irp = i
    BY <1>2 DEF Pipeline, Types, ThreadType, ThreadPc, Threads
  <2> HIDE DEF new
  <2> QED
    BY <1>1, <2>1 DEF Pipeline, Types, new, Threads
<1> HIDE DEF i
<1>4. /\ \A n \in 1 .. Len(mainQueue') : mainQueue'[n] # i
      /\ \A n \in 1 .. Len(ioQueue) : ioQueue[n].irp # i
      /\ \A n \in 1 .. Len(completionQueue) : completionQueue[n].irp # i
      /\ \A t \in Threads : thread[t].pc \in Working => thread[t].irp # i
  BY <1>2 DEF Pipeline, WaitingInv
<1>5. Types' /\ PcInv'
  BY <1>1, <1>2, <1>3 DEF Pipeline, Types, PcInv, Threads
<1>6. PendingInv'
  BY <1>1, <1>2, <1>3 DEF Pipeline, PendingInv, At, Working, Threads
<1>7. WaitingInv'
  BY <1>1, <1>2, <1>3, <1>4 DEF Pipeline, WaitingInv, Threads
<1>8. LastInv'
  BY <1>1, <1>3 DEF Pipeline, LastInv, Threads
<1> QED
  BY <1>5, <1>6, <1>7, <1>8 DEF Pipeline

\* The queue considered is one of those that are assumed.
LEMMA QueueFacts ==
    ASSUME Types
    PROVE  /\ queue \in QueueType /\ MaxFragment \in Nat \ {0} /\ IsFilterDevice \in BOOLEAN
           /\ ItemCount \in Nat \ {0} /\ RequestCount \in Nat \ {0}
           /\ IsFiniteSet(Irps) /\ None \notin Irps
<1>1. queue \in QueueType
  BY QueueAssumption DEF Types, QueueAssumption
<1> QED
  BY <1>1, QueueAssumption DEF QueueAssumption, QueueType, MaxFragment, IsFilterDevice

\* The main thread makes a request.
LEMMA PipelineGetRequest ==
    ASSUME Pipeline, CursorInv, MainGetRequest
    PROVE  Pipeline' /\ CursorInv'
<1> DEFINE last == cursor.remaining <= MaxFragment
           fragment == [offset |-> cursor.offset,
                        length |-> IF last THEN cursor.remaining ELSE MaxFragment]
           r == [irp |-> thread["main"].irp, last |-> last,
                 offset |-> fragment.offset, length |-> fragment.length,
                 encrypted |-> EncryptedPart(Sectors(fragment)), buffer |-> activeFragmentBuffer]
<1>1. /\ thread["main"].pc = "getRequest"
      /\ thread' = [thread EXCEPT !["main"].pc = "queue", !["main"].request = r]
      /\ mainQueue' = mainQueue /\ ioQueue' = ioQueue /\ completionQueue' = completionQueue
      /\ queue' = queue /\ irp' = irp
      /\ cursor' = cursor /\ activeFragmentBuffer' = activeFragmentBuffer
  BY DEF MainGetRequest, At, clients, device, queues, buffers
<1>2. thread["main"].irp \in Irps /\ irp[thread["main"].irp].pc = "pending"
  BY <1>1 DEF Pipeline, PendingInv, Working, Threads
<1>3. fragment.offset \in Nat /\ fragment.length \in Nat /\ last \in BOOLEAN
  BY QueueFacts DEF Pipeline, CursorInv
<1>4. EncryptedPart(Sectors(fragment)) \subseteq Nat
  BY <1>3 DEF EncryptedPart, Sectors
<1>5. /\ r \in Request /\ r.irp = thread["main"].irp
      /\ ~r.last => cursor.remaining > MaxFragment
  <2>1. ~last => cursor.remaining > MaxFragment
    BY QueueFacts DEF Pipeline, CursorInv
  <2>2. activeFragmentBuffer \in {"A", "B"}
    BY DEF CursorInv
  <2> HIDE DEF last, fragment
  <2>3. r \in Request /\ r.irp = thread["main"].irp /\ r.last = last
    BY <1>2, <1>3, <1>4, <2>2 DEF Request
  <2> QED
    BY <2>1, <2>3
<1> HIDE DEF r
<1>6. /\ thread' \in [Threads -> ThreadType]
      /\ thread'["main"].pc = "queue" /\ thread'["main"].irp = thread["main"].irp
      /\ thread'["main"].request = r
      /\ \A u \in Threads : u # "main" => thread'[u] = thread[u]
  <2> DEFINE new == [thread["main"] EXCEPT !.pc = "queue", !.request = r]
  <2>1. new \in ThreadType /\ new.pc = "queue" /\ new.irp = thread["main"].irp /\ new.request = r
    BY <1>5 DEF Pipeline, Types, ThreadType, ThreadPc, Threads
  <2>2. thread' = [thread EXCEPT !["main"] = new]
    BY <1>1 DEF Pipeline, Types, Threads
  <2> HIDE DEF new
  <2> QED
    BY <2>1, <2>2 DEF Pipeline, Types, Threads
<1>7. Types' /\ PcInv' /\ CursorInv'
  BY <1>1, <1>5, <1>6 DEF Pipeline, Types, PcInv, CursorInv, Threads, MaxFragment, At
<1>8. PendingInv'
  BY <1>1, <1>2, <1>5, <1>6 DEF Pipeline, PendingInv, At, Working, Threads
<1>9. WaitingInv'
  BY <1>1, <1>6 DEF Pipeline, WaitingInv, Threads, Splitting, Working
<1>10. LastInv'
  BY <1>1, <1>6 DEF Pipeline, LastInv, Threads
<1> QED
  BY <1>7, <1>8, <1>9, <1>10 DEF Pipeline

\* The request enters the queue of the I/O thread, ...
LEMMA PipelineQueue ==
    ASSUME Pipeline, CursorInv, MainQueue
    PROVE  Pipeline' /\ CursorInv'
<1> DEFINE r == thread["main"].request
           new == IF r.last THEN Idle ELSE [Idle EXCEPT !.pc = "fragment", !.irp = r.irp]
<1>1. /\ thread["main"].pc = "queue" /\ ioQueue' = Append(ioQueue, r)
      /\ thread' = [thread EXCEPT !["main"] = new]
      /\ cursor' = IF r.last THEN [offset |-> 0, remaining |-> 0] ELSE NextFragment
      /\ mainQueue' = mainQueue /\ completionQueue' = completionQueue
      /\ queue' = queue /\ irp' = irp /\ activeFragmentBuffer' = activeFragmentBuffer
  BY DEF MainQueue, At, clients, device
<1>2. /\ r.irp = thread["main"].irp /\ r.irp \in Irps /\ irp[r.irp].pc = "pending"
      /\ r \in Request
  BY <1>1 DEF Pipeline, PendingInv, Types, ThreadType, Working, Threads, At
<1>3. /\ ioQueue' \in Seq(Request) /\ Len(ioQueue') = Len(ioQueue) + 1
      /\ ioQueue'[Len(ioQueue) + 1] = r
      /\ \A n \in 1 .. Len(ioQueue) : ioQueue'[n] = ioQueue[n]
  BY <1>1, <1>2, Added DEF Pipeline, Types
<1>4. /\ new \in ThreadType /\ new.pc = IF r.last THEN "idle" ELSE "fragment"
      /\ ~r.last => new.irp = r.irp
  BY <1>2, IdleType DEF ThreadType, ThreadPc, Idle
<1>5. r.last \in BOOLEAN
  BY <1>2 DEF Request
<1> HIDE DEF new, r
<1>6. /\ thread' \in [Threads -> ThreadType] /\ thread'["main"] = new
      /\ \A u \in Threads : u # "main" => thread'[u] = thread[u]
  BY <1>1, <1>4 DEF Pipeline, Types, Threads
<1>7. /\ \A n \in 1 .. Len(mainQueue) : mainQueue[n] # r.irp
      /\ \A n \in 1 .. Len(ioQueue) : ioQueue[n].irp = r.irp => ~ioQueue[n].last
      /\ \A n \in 1 .. Len(completionQueue) :
            completionQueue[n].irp = r.irp => ~completionQueue[n].last
      /\ \A t \in {"io", "completion"} :
            thread[t].pc \in Working /\ thread[t].irp = r.irp => ~thread[t].request.last
  BY <1>1, <1>2 DEF Pipeline, WaitingInv, Working, Threads
<1>8. ~(thread["completion"].pc \in Working /\ thread["completion"].irp = r.irp)
  BY <1>7 DEF Pipeline, PendingInv, PcInv, Working, At
<1>9. Types' /\ PcInv'
  BY <1>1, <1>3, <1>4, <1>6 DEF Pipeline, Types, PcInv, Threads
<1>10. CursorInv'
  <2>1. cursor' \in [offset : Nat, remaining : Nat]
    <3>1. CASE r.last
      BY <1>1, <3>1
    <3>2. CASE ~r.last
      BY <1>1, <3>2, QueueFacts DEF r, Pipeline, CursorInv, NextFragment, At
    <3> QED
      BY <3>1, <3>2
  <2> QED
    BY <1>1, <1>4, <1>6, <2>1 DEF CursorInv, At
<1>11. PendingInv'
  BY <1>1, <1>2, <1>3, <1>4, <1>6, Lengths DEF Pipeline, PendingInv, At, Working, Threads
<1>12. WaitingInv'
  <2>1. \A n \in 1 .. Len(mainQueue) :
          /\ \A t \in Threads : thread'[t].pc \in Working => thread'[t].irp # mainQueue[n]
          /\ \A m \in 1 .. Len(ioQueue') : ioQueue'[m].irp # mainQueue[n]
    <3>1. ASSUME NEW n \in 1 .. Len(mainQueue), NEW m \in 1 .. Len(ioQueue')
          PROVE  ioQueue'[m].irp # mainQueue[n]
      <4>1. CASE m = Len(ioQueue) + 1
        BY <1>3, <1>7, <4>1
      <4>2. CASE m \in 1 .. Len(ioQueue)
        BY <1>3, <4>2 DEF Pipeline, WaitingInv
      <4> QED
        BY <1>3, <4>1, <4>2, Lengths DEF Pipeline
    <3>2. ASSUME NEW n \in 1 .. Len(mainQueue), NEW t \in Threads, thread'[t].pc \in Working
          PROVE  thread'[t].irp # mainQueue[n]
      <4>1. CASE t = "main"
        BY <1>4, <1>6, <1>7, <3>2, <4>1 DEF Working
      <4>2. CASE t # "main"
        BY <1>6, <3>2, <4>2 DEF Pipeline, WaitingInv
      <4> QED
        BY <4>1, <4>2
    <3> QED
      BY <3>1, <3>2
  <2>2. ASSUME ~r.last
        PROVE  \A n \in 1 .. Len(ioQueue') : ioQueue'[n].irp = r.irp => ~ioQueue'[n].last
    BY <1>3, <1>7, <2>2, Lengths DEF Pipeline
  <2> QED
    BY <1>1, <1>4, <1>6, <1>7, <2>1, <2>2 DEF Pipeline, WaitingInv, Threads, Working, Splitting
<1>13. LastInv'
  <2>1. \A m, n \in 1 .. Len(ioQueue') :
           m < n /\ ioQueue'[m].last => ioQueue'[n].irp # ioQueue'[m].irp
    <3> SUFFICES ASSUME NEW m \in 1 .. Len(ioQueue'), NEW n \in 1 .. Len(ioQueue'),
                        m < n, ioQueue'[m].last
                 PROVE  ioQueue'[n].irp # ioQueue'[m].irp
      OBVIOUS
    <3>1. m \in 1 .. Len(ioQueue) /\ (n \in 1 .. Len(ioQueue) \/ n = Len(ioQueue) + 1)
      BY <1>3, Lengths DEF Pipeline
    <3>2. CASE n \in 1 .. Len(ioQueue)
      BY <1>3, <3>1, <3>2 DEF Pipeline, LastInv
    <3>3. CASE n = Len(ioQueue) + 1
      BY <1>3, <1>7, <3>1, <3>3
    <3> QED
      BY <3>1, <3>2, <3>3
  <2>2. /\ \A m \in 1 .. Len(completionQueue) : completionQueue[m].last =>
              \A n \in 1 .. Len(ioQueue') : ioQueue'[n].irp # completionQueue[m].irp
        /\ thread["io"].pc \in Working /\ thread["io"].request.last =>
              \A n \in 1 .. Len(ioQueue') : ioQueue'[n].irp # thread["io"].irp
        /\ thread["completion"].pc \in Working =>
              \A n \in 1 .. Len(ioQueue') : ioQueue'[n].irp # thread["completion"].irp
    BY <1>3, <1>7, <1>8, Lengths DEF Pipeline, LastInv
  <2> QED
    BY <1>1, <1>6, <2>1, <2>2 DEF Pipeline, LastInv, Threads
<1> QED
  BY <1>9, <1>10, <1>11, <1>12, <1>13 DEF Pipeline

\* ... is carried out by it, ...
LEMMA PerformedIrp ==
    ASSUME Pipeline, NEW i \in Irps, NEW status \in {"ok", "failed"},
           irp' = [irp EXCEPT ![i].status = status] \/ irp' = irp
    PROVE  /\ irp' \in [Irps -> IrpType]
           /\ \A j \in Irps : /\ irp'[j].pc = irp[j].pc /\ irp'[j].write = irp[j].write
                              /\ irp'[j].offset = irp[j].offset
                              /\ irp'[j].length = irp[j].length
                              /\ irp'[j].aligned = irp[j].aligned
                              /\ j # i => irp'[j] = irp[j]
<1>1. CASE irp' = irp
  BY <1>1 DEF Pipeline, Types
<1>2. CASE irp' = [irp EXCEPT ![i].status = status]
  <2> DEFINE new == [irp[i] EXCEPT !.status = status]
  <2>1. /\ new \in IrpType /\ new.pc = irp[i].pc /\ new.write = irp[i].write
        /\ new.offset = irp[i].offset /\ new.length = irp[i].length
        /\ new.aligned = irp[i].aligned
    BY DEF Pipeline, Types, IrpType
  <2>2. irp' = [irp EXCEPT ![i] = new]
    BY <1>2 DEF Pipeline, Types
  <2> HIDE DEF new
  <2> QED
    BY <2>1, <2>2 DEF Pipeline, Types
<1> QED
  BY <1>1, <1>2

LEMMA PipelinePerform ==
    ASSUME Pipeline, IoPerform
    PROVE  Pipeline'
<1> DEFINE r == Head(ioQueue)
           new == [pc |-> "finish", irp |-> r.irp, request |-> r]
<1>1. /\ thread["io"].pc = "idle" /\ ioQueue # << >> /\ ioQueue' = Tail(ioQueue)
      /\ thread' = [thread EXCEPT !["io"] = new]
      /\ mainQueue' = mainQueue /\ completionQueue' = completionQueue /\ queue' = queue
      /\ \/ irp' = irp
         \/ \E status \in {"ok", "failed"} : irp' = [irp EXCEPT ![r.irp].status = status]
  BY DEF IoPerform, At, IoWrite, IoRead, IoSkip, LastStatus
<1>2. /\ ioQueue' \in Seq(Request) /\ Len(ioQueue') = Len(ioQueue) - 1
      /\ Len(ioQueue) \in Nat \ {0} /\ r = ioQueue[1] /\ r \in Request
      /\ \A n \in 1 .. Len(ioQueue) - 1 : ioQueue'[n] = ioQueue[n + 1]
  BY <1>1, Taken DEF Pipeline, Types
<1>3. r.irp \in Irps /\ irp[r.irp].pc = "pending"
  BY <1>2 DEF Pipeline, PendingInv
<1>4. /\ irp' \in [Irps -> IrpType]
      /\ \A j \in Irps : irp'[j].pc = irp[j].pc /\ irp'[j].write = irp[j].write
  BY <1>1, <1>3, PerformedIrp
<1>5. new \in ThreadType /\ new.pc = "finish" /\ new.irp = r.irp /\ new.request = r
  BY <1>2, <1>3 DEF ThreadType, ThreadPc
<1> HIDE DEF new, r
<1>6. /\ thread' \in [Threads -> ThreadType] /\ thread'["io"] = new
      /\ \A u \in Threads : u # "io" => thread'[u] = thread[u]
  BY <1>1, <1>5 DEF Pipeline, Types, Threads
<1>7. Types' /\ PcInv'
  BY <1>1, <1>2, <1>4, <1>5, <1>6 DEF Pipeline, Types, PcInv, Threads
<1>8. PendingInv'
  BY SMTT(30), <1>1, <1>2, <1>3, <1>4, <1>5, <1>6, Lengths DEF Pipeline, PendingInv, At, Working, Threads
<1>9. WaitingInv'
  <2>1. \A n \in 1 .. Len(mainQueue) : mainQueue[n] # r.irp
    BY <1>2 DEF Pipeline, WaitingInv
  <2>2. thread["main"].pc \in Working /\ thread["main"].irp = r.irp =>
            thread["main"].pc \in Splitting /\ ~r.last
    BY <1>2 DEF Pipeline, WaitingInv
  <2> QED
    BY <1>1, <1>2, <1>5, <1>6, <2>1, <2>2 DEF Pipeline, WaitingInv, Threads, Working
<1>10. LastInv'
  <2>1. /\ r.last => \A n \in 1 .. Len(ioQueue') : ioQueue'[n].irp # r.irp
        /\ \A m \in 1 .. Len(completionQueue) :
              completionQueue[m].last => r.irp # completionQueue[m].irp
        /\ thread["completion"].pc \in Working => r.irp # thread["completion"].irp
    <3>1. 1 \in 1 .. Len(ioQueue) /\ \A n \in 1 .. Len(ioQueue') :
             n + 1 \in 1 .. Len(ioQueue) /\ 1 < n + 1 /\ ioQueue'[n] = ioQueue[n + 1]
      BY <1>2
    <3>2. r.last => \A n \in 1 .. Len(ioQueue') : ioQueue'[n].irp # r.irp
      BY <1>2, <3>1 DEF Pipeline, LastInv
    <3> QED
      BY <1>2, <3>1, <3>2 DEF Pipeline, LastInv
  <2>2. \A m, n \in 1 .. Len(ioQueue') :
           m < n /\ ioQueue'[m].last => ioQueue'[n].irp # ioQueue'[m].irp
    <3> SUFFICES ASSUME NEW m \in 1 .. Len(ioQueue'), NEW n \in 1 .. Len(ioQueue'), m < n,
                        ioQueue'[m].last
                 PROVE  ioQueue'[n].irp # ioQueue'[m].irp
      OBVIOUS
    <3>1. /\ m + 1 \in 1 .. Len(ioQueue) /\ n + 1 \in 1 .. Len(ioQueue) /\ m + 1 < n + 1
          /\ ioQueue'[m] = ioQueue[m + 1] /\ ioQueue'[n] = ioQueue[n + 1]
      BY <1>2
    <3> QED
      BY <3>1 DEF Pipeline, LastInv
  <2>3. /\ \A m \in 1 .. Len(completionQueue) : completionQueue[m].last =>
              \A n \in 1 .. Len(ioQueue') : ioQueue'[n].irp # completionQueue[m].irp
        /\ thread["completion"].pc \in Working =>
              \A n \in 1 .. Len(ioQueue') : ioQueue'[n].irp # thread["completion"].irp
    <3>1. \A n \in 1 .. Len(ioQueue') :
             n + 1 \in 1 .. Len(ioQueue) /\ ioQueue'[n] = ioQueue[n + 1]
      BY <1>2
    <3> QED
      BY <3>1 DEF Pipeline, LastInv
  <2> QED
    BY <1>1, <1>5, <1>6, <2>1, <2>2, <2>3 DEF Pipeline, LastInv, Threads, Working
<1> QED
  BY <1>7, <1>8, <1>9, <1>10 DEF Pipeline

\* ... and goes on to the completion thread if it is a read.
LEMMA PipelineHandOver ==
    ASSUME Pipeline, IoHandOver
    PROVE  Pipeline'
<1> DEFINE r == thread["io"].request
<1>1. PICK pc \in {"readAhead", "idle"} :
        /\ thread["io"].pc = "handOver" /\ completionQueue' = Append(completionQueue, r)
        /\ thread' = [thread EXCEPT !["io"] = [Idle EXCEPT !.pc = pc]]
        /\ mainQueue' = mainQueue /\ ioQueue' = ioQueue /\ queue' = queue /\ irp' = irp
  BY DEF IoHandOver, At, clients, device
<1>2. /\ r.irp = thread["io"].irp /\ r.irp \in Irps /\ irp[r.irp].pc = "pending"
      /\ r \in Request /\ ~irp[r.irp].write
  BY <1>1 DEF Pipeline, PendingInv, Types, ThreadType, Working, Threads, At
<1>3. /\ completionQueue' \in Seq(Request) /\ Len(completionQueue') = Len(completionQueue) + 1
      /\ completionQueue'[Len(completionQueue) + 1] = r
      /\ \A n \in 1 .. Len(completionQueue) : completionQueue'[n] = completionQueue[n]
  BY <1>1, <1>2, Added DEF Pipeline, Types
<1>4. [Idle EXCEPT !.pc = pc] \in ThreadType /\ [Idle EXCEPT !.pc = pc].pc = pc
  BY IdleType DEF Idle, ThreadType, ThreadPc
<1> HIDE DEF r
<1>5. /\ thread' \in [Threads -> ThreadType] /\ thread'["io"].pc = pc
      /\ \A u \in Threads : u # "io" => thread'[u] = thread[u]
  BY <1>1, <1>4 DEF Pipeline, Types, Threads
<1>6. Types' /\ PcInv'
  BY <1>1, <1>3, <1>5 DEF Pipeline, Types, PcInv, Threads
<1>7. PendingInv'
  BY <1>1, <1>2, <1>3, <1>5, Lengths DEF Pipeline, PendingInv, At, Working, Threads
<1>8. /\ \A n \in 1 .. Len(mainQueue) : mainQueue[n] # r.irp
      /\ thread["main"].pc \in Working /\ thread["main"].irp = r.irp =>
            thread["main"].pc \in Splitting /\ ~r.last
      /\ r.last => \A n \in 1 .. Len(ioQueue) : ioQueue[n].irp # r.irp
      /\ \A n \in 1 .. Len(completionQueue) :
            completionQueue[n].last => completionQueue[n].irp # r.irp
      /\ thread["completion"].pc \in Working => thread["completion"].irp # r.irp
  BY <1>1, <1>2 DEF r, Pipeline, WaitingInv, LastInv, Working, Threads
<1>9. \A n \in 1 .. Len(completionQueue') :
         n \in 1 .. Len(completionQueue) \/ completionQueue'[n] = r
  BY <1>3, Lengths DEF Pipeline
<1>10. WaitingInv'
  <2>1. \A n \in 1 .. Len(mainQueue), m \in 1 .. Len(completionQueue') :
           completionQueue'[m].irp # mainQueue[n]
    BY <1>3, <1>8, <1>9 DEF Pipeline, WaitingInv
  <2>2. thread["main"].pc \in Working => \A n \in 1 .. Len(completionQueue') :
            completionQueue'[n].irp = thread["main"].irp =>
                thread["main"].pc \in Splitting /\ ~completionQueue'[n].last
    BY <1>3, <1>8, <1>9 DEF Pipeline, WaitingInv
  <2> QED
    BY <1>1, <1>5, <2>1, <2>2 DEF Pipeline, WaitingInv, Threads, Working
<1>11. LastInv'
  <2>1. ASSUME NEW m \in 1 .. Len(completionQueue'), NEW n \in 1 .. Len(completionQueue'),
               m < n, completionQueue'[m].last
        PROVE  completionQueue'[n].irp # completionQueue'[m].irp
    <3>1. m \in 1 .. Len(completionQueue)
      BY <1>3, <2>1, Lengths DEF Pipeline
    <3> QED
      BY <1>3, <1>8, <1>9, <2>1, <3>1 DEF Pipeline, LastInv
  <2>2. \A m \in 1 .. Len(completionQueue') : completionQueue'[m].last =>
           \A n \in 1 .. Len(ioQueue) : ioQueue[n].irp # completionQueue'[m].irp
    BY <1>3, <1>8, <1>9 DEF Pipeline, LastInv
  <2>3. thread["completion"].pc \in Working => \A n \in 1 .. Len(completionQueue') :
            completionQueue'[n].irp # thread["completion"].irp
    BY <1>3, <1>8, <1>9 DEF Pipeline, LastInv
  <2> QED
    BY <1>1, <1>5, <2>1, <2>2, <2>3 DEF Pipeline, LastInv, Threads, Working
<1> QED
  BY <1>6, <1>7, <1>10, <1>11 DEF Pipeline

\* The completion thread takes the request, and keeps it if it completes the IRP.
LEMMA PipelineDecrypt ==
    ASSUME Pipeline, CompletionDecrypt
    PROVE  Pipeline'
<1> DEFINE r == Head(completionQueue)
           new == IF r.last THEN [pc |-> "complete", irp |-> r.irp, request |-> r] ELSE Idle
<1>1. /\ thread["completion"].pc = "idle" /\ completionQueue # << >>
      /\ completionQueue' = Tail(completionQueue)
      /\ thread' = [thread EXCEPT !["completion"] = new]
      /\ mainQueue' = mainQueue /\ ioQueue' = ioQueue /\ queue' = queue /\ irp' = irp
  BY DEF CompletionDecrypt, At, device
<1>2. /\ completionQueue' \in Seq(Request)
      /\ Len(completionQueue') = Len(completionQueue) - 1
      /\ Len(completionQueue) \in Nat \ {0} /\ r = completionQueue[1] /\ r \in Request
      /\ \A n \in 1 .. Len(completionQueue) - 1 : completionQueue'[n] = completionQueue[n + 1]
  BY <1>1, Taken DEF Pipeline, Types
<1>3. r.irp \in Irps /\ irp[r.irp].pc = "pending" /\ ~irp[r.irp].write
  BY <1>2 DEF Pipeline, PendingInv
<1>4. /\ new \in ThreadType /\ new.pc = IF r.last THEN "complete" ELSE "idle"
      /\ r.last => new.irp = r.irp /\ new.request = r
  BY <1>2, <1>3, IdleType DEF ThreadType, ThreadPc
<1> HIDE DEF new, r
<1>5. /\ thread' \in [Threads -> ThreadType] /\ thread'["completion"] = new
      /\ \A u \in Threads : u # "completion" => thread'[u] = thread[u]
  BY <1>1, <1>4 DEF Pipeline, Types, Threads
<1>6. Types' /\ PcInv'
  BY <1>1, <1>2, <1>4, <1>5 DEF Pipeline, Types, PcInv, Threads
<1>7. PendingInv'
  BY <1>1, <1>2, <1>3, <1>4, <1>5, Lengths DEF Pipeline, PendingInv, At, Working, Threads
<1>8. r.last => /\ \A n \in 1 .. Len(mainQueue) : mainQueue[n] # r.irp
                /\ ~(thread["main"].pc \in Working /\ thread["main"].irp = r.irp)
                /\ \A n \in 1 .. Len(ioQueue) : ioQueue[n].irp # r.irp
                /\ ~(thread["io"].pc \in Working /\ thread["io"].irp = r.irp)
                /\ \A n \in 1 .. Len(completionQueue') : completionQueue'[n].irp # r.irp
  BY <1>2 DEF Pipeline, WaitingInv, LastInv
<1>9. WaitingInv'
  BY SMTT(30), <1>1, <1>2, <1>4, <1>5, <1>8 DEF Pipeline, WaitingInv, Threads, Working
<1>10. LastInv'
  BY <1>1, <1>2, <1>4, <1>5, <1>8 DEF Pipeline, LastInv, Threads, Working
<1> QED
  BY <1>6, <1>7, <1>9, <1>10 DEF Pipeline

\* What is left as it is.
LEMMA PipelineKept ==
    ASSUME Pipeline, UNCHANGED <<queue, irp, queues, thread>>
    PROVE  Pipeline'
<1>1. /\ queue' = queue /\ irp' = irp /\ mainQueue' = mainQueue /\ ioQueue' = ioQueue
      /\ completionQueue' = completionQueue /\ thread' = thread
  BY DEF queues
<1>2. Types' /\ PcInv'
  BY <1>1 DEF Pipeline, Types, PcInv, At
<1>3. PendingInv' /\ WaitingInv'
  BY <1>1 DEF Pipeline, PendingInv, WaitingInv, At
<1>4. LastInv'
  BY <1>1 DEF Pipeline, LastInv
<1> QED
  BY <1>2, <1>3, <1>4 DEF Pipeline

LEMMA PipelineInit == Init => Pipeline /\ CursorInv
<1> SUFFICES ASSUME Init PROVE Pipeline /\ CursorInv
  OBVIOUS
<1>1. /\ mainQueue = << >> /\ ioQueue = << >> /\ completionQueue = << >>
      /\ thread = [t \in Threads |-> Idle] /\ irp = [i \in Irps |-> NoIrp] /\ queue \in Queues
      /\ cursor = [offset |-> 0, remaining |-> 0] /\ activeFragmentBuffer = "A"
  BY DEF Init
<1>2. NoIrp \in IrpType
  BY DEF NoIrp, IrpType, ClientPc
<1>3. /\ Types /\ \A t \in Threads : thread[t].pc = "idle"
      /\ Len(mainQueue) = 0 /\ Len(ioQueue) = 0 /\ Len(completionQueue) = 0
  BY <1>1, <1>2, IdleType DEF Types
<1> QED
  BY <1>1, <1>3
     DEF Pipeline, PcInv, PendingInv, WaitingInv, LastInv, CursorInv, Threads, Working, At

\* The position of the main thread in the IRP.
LEMMA CursorKept ==
    ASSUME CursorInv, UNCHANGED <<queue, cursor>>, activeFragmentBuffer' \in {"A", "B"},
           At("main", "queue")' => thread'["main"] = thread["main"]
    PROVE  CursorInv'
  BY DEF CursorInv, At, MaxFragment

\* A step of the main thread with the IRP it has.
MainMoves(pc) ==
    /\ Goes("main", pc) /\ IrpsKept /\ activeFragmentBuffer' \in {"A", "B"}
    /\ pc \in {"resumeWait", "accept", "misaligned", "fragment", "getRequest", "complete",
               "idle", "exited", "signal", "decrement"}
    /\ pc \in Working => thread["main"].pc \in Working
    /\ thread["main"].pc \in Splitting => pc \in Splitting

LEMMA PipelineMainMoves ==
    ASSUME Pipeline, CursorInv, NEW pc, MainMoves(pc),
           cursor' \in [offset : Nat, remaining : Nat]
    PROVE  Pipeline' /\ CursorInv'
<1>1. /\ thread'["main"].pc = pc /\ \A u \in Threads : u # "main" => thread'[u] = thread[u]
      /\ pc \in ThreadPc /\ "main" \in Threads
  BY GoesFacts DEF Pipeline, MainMoves, Threads, ThreadPc
<1>2. PcInv'
  BY <1>1 DEF Pipeline, PcInv, Threads, MainMoves
<1>3. MovesOn("main", pc) /\ Goes("main", pc) /\ IrpsKept
  BY DEF MovesOn, MainMoves
<1>4. Pipeline'
  BY <1>1, <1>2, <1>3, PipelineMove
<1> QED
  BY <1>1, <1>4 DEF CursorInv, At, MainMoves

LEMMA IrpsSame ==
    ASSUME Pipeline, UNCHANGED <<queue, queues, irp>>
    PROVE  IrpsKept
  BY DEF Pipeline, Types, IrpsKept

LEMMA PipelineMain ==
    ASSUME Pipeline, CursorInv, MainThreadProc
    PROVE  Pipeline' /\ CursorInv'
<1>0. /\ "main" \in Threads /\ thread["main"] \in ThreadType /\ irp \in [Irps -> IrpType]
      /\ cursor \in [offset : Nat, remaining : Nat] /\ activeFragmentBuffer \in {"A", "B"}
  BY DEF Threads, Pipeline, Types, CursorInv
<1>1. CASE Complete("main")
  <2>1. UNCHANGED <<queue, cursor, activeFragmentBuffer>> /\ Goes("main", "decrement")
    BY <1>1 DEF Complete, work, device, buffers
  <2>2. thread'["main"].pc = "decrement"
    BY <1>0, <2>1, GoesFacts DEF Pipeline, ThreadPc
  <2> QED
    BY <1>0, <1>1, <2>1, <2>2, PipelineComplete, CursorKept DEF At
<1>2. CASE Decrement("main") \/ SignalIdle("main") \/ Exit("main")
  <2>1. PICK pc \in {"signal", "idle", "exited"} : Goes("main", pc)
    BY <1>2 DEF Decrement, SignalIdle, Exit, At, Pipeline, PcInv
  <2>2. /\ UNCHANGED <<queue, queues, irp, cursor, activeFragmentBuffer>>
        /\ thread["main"].pc \notin Splitting
    BY <1>2 DEF Decrement, SignalIdle, Exit, clients, device, buffers, work, At, Splitting
  <2>3. MainMoves(pc)
    BY <1>0, <2>1, <2>2, IrpsSame DEF MainMoves, Working
  <2> QED
    BY <1>0, <2>2, <2>3, PipelineMainMoves
<1>3. CASE MainDequeue
  <2>1. /\ UNCHANGED <<queue, cursor, activeFragmentBuffer>>
        /\ thread' = [thread EXCEPT !["main"] = [@ EXCEPT !.pc = "gate", !.irp = Head(mainQueue)]]
    BY <1>3 DEF MainDequeue, work, device, buffers
  <2>2. thread'["main"].pc = "gate"
    BY <1>0, <2>1 DEF Pipeline, Types, ThreadType
  <2> QED
    BY <1>0, <1>3, <2>1, <2>2, PipelineDequeue, CursorKept DEF At
<1>4. CASE MainGate \/ MainResumed
  <2>1. PICK pc \in {"resumeWait", "accept"} : Goes("main", pc)
    BY <1>4 DEF MainGate, MainResumed
  <2>2. /\ UNCHANGED <<queue, queues, irp, cursor, activeFragmentBuffer>>
        /\ thread["main"].pc \in {"gate", "resumeWait"}
    BY <1>4 DEF MainGate, MainResumed, clients, device, buffers, work, At
  <2>3. MainMoves(pc)
    BY <1>0, <2>1, <2>2, IrpsSame DEF MainMoves, Working, Splitting
  <2> QED
    BY <1>0, <2>2, <2>3, PipelineMainMoves
<1>5. CASE MainAccept
  <2> DEFINE i == thread["main"].irp
  <2>1. thread["main"].pc = "accept" /\ i \in Irps
    BY <1>0, <1>5 DEF MainAccept, At, Pipeline, PendingInv, Working
  <2>2. /\ UNCHANGED <<queue, queues, activeFragmentBuffer>>
        /\ irp' = irp \/ irp' = [irp EXCEPT ![i].status = "failed"]
        /\ cursor' = cursor \/ cursor' = [offset |-> irp[i].offset, remaining |-> irp[i].length]
    BY <1>5 DEF MainAccept, buffers
  <2>3. PICK pc \in {"misaligned", "fragment", "complete"} : Goes("main", pc)
    BY <1>5 DEF MainAccept
  <2>4. IrpsKept
    BY <2>1, <2>2, PerformedIrp DEF IrpsKept
  <2>5. cursor' \in [offset : Nat, remaining : Nat]
    BY <1>0, <2>1, <2>2 DEF IrpType
  <2>6. MainMoves(pc)
    BY <1>0, <2>1, <2>2, <2>3, <2>4 DEF MainMoves, Working, Splitting
  <2> QED
    BY <2>5, <2>6, PipelineMainMoves
<1>6. CASE MainMisaligned
  <2> DEFINE i == thread["main"].irp
  <2>1. thread["main"].pc = "misaligned" /\ i \in Irps
    BY <1>0, <1>6 DEF MainMisaligned, At, Pipeline, PendingInv, Working
  <2>2. /\ UNCHANGED <<queue, queues, activeFragmentBuffer, cursor>> /\ Goes("main", "complete")
        /\ \E status \in {"ok", "failed"} : irp' = [irp EXCEPT ![i].status = status]
    BY <1>6 DEF MainMisaligned, buffers, work, device
  <2>3. IrpsKept
    BY <2>1, <2>2, PerformedIrp DEF IrpsKept
  <2>4. MainMoves("complete")
    BY <1>0, <2>1, <2>2, <2>3 DEF MainMoves, Working, Splitting
  <2> QED
    BY <1>0, <2>2, <2>4, PipelineMainMoves
<1>7. CASE MainFragment
  <2>1. /\ UNCHANGED <<queue, queues, irp, cursor>> /\ Goes("main", "getRequest")
        /\ thread["main"].pc = "fragment" /\ activeFragmentBuffer' \in {"A", "B"}
    BY <1>7 DEF MainFragment, clients, device, At
  <2>2. MainMoves("getRequest")
    BY <2>1, IrpsSame DEF MainMoves, Working, Splitting
  <2> QED
    BY <1>0, <2>1, <2>2, PipelineMainMoves
<1> QED
  BY <1>1, <1>2, <1>3, <1>4, <1>5, <1>6, <1>7, PipelineGetRequest, PipelineQueue
     DEF MainThreadProc, AnyThread

\* A step of one of the two other threads with what it has.
OtherMoves(t, pc) ==
    /\ Goes(t, pc) /\ IrpsKept /\ MovesOn(t, pc)
    /\ t = "io" => pc \in {"handOver", "complete", "readAheadDone", "signal",
                           "signalReadAhead", "idle", "exited"}
    /\ t = "completion" => pc \in {"signal", "idle", "exited"}

LEMMA PipelineOtherMoves ==
    ASSUME Pipeline, NEW t \in {"io", "completion"}, NEW pc, OtherMoves(t, pc)
    PROVE  Pipeline' /\ thread'["main"] = thread["main"]
<1>1. /\ pc \in ThreadPc /\ t \in Threads /\ t # "main" /\ "main" \in Threads
      /\ Goes(t, pc) /\ IrpsKept /\ MovesOn(t, pc)
  BY DEF OtherMoves, ThreadPc, Threads
<1>2. thread'[t].pc = pc /\ \A u \in Threads : u # t => thread'[u] = thread[u]
  BY <1>1, GoesFacts DEF Pipeline
<1>3. PcInv'
  BY <1>1, <1>2 DEF Pipeline, PcInv, Threads, OtherMoves
<1> QED
  BY <1>1, <1>2, <1>3, PipelineMove

LEMMA PipelineOther ==
    ASSUME Pipeline, IoThreadProc \/ CompletionThreadProc
    PROVE  Pipeline' /\ thread'["main"] = thread["main"]
<1>0. "main" \in Threads /\ "io" \in Threads /\ "completion" \in Threads
      /\ thread \in [Threads -> ThreadType]
  BY DEF Threads, Pipeline, Types
<1>1. ASSUME NEW t \in {"io", "completion"}, Complete(t)
      PROVE  Pipeline' /\ thread'["main"] = thread["main"]
  <2>1. Goes(t, "decrement") /\ t \in Threads /\ t # "main" /\ "decrement" \in ThreadPc
    BY <1>0, <1>1 DEF Complete, ThreadPc
  <2>2. thread'["main"] = thread["main"]
    BY <1>0, <2>1, GoesFacts DEF Pipeline
  <2> QED
    BY <1>1, <2>1, <2>2, PipelineComplete
<1>2. ASSUME NEW t \in {"io", "completion"}, Decrement(t) \/ SignalIdle(t) \/ Exit(t)
      PROVE  Pipeline' /\ thread'["main"] = thread["main"]
  <2>1. PICK pc \in {"signal", "signalReadAhead", "idle", "exited"} : Goes(t, pc)
            /\ (t = "completion" => pc # "signalReadAhead")
    BY <1>2 DEF Decrement, SignalIdle, Exit, At, Pipeline, PcInv
  <2>2. UNCHANGED <<queue, queues, irp>>
    BY <1>2 DEF Decrement, SignalIdle, Exit, clients, device, buffers, work
  <2>3. OtherMoves(t, pc)
    BY <2>1, <2>2, IrpsSame DEF OtherMoves, MovesOn, Working
  <2> QED
    BY <2>3, PipelineOtherMoves
<1>3. CASE IoPerform
  <2>1. thread'["main"] = thread["main"]
    BY <1>0, <1>3 DEF IoPerform
  <2> QED
    BY <1>3, <2>1, PipelinePerform
<1>4. CASE IoFinish
  <2> DEFINE i == thread["io"].irp
  <2>1. /\ thread["io"].pc = "finish" /\ UNCHANGED <<queue, queues, irp>>
        /\ thread["io"].request.irp = i /\ i \in Irps
        /\ Goes("io", IF ~irp[i].write THEN "handOver"
                      ELSE IF thread["io"].request.last THEN "complete" ELSE "idle")
    BY <1>0, <1>4 DEF IoFinish, At, device, Pipeline, PendingInv, Working
  <2>2. PICK pc : /\ pc = IF ~irp[i].write THEN "handOver"
                          ELSE IF thread["io"].request.last THEN "complete" ELSE "idle"
                  /\ Goes("io", pc)
    BY <2>1
  <2>3. OtherMoves("io", pc)
    BY <2>1, <2>2, IrpsSame DEF OtherMoves, MovesOn, Working, Splitting
  <2> QED
    BY <2>3, PipelineOtherMoves
<1>5. CASE IoHandOver
  <2>1. thread'["main"] = thread["main"]
    BY <1>0, <1>5 DEF IoHandOver
  <2> QED
    BY <1>5, <2>1, PipelineHandOver
<1>6. CASE IoReadAhead
  <2>1. /\ thread["io"].pc = "readAhead" /\ UNCHANGED <<queue, queues, irp>>
        /\ Goes("io", "readAheadDone")
    BY <1>6 DEF IoReadAhead, At, clients, device
  <2>2. OtherMoves("io", "readAheadDone")
    BY <2>1, IrpsSame DEF OtherMoves, MovesOn, Working
  <2> QED
    BY <2>2, PipelineOtherMoves
<1>7. CASE CompletionDecrypt
  <2>1. thread'["main"] = thread["main"]
    BY <1>0, <1>7 DEF CompletionDecrypt
  <2> QED
    BY <1>7, <2>1, PipelineDecrypt
<1> QED
  BY <1>1, <1>2, <1>3, <1>4, <1>5, <1>6, <1>7 DEF IoThreadProc, CompletionThreadProc, AnyThread

LEMMA CursorOther ==
    IoThreadProc \/ CompletionThreadProc => UNCHANGED <<queue, cursor, activeFragmentBuffer>>
<1>1. ASSUME NEW t, AnyThread(t)
      PROVE  UNCHANGED <<queue, cursor, activeFragmentBuffer>>
  BY <1>1 DEF AnyThread, Complete, Decrement, SignalIdle, Exit, work, device, buffers
<1>2. IoPerform \/ IoFinish \/ IoHandOver \/ IoReadAhead \/ CompletionDecrypt =>
          UNCHANGED <<queue, cursor, activeFragmentBuffer>>
  BY DEF IoPerform, IoFinish, IoHandOver, IoReadAhead, CompletionDecrypt, work, device, buffers
<1> QED
  BY <1>1, <1>2 DEF IoThreadProc, CompletionThreadProc

\* The holder and the one who stops the queue leave it alone.
LEMMA ControlFrame ==
    ASSUME Hold \/ Holder \/ Stop \/ Stopper
    PROVE  UNCHANGED <<queue, irp, queues, thread, cursor, activeFragmentBuffer, pool,
                       IoThreadPendingRequestCount, OutstandingIoCount>>
<1>1. CASE Hold \/ Stop \/ Stopper
  BY <1>1 DEF Hold, Stop, Stopper, StopDrain, StopWait, StopJoin, io, clients, device, work,
              buffers, counts
<1>2. CASE Holder
  <2>1. HoldTest \/ HoldWake \/ HoldFails \/ HoldRecheck \/ HoldClear \/ HoldSuspend =>
            UNCHANGED <<io, OutstandingIoCount>>
    BY DEF HoldTest, HoldWake, HoldFails, HoldRecheck, HoldClear, HoldSuspend, counts
  <2>2. HoldConfirm \/ HoldUndo \/ Resume \/ ResumeSignal => UNCHANGED <<io, OutstandingIoCount>>
    BY DEF HoldConfirm, HoldUndo, Resume, ResumeSignal, counts
  <2>3. HoldInvalidate \/ HoldWork =>
            UNCHANGED <<queue, irp, queues, thread, cursor, activeFragmentBuffer, pool,
                        IoThreadPendingRequestCount, OutstandingIoCount>>
    BY DEF HoldInvalidate, HoldWork, clients, device, work, buffers, counts, control
  <2> QED
    BY <1>2, <2>1, <2>2, <2>3 DEF Holder, io, clients, device, work, buffers
<1> QED
  BY <1>1, <1>2

\* What a client asks for and where it is.
LEMMA ClientFrame ==
    ASSUME Types, NEW i \in Irps, AddIrp(i) \/ AddIrpRefuse(i) \/ AddIrpSignal(i) \/ Collect(i)
    PROVE  /\ UNCHANGED <<queue, queues, thread, cursor, activeFragmentBuffer, pool,
                          IoThreadPendingRequestCount>>
           /\ \E new \in IrpType : irp' = [irp EXCEPT ![i] = new]
           /\ irp[i].pc # "pending"
<1>1. UNCHANGED <<queue, queues, thread, cursor, activeFragmentBuffer, pool,
                  IoThreadPendingRequestCount>>
  BY DEF AddIrp, AddIrpRefuse, AddIrpSignal, Collect, work, device, buffers
<1>2. CASE AddIrp(i)
  <2>1. PICK write \in BOOLEAN, r \in queue.Ranges :
          irp' = [irp EXCEPT ![i] =
              [pc |-> "counted", write |-> write,
               offset |-> (IF IsFilterDevice THEN 0 ELSE queue.DataAreaOffset) + r.offset,
               length |-> r.length, aligned |-> r.aligned, status |-> "ok"]]
    BY <1>2 DEF AddIrp
  <2>2. /\ r.offset \in Nat /\ r.length \in Nat /\ r.aligned \in BOOLEAN
        /\ queue.DataAreaOffset \in Nat
    BY QueueFacts DEF QueueType
  <2>3. (IF IsFilterDevice THEN 0 ELSE queue.DataAreaOffset) + r.offset \in Nat
    BY <2>2
  <2> QED
    BY <1>1, <1>2, <2>1, <2>2, <2>3 DEF AddIrp, IrpAt, IrpType, ClientPc
<1>3. CASE AddIrpRefuse(i)
  <2> DEFINE new == [irp[i] EXCEPT !.pc = IF OutstandingIoCount = 1 THEN "refused" ELSE "done",
                                   !.status = "failed"]
  <2>1. new \in IrpType
    BY DEF Types, IrpType, ClientPc
  <2>2. irp' = [irp EXCEPT ![i] = new]
    BY <1>3 DEF AddIrpRefuse, Types
  <2> QED
    BY <1>1, <1>3, <2>1, <2>2 DEF AddIrpRefuse, IrpAt
<1>4. CASE AddIrpSignal(i)
  <2> DEFINE new == [irp[i] EXCEPT !.pc = "done"]
  <2>1. new \in IrpType
    BY DEF Types, IrpType, ClientPc
  <2>2. irp' = [irp EXCEPT ![i] = new]
    BY <1>4 DEF AddIrpSignal, IrpGoes, Types
  <2> QED
    BY <1>1, <1>4, <2>1, <2>2 DEF AddIrpSignal, IrpAt
<1>5. CASE Collect(i)
  BY <1>1, <1>5 DEF Collect, IrpAt, NoIrp, IrpType, ClientPc
<1> QED
  BY <1>2, <1>3, <1>4, <1>5

LEMMA PipelineStep ==
    ASSUME Pipeline, CursorInv, [Next]_vars
    PROVE  Pipeline' /\ CursorInv'
<1>0. activeFragmentBuffer \in {"A", "B"}
  BY DEF CursorInv
<1>1. CASE UNCHANGED vars
  <2>1. UNCHANGED <<queue, irp, queues, thread, cursor, activeFragmentBuffer>>
    BY <1>1 DEF vars, queues
  <2> QED
    BY <1>0, <2>1, PipelineKept, CursorKept
<1>2. ASSUME NEW i \in Irps, AddIrp(i) \/ AddIrpRefuse(i) \/ AddIrpSignal(i) \/ Collect(i)
      PROVE  Pipeline' /\ CursorInv'
  BY <1>0, <1>2, ClientFrame, PipelineClient, CursorKept DEF Pipeline
<1>3. ASSUME NEW i \in Irps, AddIrpQueue(i) PROVE Pipeline' /\ CursorInv'
  <2>1. UNCHANGED <<queue, thread, cursor, activeFragmentBuffer>>
    BY <1>3 DEF AddIrpQueue, work, device, buffers
  <2> QED
    BY <1>0, <1>3, <2>1, PipelineAdd, CursorKept
<1>4. CASE IoThreadProc \/ CompletionThreadProc
  BY <1>0, <1>4, PipelineOther, CursorOther, CursorKept
<1>5. CASE Hold \/ Holder \/ Stop \/ Stopper
  BY <1>0, <1>5, ControlFrame, PipelineKept, CursorKept
<1> QED
  BY <1>1, <1>2, <1>3, <1>4, <1>5, PipelineMain DEF Next, Adding

-----------------------------------------------------------------------------
(* The counts and the pools. *)
LEMMA CardinalityChange ==
    ASSUME NEW S, NEW T, NEW x, IsFiniteSet(S), \A y : y # x => (y \in T <=> y \in S)
    PROVE  /\ Cardinality(S) \in Nat /\ Cardinality(T) \in Nat
           /\ Cardinality(T) + Bit(x \in S) = Cardinality(S) + Bit(x \in T)
<1>1. IsFiniteSet(S \cup {x}) /\ T \subseteq S \cup {x}
  BY FS_AddElement
<1>2. IsFiniteSet(T)
  BY <1>1, FS_Subset
<1>3. Cardinality(S) \in Nat /\ Cardinality(T) \in Nat
  BY <1>2, FS_CardinalityType
<1>4. CASE x \in S /\ x \in T
  <2>1. S = T
    BY <1>4
  <2> QED
    BY <1>3, <2>1
<1>5. CASE x \notin S /\ x \notin T
  <2>1. S = T
    BY <1>5
  <2> QED
    BY <1>3, <2>1
<1>6. CASE x \in S /\ x \notin T
  <2>1. S = T \cup {x}
    BY <1>6
  <2>2. Cardinality(S) = Cardinality(T) + 1
    BY <1>2, <1>6, <2>1, FS_AddElement
  <2> QED
    BY <1>3, <1>6, <2>2 DEF Bit
<1>7. CASE x \notin S /\ x \in T
  <2>1. T = S \cup {x}
    BY <1>7
  <2>2. Cardinality(T) = Cardinality(S) + 1
    BY <1>7, <2>1, FS_AddElement
  <2> QED
    BY <1>3, <1>7, <2>2 DEF Bit
<1> QED
  BY <1>4, <1>5, <1>6, <1>7

LEMMA FiniteSets ==
    ASSUME Types
    PROVE  /\ IsFiniteSet(Outstanding) /\ IsFiniteSet(Counting)
           /\ IsFiniteSet(Accepted) /\ IsFiniteSet(Releasing)
<1>1. IsFiniteSet(Threads) /\ IsFiniteSet(Irps)
  <2>1. IsFiniteSet({}) /\ Threads = (({} \cup {"main"}) \cup {"io"}) \cup {"completion"}
    BY FS_EmptySet DEF Threads
  <2> QED
    BY <2>1, FS_AddElement, QueueFacts
<1> QED
  BY <1>1, FS_Subset DEF Outstanding, Counting, Accepted, Releasing

\* The count is exact after a step of at most one IRP and one thread.
LEMMA AccountedChange ==
    ASSUME Pipeline, Accounted, NEW i, NEW t,
           \A j \in Irps : j # i => irp'[j].pc = irp[j].pc,
           \A u \in Threads : u # t => thread'[u].pc = thread[u].pc,
           OutstandingIoCount' + Bit(i \in Outstanding) + Bit(t \in Counting)
               = OutstandingIoCount + Bit(i \in Outstanding') + Bit(t \in Counting'),
           OutstandingIoCount' \in Int
    PROVE  Accounted'
<1>1. /\ \A y : y # i => (y \in Outstanding' <=> y \in Outstanding)
      /\ \A y : y # t => (y \in Counting' <=> y \in Counting)
  BY DEF Outstanding, Counting
<1>2. /\ Cardinality(Outstanding) \in Nat /\ Cardinality(Outstanding') \in Nat
      /\ Cardinality(Outstanding') + Bit(i \in Outstanding)
            = Cardinality(Outstanding) + Bit(i \in Outstanding')
  BY <1>1, CardinalityChange, FiniteSets DEF Pipeline
<1>3. /\ Cardinality(Counting) \in Nat /\ Cardinality(Counting') \in Nat
      /\ Cardinality(Counting') + Bit(t \in Counting) = Cardinality(Counting) + Bit(t \in Counting')
  BY <1>1, CardinalityChange, FiniteSets DEF Pipeline
<1>4. OutstandingIoCount = Cardinality(Outstanding) + Cardinality(Counting)
  BY DEF Accounted, Outstanding, Counting
<1>5. OutstandingIoCount' = Cardinality(Outstanding') + Cardinality(Counting')
  BY <1>2, <1>3, <1>4 DEF Bit
<1> QED
  BY <1>5 DEF Accounted, Outstanding, Counting

LEMMA AccountedInit == Init => Accounted
<1> SUFFICES ASSUME Init PROVE Accounted
  OBVIOUS
<1>1. Outstanding = {} /\ Counting = {} /\ OutstandingIoCount = 0
  BY DEF Init, Outstanding, Counting, NoIrp, Idle, Threads
<1>2. OutstandingIoCount = Cardinality(Outstanding) + Cardinality(Counting)
  BY <1>1, FS_EmptySet
<1> QED
  BY <1>2 DEF Accounted, Outstanding, Counting

LEMMA CountType == ASSUME Pipeline, Accounted PROVE OutstandingIoCount \in Nat
<1>1. Cardinality(Outstanding) \in Nat /\ Cardinality(Counting) \in Nat
  BY FiniteSets, FS_CardinalityType DEF Pipeline
<1> QED
  BY <1>1 DEF Accounted, Outstanding, Counting

\* Of the threads, an action moves its own.
LEMMA OneThread ==
    ASSUME Types, NEW t \in Threads,
           \/ AnyThread(t)
           \/ t = "main" /\ MainThreadProc
           \/ t = "io" /\ IoThreadProc
           \/ t = "completion" /\ CompletionThreadProc
    PROVE  /\ thread' \in [Threads -> {thread'[u] : u \in Threads}]
           /\ \A u \in Threads : u # t => thread'[u] = thread[u]
<1>1. ASSUME NEW x, thread' = [thread EXCEPT ![t] = x]
      PROVE  /\ thread' \in [Threads -> {thread'[u] : u \in Threads}]
             /\ \A u \in Threads : u # t => thread'[u] = thread[u]
  BY <1>1 DEF Types
<1>2. ASSUME NEW pc, Goes(t, pc)
      PROVE  \E x : thread' = [thread EXCEPT ![t] = x]
  <2>1. CASE pc \in {"idle", "exited"}
    BY <1>2, <2>1 DEF Goes
  <2>2. CASE pc \notin {"idle", "exited"}
    BY <1>2, <2>2 DEF Goes
  <2> QED
    BY <2>1, <2>2
<1>3. CASE AnyThread(t)
  BY <1>1, <1>2, <1>3 DEF AnyThread, Complete, Decrement, SignalIdle, Exit
<1>4. CASE t = "main" /\ MainThreadProc
  <2>1. CASE MainDequeue
    <3>1. thread' = [thread EXCEPT !["main"] =
                        [thread["main"] EXCEPT !.pc = "gate", !.irp = Head(mainQueue)]]
      BY <2>1 DEF MainDequeue
    <3> QED
      BY <1>1, <1>4, <3>1
  <2>2. CASE MainGate \/ MainResumed \/ MainAccept \/ MainMisaligned \/ MainFragment
    BY <1>1, <1>2, <1>4, <2>2 DEF MainGate, MainResumed, MainAccept, MainMisaligned, MainFragment
  <2>3. CASE MainGetRequest
    BY <1>4, <2>3 DEF MainGetRequest, Types
  <2>4. CASE MainQueue
    BY <1>1, <1>4, <2>4 DEF MainQueue
  <2> QED
    BY <1>3, <1>4, <2>1, <2>2, <2>3, <2>4 DEF MainThreadProc
<1>5. CASE t = "io" /\ IoThreadProc
  BY <1>1, <1>2, <1>3, <1>5 DEF IoThreadProc, IoPerform, IoFinish, IoHandOver, IoReadAhead
<1>6. CASE t = "completion" /\ CompletionThreadProc
  BY <1>1, <1>3, <1>6 DEF CompletionThreadProc, CompletionDecrypt
<1> QED
  BY <1>3, <1>4, <1>5, <1>6

\* Where an action takes its thread.
LEMMA MainPc ==
    ASSUME Types
    PROVE  /\ MainDequeue => thread'["main"].pc = "gate"
           /\ MainGate => thread'["main"].pc = IF Suspended THEN "resumeWait" ELSE "accept"
           /\ MainResumed => thread'["main"].pc = "accept"
           /\ MainAccept => thread'["main"].pc \in {"misaligned", "fragment", "complete"}
           /\ MainMisaligned => thread'["main"].pc = "complete"
           /\ MainFragment => thread'["main"].pc = "getRequest"
           /\ MainGetRequest => thread'["main"].pc = "queue"
           /\ MainQueue => thread'["main"].pc =
                              IF thread["main"].request.last THEN "idle" ELSE "fragment"
<1>0. "main" \in Threads /\ thread \in [Threads -> ThreadType]
  BY DEF Threads, Types
<1>1. ASSUME NEW pc \in ThreadPc, Goes("main", pc) PROVE thread'["main"].pc = pc
  BY <1>0, <1>1, GoesFacts
<1>2. MainDequeue => thread'["main"].pc = "gate"
  BY <1>0 DEF MainDequeue, ThreadType
<1>3. /\ MainGate => thread'["main"].pc = IF Suspended THEN "resumeWait" ELSE "accept"
      /\ MainResumed => thread'["main"].pc = "accept"
  BY <1>1 DEF MainGate, MainResumed, ThreadPc
<1>4. MainAccept => thread'["main"].pc \in {"misaligned", "fragment", "complete"}
  BY <1>1 DEF MainAccept, ThreadPc
<1>5. /\ MainMisaligned => thread'["main"].pc = "complete"
      /\ MainFragment => thread'["main"].pc = "getRequest"
  BY <1>1 DEF MainMisaligned, MainFragment, ThreadPc
<1>6. MainGetRequest => thread'["main"].pc = "queue"
  BY <1>0 DEF MainGetRequest, ThreadType
<1>7. MainQueue => thread'["main"].pc = IF thread["main"].request.last THEN "idle" ELSE "fragment"
  BY <1>0 DEF MainQueue, Idle
<1> QED
  BY <1>2, <1>3, <1>4, <1>5, <1>6, <1>7

LEMMA OtherPc ==
    ASSUME Types
    PROVE  /\ IoPerform => thread'["io"].pc = "finish"
           /\ IoFinish => thread'["io"].pc =
                 IF ~irp[thread["io"].request.irp].write THEN "handOver"
                 ELSE IF thread["io"].request.last THEN "complete" ELSE "idle"
           /\ IoHandOver => thread'["io"].pc \in {"readAhead", "idle"}
           /\ IoReadAhead => thread'["io"].pc = "readAheadDone"
           /\ CompletionDecrypt => thread'["completion"].pc =
                                      IF Head(completionQueue).last THEN "complete" ELSE "idle"
<1>0. "io" \in Threads /\ "completion" \in Threads /\ thread \in [Threads -> ThreadType]
  BY DEF Threads, Types
<1>1. ASSUME NEW pc \in ThreadPc, Goes("io", pc) PROVE thread'["io"].pc = pc
  BY <1>0, <1>1, GoesFacts
<1>2. IoPerform => thread'["io"].pc = "finish"
  BY <1>0 DEF IoPerform
<1>3. IoFinish => thread'["io"].pc =
          IF ~irp[thread["io"].request.irp].write THEN "handOver"
          ELSE IF thread["io"].request.last THEN "complete" ELSE "idle"
  BY <1>1 DEF IoFinish, ThreadPc
<1>4. IoHandOver => thread'["io"].pc \in {"readAhead", "idle"}
  BY <1>0 DEF IoHandOver, Idle
<1>5. IoReadAhead => thread'["io"].pc = "readAheadDone"
  BY <1>1 DEF IoReadAhead, ThreadPc
<1>6. CompletionDecrypt => thread'["completion"].pc =
          IF Head(completionQueue).last THEN "complete" ELSE "idle"
  BY <1>0 DEF CompletionDecrypt, Idle
<1> QED
  BY <1>2, <1>3, <1>4, <1>5, <1>6

LEMMA AnyPc ==
    ASSUME Types, NEW t \in Threads
    PROVE  /\ Complete(t) => thread'[t].pc = "decrement"
           /\ Decrement(t) => thread'[t].pc =
                 IF OutstandingIoCount # 1 THEN "idle"
                 ELSE IF At(t, "decrement") THEN "signal" ELSE "signalReadAhead"
           /\ SignalIdle(t) => thread'[t].pc = "idle"
           /\ Exit(t) => thread'[t].pc = "exited"
<1>1. ASSUME NEW pc \in ThreadPc, Goes(t, pc) PROVE thread'[t].pc = pc
  BY <1>1, GoesFacts
<1> QED
  BY <1>1 DEF Complete, Decrement, SignalIdle, Exit, ThreadPc

LEMMA AccountedThread ==
    ASSUME Pipeline, Accounted, NEW t \in Threads,
           \A j \in Irps : irp'[j].pc = irp[j].pc,
           \A u \in Threads : u # t => thread'[u] = thread[u],
           OutstandingIoCount' + Bit(t \in Counting) = OutstandingIoCount + Bit(t \in Counting'),
           OutstandingIoCount' \in Int
    PROVE  Accounted'
<1>1. None \notin Outstanding /\ None \notin Outstanding'
  BY QueueFacts DEF Outstanding, Pipeline
<1>2. /\ OutstandingIoCount \in Int
      /\ OutstandingIoCount' + Bit(None \in Outstanding) + Bit(t \in Counting)
            = OutstandingIoCount + Bit(None \in Outstanding') + Bit(t \in Counting')
  BY <1>1, CountType DEF Bit
<1> QED
  BY <1>2, AccountedChange

LEMMA AccountedCommon ==
    ASSUME Pipeline, Pipeline', Accounted, NEW t \in Threads, AnyThread(t)
    PROVE  Accounted'
<1>0. OutstandingIoCount \in Nat /\ thread \in [Threads -> ThreadType]
  BY CountType DEF Pipeline, Types
<1>1. \A u \in Threads : u # t => thread'[u] = thread[u]
  BY OneThread DEF Pipeline
<1>2. CASE Complete(t)
  <2> DEFINE i == thread[t].irp
  <2>1. /\ thread[t].pc = "complete" /\ i \in Irps /\ irp[i].pc = "pending"
        /\ irp' = [irp EXCEPT ![i].pc = "done"] /\ OutstandingIoCount' = OutstandingIoCount
    BY <1>2 DEF Complete, At, Pipeline, PendingInv, Working, control, counts
  <2>2. thread'[t].pc = "decrement"
    BY <1>2, AnyPc DEF Pipeline
  <2>3. irp'[i].pc = "done" /\ \A j \in Irps : j # i => irp'[j].pc = irp[j].pc
    BY <2>1 DEF Pipeline, Types, IrpType
  <2>4. /\ i \in Outstanding /\ i \notin Outstanding'
        /\ t \notin Counting /\ t \in Counting'
    BY <2>1, <2>2, <2>3 DEF Outstanding, Counting
  <2> QED
    BY <1>0, <1>1, <2>1, <2>3, <2>4, AccountedChange DEF Bit
<1>3. CASE Decrement(t)
  <2>2. /\ thread[t].pc \in {"decrement", "readAheadDone"} /\ UNCHANGED irp
        /\ OutstandingIoCount' = OutstandingIoCount - 1
        /\ thread'[t].pc \in {"signal", "signalReadAhead", "idle"}
    BY <1>3, AnyPc DEF Decrement, clients, Pipeline
  <2>3. t \in Counting /\ t \notin Counting'
    BY <2>2 DEF Counting
  <2> QED
    BY <1>0, <1>1, <2>2, <2>3, AccountedThread DEF Bit
<1>4. CASE SignalIdle(t) \/ Exit(t)
  <2>2. /\ thread[t].pc \in {"signal", "signalReadAhead", "idle"} /\ UNCHANGED irp
        /\ OutstandingIoCount' = OutstandingIoCount /\ thread'[t].pc \in {"idle", "exited"}
    BY <1>4, AnyPc DEF SignalIdle, Exit, clients, control, counts, At, Pipeline
  <2>3. t \notin Counting /\ t \notin Counting'
    BY <2>2 DEF Counting
  <2> QED
    BY <1>0, <1>1, <2>2, <2>3, AccountedThread DEF Bit
<1> QED
  BY <1>2, <1>3, <1>4 DEF AnyThread

LEMMA AccountedMain ==
    ASSUME Pipeline, Pipeline', Accounted, MainThreadProc, ~AnyThread("main")
    PROVE  Accounted'
<1>0. "main" \in Threads /\ OutstandingIoCount \in Nat
  BY CountType DEF Threads
<1>1. \A u \in Threads : u # "main" => thread'[u] = thread[u]
  BY <1>0, OneThread DEF Pipeline
<1>2. "main" \notin Counting' \/ thread'["main"].pc = "decrement"
  BY DEF Pipeline, PcInv, Counting
<1>3. CASE MainDequeue \/ MainGate \/ MainResumed
  <2>1. /\ thread["main"].pc \in {"idle", "gate", "resumeWait"} /\ UNCHANGED irp
        /\ OutstandingIoCount' = OutstandingIoCount
    BY <1>3 DEF MainDequeue, MainGate, MainResumed, At, clients, control, counts
  <2>2. thread'["main"].pc \in Waiting
    BY <1>3, MainPc DEF Pipeline, Waiting
  <2>3. "main" \notin Counting /\ "main" \notin Counting'
    BY <2>1, <2>2 DEF Counting, Waiting
  <2> QED
    BY <1>0, <1>1, <2>1, <2>3, AccountedThread DEF Bit
<1>4. CASE MainAccept \/ MainMisaligned
  <2>1. /\ thread["main"].pc \in {"accept", "misaligned"} /\ thread["main"].irp \in Irps
        /\ OutstandingIoCount' = OutstandingIoCount
        /\ \/ irp' = irp
           \/ \E status \in {"ok", "failed"} :
                 irp' = [irp EXCEPT ![thread["main"].irp].status = status]
    BY <1>0, <1>4 DEF MainAccept, MainMisaligned, At, control, counts, Pipeline, PendingInv, Working
  <2>3. thread'["main"].pc \in {"misaligned", "fragment", "complete"}
    BY <1>4, MainPc DEF Pipeline
  <2>4. \A j \in Irps : irp'[j].pc = irp[j].pc
    BY <2>1, PerformedIrp
  <2>5. "main" \notin Counting /\ "main" \notin Counting'
    BY <2>1, <2>3 DEF Counting
  <2> QED
    BY <1>0, <1>1, <2>1, <2>4, <2>5, AccountedThread DEF Bit
<1>5. CASE MainFragment \/ MainGetRequest \/ MainQueue
  <2>1. /\ thread["main"].pc \in Splitting /\ UNCHANGED irp
        /\ OutstandingIoCount' = OutstandingIoCount
    BY <1>5 DEF MainFragment, MainGetRequest, MainQueue, At, Splitting, clients, control, counts
  <2>2. thread'["main"].pc # "decrement"
    BY <1>5, MainPc DEF Pipeline
  <2>3. "main" \notin Counting /\ "main" \notin Counting'
    BY <1>2, <2>1, <2>2 DEF Counting, Splitting
  <2> QED
    BY <1>0, <1>1, <2>1, <2>3, AccountedThread DEF Bit
<1> QED
  BY <1>3, <1>4, <1>5 DEF MainThreadProc

\* Only what completes an IRP takes it elsewhere.
LEMMA IrpFrame ==
    ASSUME Pipeline, MainThreadProc \/ IoThreadProc \/ CompletionThreadProc,
           \A t \in Threads : ~Complete(t)
    PROVE  /\ irp' \in [Irps -> IrpType]
           /\ \A j \in Irps : /\ irp'[j].pc = irp[j].pc /\ irp'[j].write = irp[j].write
                              /\ irp'[j].offset = irp[j].offset
                              /\ irp'[j].length = irp[j].length
                              /\ irp'[j].aligned = irp[j].aligned
                              /\ irp[j].pc # "pending" => irp'[j] = irp[j]
<1>1. ASSUME UNCHANGED irp
      PROVE  /\ irp' \in [Irps -> IrpType]
             /\ \A j \in Irps : /\ irp'[j].pc = irp[j].pc /\ irp'[j].write = irp[j].write
                                /\ irp'[j].offset = irp[j].offset
                                /\ irp'[j].length = irp[j].length
                                /\ irp'[j].aligned = irp[j].aligned
                                /\ irp[j].pc # "pending" => irp'[j] = irp[j]
  BY <1>1 DEF Pipeline, Types
<1>2. ASSUME NEW t \in Threads, AnyThread(t) PROVE UNCHANGED irp
  BY <1>2 DEF AnyThread, Decrement, SignalIdle, Exit, clients
<1>3. MainDequeue \/ MainGate \/ MainResumed \/ MainFragment \/ MainGetRequest \/ MainQueue =>
          UNCHANGED irp
  BY DEF MainDequeue, MainGate, MainResumed, MainFragment, MainGetRequest, MainQueue, clients
<1>4. IoFinish \/ IoHandOver \/ IoReadAhead \/ CompletionDecrypt => UNCHANGED irp
  BY DEF IoFinish, IoHandOver, IoReadAhead, CompletionDecrypt, clients
<1>5. CASE MainAccept \/ MainMisaligned
  <2>1. /\ thread["main"].pc \in Working /\ "main" \in Threads
        /\ \/ irp' = irp
           \/ \E status \in {"ok", "failed"} :
                 irp' = [irp EXCEPT ![thread["main"].irp].status = status]
    BY <1>5 DEF MainAccept, MainMisaligned, At, Working, Threads
  <2>2. thread["main"].irp \in Irps /\ irp[thread["main"].irp].pc = "pending"
    BY <2>1 DEF Pipeline, PendingInv
  <2> QED
    BY <2>1, <2>2, PerformedIrp DEF Pipeline, Types
<1>6. CASE IoPerform
  <2>1. /\ ioQueue # << >>
        /\ \/ irp' = irp
           \/ \E status \in {"ok", "failed"} : irp' = [irp EXCEPT ![Head(ioQueue).irp].status = status]
    BY <1>6 DEF IoPerform, IoWrite, IoRead, IoSkip, LastStatus
  <2>2. Head(ioQueue) = ioQueue[1] /\ Len(ioQueue) \in Nat \ {0}
    BY <2>1, Taken DEF Pipeline, Types
  <2>3. Head(ioQueue).irp \in Irps /\ irp[Head(ioQueue).irp].pc = "pending"
    BY <2>2 DEF Pipeline, PendingInv
  <2> QED
    BY <2>1, <2>3, PerformedIrp DEF Pipeline, Types
<1>7. "main" \in Threads /\ "io" \in Threads /\ "completion" \in Threads
  BY DEF Threads
<1> QED
  BY <1>1, <1>2, <1>3, <1>4, <1>5, <1>6, <1>7
     DEF MainThreadProc, IoThreadProc, CompletionThreadProc

LEMMA AccountedOther ==
    ASSUME Pipeline, Pipeline', Accounted, NEW t \in {"io", "completion"},
           \/ t = "io" /\ (IoPerform \/ IoFinish \/ IoHandOver \/ IoReadAhead)
           \/ t = "completion" /\ CompletionDecrypt
    PROVE  Accounted'
<1>0. t \in Threads /\ OutstandingIoCount \in Nat
  BY CountType DEF Threads
<1>1. \A u \in Threads : u # t => thread'[u] = thread[u]
  BY <1>0, OneThread DEF Pipeline, IoThreadProc, CompletionThreadProc
<1>2. \A j \in Irps : irp'[j].pc = irp[j].pc
  <2>1. \A u \in Threads : ~Complete(u)
    <3>1. ASSUME NEW u \in Threads, Complete(u) PROVE FALSE
      <4>1. u = t
        BY <1>0, <1>1, <3>1, AnyPc DEF Complete, At, Pipeline
      <4>2. thread[t].pc = "complete"
        BY <3>1, <4>1 DEF Complete, At
      <4> QED
        BY <4>2 DEF IoPerform, IoFinish, IoHandOver, IoReadAhead, CompletionDecrypt, At
    <3> QED
      BY <3>1
  <2> QED
    BY <2>1, IrpFrame DEF IoThreadProc, CompletionThreadProc
<1>3. CASE IoHandOver /\ t = "io"
  <2>1. thread["io"].pc = "handOver"
    BY <1>3 DEF IoHandOver, At
  <2>2. \/ OutstandingIoCount' = OutstandingIoCount + 1 /\ thread'["io"].pc = "readAhead"
        \/ OutstandingIoCount' = OutstandingIoCount /\ thread'["io"].pc = "idle"
    BY <1>0, <1>3 DEF IoHandOver, Pipeline, Types, Idle
  <2>3. /\ "io" \notin Counting /\ OutstandingIoCount' \in Int
        /\ OutstandingIoCount' = OutstandingIoCount + Bit("io" \in Counting')
    BY <1>0, <2>1, <2>2 DEF Bit, Counting, Threads
  <2> QED
    BY <1>0, <1>1, <1>2, <1>3, <2>3, AccountedThread DEF Bit
<1>4. CASE IoReadAhead /\ t = "io"
  <2>1. /\ thread["io"].pc = "readAhead" /\ OutstandingIoCount' = OutstandingIoCount
        /\ thread'["io"].pc = "readAheadDone"
    BY <1>4, OtherPc DEF IoReadAhead, At, control, counts, Pipeline
  <2>2. t \in Counting /\ t \in Counting'
    BY <1>0, <1>4, <2>1 DEF Counting
  <2> QED
    BY <1>0, <1>1, <1>2, <2>1, <2>2, AccountedThread DEF Bit
<1>5. CASE \/ t = "io" /\ (IoPerform \/ IoFinish)
           \/ t = "completion" /\ CompletionDecrypt
  <2>1. /\ thread[t].pc \in {"idle", "finish"} /\ OutstandingIoCount' = OutstandingIoCount
        /\ thread'[t].pc \in {"finish", "handOver", "complete", "idle"}
    BY <1>5, OtherPc DEF IoPerform, IoFinish, CompletionDecrypt, At, control, counts, Pipeline
  <2>2. t \notin Counting /\ t \notin Counting'
    BY <2>1 DEF Counting
  <2> QED
    BY <1>0, <1>1, <1>2, <2>1, <2>2, AccountedThread DEF Bit
<1> QED
  BY <1>3, <1>4, <1>5

LEMMA AccountedClient ==
    ASSUME Pipeline, Accounted, NEW i \in Irps, AddIrp(i) \/ Adding(i) \/ Collect(i)
    PROVE  Accounted'
<1>0. OutstandingIoCount \in Nat /\ irp \in [Irps -> IrpType]
  BY CountType DEF Pipeline, Types
<1>1. /\ \A j \in Irps : j # i => irp'[j] = irp[j]
      /\ UNCHANGED thread
      /\ AddIrp(i) => irp[i].pc = "idle" /\ irp'[i].pc = "counted"
      /\ AddIrpQueue(i) => irp[i].pc = "counted" /\ irp'[i].pc = "pending"
      /\ AddIrpRefuse(i) => irp[i].pc = "counted" /\ irp'[i].pc \in {"refused", "done"}
      /\ AddIrpSignal(i) => irp[i].pc = "refused" /\ irp'[i].pc = "done"
      /\ Collect(i) => irp[i].pc = "done" /\ irp'[i].pc = "idle"
  <2>1. CASE AddIrp(i)
    BY <1>0, <2>1 DEF AddIrp, IrpAt, AddIrpQueue, AddIrpRefuse, AddIrpSignal, Collect
  <2>2. CASE AddIrpQueue(i)
    BY <1>0, <2>2 DEF AddIrp, IrpAt, IrpGoes, AddIrpQueue, AddIrpRefuse, AddIrpSignal, Collect, IrpType
  <2>3. CASE AddIrpRefuse(i)
    BY <1>0, <2>3 DEF AddIrp, IrpAt, IrpGoes, AddIrpQueue, AddIrpRefuse, AddIrpSignal, Collect, IrpType
  <2>4. CASE AddIrpSignal(i)
    BY <1>0, <2>4 DEF AddIrp, IrpAt, IrpGoes, AddIrpQueue, AddIrpRefuse, AddIrpSignal, Collect, IrpType
  <2>5. CASE Collect(i)
    BY <1>0, <2>5 DEF AddIrp, IrpAt, AddIrpQueue, AddIrpRefuse, AddIrpSignal, Collect, NoIrp
  <2> QED
    BY <2>1, <2>2, <2>3, <2>4, <2>5 DEF Adding
<1>2. OutstandingIoCount' = OutstandingIoCount + Bit(AddIrp(i)) - Bit(AddIrpRefuse(i))
  <2>1. /\ AddIrp(i) => OutstandingIoCount' = OutstandingIoCount + 1
        /\ AddIrpRefuse(i) => OutstandingIoCount' = OutstandingIoCount - 1
        /\ AddIrpQueue(i) \/ AddIrpSignal(i) \/ Collect(i) => OutstandingIoCount' = OutstandingIoCount
    BY DEF AddIrp, AddIrpRefuse, AddIrpQueue, AddIrpSignal, Collect, control, counts
  <2> QED
    BY <1>0, <1>1, <2>1 DEF Bit, Adding
<1>3. OutstandingIoCount' + Bit(i \in Outstanding) + Bit("main" \in Counting)
          = OutstandingIoCount + Bit(i \in Outstanding') + Bit("main" \in Counting')
  <2>1. Bit("main" \in Counting') = Bit("main" \in Counting) /\ Bit("main" \in Counting) \in Int
    BY <1>1 DEF Counting, Bit
  <2>2. OutstandingIoCount' + Bit(i \in Outstanding) = OutstandingIoCount + Bit(i \in Outstanding')
    BY <1>0, <1>1, <1>2 DEF Outstanding, Bit, Adding
  <2> QED
    BY <1>0, <2>1, <2>2 DEF Bit
<1>4. OutstandingIoCount' \in Int
  BY <1>0, <1>2 DEF Bit
<1> QED
  BY <1>1, <1>3, <1>4, AccountedChange

LEMMA AccountedStep ==
    ASSUME Pipeline, Pipeline', Accounted, [Next]_vars
    PROVE  Accounted'
<1>1. CASE UNCHANGED vars
  BY <1>1 DEF vars, Accounted
<1>2. CASE Hold \/ Holder \/ Stop \/ Stopper
  BY <1>2, ControlFrame DEF Accounted
<1>3. "main" \in Threads /\ "io" \in Threads /\ "completion" \in Threads
  BY DEF Threads
<1>4. CASE IoThreadProc \/ CompletionThreadProc
  BY <1>3, <1>4, AccountedCommon, AccountedOther DEF IoThreadProc, CompletionThreadProc
<1> QED
  BY <1>1, <1>2, <1>3, <1>4, AccountedCommon, AccountedMain, AccountedClient DEF Next

-----------------------------------------------------------------------------
(* Holding and stopping the queue. *)

\* With no I/O outstanding, nothing is under way.
LEMMA Drained ==
    ASSUME Pipeline, Accounted, OutstandingIoCount <= 0
    PROVE  /\ \A i \in Irps : irp[i].pc \notin {"counted", "pending"}
           /\ \A t \in Threads : thread[t].pc \in {"idle", "signal", "signalReadAhead", "exited"}
           /\ mainQueue = << >> /\ ioQueue = << >> /\ completionQueue = << >>
<1>1. /\ IsFiniteSet(Outstanding) /\ IsFiniteSet(Counting)
      /\ Cardinality(Outstanding) \in Nat /\ Cardinality(Counting) \in Nat
  BY FiniteSets, FS_CardinalityType DEF Pipeline
<1>2. OutstandingIoCount = Cardinality(Outstanding) + Cardinality(Counting)
  BY DEF Accounted, Outstanding, Counting
<1>3. Cardinality(Outstanding) = 0 /\ Cardinality(Counting) = 0
  BY <1>1, <1>2
<1>4. Outstanding = {} /\ Counting = {}
  BY <1>1, <1>3, FS_EmptySet
<1>5. \A i \in Irps : irp[i].pc \notin {"counted", "pending"}
  BY <1>4 DEF Outstanding
<1>6. \A t \in Threads : thread[t].pc \in {"idle", "signal", "signalReadAhead", "exited"}
  <2>1. \A t \in Threads : thread[t].pc \notin Working \cup {"decrement", "readAhead", "readAheadDone"}
    BY <1>4, <1>5 DEF Counting, Pipeline, PendingInv
  <2> QED
    BY <2>1 DEF Pipeline, PcInv, Threads, Working
<1>7. mainQueue = << >> /\ ioQueue = << >> /\ completionQueue = << >>
  <2>1. \A n \in 1 .. Len(mainQueue) : mainQueue[n] \in Irps
    BY Lengths DEF Pipeline
  <2>2. 1 \notin 1 .. Len(mainQueue) /\ 1 \notin 1 .. Len(ioQueue) /\ 1 \notin 1 .. Len(completionQueue)
    BY <1>5, <2>1 DEF Pipeline, PendingInv
  <2>3. ASSUME NEW S, NEW q \in Seq(S), 1 \notin 1 .. Len(q) PROVE q = << >>
    BY <2>3
  <2> QED
    BY <2>2, <2>3 DEF Pipeline, Types
<1> QED
  BY <1>5, <1>6, <1>7

\* Clients and the queue's own threads leave the flags alone.
Requests ==
    \/ \E i \in Irps : AddIrp(i) \/ Adding(i) \/ Collect(i)
    \/ MainThreadProc \/ IoThreadProc \/ CompletionThreadProc

LEMMA RequestsFrame ==
    ASSUME Requests
    PROVE  /\ UNCHANGED <<queue, stopping, Suspended, SuspendPending, hold>>
           /\ UNCHANGED QueueResumedEvent \/ QueueResumedEvent' = FALSE
<1>1. ASSUME NEW i, AddIrp(i) \/ Adding(i) \/ Collect(i)
      PROVE  UNCHANGED <<queue, stopping, suspension>>
  BY <1>1 DEF Adding, AddIrp, AddIrpQueue, AddIrpRefuse, AddIrpSignal, Collect, control, device
<1>2. ASSUME NEW t, AnyThread(t)
      PROVE  UNCHANGED <<queue, stopping, suspension>>
  BY <1>2 DEF AnyThread, Complete, Decrement, SignalIdle, Exit, control, device
<1>3. MainDequeue \/ MainGate \/ MainAccept \/ MainMisaligned \/ MainFragment \/ MainGetRequest \/ MainQueue =>
          UNCHANGED <<queue, stopping, suspension>>
  BY DEF MainDequeue, MainGate, MainAccept, MainMisaligned, MainFragment, MainGetRequest, MainQueue,
         control, device
<1>4. IoPerform \/ IoFinish \/ IoHandOver \/ IoReadAhead \/ CompletionDecrypt =>
          UNCHANGED <<queue, stopping, suspension>>
  BY DEF IoPerform, IoFinish, IoHandOver, IoReadAhead, CompletionDecrypt, control, device
<1>5. CASE UNCHANGED <<queue, stopping, suspension>>
  BY <1>5 DEF suspension
<1>6. CASE MainResumed
  BY <1>6 DEF MainResumed, device
<1> QED
  BY <1>1, <1>2, <1>3, <1>4, <1>5, <1>6
     DEF Requests, MainThreadProc, IoThreadProc, CompletionThreadProc

\* While the queue is held its threads do nothing but end what they have done.
HeldQuiet ==
    /\ ioQueue = << >> /\ completionQueue = << >>
    /\ \A t \in Threads : Harmless(t)

LEMMA HeldQuietKept ==
    ASSUME Pipeline, HeldQuiet, Suspended, ~QueueResumedEvent, ~ThreadExitRequested, Requests
    PROVE  HeldQuiet'
<1>0. "main" \in Threads /\ "io" \in Threads /\ "completion" \in Threads
  BY DEF Threads
<1>1. ASSUME NEW i \in Irps, AddIrp(i) \/ Adding(i) \/ Collect(i)
      PROVE  HeldQuiet'
  <2>1. UNCHANGED <<ioQueue, completionQueue, thread>>
    BY <1>1 DEF Adding, AddIrp, AddIrpQueue, AddIrpRefuse, AddIrpSignal, Collect, queues
  <2> QED
    BY <2>1 DEF HeldQuiet, Harmless
<1>2. ASSUME NEW t \in Threads, AnyThread(t)
      PROVE  HeldQuiet'
  <2>1. SignalIdle(t)
    BY <1>2 DEF HeldQuiet, Harmless, AnyThread, Complete, Decrement, Exit, At
  <2>2. UNCHANGED <<ioQueue, completionQueue>> /\ thread'[t].pc = "idle"
    BY <2>1, AnyPc DEF SignalIdle, queues, Pipeline
  <2>3. \A u \in Threads : u # t => thread'[u] = thread[u]
    BY <1>2, OneThread DEF Pipeline
  <2> QED
    BY <2>2, <2>3 DEF HeldQuiet, Harmless
<1>3. CASE MainThreadProc /\ ~AnyThread("main")
  <2>1. MainDequeue \/ MainGate
    BY <1>0, <1>3 DEF MainThreadProc, HeldQuiet, Harmless, MainResumed, MainAccept, MainMisaligned,
                MainFragment, MainGetRequest, MainQueue, At
  <2>2. UNCHANGED <<ioQueue, completionQueue>> /\ thread'["main"].pc \in {"gate", "resumeWait"}
    BY <2>1, MainPc DEF MainDequeue, MainGate, queues, Pipeline
  <2>3. \A u \in Threads : u # "main" => thread'[u] = thread[u]
    BY <1>0, <1>3, OneThread DEF Pipeline
  <2> QED
    BY <2>2, <2>3 DEF HeldQuiet, Harmless
<1>4. CASE IoPerform \/ IoFinish \/ IoHandOver \/ IoReadAhead \/ CompletionDecrypt
  BY <1>0, <1>4 DEF HeldQuiet, Harmless, IoPerform, IoFinish, IoHandOver, IoReadAhead,
                    CompletionDecrypt, At
<1> QED
  BY <1>0, <1>1, <1>2, <1>3, <1>4 DEF Requests, MainThreadProc, IoThreadProc, CompletionThreadProc

LEMMA HeldStep ==
    ASSUME Pipeline, Accounted, StopInv, HeldInv, [Next]_vars
    PROVE  HeldInv'
<1>0. /\ hold # "idle" => IsFilterDevice
      /\ IsFilterDevice => ~ThreadExitRequested /\ \A t \in Threads : ~At(t, "exited")
      /\ hold \in {"suspend", "confirm", "invalidate", "held", "resume"} => ~QueueResumedEvent
      /\ hold \in {"confirm", "invalidate", "held"} => Suspended
      /\ hold \in {"invalidate", "held"} => HeldQuiet
  BY DEF HeldInv, StopInv, HeldQuiet, Threads
<1>1. CASE Requests
  <2>1. /\ UNCHANGED <<queue, Suspended, hold>>
        /\ UNCHANGED QueueResumedEvent \/ QueueResumedEvent' = FALSE
    BY <1>1, RequestsFrame
  <2>2. hold' \in {"invalidate", "held"} => HeldQuiet'
    BY <1>0, <1>1, <2>1, HeldQuietKept
  <2> QED
    BY <1>0, <2>1, <2>2 DEF HeldInv, HeldQuiet, IsFilterDevice
<1>2. CASE Hold \/ Holder \/ Stop \/ Stopper
  <2>1. UNCHANGED <<queue, ioQueue, completionQueue, thread>>
    BY <1>2, ControlFrame DEF queues
  <2>2. HeldQuiet' <=> HeldQuiet
    BY <2>1 DEF HeldQuiet, Harmless
  <2>3. CASE Hold \/ HoldTest \/ HoldWake \/ HoldFails \/ HoldRecheck
    <3>1. /\ hold' \in {"idle", "test", "wait", "clear", "recheck"}
          /\ hold' # "idle" => IsFilterDevice
      BY <1>0, <2>3 DEF Hold, HoldTest, HoldWake, HoldFails, HoldRecheck, HoldAt, HoldGoes
    <3> QED
      BY <2>1, <3>1 DEF HeldInv, IsFilterDevice
  <2>4. CASE HoldClear \/ HoldSuspend \/ HoldUndo \/ Resume \/ ResumeSignal
    <3>1. /\ hold # "idle" /\ hold' \in {"suspend", "confirm", "test", "resume", "idle"}
          /\ hold' = "confirm" => Suspended'
          /\ hold' \in {"suspend", "confirm", "resume"} => ~QueueResumedEvent'
      BY <1>0, <2>4 DEF HoldClear, HoldSuspend, HoldUndo, Resume, ResumeSignal, HoldAt, HoldGoes
    <3> QED
      BY <1>0, <2>1, <3>1 DEF HeldInv, IsFilterDevice
  <2>5. CASE HoldConfirm
    <3>1. /\ hold = "confirm" /\ UNCHANGED QueueResumedEvent
          /\ \/ hold' = "undo"
             \/ hold' = "invalidate" /\ Suspended' /\ OutstandingIoCount = 0
      BY <2>5 DEF HoldConfirm, HoldAt, HoldGoes
    <3>2. hold' = "invalidate" => HeldQuiet
      <4>1. SUFFICES ASSUME OutstandingIoCount = 0 PROVE HeldQuiet
        BY <3>1
      <4>2. \A t \in Threads : thread[t].pc # "exited"
        BY <1>0, <3>1 DEF At
      <4> QED
        BY <4>1, <4>2, Drained DEF HeldQuiet, Harmless
    <3> QED
      BY <1>0, <2>1, <2>2, <3>1, <3>2 DEF HeldInv, HeldQuiet, IsFilterDevice
  <2>6. CASE HoldInvalidate \/ HoldWork
    <3>1. /\ hold \in {"invalidate", "held"} /\ hold' = "held"
          /\ UNCHANGED <<QueueResumedEvent, Suspended>>
      BY <2>6 DEF HoldInvalidate, HoldWork, HoldAt, HoldGoes, control, suspension
    <3> QED
      BY <1>0, <2>1, <2>2, <3>1 DEF HeldInv, HeldQuiet, IsFilterDevice
  <2>7. CASE Stop \/ Stopper
    <3>1. UNCHANGED <<hold, QueueResumedEvent, Suspended>>
      BY <2>7 DEF Stop, Stopper, StopDrain, StopWait, StopJoin, suspension
    <3> QED
      BY <1>0, <2>1, <2>2, <3>1 DEF HeldInv, HeldQuiet, IsFilterDevice
  <2> QED
    BY <1>2, <2>3, <2>4, <2>5, <2>6, <2>7 DEF Holder
<1>3. CASE UNCHANGED vars
  BY <1>3 DEF vars, HeldInv, IsFilterDevice, Harmless
<1> QED
  BY <1>1, <1>2, <1>3 DEF Next, Requests

\* A thread that has exited does nothing; once the queue is drained, a thread only exits.
LEMMA ExitedStays ==
    ASSUME Pipeline, Requests, NEW t \in Threads, At(t, "exited")
    PROVE  At(t, "exited")'
<1>0. "main" \in Threads /\ "io" \in Threads /\ "completion" \in Threads
  BY DEF Threads
<1>1. ASSUME NEW i, AddIrp(i) \/ Adding(i) \/ Collect(i)
      PROVE  UNCHANGED thread
  BY <1>1 DEF Adding, AddIrp, AddIrpQueue, AddIrpRefuse, AddIrpSignal, Collect
<1>2. ASSUME NEW u \in Threads, AnyThread(u)
      PROVE  thread'[t] = thread[t]
  <2>1. u # t
    BY <1>2 DEF AnyThread, Complete, Decrement, SignalIdle, Exit, At
  <2> QED
    BY <1>2, <2>1, OneThread DEF Pipeline
<1>3. CASE MainThreadProc /\ ~AnyThread("main")
  <2>1. t # "main"
    BY <1>3 DEF MainThreadProc, MainDequeue, MainGate, MainResumed, MainAccept, MainMisaligned,
                MainFragment, MainGetRequest, MainQueue, At
  <2> QED
    BY <1>0, <1>3, <2>1, OneThread DEF Pipeline, At
<1>4. CASE IoPerform \/ IoFinish \/ IoHandOver \/ IoReadAhead
  <2>1. t # "io"
    BY <1>4 DEF IoPerform, IoFinish, IoHandOver, IoReadAhead, At
  <2>2. IoThreadProc
    BY <1>4 DEF IoThreadProc
  <2> QED
    BY <1>0, <2>1, <2>2, OneThread DEF Pipeline, At
<1>5. CASE CompletionDecrypt
  <2>1. t # "completion"
    BY <1>5 DEF CompletionDecrypt, At
  <2>2. CompletionThreadProc
    BY <1>5 DEF CompletionThreadProc
  <2> QED
    BY <1>0, <2>1, <2>2, OneThread DEF Pipeline, At
<1> QED
  BY <1>0, <1>1, <1>2, <1>3, <1>4, <1>5
     DEF Requests, MainThreadProc, IoThreadProc, CompletionThreadProc, At

StopQuiet ==
    /\ \A i \in Irps : irp[i].pc # "pending"
    /\ \A t \in Threads : thread[t].pc \in {"idle", "signal", "signalReadAhead", "exited"}

LEMMA StopQuietKept ==
    ASSUME Pipeline, StopQuiet, StopPending, Requests
    PROVE  StopQuiet'
<1>0. "main" \in Threads /\ "io" \in Threads /\ "completion" \in Threads
  BY DEF Threads
<1>1. ASSUME NEW i \in Irps, AddIrp(i) \/ Adding(i) \/ Collect(i)
      PROVE  StopQuiet'
  <2>1. UNCHANGED thread /\ ~AddIrpQueue(i)
    BY <1>1 DEF Adding, AddIrp, AddIrpQueue, AddIrpRefuse, AddIrpSignal, Collect
  <2>2. \A j \in Irps : irp'[j].pc # "pending"
    <3>1. AddIrp(i) => irp'[i].pc = "counted" /\ \A j \in Irps : j # i => irp'[j] = irp[j]
      BY DEF AddIrp, Pipeline, Types
    <3>2. AddIrpRefuse(i) =>
              irp'[i].pc \in {"refused", "done"} /\ \A j \in Irps : j # i => irp'[j] = irp[j]
      BY DEF AddIrpRefuse, Pipeline, Types, IrpType
    <3>3. AddIrpSignal(i) => irp'[i].pc = "done" /\ \A j \in Irps : j # i => irp'[j] = irp[j]
      BY DEF AddIrpSignal, IrpGoes, Pipeline, Types, IrpType
    <3>4. Collect(i) => irp'[i].pc = "idle" /\ \A j \in Irps : j # i => irp'[j] = irp[j]
      BY DEF Collect, NoIrp, Pipeline, Types
    <3> QED
      BY <1>1, <2>1, <3>1, <3>2, <3>3, <3>4 DEF Adding, StopQuiet
  <2> QED
    BY <2>1, <2>2 DEF StopQuiet
<1>2. ASSUME NEW t \in Threads, AnyThread(t)
      PROVE  StopQuiet'
  <2>1. SignalIdle(t) \/ Exit(t)
    BY <1>2 DEF StopQuiet, AnyThread, Complete, Decrement, At
  <2>2. UNCHANGED irp /\ thread'[t].pc \in {"idle", "exited"}
    BY <2>1, AnyPc DEF SignalIdle, Exit, clients, Pipeline
  <2>3. \A u \in Threads : u # t => thread'[u] = thread[u]
    BY <1>2, OneThread DEF Pipeline
  <2> QED
    BY <2>2, <2>3 DEF StopQuiet
<1>3. mainQueue = << >> /\ ioQueue = << >> /\ completionQueue = << >>
  <2>1. \A n \in 1 .. Len(mainQueue) : mainQueue[n] \in Irps
    BY Lengths DEF Pipeline
  <2>2. 1 \notin 1 .. Len(mainQueue) /\ 1 \notin 1 .. Len(ioQueue) /\ 1 \notin 1 .. Len(completionQueue)
    BY <2>1 DEF Pipeline, PendingInv, StopQuiet
  <2>3. ASSUME NEW S, NEW q \in Seq(S), 1 \notin 1 .. Len(q) PROVE q = << >>
    BY <2>3
  <2> QED
    BY <2>2, <2>3 DEF Pipeline, Types
<1>4. CASE MainThreadProc /\ ~AnyThread("main")
  BY <1>0, <1>3, <1>4 DEF StopQuiet, MainThreadProc, MainDequeue, MainGate, MainResumed, MainAccept,
        MainMisaligned, MainFragment, MainGetRequest, MainQueue, At
<1>5. CASE IoPerform \/ IoFinish \/ IoHandOver \/ IoReadAhead \/ CompletionDecrypt
  BY <1>0, <1>3, <1>5 DEF StopQuiet, IoPerform, IoFinish, IoHandOver, IoReadAhead,
                    CompletionDecrypt, At
<1> QED
  BY <1>0, <1>1, <1>2, <1>4, <1>5 DEF Requests, MainThreadProc, IoThreadProc, CompletionThreadProc

LEMMA StopStep ==
    ASSUME Pipeline, Accounted, StopInv, [Next]_vars
    PROVE  StopInv'
<1>0. /\ IsFilterDevice => stop = "running"
      /\ stop # "running" => StopPending
      /\ ThreadExitRequested <=> stop \in Threads \cup {"stopped"}
      /\ ThreadExitRequested => StopQuiet
      /\ (\E t \in Threads : At(t, "exited")) => ThreadExitRequested
      /\ stop \in {"io", "completion", "stopped"} => At("main", "exited")
      /\ stop \in {"completion", "stopped"} => At("io", "exited")
      /\ stop = "stopped" => At("completion", "exited")
  BY DEF StopInv, StopQuiet
<1>1. ASSUME UNCHANGED <<queue, irp, thread, stopping>>
      PROVE  StopInv'
  BY <1>1 DEF stopping, StopInv, IsFilterDevice, At
<1>2. CASE Requests
  <2>1. UNCHANGED <<queue, StopPending, ThreadExitRequested, stop>>
    BY <1>2, RequestsFrame DEF stopping
  <2>2. ThreadExitRequested => StopQuiet'
    BY <1>0, <1>2, StopQuietKept DEF Threads
  <2>3. \A t \in Threads : At(t, "exited") => At(t, "exited")'
    BY <1>2, ExitedStays
  <2>4. ASSUME NEW t \in Threads, At(t, "exited")' PROVE ThreadExitRequested
    <3>1. CASE UNCHANGED thread
      BY <1>0, <2>4, <3>1 DEF At
    <3>2. ASSUME NEW u \in Threads, AnyThread(u) PROVE ThreadExitRequested
      <4>1. CASE u = t
        BY <1>0, <2>4, <3>2, <4>1, AnyPc
           DEF AnyThread, Complete, Decrement, SignalIdle, Exit, Pipeline, At
      <4>2. CASE u # t
        BY <1>0, <2>4, <3>2, <4>2, OneThread DEF Pipeline, At
      <4> QED
        BY <4>1, <4>2
    <3>3. CASE MainThreadProc /\ ~AnyThread("main")
      <4>1. thread'["main"].pc # "exited"
        BY <3>3, MainPc DEF MainThreadProc, Pipeline
      <4>2. \A u \in Threads : u # "main" => thread'[u] = thread[u]
        BY <3>3, OneThread DEF Pipeline, Threads
      <4> QED
        BY <1>0, <2>4, <4>1, <4>2 DEF At
    <3>4. CASE IoPerform \/ IoFinish \/ IoHandOver \/ IoReadAhead
      <4>1. thread'["io"].pc # "exited"
        BY <3>4, OtherPc DEF Pipeline
      <4>2. \A u \in Threads : u # "io" => thread'[u] = thread[u]
        BY <3>4, OneThread DEF Pipeline, IoThreadProc, Threads
      <4> QED
        BY <1>0, <2>4, <4>1, <4>2 DEF At
    <3>5. CASE CompletionDecrypt
      <4>1. thread'["completion"].pc # "exited"
        BY <3>5, OtherPc DEF Pipeline
      <4>2. \A u \in Threads : u # "completion" => thread'[u] = thread[u]
        BY <3>5, OneThread DEF Pipeline, CompletionThreadProc, Threads
      <4> QED
        BY <1>0, <2>4, <4>1, <4>2 DEF At
    <3>6. ASSUME NEW i, AddIrp(i) \/ Adding(i) \/ Collect(i)
          PROVE  UNCHANGED thread
      BY <3>6 DEF Adding, AddIrp, AddIrpQueue, AddIrpRefuse, AddIrpSignal, Collect
    <3>7. "main" \in Threads /\ "io" \in Threads /\ "completion" \in Threads
      BY DEF Threads
    <3> QED
      BY <1>2, <3>1, <3>2, <3>3, <3>4, <3>5, <3>6, <3>7
         DEF Requests, MainThreadProc, IoThreadProc, CompletionThreadProc
  <2>5. (\E t \in Threads : At(t, "exited"))' => ThreadExitRequested'
    BY <2>1, <2>4
  <2>6. /\ stop' \in {"io", "completion", "stopped"} => At("main", "exited")'
        /\ stop' \in {"completion", "stopped"} => At("io", "exited")'
        /\ stop' = "stopped" => At("completion", "exited")'
    BY <1>0, <2>1, <2>3 DEF Threads
  <2> QED
    BY <1>0, <2>1, <2>2, <2>5, <2>6 DEF StopInv, StopQuiet, IsFilterDevice
<1>3. CASE Hold \/ Holder
  <2>1. UNCHANGED stopping
    BY <1>3 DEF Hold, Holder, HoldTest, HoldWake, HoldFails, HoldRecheck, HoldClear, HoldSuspend,
                HoldConfirm, HoldUndo, HoldInvalidate, HoldWork, Resume, ResumeSignal, control
  <2> QED
    BY <1>1, <1>3, <2>1, ControlFrame
<1>4. CASE Stop \/ Stopper
  <2>1. UNCHANGED <<queue, irp, thread>>
    BY <1>4, ControlFrame
  <2>2. CASE Stop
    BY <1>0, <2>1, <2>2 DEF Stop, StopAt, StopInv, StopQuiet, IsFilterDevice, At, Threads
  <2>3. CASE StopDrain
    <3>1. /\ stop = "drain" /\ UNCHANGED StopPending
          /\ \/ OutstandingIoCount <= 0 /\ stop' = "main" /\ ThreadExitRequested'
             \/ stop' = "wait" /\ ~ThreadExitRequested'
      <4>1. /\ OutstandingIoCount <= 0 => ThreadExitRequested'
            /\ ~(OutstandingIoCount <= 0) => ~ThreadExitRequested'
        BY <2>3, Zenon DEF StopDrain
      <4>2. /\ stop = "drain" /\ UNCHANGED StopPending
            /\ stop' = IF OutstandingIoCount > 0 THEN "wait" ELSE "main"
        BY <2>3 DEF StopDrain, StopAt
      <4>3. OutstandingIoCount > 0 <=> ~(OutstandingIoCount <= 0)
        <5>1. OutstandingIoCount \in Nat
          BY CountType
        <5> QED
          BY <5>1
      <4> QED
        BY <4>1, <4>2, <4>3, Zenon
    <3>2. ThreadExitRequested' => StopQuiet
      BY <3>1, Drained DEF StopQuiet
    <3> QED
      BY <1>0, <2>1, <3>1, <3>2 DEF StopInv, StopQuiet, IsFilterDevice, At, Threads
  <2>4. CASE StopWait
    <3>1. /\ stop = "wait" /\ stop' = "drain" /\ UNCHANGED <<StopPending, ThreadExitRequested>>
      BY <2>4 DEF StopWait, StopAt
    <3> QED
      BY <1>0, <2>1, <3>1 DEF StopInv, StopQuiet, IsFilterDevice, At, Threads
  <2>5. CASE StopJoin
    <3>1. /\ stop \in Threads /\ At(stop, "exited") /\ UNCHANGED <<StopPending, ThreadExitRequested>>
          /\ stop = "main" => stop' = "io"
          /\ stop = "io" => stop' = "completion"
          /\ stop = "completion" => stop' = "stopped"
      BY <2>5 DEF StopJoin, Threads
    <3> QED
      BY <1>0, <2>1, <3>1 DEF StopInv, StopQuiet, IsFilterDevice, At, Threads
  <2> QED
    BY <1>4, <2>2, <2>3, <2>4, <2>5 DEF Stopper
<1>5. CASE UNCHANGED vars
  BY <1>1, <1>5 DEF vars, stopping
<1> QED
  BY <1>2, <1>3, <1>4, <1>5 DEF Next, Requests

-----------------------------------------------------------------------------
(* The pools. *)
LEMMA BitType == \A b : Bit(b) \in {0, 1}
  BY DEF Bit

LEMMA ItemsChange ==
    ASSUME Pipeline, ItemsInv, NEW i, NEW t,
           \A j : j # i => (j \in Accepted' <=> j \in Accepted),
           \A u : u # t => (u \in Releasing' <=> u \in Releasing),
           itemsFree' + Bit(i \in Accepted') + Bit(t \in Releasing')
               = itemsFree + Bit(i \in Accepted) + Bit(t \in Releasing),
           itemsFree' \in Nat
    PROVE  ItemsInv'
<1>1. /\ Cardinality(Accepted) \in Nat /\ Cardinality(Accepted') \in Nat
      /\ Cardinality(Accepted') + Bit(i \in Accepted) = Cardinality(Accepted) + Bit(i \in Accepted')
  BY CardinalityChange, FiniteSets DEF Pipeline
<1>2. /\ Cardinality(Releasing) \in Nat /\ Cardinality(Releasing') \in Nat
      /\ Cardinality(Releasing') + Bit(t \in Releasing) = Cardinality(Releasing) + Bit(t \in Releasing')
  BY CardinalityChange, FiniteSets DEF Pipeline
<1>3. ItemCount \in Nat /\ itemsFree \in Nat
      /\ itemsFree + Cardinality(Accepted) + Cardinality(Releasing) = ItemCount
  BY QueueFacts DEF ItemsInv, Pipeline
<1>4. /\ Bit(i \in Accepted') \in Int /\ Bit(t \in Releasing') \in Int
      /\ Bit(i \in Accepted) \in Int /\ Bit(t \in Releasing) \in Int
  BY BitType
<1>5. itemsFree' + Cardinality(Accepted') + Cardinality(Releasing') = ItemCount
  BY <1>1, <1>2, <1>3, <1>4
<1> QED
  BY <1>5 DEF ItemsInv

\* The same IRPs have an item.
LEMMA AcceptedSame ==
    ASSUME UNCHANGED mainQueue, \A j \in Irps : irp'[j].pc = irp[j].pc,
           \/ thread["main"].pc \notin Waiting /\ thread'["main"].pc \notin Waiting
           \/ /\ thread["main"].pc \in Waiting /\ thread'["main"].pc \in Waiting
              /\ thread'["main"].irp = thread["main"].irp
    PROVE  \A j : j \in Accepted' <=> j \in Accepted
  BY DEF Accepted

LEMMA ItemsCommon ==
    ASSUME Pipeline, Pipeline', ItemsInv, NEW t \in Threads, AnyThread(t)
    PROVE  ItemsInv'
<1>0. \A u \in Threads : u # t => thread'[u] = thread[u]
  BY OneThread DEF Pipeline
<1>1. \A u : u # t => (u \in Releasing' <=> u \in Releasing)
  BY <1>0 DEF Releasing
<1>2. itemsFree \in Nat /\ "main" \in Threads
  BY DEF ItemsInv, Threads
<1>3. CASE Complete(t)
  <2> DEFINE i == thread[t].irp
  <2>1. /\ thread[t].pc = "complete" /\ i \in Irps /\ irp[i].pc = "pending"
        /\ irp' = [irp EXCEPT ![i].pc = "done"] /\ UNCHANGED <<itemsFree, mainQueue>>
    BY <1>3 DEF Complete, At, Pipeline, PendingInv, Working, work, pool, queues
  <2>2. thread'[t].pc = "decrement"
    BY <1>3, AnyPc DEF Pipeline
  <2>3. irp'[i].pc = "done" /\ \A j \in Irps : j # i => irp'[j].pc = irp[j].pc
    BY <2>1 DEF Pipeline, Types, IrpType
  <2>4. /\ \A n \in 1 .. Len(mainQueue) : mainQueue[n] # i
        /\ thread["main"].pc \in Waiting => thread["main"].irp # i
    BY <1>2, <2>1 DEF Pipeline, PcInv, WaitingInv, Working, Waiting, Splitting, Threads
  <2>5. i \in Accepted /\ i \notin Accepted'
    BY <2>1, <2>3, <2>4 DEF Accepted
  <2>6. \A j : j # i => (j \in Accepted' <=> j \in Accepted)
    <3>1. CASE t = "main"
      BY <2>1, <2>2, <2>3, <3>1 DEF Accepted, Waiting
    <3>2. CASE t # "main"
      BY <1>0, <1>2, <2>1, <2>3, <3>2 DEF Accepted
    <3> QED
      BY <3>1, <3>2
  <2>7. t \notin Releasing /\ t \in Releasing'
    BY <2>1, <2>2 DEF Releasing
  <2> HIDE DEF i
  <2> QED
    BY <1>1, <1>2, <2>1, <2>5, <2>6, <2>7, ItemsChange DEF Bit
<1>4. CASE Decrement(t) \/ SignalIdle(t) \/ Exit(t)
  <2>1. /\ thread[t].pc \notin Waiting /\ UNCHANGED <<irp, mainQueue>>
        /\ thread'[t].pc \in {"idle", "signal", "signalReadAhead", "exited"}
    BY <1>4, AnyPc DEF Decrement, SignalIdle, Exit, At, clients, queues, Waiting, Pipeline
  <2>2. \A j : j \in Accepted' <=> j \in Accepted
    <3>1. CASE t = "main"
      BY <2>1, <3>1, AcceptedSame DEF Waiting
    <3>2. CASE t # "main"
      BY <1>0, <1>2, <2>1, <3>2 DEF Accepted
    <3> QED
      BY <3>1, <3>2
  <2>3. itemsFree' + Bit(t \in Releasing') = itemsFree + Bit(t \in Releasing) /\ itemsFree' \in Nat
    <3>1. CASE Decrement(t)
      <4>1. /\ thread[t].pc \in {"decrement", "readAheadDone"}
            /\ OutstandingIoCount = 1 =>
                  /\ thread'[t].pc = IF At(t, "decrement") THEN "signal" ELSE "signalReadAhead"
                  /\ itemsFree' = itemsFree
            /\ OutstandingIoCount # 1 =>
                  /\ thread'[t].pc = "idle"
                  /\ itemsFree' = IF At(t, "decrement") THEN itemsFree + 1 ELSE itemsFree
        BY <3>1, AnyPc DEF Decrement, Release, pool, Pipeline
      <4> QED
        BY <1>2, <4>1 DEF At, Releasing, Bit
    <3>2. CASE SignalIdle(t)
      <4>1. /\ thread[t].pc \in {"signal", "signalReadAhead"} /\ thread'[t].pc = "idle"
            /\ itemsFree' = IF At(t, "signal") THEN itemsFree + 1 ELSE itemsFree
        BY <3>2, AnyPc DEF SignalIdle, Release, pool, Pipeline
      <4> QED
        BY <1>2, <4>1 DEF At, Releasing, Bit
    <3>3. CASE Exit(t)
      <4>1. thread[t].pc = "idle" /\ thread'[t].pc = "exited" /\ itemsFree' = itemsFree
        BY <3>3, AnyPc DEF Exit, At, work, pool, Pipeline
      <4> QED
        BY <1>2, <4>1 DEF Releasing, Bit
    <3> QED
      BY <1>4, <3>1, <3>2, <3>3
  <2>4. itemsFree' + Bit(None \in Accepted') + Bit(t \in Releasing')
            = itemsFree + Bit(None \in Accepted) + Bit(t \in Releasing)
    <3>1. Bit(None \in Accepted') = Bit(None \in Accepted)
      BY <2>2 DEF Bit
    <3>2. /\ Bit(None \in Accepted) \in Int
          /\ Bit(t \in Releasing) \in Int /\ Bit(t \in Releasing') \in Int
      BY BitType
    <3> QED
      BY <1>2, <2>3, <3>1, <3>2
  <2> QED
    BY <1>1, <2>2, <2>3, <2>4, ItemsChange
<1> QED
  BY <1>3, <1>4 DEF AnyThread

LEMMA ItemsKept ==
    ASSUME ItemsInv, UNCHANGED itemsFree, \A j : j \in Accepted' <=> j \in Accepted,
           \A u : u \in Releasing' <=> u \in Releasing
    PROVE  ItemsInv'
<1>1. Accepted' = Accepted /\ Releasing' = Releasing
  OBVIOUS
<1> QED
  BY <1>1 DEF ItemsInv

LEMMA ItemsMain ==
    ASSUME Pipeline, Pipeline', ItemsInv, MainThreadProc, ~AnyThread("main")
    PROVE  ItemsInv'
<1>0. "main" \in Threads /\ itemsFree \in Nat
  BY DEF Threads, ItemsInv
<1>1. \A u \in Threads : u # "main" => thread'[u] = thread[u]
  BY <1>0, OneThread DEF Pipeline
<1>2. \A t \in Threads : ~Complete(t)
  <2>1. ASSUME NEW t \in Threads, Complete(t) PROVE FALSE
    <3>1. t = "main"
      BY <1>1, <2>1, AnyPc DEF Complete, At, Pipeline
    <3> QED
      BY <2>1, <3>1 DEF AnyThread
  <2> QED
    BY <2>1
<1>3. \A j \in Irps : irp'[j].pc = irp[j].pc
  BY <1>2, IrpFrame
<1>4. CASE MainDequeue
  <2> DEFINE i == Head(mainQueue)
  <2>1. /\ thread["main"].pc = "idle" /\ mainQueue # << >> /\ mainQueue' = Tail(mainQueue)
        /\ thread' = [thread EXCEPT !["main"] = [thread["main"] EXCEPT !.pc = "gate", !.irp = i]]
        /\ UNCHANGED itemsFree
    BY <1>4 DEF MainDequeue, At, work, pool
  <2>2. thread'["main"].pc = "gate" /\ thread'["main"].irp = i
    BY <1>0, <2>1 DEF Pipeline, Types, ThreadType
  <2>3. /\ Len(mainQueue) \in Nat \ {0} /\ Len(mainQueue') = Len(mainQueue) - 1 /\ i = mainQueue[1]
        /\ \A n \in 1 .. Len(mainQueue) - 1 : mainQueue'[n] = mainQueue[n + 1]
    BY <2>1, Taken DEF Pipeline, Types
  <2>4. ASSUME NEW j
        PROVE  (\A n \in 1 .. Len(mainQueue) : mainQueue[n] # j) <=>
                  (\A n \in 1 .. Len(mainQueue') : mainQueue'[n] # j) /\ i # j
    <3>1. ASSUME \A n \in 1 .. Len(mainQueue) : mainQueue[n] # j
          PROVE  (\A n \in 1 .. Len(mainQueue') : mainQueue'[n] # j) /\ i # j
      BY <2>3, <3>1
    <3>2. ASSUME \A n \in 1 .. Len(mainQueue') : mainQueue'[n] # j, i # j, NEW n \in 1 .. Len(mainQueue)
          PROVE  mainQueue[n] # j
      <4>1. CASE n = 1
        BY <2>3, <3>2, <4>1
      <4>2. CASE n # 1
        <5>1. n - 1 \in 1 .. Len(mainQueue') /\ mainQueue'[n - 1] = mainQueue[(n - 1) + 1]
          BY <2>3, <4>2
        <5>2. (n - 1) + 1 = n
          OBVIOUS
        <5> QED
          BY <3>2, <5>1, <5>2
      <4> QED
        BY <4>1, <4>2
    <3> QED
      BY <3>1, <3>2
  <2> HIDE DEF i
  <2>5. \A j : j \in Accepted' <=> j \in Accepted
    BY <1>3, <2>1, <2>2, <2>4 DEF Accepted, Waiting
  <2>6. \A u : u \in Releasing' <=> u \in Releasing
    BY <1>1, <2>1, <2>2 DEF Releasing
  <2> QED
    BY <2>1, <2>5, <2>6, ItemsKept
<1>5. CASE MainGate \/ MainResumed
  <2>1. /\ thread["main"].pc \in Waiting /\ UNCHANGED <<mainQueue, itemsFree>>
        /\ \E pc \in {"resumeWait", "accept"} : Goes("main", pc)
    BY <1>5 DEF MainGate, MainResumed, At, Waiting, work, pool, queues
  <2>2. thread'["main"].pc \in Waiting /\ thread'["main"].irp = thread["main"].irp
    BY <1>0, <2>1, GoesFacts DEF Pipeline, ThreadPc, Waiting
  <2>3. \A j : j \in Accepted' <=> j \in Accepted
    BY <1>3, <2>1, <2>2, AcceptedSame
  <2>4. \A u : u \in Releasing' <=> u \in Releasing
    BY <1>1, <2>1, <2>2 DEF Releasing, Waiting
  <2> QED
    BY <2>1, <2>3, <2>4, ItemsKept
<1>6. CASE MainAccept
  <2> DEFINE i == thread["main"].irp
  <2>1. /\ thread["main"].pc = "accept" /\ i \in Irps /\ irp[i].pc = "pending"
        /\ itemsFree > 0 /\ itemsFree' = itemsFree - 1 /\ UNCHANGED mainQueue
    BY <1>0, <1>6 DEF MainAccept, At, queues, Pipeline, PendingInv, Working
  <2>2. thread'["main"].pc \in {"misaligned", "fragment", "complete"}
    BY <1>6, MainPc DEF Pipeline
  <2>3. \A n \in 1 .. Len(mainQueue) : mainQueue[n] # i
    BY <1>0, <2>1 DEF Pipeline, WaitingInv, Working
  <2>4. i \notin Accepted /\ i \in Accepted'
    BY <1>3, <2>1, <2>2, <2>3 DEF Accepted, Waiting
  <2>5. \A j : j # i => (j \in Accepted' <=> j \in Accepted)
    BY <1>3, <2>1, <2>2 DEF Accepted, Waiting
  <2>6. "main" \notin Releasing /\ "main" \notin Releasing'
    BY <2>1, <2>2 DEF Releasing
  <2>7. \A u : u # "main" => (u \in Releasing' <=> u \in Releasing)
    BY <1>1 DEF Releasing
  <2> HIDE DEF i
  <2> QED
    BY <1>0, <2>1, <2>4, <2>5, <2>6, <2>7, ItemsChange DEF Bit
<1>7. CASE MainMisaligned \/ MainFragment \/ MainGetRequest \/ MainQueue
  <2>1. /\ thread["main"].pc \in {"misaligned", "fragment", "getRequest", "queue"}
        /\ UNCHANGED <<mainQueue, itemsFree>>
    BY <1>7 DEF MainMisaligned, MainFragment, MainGetRequest, MainQueue, At, work, pool, queues
  <2>2. thread'["main"].pc \in {"complete", "getRequest", "queue", "idle", "fragment"}
    BY <1>7, MainPc DEF Pipeline
  <2>3. \A j : j \in Accepted' <=> j \in Accepted
    BY <1>3, <2>1, <2>2, AcceptedSame DEF Waiting
  <2>4. \A u : u \in Releasing' <=> u \in Releasing
    BY <1>1, <2>1, <2>2 DEF Releasing
  <2> QED
    BY <2>1, <2>3, <2>4, ItemsKept
<1> QED
  BY <1>4, <1>5, <1>6, <1>7 DEF MainThreadProc

LEMMA ItemsOther ==
    ASSUME Pipeline, Pipeline', ItemsInv, NEW t \in {"io", "completion"},
           \/ t = "io" /\ (IoPerform \/ IoFinish \/ IoHandOver \/ IoReadAhead)
           \/ t = "completion" /\ CompletionDecrypt
    PROVE  ItemsInv'
<1>0. t \in Threads /\ "main" \in Threads /\ t # "main"
  BY DEF Threads
<1>1. \A u \in Threads : u # t => thread'[u] = thread[u]
  BY <1>0, OneThread DEF Pipeline, IoThreadProc, CompletionThreadProc
<1>2. /\ thread[t].pc \in {"idle", "finish", "handOver", "readAhead"}
      /\ UNCHANGED <<mainQueue, itemsFree>>
  BY DEF IoPerform, IoFinish, IoHandOver, IoReadAhead, CompletionDecrypt, At, queues, pool, work
<1>3. thread'[t].pc \in {"finish", "handOver", "complete", "idle", "readAhead", "readAheadDone"}
  BY OtherPc DEF Pipeline
<1>4. \A j \in Irps : irp'[j].pc = irp[j].pc
  <2>1. ASSUME NEW u \in Threads, Complete(u) PROVE FALSE
    <3>1. u = t
      BY <1>1, <2>1, AnyPc DEF Complete, At, Pipeline
    <3> QED
      BY <1>2, <2>1, <3>1 DEF Complete, At
  <2> QED
    BY <2>1, IrpFrame DEF IoThreadProc, CompletionThreadProc
<1>5. \A j : j \in Accepted' <=> j \in Accepted
  BY <1>0, <1>1, <1>2, <1>4 DEF Accepted
<1>6. \A u : u \in Releasing' <=> u \in Releasing
  BY <1>0, <1>1, <1>2, <1>3 DEF Releasing
<1> QED
  BY <1>2, <1>5, <1>6, ItemsKept

LEMMA ItemsClient ==
    ASSUME Pipeline, ItemsInv, NEW i \in Irps, AddIrp(i) \/ Adding(i) \/ Collect(i)
    PROVE  ItemsInv'
<1>1. CASE AddIrpQueue(i)
  <2>1. /\ irp[i].pc = "counted" /\ UNCHANGED <<thread, itemsFree>>
        /\ irp' = [irp EXCEPT ![i].pc = "pending"] /\ mainQueue' = Append(mainQueue, i)
    BY <1>1 DEF AddIrpQueue, IrpAt, IrpGoes, work, pool
  <2>2. \A j \in Irps : j # i => irp'[j] = irp[j]
    BY <2>1 DEF Pipeline, Types
  <2>3. /\ Len(mainQueue) \in Nat /\ Len(mainQueue') = Len(mainQueue) + 1
        /\ mainQueue'[Len(mainQueue) + 1] = i
        /\ \A n \in 1 .. Len(mainQueue) : mainQueue'[n] = mainQueue[n]
    BY <2>1, Added, Lengths DEF Pipeline, Types
  <2>4. i \notin Accepted /\ i \notin Accepted'
    BY <2>1, <2>3 DEF Accepted
  <2>5. \A j : j # i => (j \in Accepted' <=> j \in Accepted)
    BY <2>1, <2>2, <2>3 DEF Accepted
  <2>6. \A u : u \in Releasing' <=> u \in Releasing
    BY <2>1 DEF Releasing
  <2> QED
    BY <2>1, <2>4, <2>5, <2>6, ItemsKept
<1>2. CASE ~AddIrpQueue(i)
  <2>1. /\ UNCHANGED <<thread, mainQueue, itemsFree>> /\ irp[i].pc # "pending"
        /\ \A j \in Irps : j # i => irp'[j] = irp[j]
    BY <1>2, ClientFrame DEF Adding, queues, pool, Pipeline, Types
  <2>2. irp'[i].pc # "pending"
    <3>1. AddIrp(i) => irp'[i].pc = "counted"
      BY DEF AddIrp, Pipeline, Types
    <3>2. AddIrpRefuse(i) => irp'[i].pc \in {"refused", "done"}
      BY DEF AddIrpRefuse, Pipeline, Types, IrpType
    <3>3. AddIrpSignal(i) => irp'[i].pc = "done"
      BY DEF AddIrpSignal, IrpGoes, Pipeline, Types, IrpType
    <3>4. Collect(i) => irp'[i].pc = "idle"
      BY DEF Collect, NoIrp, Pipeline, Types
    <3> QED
      BY <1>2, <3>1, <3>2, <3>3, <3>4 DEF Adding
  <2>3. \A j : j \in Accepted' <=> j \in Accepted
    BY <2>1, <2>2 DEF Accepted
  <2>4. \A u : u \in Releasing' <=> u \in Releasing
    BY <2>1 DEF Releasing
  <2> QED
    BY <2>1, <2>3, <2>4, ItemsKept
<1> QED
  BY <1>1, <1>2

LEMMA ItemsStep ==
    ASSUME Pipeline, Pipeline', ItemsInv, [Next]_vars
    PROVE  ItemsInv'
<1>1. CASE UNCHANGED vars
  BY <1>1, ItemsKept DEF vars, Accepted, Releasing
<1>2. CASE Hold \/ Holder \/ Stop \/ Stopper
  BY <1>2, ControlFrame, ItemsKept DEF queues, pool, Accepted, Releasing
<1>3. "main" \in Threads /\ "io" \in Threads /\ "completion" \in Threads
  BY DEF Threads
<1>4. CASE IoThreadProc \/ CompletionThreadProc
  BY <1>3, <1>4, ItemsCommon, ItemsOther DEF IoThreadProc, CompletionThreadProc
<1> QED
  BY <1>1, <1>2, <1>3, <1>4, ItemsCommon, ItemsMain, ItemsClient DEF Next

LEMMA RequestsTypes ==
    ASSUME Types, RequestsInv
    PROVE  /\ requestsFree \in Nat /\ Len(ioQueue) \in Nat /\ Len(completionQueue) \in Nat
           /\ InMain \in {0, 1} /\ InIo \in {0, 1} /\ InCompletion \in {0, 1}
           /\ Announced \in {0, 1} /\ IoThreadPendingRequestCount \in Nat
<1>1. /\ InMain \in {0, 1} /\ InIo \in {0, 1} /\ InCompletion \in {0, 1} /\ Announced \in {0, 1}
  BY BitType DEF InMain, InIo, InCompletion, Announced
<1> QED
  BY <1>1, Lengths DEF RequestsInv

LEMMA RequestsKept ==
    ASSUME RequestsInv, UNCHANGED <<ioQueue, completionQueue, requestsFree, IoThreadPendingRequestCount>>,
           InMain' = InMain, InIo' = InIo, InCompletion' = InCompletion, Announced' = Announced
    PROVE  RequestsInv'
  BY DEF RequestsInv

LEMMA RequestsCommon ==
    ASSUME Pipeline, RequestsInv, NEW t \in Threads, AnyThread(t)
    PROVE  RequestsInv'
<1>0. \A u \in Threads : u # t => thread'[u] = thread[u]
  BY OneThread DEF Pipeline
<1>1. UNCHANGED <<ioQueue, completionQueue, IoThreadPendingRequestCount>>
  BY DEF AnyThread, Complete, Decrement, SignalIdle, Exit, queues, work
<1>2. /\ thread[t].pc \in {"complete", "decrement", "readAheadDone", "signal", "signalReadAhead", "idle"}
      /\ thread'[t].pc \in {"decrement", "signal", "signalReadAhead", "idle", "exited"}
  BY AnyPc DEF AnyThread, Complete, Decrement, SignalIdle, Exit, At, Pipeline
<1>3. requestsFree' = requestsFree +
          Bit(t # "main" /\ thread[t].pc \in {"decrement", "signal"} /\ thread'[t].pc = "idle")
  <2>1. requestsFree \in Nat
    BY DEF RequestsInv
  <2>2. CASE Complete(t) \/ Exit(t)
    <3>1. UNCHANGED requestsFree /\ thread[t].pc \in {"complete", "idle"}
      BY <2>2 DEF Complete, Exit, At, work, pool
    <3> QED
      BY <2>1, <3>1 DEF Bit
  <2>3. CASE Decrement(t)
    <3>1. /\ thread[t].pc \in {"decrement", "readAheadDone"}
          /\ OutstandingIoCount = 1 => thread'[t].pc # "idle" /\ UNCHANGED requestsFree
          /\ OutstandingIoCount # 1 => thread'[t].pc = "idle" /\
                requestsFree' = IF At(t, "decrement") /\ t # "main" THEN requestsFree + 1 ELSE requestsFree
      BY <2>3, AnyPc DEF Decrement, Release, pool, Pipeline
    <3> QED
      BY <2>1, <3>1 DEF Bit, At
  <2>4. CASE SignalIdle(t)
    <3>1. /\ thread[t].pc \in {"signal", "signalReadAhead"} /\ thread'[t].pc = "idle"
          /\ requestsFree' = IF At(t, "signal") /\ t # "main" THEN requestsFree + 1 ELSE requestsFree
      BY <2>4, AnyPc DEF SignalIdle, Release, pool, Pipeline
    <3> QED
      BY <2>1, <3>1 DEF Bit, At
  <2> QED
    BY <2>2, <2>3, <2>4 DEF AnyThread
<1>4. /\ InMain' = InMain /\ Announced' = Announced
  <2>1. CASE t = "main"
    BY <1>2, <2>1 DEF InMain, Announced, At
  <2>2. CASE t # "main"
    BY <1>0, <2>2 DEF InMain, Announced, At, Threads
  <2> QED
    BY <2>1, <2>2
<1>5. Complete(t) => thread'[t].pc = "decrement"
  BY AnyPc DEF Pipeline
<1>6. thread[t].pc = "complete" => Complete(t)
  BY DEF AnyThread, Decrement, SignalIdle, Exit, At
<1>7. CASE t = "main"
  <2>1. InIo' = InIo /\ InCompletion' = InCompletion /\ requestsFree' = requestsFree
    BY <1>0, <1>3, <1>7 DEF InIo, InCompletion, Threads, Bit, RequestsInv
  <2> QED
    BY <1>1, <1>4, <2>1, RequestsKept
<1>8. CASE t = "io"
  <2>1. InCompletion' = InCompletion
    BY <1>0, <1>8 DEF InCompletion, Threads
  <2>2. requestsFree' + InIo' = requestsFree + InIo
    <3>1. thread[t].pc \in {"readAheadDone", "signalReadAhead", "idle"} =>
              thread'[t].pc \in {"signalReadAhead", "idle", "exited"}
      BY <1>8, AnyPc DEF AnyThread, Complete, Decrement, SignalIdle, Exit, At, Pipeline
    <3>2. thread[t].pc \in {"complete", "decrement", "signal"} =>
              thread'[t].pc \in {"decrement", "signal", "idle"}
      BY <1>8, AnyPc DEF AnyThread, Complete, Decrement, SignalIdle, Exit, At, Pipeline
    <3>3. requestsFree \in Nat
      BY DEF RequestsInv
    <3> QED
      BY <1>2, <1>3, <1>5, <1>6, <1>8, <3>1, <3>2, <3>3 DEF InIo, Bit
  <2>3. requestsFree' \in Nat
    BY <1>3 DEF Bit, RequestsInv
  <2> QED
    <3> DEFINE free == requestsFree'
               there == InIo'
    <3>1. /\ requestsFree \in Nat /\ Len(ioQueue) \in Nat /\ Len(completionQueue) \in Nat
          /\ InMain \in Int /\ InIo \in Int /\ InCompletion \in Int /\ there \in Int
          /\ free \in Int /\ free + there = requestsFree + InIo
      BY <2>2, <2>3, RequestsTypes, BitType DEF Pipeline, InIo
    <3> HIDE DEF free, there
    <3>2. free + Len(ioQueue) + Len(completionQueue) + InMain + there + InCompletion = RequestCount
      BY <3>1 DEF RequestsInv
    <3> QED
      BY <1>1, <1>4, <2>1, <2>3, <3>2 DEF RequestsInv, free, there
<1>9. CASE t = "completion"
  <2>1. InIo' = InIo
    BY <1>0, <1>9 DEF InIo, Threads
  <2>2. requestsFree' + InCompletion' = requestsFree + InCompletion
    <3>1. thread[t].pc \in {"complete", "decrement", "signal", "idle"}
      BY <1>2, <1>9 DEF Pipeline, PcInv
    <3>2. thread[t].pc \in {"complete", "decrement", "signal"} =>
              thread'[t].pc \in {"decrement", "signal", "idle"}
      BY <1>9, <3>1, AnyPc DEF AnyThread, Complete, Decrement, SignalIdle, Exit, At, Pipeline
    <3>3. thread[t].pc = "idle" => thread'[t].pc = "exited"
      BY AnyPc DEF AnyThread, Complete, Decrement, SignalIdle, Exit, At, Pipeline
    <3>4. requestsFree \in Nat
      BY DEF RequestsInv
    <3> QED
      BY <1>3, <1>5, <1>6, <1>9, <3>1, <3>2, <3>3, <3>4 DEF InCompletion, Bit
  <2>3. requestsFree' \in Nat
    BY <1>3 DEF Bit, RequestsInv
  <2> QED
    <3> DEFINE free == requestsFree'
               there == InCompletion'
    <3>1. /\ requestsFree \in Nat /\ Len(ioQueue) \in Nat /\ Len(completionQueue) \in Nat
          /\ InMain \in Int /\ InIo \in Int /\ InCompletion \in Int /\ there \in Int
          /\ free \in Int /\ free + there = requestsFree + InCompletion
      BY <2>2, <2>3, RequestsTypes, BitType DEF Pipeline, InCompletion
    <3> HIDE DEF free, there
    <3>2. free + Len(ioQueue) + Len(completionQueue) + InMain + InIo + there = RequestCount
      BY <3>1 DEF RequestsInv
    <3> QED
      BY <1>1, <1>4, <2>1, <2>3, <3>2 DEF RequestsInv, free, there
<1> QED
  BY <1>7, <1>8, <1>9 DEF Threads

LEMMA RequestsMain ==
    ASSUME Pipeline, RequestsInv, MainThreadProc, ~AnyThread("main")
    PROVE  RequestsInv'
<1>0. /\ \A u \in Threads : u # "main" => thread'[u] = thread[u]
      /\ "main" \in Threads /\ "io" \in Threads /\ "completion" \in Threads
  BY OneThread DEF Pipeline, Threads
<1>1. InIo' = InIo /\ InCompletion' = InCompletion
  BY <1>0 DEF InIo, InCompletion
<1>2. /\ requestsFree \in Nat /\ Len(ioQueue) \in Nat /\ Len(completionQueue) \in Nat
      /\ InIo \in Int /\ InCompletion \in Int /\ InMain \in {0, 1} /\ Announced \in {0, 1}
      /\ IoThreadPendingRequestCount \in Nat
  BY RequestsTypes DEF Pipeline
<1>3. CASE MainDequeue \/ MainGate \/ MainResumed \/ MainAccept \/ MainMisaligned
  <2>1. /\ thread["main"].pc \in {"idle", "gate", "resumeWait", "accept", "misaligned"}
        /\ UNCHANGED <<ioQueue, completionQueue, requestsFree, IoThreadPendingRequestCount>>
    BY <1>3 DEF MainDequeue, MainGate, MainResumed, MainAccept, MainMisaligned, At, queues, work, pool
  <2>2. thread'["main"].pc \in {"gate", "resumeWait", "accept", "misaligned", "fragment", "complete"}
    BY <1>3, MainPc DEF Pipeline
  <2>3. InMain' = InMain /\ Announced' = Announced
    BY <2>1, <2>2 DEF InMain, Announced, At, Bit
  <2> QED
    BY <1>1, <2>1, <2>3, RequestsKept
<1>4. CASE MainFragment
  <2>1. /\ thread["main"].pc = "fragment" /\ thread'["main"].pc = "getRequest"
        /\ UNCHANGED <<ioQueue, completionQueue, requestsFree>>
        /\ IoThreadPendingRequestCount' = IoThreadPendingRequestCount + 1
    BY <1>4, MainPc DEF MainFragment, At, queues, pool, Pipeline
  <2>2. InMain' = InMain /\ Announced = 0 /\ Announced' = 1
    BY <2>1 DEF InMain, Announced, At, Bit
  <2> QED
    BY <1>1, <1>2, <2>1, <2>2 DEF RequestsInv
<1>5. CASE MainGetRequest
  <2>1. /\ thread["main"].pc = "getRequest" /\ thread'["main"].pc = "queue"
        /\ UNCHANGED <<ioQueue, completionQueue, IoThreadPendingRequestCount>>
        /\ requestsFree > 0 /\ requestsFree' = requestsFree - 1
    BY <1>5, MainPc DEF MainGetRequest, At, queues, Pipeline
  <2>2. InMain = 0 /\ InMain' = 1 /\ Announced' = Announced
    BY <2>1 DEF InMain, Announced, At, Bit
  <2> QED
    BY <1>1, <1>2, <2>1, <2>2 DEF RequestsInv
<1>6. CASE MainQueue
  <2>1. /\ thread["main"].pc = "queue" /\ thread'["main"].pc \in {"idle", "fragment"}
        /\ UNCHANGED <<completionQueue, requestsFree, IoThreadPendingRequestCount>>
        /\ ioQueue' = Append(ioQueue, thread["main"].request)
    BY <1>6, MainPc DEF MainQueue, At, pool, Pipeline
  <2>2. InMain = 1 /\ InMain' = 0 /\ Announced = 1 /\ Announced' = 0
    BY <2>1 DEF InMain, Announced, At, Bit
  <2>3. Len(ioQueue') = Len(ioQueue) + 1
    <3>1. ioQueue \in Seq(Request) /\ thread["main"].request \in Request
      BY <1>0 DEF Pipeline, Types, ThreadType
    <3> QED
      BY <2>1, <3>1, Added
  <2> QED
    BY <1>1, <1>2, <2>1, <2>2, <2>3 DEF RequestsInv
<1> QED
  BY <1>3, <1>4, <1>5, <1>6 DEF MainThreadProc

LEMMA RequestsOther ==
    ASSUME Pipeline, RequestsInv, NEW t \in {"io", "completion"},
           \/ t = "io" /\ (IoPerform \/ IoFinish \/ IoHandOver \/ IoReadAhead)
           \/ t = "completion" /\ CompletionDecrypt
    PROVE  RequestsInv'
<1>0. t \in Threads /\ "main" \in Threads /\ "io" \in Threads /\ "completion" \in Threads
  BY DEF Threads
<1>1. \A u \in Threads : u # t => thread'[u] = thread[u]
  BY <1>0, OneThread DEF Pipeline, IoThreadProc, CompletionThreadProc
<1>2. /\ requestsFree \in Nat /\ Len(ioQueue) \in Nat /\ Len(completionQueue) \in Nat
      /\ InMain \in Int /\ Announced \in Int /\ InIo \in {0, 1} /\ InCompletion \in {0, 1}
      /\ IoThreadPendingRequestCount \in Nat
  BY RequestsTypes DEF Pipeline
<1>3. InMain' = InMain /\ Announced' = Announced
  BY <1>0, <1>1 DEF InMain, Announced, At
<1>4. t = "io" => InCompletion' = InCompletion
  BY <1>0, <1>1 DEF InCompletion
<1>5. CASE t = "io" /\ IoPerform
  <2>1. /\ thread["io"].pc = "idle" /\ thread'["io"].pc = "finish" /\ ioQueue # << >>
        /\ ioQueue' = Tail(ioQueue) /\ UNCHANGED <<completionQueue, requestsFree>>
        /\ IoThreadPendingRequestCount' = IoThreadPendingRequestCount - 1
    BY <1>5, OtherPc DEF IoPerform, At, pool, Pipeline
  <2>2. Len(ioQueue') = Len(ioQueue) - 1 /\ Len(ioQueue) > 0
    BY <2>1, Taken DEF Pipeline, Types
  <2>3. InIo = 0 /\ InIo' = 1
    BY <2>1 DEF InIo, Bit
  <2> QED
    BY <1>2, <1>3, <1>4, <1>5, <2>1, <2>2, <2>3 DEF RequestsInv
<1>6. CASE t = "io" /\ IoFinish
  <2> DEFINE r == thread["io"].request
  <2>1. /\ thread["io"].pc = "finish"
        /\ UNCHANGED <<ioQueue, completionQueue, IoThreadPendingRequestCount>>
        /\ requestsFree' = IF irp[r.irp].write /\ ~r.last THEN requestsFree + 1 ELSE requestsFree
        /\ thread'["io"].pc = IF ~irp[r.irp].write THEN "handOver"
                              ELSE IF r.last THEN "complete" ELSE "idle"
    BY <1>6, OtherPc DEF IoFinish, At, queues, Pipeline
  <2>2. requestsFree' \in Nat /\ requestsFree' + InIo' = requestsFree + InIo
    BY <1>2, <2>1 DEF InIo, Bit
  <2>3. InIo' \in Int
    BY BitType DEF InIo
  <2> DEFINE free == requestsFree'
             there == InIo'
  <2>4. free \in Int /\ there \in Int /\ free + there = requestsFree + InIo
    BY <2>2, <2>3
  <2> HIDE DEF free, there
  <2>5. free + Len(ioQueue) + Len(completionQueue) + InMain + there + InCompletion = RequestCount
    BY <1>2, <2>4 DEF RequestsInv
  <2> QED
    BY <1>3, <1>4, <1>6, <2>1, <2>2, <2>5 DEF RequestsInv, free, there
<1>7. CASE t = "io" /\ IoHandOver
  <2>1. /\ thread["io"].pc = "handOver" /\ thread'["io"].pc \in {"readAhead", "idle"}
        /\ UNCHANGED <<ioQueue, requestsFree, IoThreadPendingRequestCount>>
        /\ completionQueue' = Append(completionQueue, thread["io"].request)
    BY <1>7, OtherPc DEF IoHandOver, At, work, pool, Pipeline
  <2>2. Len(completionQueue') = Len(completionQueue) + 1
    <3>1. completionQueue \in Seq(Request) /\ thread["io"].request \in Request
      BY <1>0 DEF Pipeline, Types, ThreadType
    <3> QED
      BY <2>1, <3>1, Added
  <2>3. InIo = 1 /\ InIo' = 0
    BY <2>1 DEF InIo, Bit
  <2> QED
    BY <1>2, <1>3, <1>4, <1>7, <2>1, <2>2, <2>3 DEF RequestsInv
<1>8. CASE t = "io" /\ IoReadAhead
  <2>1. /\ thread["io"].pc = "readAhead" /\ thread'["io"].pc = "readAheadDone"
        /\ UNCHANGED <<ioQueue, completionQueue, requestsFree, IoThreadPendingRequestCount>>
    BY <1>8, OtherPc DEF IoReadAhead, At, queues, pool, Pipeline
  <2>2. InIo' = InIo
    BY <2>1 DEF InIo, Bit
  <2> QED
    BY <1>3, <1>4, <1>8, <2>1, <2>2, RequestsKept
<1>9. CASE t = "completion"
  <2> DEFINE r == Head(completionQueue)
  <2>1. /\ thread["completion"].pc = "idle" /\ completionQueue # << >>
        /\ UNCHANGED <<ioQueue, IoThreadPendingRequestCount>>
        /\ completionQueue' = Tail(completionQueue)
        /\ requestsFree' = IF r.last THEN requestsFree ELSE requestsFree + 1
        /\ thread'["completion"].pc = IF r.last THEN "complete" ELSE "idle"
    BY <1>9, OtherPc DEF CompletionDecrypt, At, Pipeline
  <2>2. Len(completionQueue') = Len(completionQueue) - 1
    BY <2>1, Taken DEF Pipeline, Types
  <2>3. /\ requestsFree' \in Nat
        /\ requestsFree' + InCompletion' = requestsFree + InCompletion + 1
    BY <1>2, <2>1 DEF InCompletion, Bit
  <2>4. InCompletion' \in Int
    BY BitType DEF InCompletion
  <2>5. InIo' = InIo
    BY <1>0, <1>1, <1>9 DEF InIo
  <2> DEFINE free == requestsFree'
             there == InCompletion'
             length == Len(completionQueue')
  <2>6. /\ free \in Int /\ there \in Int /\ length \in Int
        /\ free + there = requestsFree + InCompletion + 1 /\ length = Len(completionQueue) - 1
    <3>1. free \in Int /\ there \in Int /\ free + there = requestsFree + InCompletion + 1
      BY <2>3, <2>4
    <3>2. length = Len(completionQueue) - 1
      BY <2>2
    <3> HIDE DEF free, there, length
    <3>3. length \in Int
      BY <1>2, <3>2
    <3> QED
      BY <3>1, <3>2, <3>3
  <2> HIDE DEF free, there, length
  <2>7. free + Len(ioQueue) + length + InMain + InIo + there = RequestCount
    BY <1>2, <2>6 DEF RequestsInv
  <2> QED
    BY <1>3, <2>1, <2>3, <2>5, <2>7 DEF RequestsInv, free, there, length
<1> QED
  BY <1>5, <1>6, <1>7, <1>8, <1>9

LEMMA PoolStep ==
    ASSUME Pipeline, Pipeline', PoolInv, [Next]_vars
    PROVE  PoolInv'
<1>1. ItemsInv'
  BY ItemsStep DEF PoolInv
<1>2. ASSUME UNCHANGED <<ioQueue, completionQueue, requestsFree, IoThreadPendingRequestCount, thread>>
      PROVE  RequestsInv'
  BY <1>2, RequestsKept DEF PoolInv, InMain, InIo, InCompletion, Announced, At
<1>3. UNCHANGED vars => RequestsInv'
  BY <1>2 DEF vars
<1>4. Hold \/ Holder \/ Stop \/ Stopper => RequestsInv'
  BY <1>2, ControlFrame DEF queues, pool
<1>5. ASSUME NEW i \in Irps, AddIrp(i) \/ Adding(i) \/ Collect(i)
      PROVE  RequestsInv'
  BY <1>2, <1>5 DEF Adding, AddIrp, AddIrpQueue, AddIrpRefuse, AddIrpSignal, Collect, queues, work, pool
<1>6. "main" \in Threads /\ "io" \in Threads /\ "completion" \in Threads
  BY DEF Threads
<1>7. MainThreadProc \/ IoThreadProc \/ CompletionThreadProc => RequestsInv'
  BY <1>6, RequestsCommon, RequestsMain, RequestsOther
     DEF PoolInv, IoThreadProc, CompletionThreadProc
<1> QED
  BY <1>1, <1>3, <1>4, <1>5, <1>7 DEF Next, PoolInv

-----------------------------------------------------------------------------
(* The remaining variables, and the theorems. *)
LEMMA RestRequests ==
    ASSUME Pipeline, RestTypes, Requests
    PROVE  /\ fragmentBufferFree' \in [{"A", "B"} -> BOOLEAN]
           /\ EncryptedAreaEnd' \in Int
           /\ NoOutstandingIoEvent' \in BOOLEAN /\ ProtectionAction' \in BOOLEAN
<1>0. /\ fragmentBufferFree \in [{"A", "B"} -> BOOLEAN] /\ EncryptedAreaEnd \in Int
      /\ NoOutstandingIoEvent \in BOOLEAN /\ ProtectionAction \in BOOLEAN
  BY DEF RestTypes
<1>1. ASSUME UNCHANGED <<fragmentBufferFree, EncryptedAreaEnd, ProtectionAction>>,
             \/ UNCHANGED NoOutstandingIoEvent
             \/ NoOutstandingIoEvent' = (NoOutstandingIoEvent \/ Signalling)
      PROVE  /\ fragmentBufferFree' \in [{"A", "B"} -> BOOLEAN]
             /\ EncryptedAreaEnd' \in Int
             /\ NoOutstandingIoEvent' \in BOOLEAN /\ ProtectionAction' \in BOOLEAN
  BY <1>0, <1>1
<1>2. ASSUME NEW i, AddIrp(i) \/ Adding(i) \/ Collect(i)
      PROVE  /\ UNCHANGED <<fragmentBufferFree, EncryptedAreaEnd, ProtectionAction>>
             /\ \/ UNCHANGED NoOutstandingIoEvent
                \/ NoOutstandingIoEvent' = (NoOutstandingIoEvent \/ Signalling)
  BY <1>2 DEF Adding, AddIrp, AddIrpQueue, AddIrpRefuse, AddIrpSignal, Collect, work, buffers,
              device, control, counts
<1>3. ASSUME NEW t, AnyThread(t)
      PROVE  /\ UNCHANGED <<fragmentBufferFree, EncryptedAreaEnd, ProtectionAction>>
             /\ \/ UNCHANGED NoOutstandingIoEvent
                \/ NoOutstandingIoEvent' = (NoOutstandingIoEvent \/ Signalling)
  BY <1>3 DEF AnyThread, Complete, Decrement, SignalIdle, Exit, work, buffers, device, control, counts
<1>4. ASSUME \/ MainDequeue \/ MainGate \/ MainResumed \/ MainMisaligned \/ MainFragment \/ MainGetRequest
             \/ IoPerform \/ IoHandOver \/ IoReadAhead \/ CompletionDecrypt
      PROVE  UNCHANGED <<fragmentBufferFree, EncryptedAreaEnd, ProtectionAction, NoOutstandingIoEvent>>
  BY <1>4 DEF MainDequeue, MainGate, MainResumed, MainMisaligned, MainFragment, MainGetRequest,
              IoPerform, IoHandOver, IoReadAhead, CompletionDecrypt, work, buffers, device, control, counts
<1>5. CASE MainAccept
  <2>1. UNCHANGED <<fragmentBufferFree, EncryptedAreaEnd, NoOutstandingIoEvent>>
    BY <1>5 DEF MainAccept, buffers, control, counts
  <2>2. \/ UNCHANGED ProtectionAction
        \/ \E x : ProtectionAction' = (ProtectionAction \/ (~IsFilterDevice /\ x))
    BY <1>5, Zenon DEF MainAccept
  <2>3. ProtectionAction' \in BOOLEAN
    BY <1>0, <2>2
  <2> QED
    BY <1>0, <2>1, <2>3
<1>6. CASE MainQueue \/ IoFinish
  <2>1. /\ UNCHANGED <<EncryptedAreaEnd, NoOutstandingIoEvent, ProtectionAction>>
        /\ \E b, free : free \in BOOLEAN /\ fragmentBufferFree' = [fragmentBufferFree EXCEPT ![b] = free]
    BY <1>6 DEF MainQueue, IoFinish, device, control, counts
  <2> QED
    BY <1>0, <2>1
<1> QED
  BY <1>1, <1>2, <1>3, <1>4, <1>5, <1>6
     DEF Requests, MainThreadProc, IoThreadProc, CompletionThreadProc

LEMMA RestStep ==
    ASSUME Pipeline, RestTypes, [Next]_vars
    PROVE  RestTypes'
<1>0. /\ fragmentBufferFree \in [{"A", "B"} -> BOOLEAN] /\ EncryptedAreaEnd \in Int
      /\ NoOutstandingIoEvent \in BOOLEAN /\ Suspended \in BOOLEAN /\ SuspendPending \in BOOLEAN
      /\ QueueResumedEvent \in BOOLEAN /\ StopPending \in BOOLEAN
      /\ ThreadExitRequested \in BOOLEAN /\ ProtectionAction \in BOOLEAN
      /\ hold \in HoldPc /\ stop \in StopPc
  BY DEF RestTypes
<1>1. CASE Requests
  <2>1. /\ UNCHANGED <<StopPending, ThreadExitRequested, stop, Suspended, SuspendPending, hold>>
        /\ UNCHANGED QueueResumedEvent \/ QueueResumedEvent' = FALSE
    BY <1>1, RequestsFrame DEF stopping
  <2> QED
    BY <1>0, <1>1, <2>1, RestRequests DEF RestTypes
<1>2. CASE Hold \/ Holder
  <2>1. UNCHANGED <<fragmentBufferFree, StopPending, ThreadExitRequested, stop, ProtectionAction>>
    BY <1>2 DEF Hold, Holder, HoldTest, HoldWake, HoldFails, HoldRecheck, HoldClear, HoldSuspend,
                HoldConfirm, HoldUndo, HoldInvalidate, HoldWork, Resume, ResumeSignal,
                control, stopping, io, work, buffers, device
  <2>2. EncryptedAreaEnd' \in Int
    BY <1>0, <1>2 DEF Hold, Holder, HoldTest, HoldWake, HoldFails, HoldRecheck, HoldClear, HoldSuspend,
                HoldConfirm, HoldUndo, HoldInvalidate, HoldWork, Resume, ResumeSignal, io, device
  <2>3. hold' \in HoldPc
    BY <1>0, <1>2 DEF Hold, Holder, HoldTest, HoldWake, HoldFails, HoldRecheck, HoldClear, HoldSuspend,
                HoldConfirm, HoldUndo, HoldInvalidate, HoldWork, Resume, ResumeSignal,
                HoldGoes, HoldPc, control, suspension
  <2>4. /\ NoOutstandingIoEvent' \in BOOLEAN /\ SuspendPending' \in BOOLEAN
        /\ QueueResumedEvent' \in BOOLEAN
    BY <1>0, <1>2 DEF Hold, Holder, HoldTest, HoldWake, HoldFails, HoldRecheck, HoldClear, HoldSuspend,
                HoldConfirm, HoldUndo, HoldInvalidate, HoldWork, Resume, ResumeSignal,
                control, counts, suspension
  <2>5. Suspended' \in BOOLEAN
    <3>1. CASE HoldConfirm
      BY <3>1, Zenon DEF HoldConfirm
    <3>2. CASE ~HoldConfirm
      BY <1>0, <1>2, <3>2 DEF Hold, Holder, HoldTest, HoldWake, HoldFails, HoldRecheck, HoldClear,
                HoldSuspend, HoldUndo, HoldInvalidate, HoldWork, Resume, ResumeSignal,
                control, suspension
    <3> QED
      BY <3>1, <3>2
  <2> QED
    BY <1>0, <2>1, <2>2, <2>3, <2>4, <2>5 DEF RestTypes
<1>3. CASE Stop \/ Stopper
  <2>1. UNCHANGED <<fragmentBufferFree, EncryptedAreaEnd, ProtectionAction, Suspended, SuspendPending,
                    QueueResumedEvent, hold>>
    BY <1>3 DEF Stop, Stopper, StopDrain, StopWait, StopJoin, io, work, buffers, device, suspension
  <2>2. /\ NoOutstandingIoEvent' \in BOOLEAN /\ StopPending' \in BOOLEAN /\ stop' \in StopPc
    BY <1>0, <1>3 DEF Stop, Stopper, StopDrain, StopWait, StopJoin, counts, StopPc, Threads
  <2>3. ThreadExitRequested' \in BOOLEAN
    <3>1. CASE StopDrain
      <4>1. (OutstandingIoCount <= 0) \in BOOLEAN
        OBVIOUS
      <4>2. ThreadExitRequested' = (OutstandingIoCount <= 0)
        BY <3>1, Zenon DEF StopDrain
      <4> QED
        BY <4>1, <4>2, Zenon
    <3>2. CASE Stop \/ StopWait \/ StopJoin
      BY <1>0, <3>2 DEF Stop, StopWait, StopJoin
    <3> QED
      BY <1>3, <3>1, <3>2 DEF Stopper
  <2> QED
    BY <1>0, <2>1, <2>2, <2>3 DEF RestTypes
<1>4. CASE UNCHANGED vars
  BY <1>0, <1>4 DEF vars, RestTypes
<1> QED
  BY <1>1, <1>2, <1>3, <1>4 DEF Next, Requests

LEMMA InvInit == Init => AllInv
<1> SUFFICES ASSUME Init PROVE AllInv
  OBVIOUS
<1>1. Pipeline /\ CursorInv /\ Accounted
  BY PipelineInit, AccountedInit
<1>2. /\ \A t \in Threads : thread[t].pc = "idle"
      /\ \A i \in Irps : irp[i].pc = "idle"
      /\ mainQueue = << >> /\ ioQueue = << >> /\ completionQueue = << >>
      /\ "main" \in Threads /\ "io" \in Threads /\ "completion" \in Threads
  BY DEF Init, Idle, NoIrp, Threads
<1>3. ItemsInv
  <2>1. Accepted = {} /\ Releasing = {}
    BY <1>2 DEF Accepted, Releasing
  <2>2. itemsFree = ItemCount /\ ItemCount \in Nat
    BY <1>1, QueueFacts DEF Init, Pipeline
  <2>3. ItemsInv <=> itemsFree + 0 + 0 = ItemCount /\ itemsFree \in Nat
    BY <2>1, FS_EmptySet DEF ItemsInv
  <2> QED
    BY <2>2, <2>3
<1>4. RequestsInv
  <2>1. requestsFree = RequestCount /\ RequestCount \in Nat /\ IoThreadPendingRequestCount = 0
    BY <1>1, QueueFacts DEF Init, Pipeline
  <2>2. InMain = 0 /\ InIo = 0 /\ InCompletion = 0 /\ Announced = 0
    BY <1>2 DEF InMain, InIo, InCompletion, Announced, At, Bit
  <2> QED
    BY <1>2, <2>1, <2>2 DEF RequestsInv
<1>5. HeldInv
  BY DEF Init, HeldInv
<1>6. StopInv
  BY <1>2 DEF Init, StopInv, At, Threads
<1>7. RestTypes
  <2>1. EncryptedAreaEnd \in Int
    BY <1>1, QueueFacts DEF Init, Pipeline, QueueType
  <2> QED
    BY <2>1 DEF Init, RestTypes, HoldPc, StopPc
<1> QED
  BY <1>1, <1>3, <1>4, <1>5, <1>6, <1>7 DEF AllInv, PoolInv

LEMMA InvStep == AllInv /\ [Next]_vars => AllInv'
<1> SUFFICES ASSUME AllInv, [Next]_vars PROVE AllInv'
  OBVIOUS
<1>1. Pipeline' /\ CursorInv'
  BY PipelineStep DEF AllInv
<1>2. Accounted' /\ PoolInv'
  BY <1>1, AccountedStep, PoolStep DEF AllInv
<1>3. HeldInv' /\ StopInv' /\ RestTypes'
  BY HeldStep, StopStep, RestStep DEF AllInv
<1> QED
  BY <1>1, <1>2, <1>3 DEF AllInv

LEMMA InvHolds == Spec => []AllInv
  BY InvInit, InvStep, PTL DEF Spec

(* The count is exact and who holds the queue is alone: EncryptedIoQueueHoldWhenIdle
   returns success only while no thread of the queue has a request, and none gets one
   before EncryptedIoQueueResumeFromHold, whatever the clients add in the meantime. *)
THEOREM HeldAlone == Spec => []HoldExclusive
<1>1. AllInv => HoldExclusive
  BY DEF AllInv, HeldInv, HoldExclusive
<1> QED
  BY <1>1, InvHolds, PTL

(* The variables have their types; in particular EncryptedIoQueue.c never takes an item or
   a request that is InUse from its pools, returns none twice, and OutstandingIoCount
   and IoThreadPendingRequestCount do not go below zero. *)
THEOREM TypesKept == Spec => []TypeOK
<1>1. AllInv => TypeOK
  <2> SUFFICES ASSUME AllInv PROVE TypeOK
    OBVIOUS
  <2>1. itemsFree \in 0 .. ItemCount
    <3>1. /\ Cardinality(Accepted) \in Nat /\ Cardinality(Releasing) \in Nat
          /\ ItemCount \in Nat
      BY FiniteSets, FS_CardinalityType, QueueFacts DEF AllInv, Pipeline
    <3>2. itemsFree + Cardinality(Accepted) + Cardinality(Releasing) = ItemCount /\ itemsFree \in Nat
      BY DEF AllInv, PoolInv, ItemsInv
    <3> QED
      BY <3>1, <3>2
  <2>2. requestsFree \in 0 .. RequestCount /\ IoThreadPendingRequestCount \in Nat
    <3>1. /\ requestsFree \in Nat /\ Len(ioQueue) \in Nat /\ Len(completionQueue) \in Nat
          /\ InMain \in Nat /\ InIo \in Nat /\ InCompletion \in Nat
          /\ IoThreadPendingRequestCount \in Nat /\ RequestCount \in Nat
      BY RequestsTypes, QueueFacts DEF AllInv, Pipeline, PoolInv
    <3>2. requestsFree + Len(ioQueue) + Len(completionQueue) + InMain + InIo + InCompletion = RequestCount
      BY DEF AllInv, PoolInv, RequestsInv
    <3> QED
      BY <3>1, <3>2
  <2>3. OutstandingIoCount \in Nat
    BY CountType DEF AllInv
  <2> QED
    BY <2>1, <2>2, <2>3 DEF AllInv, Pipeline, Types, ThreadType, CursorInv, RestTypes, TypeOK
<1> QED
  BY <1>1, InvHolds, PTL

(* EncryptedIoQueueStop ends the threads and frees the buffers only when all of them are back
   in the pools and nothing is queued: the assertion of FreePoolBuffers holds. *)
THEOREM CleanStop == Spec => []StoppedClean
<1>1. AllInv => StoppedClean
  <2> SUFFICES ASSUME AllInv, stop = "stopped" PROVE
        /\ \A t \in Threads : At(t, "exited")
        /\ mainQueue = << >> /\ ioQueue = << >> /\ completionQueue = << >>
        /\ itemsFree = ItemCount /\ requestsFree = RequestCount
    BY DEF StoppedClean
  <2>1. /\ \A t \in Threads : At(t, "exited")
        /\ \A i \in Irps : irp[i].pc # "pending"
    BY DEF AllInv, StopInv, Threads
  <2>2. mainQueue = << >> /\ ioQueue = << >> /\ completionQueue = << >>
    <3>1. \A n \in 1 .. Len(mainQueue) : mainQueue[n] \in Irps
      BY Lengths DEF AllInv, Pipeline
    <3>2. 1 \notin 1 .. Len(mainQueue) /\ 1 \notin 1 .. Len(ioQueue) /\ 1 \notin 1 .. Len(completionQueue)
      BY <2>1, <3>1 DEF AllInv, Pipeline, PendingInv
    <3>3. ASSUME NEW S, NEW q \in Seq(S), 1 \notin 1 .. Len(q) PROVE q = << >>
      BY <3>3
    <3> QED
      BY <3>2, <3>3 DEF AllInv, Pipeline, Types
  <2>3. itemsFree = ItemCount
    <3>1. Accepted = {} /\ Releasing = {}
      BY <2>1 DEF Accepted, Releasing, At
    <3>2. itemsFree + 0 + 0 = ItemCount /\ itemsFree \in Nat
      BY <3>1, FS_EmptySet DEF AllInv, PoolInv, ItemsInv
    <3> QED
      BY <3>2
  <2>4. requestsFree = RequestCount
    <3>1. InMain = 0 /\ InIo = 0 /\ InCompletion = 0
      BY <2>1 DEF InMain, InIo, InCompletion, At, Bit, Threads
    <3>2. requestsFree + 0 + 0 + 0 + 0 + 0 = RequestCount /\ requestsFree \in Nat
      BY <2>2, <3>1 DEF AllInv, PoolInv, RequestsInv
    <3> QED
      BY <3>2
  <2> QED
    BY <2>1, <2>2, <2>3, <2>4
<1> QED
  BY <1>1, InvHolds, PTL

-----------------------------------------------------------------------------
(* What is encrypted, and what is written where. *)
Base == IF IsFilterDevice THEN 0 ELSE queue.DataAreaOffset

\* The IRPs are those that the clients of the device may send.
RangeInv ==
    \A i \in Irps : irp[i].pc \in {"counted", "pending"} =>
        \E g \in queue.Ranges : /\ irp[i].offset = Base + g.offset /\ irp[i].length = g.length
                                /\ irp[i].aligned = g.aligned

\* What is left of the IRP that is being split, which is allowed.
SplitInv ==
    LET main == thread["main"] IN
    /\ \A i \in Irps : main.pc \in Splitting /\ main.irp = i =>
          /\ Valid(i) /\ ~Forbidden(i)
          /\ cursor.offset >= irp[i].offset
          /\ cursor.offset + cursor.remaining = irp[i].offset + irp[i].length
    /\ At("main", "queue") =>
          /\ main.request.offset = cursor.offset
          /\ main.request.length = IF main.request.last THEN cursor.remaining ELSE MaxFragment

\* The requests under way.
Queued == {ioQueue[n] : n \in 1 .. Len(ioQueue)}
HasRequest == thread["io"].pc \in {"finish", "handOver"}
Carried ==
    Queued \cup {completionQueue[n] : n \in 1 .. Len(completionQueue)}
      \cup (IF At("main", "queue") THEN {thread["main"].request} ELSE {})
      \cup (IF HasRequest THEN {thread["io"].request} ELSE {})

\* A request is a part of its IRP, and has been made for the encrypted area there is.
Sound(r) ==
    /\ Valid(r.irp) /\ ~Forbidden(r.irp)
    /\ irp[r.irp].offset <= r.offset
    /\ r.offset + r.length <= irp[r.irp].offset + irp[r.irp].length
    /\ r.encrypted = EncryptedPart(Sectors(r))
SoundInv == \A r \in Carried : Sound(r)

\* A request has its fragment buffer for itself, with what is to be written.
Filled(r) ==
    fragmentBuffer[r.buffer] =
        [s \in Sectors(r) |-> <<r.irp, IF s \in r.encrypted THEN 1 ELSE 0>>]
BufferInv ==
    /\ \A m, n \in 1 .. Len(ioQueue) : m # n => ioQueue[m].buffer # ioQueue[n].buffer
    /\ \A r \in Queued :
          /\ ~fragmentBufferFree[r.buffer]
          /\ irp[r.irp].write => Filled(r)
          /\ At("io", "finish") => thread["io"].request.buffer # r.buffer
    /\ At("io", "finish") => ~fragmentBufferFree[thread["io"].request.buffer]
    /\ fragmentBuffer = [b \in {"A", "B"} |-> fragmentBuffer[b]]

AreaInv ==
    /\ EncryptedAreaStart - 1 <= EncryptedAreaEnd
    /\ RemapEncryptedArea => EncryptedAreaEnd = queue.InitialAreaEnd
    /\ disk = [s \in Disk |-> disk[s]]

DataInv == RangeInv /\ SplitInv /\ SoundInv /\ BufferInv /\ AreaInv

\* What an IRP asks for does not change while it is under way.
SameIrp(i) ==
    /\ irp'[i].write = irp[i].write /\ irp'[i].offset = irp[i].offset
    /\ irp'[i].length = irp[i].length /\ irp'[i].aligned = irp[i].aligned

LEMMA CompletedIrp ==
    ASSUME Pipeline, NEW t \in Threads, Complete(t)
    PROVE  /\ thread[t].irp \in Irps /\ irp[thread[t].irp].pc = "pending"
           /\ irp'[thread[t].irp].pc = "done"
           /\ \A i \in Irps : /\ SameIrp(i) /\ irp'[i].status = irp[i].status
                              /\ i # thread[t].irp => irp'[i] = irp[i]
<1> DEFINE j == thread[t].irp
           new == [irp[j] EXCEPT !.pc = "done"]
<1>1. j \in Irps /\ irp[j].pc = "pending" /\ irp' = [irp EXCEPT ![j] = new]
  BY DEF Complete, At, Working, Pipeline, PendingInv
<1>2. /\ new.pc = "done" /\ new.write = irp[j].write /\ new.offset = irp[j].offset
      /\ new.length = irp[j].length /\ new.aligned = irp[j].aligned /\ new.status = irp[j].status
  BY <1>1 DEF Pipeline, Types, IrpType
<1> HIDE DEF new, j
<1>3. /\ irp'[j].pc = "done"
      /\ \A i \in Irps : /\ SameIrp(i) /\ irp'[i].status = irp[i].status
                         /\ i # j => irp'[i] = irp[i]
  BY <1>1, <1>2 DEF Pipeline, Types, SameIrp
<1> QED
  BY <1>1, <1>3 DEF j

LEMMA AddingIrp ==
    ASSUME Types, NEW j \in Irps, Adding(j)
    PROVE  /\ irp[j].pc \in {"counted", "refused"} /\ irp'[j].pc \in {"pending", "refused", "done"}
           /\ irp'[j].pc = "pending" => irp[j].pc = "counted"
           /\ irp'[j].pc # "pending" => irp'[j].status = "failed" \/
                  (irp[j].pc = "refused" /\ irp'[j].status = irp[j].status)
           /\ \A i \in Irps : SameIrp(i) /\ (i # j => irp'[i] = irp[i])
<1> DEFINE new(pc, status) == [irp[j] EXCEPT !.pc = pc, !.status = status]
<1>0. irp \in [Irps -> IrpType] /\ irp[j] \in IrpType
  BY DEF Types
<1>1. ASSUME NEW pc, NEW status, irp' = [irp EXCEPT ![j] = new(pc, status)]
      PROVE  /\ irp'[j].pc = pc /\ irp'[j].status = status
             /\ \A i \in Irps : SameIrp(i) /\ (i # j => irp'[i] = irp[i])
  <2> DEFINE n == new(pc, status)
  <2>1. /\ n.pc = pc /\ n.status = status /\ n.write = irp[j].write /\ n.offset = irp[j].offset
        /\ n.length = irp[j].length /\ n.aligned = irp[j].aligned
    BY <1>0 DEF IrpType
  <2>2. irp' = [irp EXCEPT ![j] = n]
    BY <1>1
  <2> HIDE DEF n
  <2> QED
    BY <1>0, <2>1, <2>2 DEF SameIrp
<1>2. ASSUME NEW pc PROVE [irp[j] EXCEPT !.pc = pc] = new(pc, irp[j].status)
  BY <1>0 DEF IrpType
<1>3. CASE AddIrpQueue(j)
  <2>1. irp[j].pc = "counted" /\ irp' = [irp EXCEPT ![j] = [irp[j] EXCEPT !.pc = "pending"]]
    BY <1>3 DEF AddIrpQueue, IrpGoes, IrpAt
  <2>2. irp' = [irp EXCEPT ![j] = new("pending", irp[j].status)]
    BY <1>2, <2>1, Zenon
  <2> HIDE DEF new
  <2> QED
    BY <1>1, <2>1, <2>2
<1>4. CASE AddIrpRefuse(j)
  <2>1. irp[j].pc = "counted"
    BY <1>4 DEF AddIrpRefuse, IrpAt
  <2>2. PICK pc \in {"refused", "done"} : irp' = [irp EXCEPT ![j] = new(pc, "failed")]
    BY <1>0, <1>4 DEF AddIrpRefuse
  <2> HIDE DEF new
  <2>3. /\ irp'[j].pc = pc /\ irp'[j].status = "failed"
        /\ \A i \in Irps : SameIrp(i) /\ (i # j => irp'[i] = irp[i])
    BY <1>1, <2>2
  <2> QED
    BY <2>1, <2>2, <2>3
<1>5. CASE AddIrpSignal(j)
  <2>1. irp[j].pc = "refused" /\ irp' = [irp EXCEPT ![j] = [irp[j] EXCEPT !.pc = "done"]]
    BY <1>5 DEF AddIrpSignal, IrpGoes, IrpAt
  <2>2. irp' = [irp EXCEPT ![j] = new("done", irp[j].status)]
    BY <1>2, <2>1, Zenon
  <2> HIDE DEF new
  <2>3. /\ irp'[j].pc = "done" /\ irp'[j].status = irp[j].status
        /\ \A i \in Irps : SameIrp(i) /\ (i # j => irp'[i] = irp[i])
    BY <1>1, <2>2
  <2> QED
    BY <2>1, <2>3
<1> QED
  BY <1>3, <1>4, <1>5 DEF Adding

LEMMA IrpSteps ==
    ASSUME Pipeline, [Next]_vars, NEW i \in Irps
    PROVE  \/ AddIrp(i) \/ Collect(i)
           \/ Adding(i) /\ SameIrp(i)
           \/ \E t \in Threads : Complete(t) /\ thread[t].irp = i /\ SameIrp(i)
           \/ /\ SameIrp(i) /\ irp'[i].pc = irp[i].pc
              /\ irp[i].pc # "pending" => irp'[i] = irp[i]
<1>0. irp \in [Irps -> IrpType] /\ Types
  BY DEF Pipeline, Types
<1>1. CASE UNCHANGED irp
  BY <1>1 DEF SameIrp
<1>2. CASE \E t \in Threads : Complete(t)
  BY <1>2, CompletedIrp
<1>3. CASE (MainThreadProc \/ IoThreadProc \/ CompletionThreadProc) /\ \A t \in Threads : ~Complete(t)
  BY <1>3, IrpFrame DEF SameIrp
<1>4. ASSUME NEW j \in Irps, AddIrp(j) \/ Collect(j), j # i
      PROVE  SameIrp(i) /\ irp'[i] = irp[i]
  <2>1. PICK new \in IrpType : irp' = [irp EXCEPT ![j] = new]
    BY <1>0, <1>4, ClientFrame
  <2> QED
    BY <1>0, <1>4, <2>1 DEF SameIrp
<1>5. ASSUME NEW j \in Irps, Adding(j)
      PROVE  SameIrp(i) /\ (j # i => irp'[i] = irp[i])
  BY <1>0, <1>5, AddingIrp
<1>6. CASE \E j \in Irps : AddIrp(j) \/ Adding(j) \/ Collect(j)
  <2>1. PICK j \in Irps : AddIrp(j) \/ Adding(j) \/ Collect(j)
    BY <1>6
  <2>2. CASE j = i
    BY <1>5, <2>1, <2>2
  <2>3. CASE j # i
    <3>1. SameIrp(i) /\ irp'[i] = irp[i]
      BY <1>4, <1>5, <2>1, <2>3
    <3> QED
      BY <3>1
  <2> QED
    BY <2>2, <2>3
<1>7. CASE Hold \/ Holder \/ Stop \/ Stopper
  BY <1>1, <1>7, ControlFrame
<1>8. CASE UNCHANGED vars
  BY <1>1, <1>8 DEF vars
<1> QED
  BY <1>2, <1>3, <1>6, <1>7, <1>8 DEF Next

LEMMA PendingSame ==
    ASSUME Pipeline, [Next]_vars, NEW i \in Irps
    PROVE  /\ irp'[i].pc = "pending" => irp[i].pc \in {"counted", "pending"} /\ SameIrp(i)
           /\ irp'[i].pc = "counted" => (SameIrp(i) /\ irp[i].pc = "counted") \/ AddIrp(i)
           /\ irp[i].pc = "pending" => SameIrp(i)
<1>1. AddIrp(i) => irp[i].pc = "idle" /\ irp'[i].pc = "counted"
  BY DEF AddIrp, IrpAt, Pipeline, Types
<1>2. Collect(i) => irp[i].pc = "done" /\ irp'[i].pc = "idle"
  BY DEF Collect, IrpAt, Pipeline, Types, NoIrp
<1>3. Adding(i) => /\ irp[i].pc # "pending" /\ irp'[i].pc # "counted"
                   /\ irp'[i].pc = "pending" => irp[i].pc = "counted"
  BY AddingIrp DEF Pipeline
<1>4. ASSUME NEW t \in Threads, Complete(t), thread[t].irp = i
      PROVE  irp'[i].pc = "done"
  BY <1>4, CompletedIrp
<1> QED
  BY <1>1, <1>2, <1>3, <1>4, IrpSteps

\* What an IRP may do depends on what it asks for.
LEMMA AllowedSame ==
    ASSUME NEW i, SameIrp(i), UNCHANGED queue
    PROVE  /\ Valid(i)' <=> Valid(i)
           /\ Forbidden(i)' <=> Forbidden(i)
  BY DEF SameIrp, Valid, Forbidden, IsFilterDevice

LEMMA QueueKept == [Next]_vars => UNCHANGED queue
<1>1. Requests => UNCHANGED queue
  BY RequestsFrame
<1> QED
  BY <1>1, ControlFrame DEF Next, Requests, vars

LEMMA RangeStep ==
    ASSUME Pipeline, RangeInv, [Next]_vars
    PROVE  RangeInv'
<1>1. UNCHANGED queue
  BY QueueKept
<1> SUFFICES ASSUME NEW i \in Irps, irp'[i].pc \in {"counted", "pending"}
             PROVE  \E g \in queue.Ranges :
                       /\ irp'[i].offset = Base + g.offset /\ irp'[i].length = g.length
                       /\ irp'[i].aligned = g.aligned
  BY <1>1 DEF RangeInv, Base, IsFilterDevice
<1>2. CASE SameIrp(i) /\ irp[i].pc \in {"counted", "pending"}
  BY <1>2 DEF RangeInv, SameIrp
<1>3. CASE AddIrp(i)
  <2>1. PICK write \in BOOLEAN, g \in queue.Ranges :
           irp' = [irp EXCEPT ![i] =
                     [pc |-> "counted", write |-> write, offset |-> Base + g.offset,
                      length |-> g.length, aligned |-> g.aligned, status |-> "ok"]]
    BY <1>3 DEF AddIrp, Base
  <2> QED
    BY <2>1 DEF Pipeline, Types
<1> QED
  BY <1>2, <1>3, PendingSame

\* The main thread splits an IRP.
LEMMA SplitKept ==
    ASSUME Pipeline, SplitInv, [Next]_vars, UNCHANGED cursor,
           thread'["main"].pc \in Splitting => /\ thread'["main"].irp = thread["main"].irp
                                               /\ thread["main"].pc \in Splitting,
           At("main", "queue")' => thread'["main"] = thread["main"]
    PROVE  SplitInv'
<1>1. UNCHANGED <<queue, cursor>>
  BY QueueKept
<1>2. ASSUME NEW i \in Irps, thread'["main"].pc \in Splitting, thread'["main"].irp = i
      PROVE  /\ Valid(i)' /\ ~Forbidden(i)'
             /\ cursor'.offset >= irp'[i].offset
             /\ cursor'.offset + cursor'.remaining = irp'[i].offset + irp'[i].length
  <2>1. thread["main"].pc \in Splitting /\ thread["main"].irp = i
    BY <1>2
  <2>2. irp[i].pc = "pending"
    BY <2>1 DEF Pipeline, PendingInv, Splitting, Working, Threads
  <2>3. SameIrp(i)
    BY <2>2, PendingSame
  <2> QED
    BY <1>1, <2>1, <2>3, AllowedSame DEF SplitInv, SameIrp
<1> QED
  BY <1>1, <1>2 DEF SplitInv, At, MaxFragment

LEMMA SplitStep ==
    ASSUME Pipeline, CursorInv, SplitInv, [Next]_vars
    PROVE  SplitInv'
<1>0. /\ "main" \in Threads /\ thread["main"] \in ThreadType /\ irp \in [Irps -> IrpType]
      /\ thread["main"].irp \in Irps \/ thread["main"].pc \notin Working
  BY DEF Pipeline, Types, PendingInv, Threads
<1>1. UNCHANGED queue
  BY QueueKept
<1>2. ASSUME NEW pc \in ThreadPc, Goes("main", pc), UNCHANGED cursor, pc # "queue",
             pc \in Splitting => thread["main"].pc \in Splitting
      PROVE  SplitInv'
  BY <1>0, <1>2, GoesFacts, SplitKept DEF Pipeline, At, Splitting
<1>3. CASE UNCHANGED <<thread, cursor>>
  BY <1>3, SplitKept
<1>4. CASE MainDequeue \/ MainGate \/ MainResumed \/ MainMisaligned
  <2>1. UNCHANGED cursor /\ thread'["main"].pc \notin Splitting
    BY <1>4, MainPc DEF MainDequeue, MainGate, MainResumed, MainMisaligned, work, Splitting, Pipeline
  <2> QED
    BY <2>1, SplitKept DEF At, Splitting
<1>5. CASE AnyThread("main")
  <2>1. UNCHANGED cursor
    BY <1>5 DEF AnyThread, Complete, Decrement, SignalIdle, Exit, work
  <2>2. thread'["main"].pc \notin Splitting
    BY <1>0, <1>5, AnyPc DEF AnyThread, Splitting, Pipeline
  <2> QED
    BY <2>1, <2>2, SplitKept DEF At, Splitting
<1>6. CASE MainAccept
  <2>1. CASE thread'["main"].pc \notin Splitting
    BY <2>1 DEF SplitInv, At, Splitting
  <2>2. CASE thread'["main"].pc \in Splitting
    <3>0. thread["main"].irp \in Irps
      BY <1>0, <1>6 DEF MainAccept, At, Working
    <3>1. PICK i \in Irps : i = thread["main"].irp
      BY <3>0
    <3>2. /\ Goes("main", "fragment") /\ UNCHANGED irp
          /\ cursor' = [offset |-> irp[i].offset, remaining |-> irp[i].length]
          /\ Valid(i) /\ ~Forbidden(i)
      <4>1. \A pc \in ThreadPc : Goes("main", pc) => thread'["main"].pc = pc
        BY <1>0, GoesFacts DEF Pipeline
      <4> QED
        BY <1>6, <2>2, <3>1, <4>1 DEF MainAccept, Splitting, ThreadPc
    <3>3. thread'["main"].irp = i /\ thread'["main"].pc = "fragment"
      BY <1>0, <3>1, <3>2, GoesFacts DEF Pipeline, ThreadPc
    <3>4. irp[i].offset \in Nat
      BY <1>0 DEF IrpType
    <3>5. Valid(i)' /\ ~Forbidden(i)'
      BY <1>1, <3>2, AllowedSame DEF SameIrp
    <3> QED
      BY <3>2, <3>3, <3>4, <3>5 DEF SplitInv, At
  <2> QED
    BY <2>1, <2>2
<1>7. CASE MainFragment
  BY <1>2, <1>7 DEF MainFragment, At, Splitting, ThreadPc
<1>8. CASE MainGetRequest
  <2> DEFINE last == cursor.remaining <= MaxFragment
             length == IF last THEN cursor.remaining ELSE MaxFragment
  <2>1. /\ At("main", "getRequest") /\ UNCHANGED <<cursor, irp>>
        /\ \E encrypted : thread' = [thread EXCEPT !["main"].pc = "queue", !["main"].request =
              [irp |-> thread["main"].irp, last |-> last, offset |-> cursor.offset, length |-> length,
               encrypted |-> encrypted, buffer |-> activeFragmentBuffer]]
    BY <1>8 DEF MainGetRequest, clients
  <2>2. /\ thread'["main"].irp = thread["main"].irp
        /\ thread'["main"].request.last = last /\ thread'["main"].request.offset = cursor.offset
        /\ thread'["main"].request.length = length
    BY <1>0, <2>1 DEF Pipeline, Types, ThreadType
  <2>3. ASSUME NEW i \in Irps, thread'["main"].irp = i
        PROVE  /\ Valid(i)' /\ ~Forbidden(i)'
               /\ cursor'.offset >= irp'[i].offset
               /\ cursor'.offset + cursor'.remaining = irp'[i].offset + irp'[i].length
    <3>1. thread["main"].pc \in Splitting /\ thread["main"].irp = i
      BY <2>1, <2>2, <2>3 DEF At, Splitting
    <3>2. (Valid(i)' <=> Valid(i)) /\ (Forbidden(i)' <=> Forbidden(i)) /\ irp'[i] = irp[i]
      BY <1>1, <2>1, AllowedSame DEF SameIrp
    <3> QED
      BY <2>1, <3>1, <3>2 DEF SplitInv
  <2>4. /\ At("main", "queue")' =>
          /\ thread'["main"].request.offset = cursor'.offset
          /\ thread'["main"].request.length =
                IF thread'["main"].request.last THEN cursor'.remaining ELSE MaxFragment'
    BY <1>1, <2>1, <2>2 DEF MaxFragment
  <2> QED
    BY <2>3, <2>4 DEF SplitInv
<1>9. CASE MainQueue
  <2> DEFINE r == thread["main"].request
  <2>1. /\ thread["main"].pc = "queue" /\ UNCHANGED irp
        /\ cursor' = IF r.last THEN [offset |-> 0, remaining |-> 0] ELSE NextFragment
        /\ thread' = [thread EXCEPT !["main"] =
                     IF r.last THEN Idle ELSE [Idle EXCEPT !.pc = "fragment", !.irp = r.irp]]
    BY <1>9 DEF MainQueue, clients, At
  <2>2. CASE r.last
    <3>1. thread'["main"].pc = "idle"
      BY <1>9, <2>2, MainPc DEF Pipeline
    <3> QED
      BY <3>1 DEF SplitInv, At, Splitting
  <2>3. CASE ~r.last
    <3>0. r.irp = thread["main"].irp /\ r.irp \in Irps
      BY <1>0, <2>1 DEF Pipeline, PendingInv, At, Working
    <3>1. PICK i \in Irps : i = r.irp
      BY <3>0
    <3>2. thread'["main"].pc = "fragment" /\ thread'["main"].irp = i
      BY <1>0, <2>1, <2>3, <3>1 DEF Pipeline, Types, Idle
    <3>3. /\ cursor' = [offset |-> cursor.offset + MaxFragment, remaining |-> cursor.remaining - MaxFragment]
          /\ cursor.offset \in Nat /\ cursor.remaining \in Nat /\ MaxFragment \in Nat
      BY <2>1, <2>3, QueueFacts DEF NextFragment, CursorInv, Pipeline
    <3>4. /\ Valid(i) /\ ~Forbidden(i) /\ cursor.offset >= irp[i].offset
          /\ cursor.offset + cursor.remaining = irp[i].offset + irp[i].length
          /\ irp[i].offset \in Nat /\ irp[i].length \in Nat
      BY <1>0, <2>1, <3>0, <3>1 DEF SplitInv, Splitting, IrpType
    <3>5. Valid(i)' /\ ~Forbidden(i)' /\ irp'[i] = irp[i]
      BY <1>1, <2>1, <3>4, AllowedSame DEF SameIrp
    <3>6. /\ cursor'.offset >= irp'[i].offset
          /\ cursor'.offset + cursor'.remaining = irp'[i].offset + irp'[i].length
      <4> DEFINE o == cursor.offset m == cursor.remaining a == irp[i].offset n == irp[i].length
                 f == MaxFragment
      <4>1. o \in Nat /\ m \in Nat /\ a \in Nat /\ n \in Nat /\ f \in Nat /\ o >= a /\ o + m = a + n
        BY <3>3, <3>4
      <4>2. cursor'.offset = o + f /\ cursor'.remaining = m - f /\ irp'[i].offset = a /\ irp'[i].length = n
        BY <3>3, <3>5
      <4> HIDE DEF o, m, a, n, f
      <4>3. o + f >= a /\ (o + f) + (m - f) = a + n
        BY <4>1
      <4> QED
        BY <4>2, <4>3
    <3> QED
      BY <3>2, <3>5, <3>6 DEF SplitInv, At
  <2> QED
    BY <2>2, <2>3
<1>10. CASE IoThreadProc \/ CompletionThreadProc
  <2>1. UNCHANGED cursor /\ thread'["main"] = thread["main"]
    <3>1. "io" \in Threads /\ "completion" \in Threads
      BY DEF Threads
    <3> QED
      BY <1>0, <1>10, <3>1, CursorOther, OneThread DEF Pipeline
  <2> QED
    BY <2>1, SplitKept
<1>11. CASE \E i \in Irps : AddIrp(i) \/ Adding(i) \/ Collect(i)
  BY <1>3, <1>11 DEF Adding, AddIrp, AddIrpQueue, AddIrpRefuse, AddIrpSignal, Collect, work
<1>12. CASE Hold \/ Holder \/ Stop \/ Stopper \/ UNCHANGED vars
  BY <1>3, <1>12, ControlFrame DEF vars
<1> QED
  BY <1>4, <1>5, <1>6, <1>7, <1>8, <1>9, <1>10, <1>11, <1>12 DEF Next, MainThreadProc

-----------------------------------------------------------------------------
(* Requests keep what they were made with. *)
LEMMA Members ==
    ASSUME NEW S, NEW q \in Seq(S)
    PROVE  /\ \A x \in S : {Append(q, x)[n] : n \in 1 .. Len(Append(q, x))} =
                              {q[n] : n \in 1 .. Len(q)} \cup {x}
           /\ q # << >> => /\ {Tail(q)[n] : n \in 1 .. Len(Tail(q))} \subseteq {q[n] : n \in 1 .. Len(q)}
                           /\ Head(q) \in {q[n] : n \in 1 .. Len(q)}
<1>1. ASSUME NEW x \in S
      PROVE  {Append(q, x)[n] : n \in 1 .. Len(Append(q, x))} = {q[n] : n \in 1 .. Len(q)} \cup {x}
  <2> DEFINE p == Append(q, x)
  <2>1. /\ Len(q) \in Nat /\ Len(p) = Len(q) + 1 /\ p[Len(q) + 1] = x
        /\ \A n \in 1 .. Len(q) : p[n] = q[n]
    BY Added
  <2> HIDE DEF p
  <2>2. \A n \in 1 .. Len(p) : n \in 1 .. Len(q) \/ n = Len(q) + 1
    BY <2>1
  <2>3. {p[n] : n \in 1 .. Len(p)} = {q[n] : n \in 1 .. Len(q)} \cup {x}
    <3>1. \A n \in 1 .. Len(q) : n \in 1 .. Len(p)
      BY <2>1
    <3>2. Len(q) + 1 \in 1 .. Len(p)
      BY <2>1
    <3> QED
      BY <2>1, <2>2, <3>1, <3>2
  <2> QED
    BY <2>3 DEF p
<1>2. ASSUME q # << >>
      PROVE  /\ {Tail(q)[n] : n \in 1 .. Len(Tail(q))} \subseteq {q[n] : n \in 1 .. Len(q)}
             /\ Head(q) \in {q[n] : n \in 1 .. Len(q)}
  <2> DEFINE p == Tail(q)
  <2>1. /\ Len(q) \in Nat \ {0} /\ Len(p) = Len(q) - 1 /\ Head(q) = q[1]
        /\ \A n \in 1 .. Len(q) - 1 : p[n] = q[n + 1]
    BY <1>2, Taken
  <2> HIDE DEF p
  <2>2. \A n \in 1 .. Len(p) : n + 1 \in 1 .. Len(q) /\ p[n] = q[n + 1]
    BY <2>1
  <2>3. 1 \in 1 .. Len(q)
    BY <2>1
  <2>4. {p[n] : n \in 1 .. Len(p)} \subseteq {q[n] : n \in 1 .. Len(q)}
    BY <2>2
  <2> QED
    BY <2>1, <2>3, <2>4 DEF p
<1> QED
  BY <1>1, <1>2

LEMMA CarriedFacts ==
    ASSUME Pipeline, NEW r \in Carried
    PROVE  r \in Request /\ r.irp \in Irps /\ irp[r.irp].pc = "pending"
<1>0. "main" \in Threads /\ "io" \in Threads /\ \A t \in Threads : thread[t] \in ThreadType
  BY DEF Threads, Pipeline, Types
<1>1. CASE r \in Queued
  BY <1>1, Lengths DEF Queued, Pipeline, PendingInv
<1>2. CASE \E n \in 1 .. Len(completionQueue) : r = completionQueue[n]
  BY <1>2, Lengths DEF Pipeline, PendingInv
<1>3. CASE At("main", "queue") /\ r = thread["main"].request
  BY <1>0, <1>3 DEF Pipeline, PendingInv, At, Working, ThreadType
<1>4. CASE HasRequest /\ r = thread["io"].request
  BY <1>0, <1>4 DEF Pipeline, PendingInv, HasRequest, Working, ThreadType
<1> QED
  BY <1>1, <1>2, <1>3, <1>4 DEF Carried

LEMMA CarriedStep ==
    ASSUME Pipeline, [Next]_vars, NEW r \in Carried'
    PROVE  r \in Carried \/ (MainGetRequest /\ r = thread'["main"].request)
<1>0. "main" \in Threads /\ "io" \in Threads /\ "completion" \in Threads
  BY DEF Threads
<1>1. ASSUME UNCHANGED <<ioQueue, completionQueue>>,
             At("main", "queue")' => UNCHANGED thread["main"],
             HasRequest' => HasRequest /\ thread'["io"].request = thread["io"].request
      PROVE  r \in Carried
  BY <1>1 DEF Carried, Queued, At
<1>2. CASE UNCHANGED <<queues, thread>>
  BY <1>1, <1>2 DEF queues, HasRequest
<1>3. ASSUME NEW t \in Threads, AnyThread(t)
      PROVE  r \in Carried
  <2>1. UNCHANGED queues
    BY <1>3 DEF AnyThread, Complete, Decrement, SignalIdle, Exit, queues
  <2>2. thread'[t].pc \notin {"queue", "finish", "handOver"} /\ \A u \in Threads : u # t => thread'[u] = thread[u]
    BY <1>3, AnyPc, OneThread DEF AnyThread, Pipeline
  <2> QED
    BY <1>0, <1>1, <2>1, <2>2 DEF queues, At, HasRequest
<1>4. ASSUME MainThreadProc, UNCHANGED <<ioQueue, completionQueue>>, thread'["main"].pc # "queue"
      PROVE  r \in Carried
  <2>1. thread'["io"] = thread["io"]
    BY <1>0, <1>4, OneThread DEF Pipeline
  <2> QED
    BY <1>1, <1>4, <2>1 DEF At, HasRequest
<1>5. CASE MainDequeue \/ MainGate \/ MainResumed \/ MainAccept \/ MainMisaligned \/ MainFragment
  <2>1. UNCHANGED <<ioQueue, completionQueue>>
    BY <1>5 DEF MainDequeue, MainGate, MainResumed, MainAccept, MainMisaligned, MainFragment, queues
  <2>2. thread'["main"].pc # "queue"
    BY <1>5, MainPc DEF Pipeline
  <2> QED
    BY <1>4, <1>5, <2>1, <2>2 DEF MainThreadProc
<1>6. CASE MainGetRequest
  <2>1. UNCHANGED <<ioQueue, completionQueue>>
    BY <1>6 DEF MainGetRequest, queues
  <2>2. thread'["io"] = thread["io"]
    BY <1>0, <1>6, OneThread DEF Pipeline, MainThreadProc
  <2> QED
    BY <1>6, <2>1, <2>2 DEF Carried, Queued, HasRequest
<1>7. CASE MainQueue
  <2> DEFINE q == thread["main"].request
  <2>1. /\ At("main", "queue") /\ ioQueue' = Append(ioQueue, q) /\ UNCHANGED completionQueue
    BY <1>7 DEF MainQueue
  <2>2. q \in Request /\ ioQueue \in Seq(Request)
    BY <1>0 DEF Pipeline, Types, ThreadType
  <2>3. Queued' = Queued \cup {q}
    BY <2>1, <2>2, Members DEF Queued
  <2>4. thread'["main"].pc # "queue" /\ thread'["io"] = thread["io"]
    BY <1>0, <1>7, MainPc, OneThread DEF Pipeline, MainThreadProc
  <2> QED
    BY <2>1, <2>3, <2>4 DEF Carried, HasRequest, At
<1>8. CASE IoPerform
  <2> DEFINE q == Head(ioQueue)
  <2>1. /\ ioQueue # << >> /\ ioQueue' = Tail(ioQueue) /\ UNCHANGED completionQueue
        /\ thread' = [thread EXCEPT !["io"] = [pc |-> "finish", irp |-> q.irp, request |-> q]]
    BY <1>8 DEF IoPerform
  <2>2. ioQueue \in Seq(Request) /\ thread \in [Threads -> ThreadType]
    BY DEF Pipeline, Types
  <2>3. Queued' \subseteq Queued /\ q \in Queued
    BY <2>1, <2>2, Members DEF Queued
  <2>4. thread'["main"] = thread["main"] /\ thread'["io"].request = q
    BY <1>0, <2>1, <2>2
  <2> QED
    BY <2>1, <2>3, <2>4 DEF Carried, At
<1>9. CASE IoFinish
  <2>1. /\ thread["io"].pc = "finish" /\ UNCHANGED <<ioQueue, completionQueue>>
        /\ \E pc \in {"handOver", "complete", "idle"} : Goes("io", pc)
    BY <1>9 DEF IoFinish, queues, At
  <2>2. \A pc \in {"handOver", "complete", "idle"} : Goes("io", pc) =>
           thread'["io"].pc = pc /\ (pc # "idle" => thread'["io"].request = thread["io"].request)
    BY <1>0, GoesFacts DEF Pipeline, ThreadPc
  <2>3. thread'["main"] = thread["main"]
    BY <1>0, <1>9, OneThread DEF Pipeline, IoThreadProc
  <2> QED
    BY <1>1, <2>1, <2>2, <2>3 DEF HasRequest
<1>10. CASE IoHandOver
  <2> DEFINE q == thread["io"].request
  <2>1. thread["io"].pc = "handOver" /\ completionQueue' = Append(completionQueue, q) /\ UNCHANGED ioQueue
    BY <1>10 DEF IoHandOver, At
  <2>2. q \in Request /\ completionQueue \in Seq(Request)
    BY <1>0 DEF Pipeline, Types, ThreadType
  <2>3. {completionQueue'[n] : n \in 1 .. Len(completionQueue')} =
           {completionQueue[n] : n \in 1 .. Len(completionQueue)} \cup {q}
    BY <2>1, <2>2, Members
  <2>4. thread'["io"].pc \notin {"finish", "handOver"} /\ thread'["main"] = thread["main"]
    BY <1>0, <1>10, OtherPc, OneThread DEF Pipeline, IoThreadProc
  <2> QED
    BY <2>1, <2>3, <2>4 DEF Carried, Queued, HasRequest, At
<1>11. CASE IoReadAhead
  <2>1. UNCHANGED queues
    BY <1>11 DEF IoReadAhead, queues
  <2>2. thread'["io"].pc = "readAheadDone" /\ thread'["main"] = thread["main"]
    BY <1>0, <1>11, OtherPc, OneThread DEF Pipeline, IoThreadProc
  <2> QED
    BY <1>1, <2>1, <2>2 DEF queues, HasRequest
<1>12. CASE CompletionDecrypt
  <2>1. completionQueue # << >> /\ completionQueue' = Tail(completionQueue) /\ UNCHANGED ioQueue
    BY <1>12 DEF CompletionDecrypt
  <2>2. completionQueue \in Seq(Request)
    BY DEF Pipeline, Types
  <2>3. {completionQueue'[n] : n \in 1 .. Len(completionQueue')} \subseteq
           {completionQueue[n] : n \in 1 .. Len(completionQueue)}
    BY <2>1, <2>2, Members
  <2>4. thread'["io"] = thread["io"] /\ thread'["main"] = thread["main"]
    BY <1>0, <1>12, OneThread DEF Pipeline, CompletionThreadProc
  <2> QED
    BY <2>1, <2>3, <2>4 DEF Carried, Queued, HasRequest, At
<1>13. CASE \E i \in Irps : AddIrp(i) \/ Adding(i) \/ Collect(i)
  <2>1. UNCHANGED <<ioQueue, completionQueue, thread>>
    BY <1>13 DEF Adding, AddIrp, AddIrpQueue, AddIrpRefuse, AddIrpSignal, Collect, queues
  <2> QED
    BY <1>1, <2>1 DEF HasRequest
<1>14. CASE Hold \/ Holder \/ Stop \/ Stopper \/ UNCHANGED vars
  BY <1>2, <1>14, ControlFrame DEF vars, queues
<1> QED
  BY <1>0, <1>3, <1>5, <1>6, <1>7, <1>8, <1>9, <1>10, <1>11, <1>12, <1>13, <1>14
     DEF Next, MainThreadProc, IoThreadProc, CompletionThreadProc

\* Only the holder of the queue moves the encrypted area.
LEMMA AreaKept == [Next]_vars /\ ~HoldWork => UNCHANGED EncryptedAreaEnd
<1>1. ASSUME NEW i, AddIrp(i) \/ Adding(i) \/ Collect(i)
      PROVE  UNCHANGED EncryptedAreaEnd
  BY <1>1 DEF Adding, AddIrp, AddIrpQueue, AddIrpRefuse, AddIrpSignal, Collect, device
<1>2. ASSUME NEW t, AnyThread(t)
      PROVE  UNCHANGED EncryptedAreaEnd
  BY <1>2 DEF AnyThread, Complete, Decrement, SignalIdle, Exit, device
<1>3. MainDequeue \/ MainGate \/ MainResumed \/ MainAccept \/ MainMisaligned \/ MainFragment
        \/ MainGetRequest \/ MainQueue => UNCHANGED EncryptedAreaEnd
  BY DEF MainDequeue, MainGate, MainResumed, MainAccept, MainMisaligned, MainFragment,
         MainGetRequest, MainQueue, device
<1>4. IoPerform \/ IoFinish \/ IoHandOver \/ IoReadAhead \/ CompletionDecrypt =>
          UNCHANGED EncryptedAreaEnd
  BY DEF IoPerform, IoFinish, IoHandOver, IoReadAhead, CompletionDecrypt, device
<1>5. HoldInvalidate => UNCHANGED EncryptedAreaEnd
  BY DEF HoldInvalidate, device
<1>6. Hold \/ (Holder /\ ~HoldWork) \/ Stop \/ Stopper => UNCHANGED EncryptedAreaEnd
  BY <1>5 DEF Hold, Holder, HoldTest, HoldWake, HoldFails, HoldRecheck, HoldClear, HoldSuspend,
         HoldConfirm, HoldUndo, Resume, ResumeSignal, Stop, Stopper, StopDrain,
         StopWait, StopJoin, io, device
<1>7. UNCHANGED vars => UNCHANGED EncryptedAreaEnd
  BY DEF vars
<1>8. Requests => UNCHANGED EncryptedAreaEnd
  BY <1>1, <1>2, <1>3, <1>4 DEF Requests, MainThreadProc, IoThreadProc, CompletionThreadProc
<1> QED
  BY <1>6, <1>7, <1>8 DEF Next, Requests

LEMMA NothingCarried ==
    ASSUME HeldInv, hold \in {"invalidate", "held"}
    PROVE  Carried = {} /\ ~MainGetRequest
  BY DEF HeldInv, Harmless, Carried, Queued, HasRequest, MainGetRequest, At, Threads

LEMMA SoundStep ==
    ASSUME AllInv, SplitInv, SoundInv, [Next]_vars
    PROVE  SoundInv'
<1>0. Pipeline
  BY DEF AllInv
<1> SUFFICES ASSUME NEW r \in Carried' PROVE Sound(r)'
  BY DEF SoundInv
<1>1. r \in Carried \/ (MainGetRequest /\ r = thread'["main"].request)
  BY <1>0, CarriedStep
<1>2. CASE HoldWork
  BY <1>1, <1>2, NothingCarried DEF AllInv, HoldWork, HoldAt
<1>3. CASE ~HoldWork /\ r \in Carried
  <2>1. UNCHANGED <<queue, EncryptedAreaEnd>>
    BY <1>3, AreaKept, QueueKept
  <2>2. SameIrp(r.irp)
    BY <1>0, <1>3, CarriedFacts, PendingSame
  <2>3. (Valid(r.irp)' <=> Valid(r.irp)) /\ (Forbidden(r.irp)' <=> Forbidden(r.irp))
    BY <2>1, <2>2, AllowedSame
  <2>4. EncryptedPart(Sectors(r))' = EncryptedPart(Sectors(r))
    BY <2>1 DEF EncryptedPart, Sectors, IsFilterDevice, EncryptedAreaStart
  <2> QED
    BY <1>3, <2>2, <2>3, <2>4 DEF Sound, SoundInv, SameIrp
<1>4. CASE ~HoldWork /\ MainGetRequest /\ r = thread'["main"].request
  <2> DEFINE last == cursor.remaining <= MaxFragment
             fragment == [offset |-> cursor.offset,
                          length |-> IF last THEN cursor.remaining ELSE MaxFragment]
             new == [irp |-> thread["main"].irp, last |-> last,
                     offset |-> fragment.offset, length |-> fragment.length,
                     encrypted |-> EncryptedPart(Sectors(fragment)), buffer |-> activeFragmentBuffer]
  <2>1. /\ thread["main"].pc = "getRequest" /\ UNCHANGED <<queue, irp, EncryptedAreaEnd>>
        /\ thread' = [thread EXCEPT !["main"].pc = "queue", !["main"].request = new]
    BY <1>4 DEF MainGetRequest, At, clients, device
  <2>2. "main" \in Threads /\ thread["main"] \in ThreadType /\ thread["main"].irp \in Irps
        /\ thread \in [Threads -> ThreadType]
    BY <1>0, <2>1 DEF Pipeline, Types, PendingInv, Working, Threads
  <2>3. r = new
    BY <1>4, <2>1, <2>2 DEF ThreadType
  <2>4. /\ r.irp = thread["main"].irp /\ r.offset = cursor.offset /\ r.length = fragment.length
        /\ r.encrypted = EncryptedPart(Sectors(r))
    BY <2>3 DEF Sectors
  <2>5. EncryptedPart(Sectors(r))' = EncryptedPart(Sectors(r))
    BY <2>1 DEF EncryptedPart, Sectors, IsFilterDevice, EncryptedAreaStart
  <2> HIDE DEF new
  <2>6. PICK i \in Irps : i = r.irp
    BY <2>2, <2>4
  <2>7. /\ Valid(i) /\ ~Forbidden(i) /\ cursor.offset >= irp[i].offset
        /\ cursor.offset + cursor.remaining = irp[i].offset + irp[i].length
    BY <2>1, <2>4, <2>6 DEF SplitInv, Splitting
  <2>8. Valid(i)' /\ ~Forbidden(i)' /\ irp'[i] = irp[i]
    BY <2>1, <2>7, AllowedSame DEF SameIrp
  <2>9. fragment.length <= cursor.remaining /\ fragment.length \in Nat
        /\ cursor.offset \in Nat /\ cursor.remaining \in Nat
    BY <1>0, QueueFacts DEF AllInv, CursorInv, Pipeline
  <2>10. irp[i].offset <= r.offset /\ r.offset + r.length <= irp[i].offset + irp[i].length
    BY <2>4, <2>7, <2>9
  <2> QED
    BY <2>4, <2>5, <2>6, <2>8, <2>10 DEF Sound
<1> QED
  BY <1>1, <1>2, <1>3, <1>4

\* A fragment buffer holds a fragment from when the main thread acquires the buffer until the
\* I/O thread frees it.
LEMMA BufferKept ==
    ASSUME Pipeline, BufferInv, [Next]_vars,
           UNCHANGED <<ioQueue, fragmentBuffer, fragmentBufferFree>>,
           At("io", "finish")' => UNCHANGED thread["io"]
    PROVE  BufferInv'
<1>1. Queued' = Queued /\ Queued \subseteq Carried
  BY DEF Queued, Carried
<1>2. ASSUME NEW r \in Queued
      PROVE  /\ irp'[r.irp].write = irp[r.irp].write
             /\ Filled(r)' <=> Filled(r)
  <2>1. SameIrp(r.irp)
    BY <1>1, CarriedFacts, PendingSame
  <2> QED
    BY <2>1 DEF SameIrp, Filled, Sectors
<1> QED
  BY <1>1, <1>2 DEF BufferInv, At

LEMMA BufferQueue ==
    ASSUME Pipeline, BufferInv, fragmentBufferFree \in [{"A", "B"} -> BOOLEAN], MainQueue
    PROVE  BufferInv'
<1>0. /\ At("main", "queue") /\ thread["main"].request \in Carried
      /\ "main" \in Threads /\ "io" \in Threads
  BY DEF MainQueue, Carried, Threads
<1>1. PICK q \in Carried : q = thread["main"].request
  BY <1>0
<1>2. q \in Request /\ q.buffer \in {"A", "B"}
  BY CarriedFacts DEF Request
<1>3. /\ fragmentBufferFree[q.buffer]
      /\ fragmentBufferFree' = [fragmentBufferFree EXCEPT ![q.buffer] = FALSE]
      /\ fragmentBuffer' = IF ~irp[q.irp].write THEN fragmentBuffer
            ELSE [fragmentBuffer EXCEPT ![q.buffer] =
                     [s \in Sectors(q) |-> IF s \in q.encrypted THEN Encrypt(<<q.irp, 0>>)
                                           ELSE <<q.irp, 0>>]]
      /\ ioQueue' = Append(ioQueue, q) /\ UNCHANGED irp
  BY <1>1 DEF MainQueue, clients
<1>4. thread'["io"] = thread["io"]
  BY <1>0, OneThread DEF Pipeline, MainThreadProc
<1>5. fragmentBuffer = [b \in {"A", "B"} |-> fragmentBuffer[b]]
  BY DEF BufferInv
<1>6. /\ ~fragmentBufferFree'[q.buffer]
      /\ \A b \in {"A", "B"} : b # q.buffer =>
            fragmentBufferFree'[b] = fragmentBufferFree[b] /\ fragmentBuffer'[b] = fragmentBuffer[b]
      /\ fragmentBuffer' = [b \in {"A", "B"} |-> fragmentBuffer'[b]]
  BY <1>2, <1>3, <1>5
<1>7. ASSUME irp[q.irp].write PROVE Filled(q)'
  <2>1. fragmentBuffer'[q.buffer] =
           [s \in Sectors(q) |-> IF s \in q.encrypted THEN Encrypt(<<q.irp, 0>>) ELSE <<q.irp, 0>>]
    BY <1>2, <1>3, <1>5, <1>7
  <2>2. \A x : Encrypt(<<x, 0>>) = <<x, 1>>
    BY DEF Encrypt
  <2> QED
    BY <2>1, <2>2 DEF Filled, Sectors
<1>8. Queued' = Queued \cup {q}
  BY <1>2, <1>3, Members DEF Pipeline, Types, Queued
<1>9. ASSUME NEW r \in Queued
      PROVE  /\ r.buffer # q.buffer /\ ~fragmentBufferFree'[r.buffer]
             /\ irp[r.irp].write => Filled(r)'
  <2>1. r.buffer \in {"A", "B"}
    BY CarriedFacts DEF Carried, Request
  <2>2. ~fragmentBufferFree[r.buffer] /\ (irp[r.irp].write => Filled(r))
    BY DEF BufferInv
  <2> QED
    BY <1>3, <1>6, <2>1, <2>2 DEF Filled, Sectors
<1>10. \A m, n \in 1 .. Len(ioQueue') : m # n => ioQueue'[m].buffer # ioQueue'[n].buffer
  <2>1. /\ Len(ioQueue) \in Nat /\ Len(ioQueue') = Len(ioQueue) + 1 /\ ioQueue'[Len(ioQueue) + 1] = q
        /\ \A n \in 1 .. Len(ioQueue) : ioQueue'[n] = ioQueue[n]
    BY <1>2, <1>3, Added DEF Pipeline, Types
  <2>2. \A n \in 1 .. Len(ioQueue) : ioQueue[n].buffer # q.buffer
    BY <1>9 DEF Queued
  <2>3. \A n \in 1 .. Len(ioQueue') : n \in 1 .. Len(ioQueue) \/ n = Len(ioQueue) + 1
    BY <2>1
  <2> QED
    BY <2>1, <2>2, <2>3 DEF BufferInv
<1>11. ASSUME At("io", "finish")'
       PROVE  /\ ~fragmentBufferFree'[thread'["io"].request.buffer]
              /\ \A r \in Queued' : thread'["io"].request.buffer # r.buffer
  <2>1. At("io", "finish") /\ ~fragmentBufferFree[thread["io"].request.buffer]
    BY <1>4, <1>11 DEF At, BufferInv
  <2>2. thread["io"].request.buffer \in {"A", "B"} /\ thread["io"].request.buffer # q.buffer
    BY <1>0, <1>3, <2>1 DEF Pipeline, Types, ThreadType, Request
  <2> QED
    BY <1>4, <1>6, <1>8, <2>1, <2>2 DEF BufferInv
<1> QED
  BY <1>3, <1>6, <1>7, <1>8, <1>9, <1>10, <1>11 DEF BufferInv

LEMMA BufferPerform ==
    ASSUME Pipeline, BufferInv, IoPerform
    PROVE  BufferInv'
<1>0. /\ ioQueue # << >> /\ ioQueue \in Seq(Request) /\ "io" \in Threads
  BY DEF IoPerform, Pipeline, Types, Threads
<1>1. PICK q \in Request : q = Head(ioQueue)
  BY <1>0, Taken
<1>2. /\ Len(ioQueue) \in Nat \ {0} /\ Len(ioQueue') = Len(ioQueue) - 1
      /\ \A n \in 1 .. Len(ioQueue) - 1 : ioQueue'[n] = ioQueue[n + 1]
      /\ q = ioQueue[1]
  BY <1>0, <1>1, Taken DEF IoPerform
<1>3. /\ UNCHANGED fragmentBufferFree
      /\ \/ UNCHANGED fragmentBuffer
         \/ \E new : fragmentBuffer' = [fragmentBuffer EXCEPT ![q.buffer] = new]
      /\ thread' = [thread EXCEPT !["io"] = [pc |-> "finish", irp |-> q.irp, request |-> q]]
  BY <1>1 DEF IoPerform, IoWrite, IoRead, IoSkip
<1>4. thread'["io"].request = q
  BY <1>0, <1>3 DEF Pipeline, Types
<1>5. /\ \A b \in {"A", "B"} : b # q.buffer => fragmentBuffer'[b] = fragmentBuffer[b]
      /\ fragmentBuffer' = [b \in {"A", "B"} |-> fragmentBuffer'[b]]
  <2>1. fragmentBuffer = [b \in {"A", "B"} |-> fragmentBuffer[b]]
    BY DEF BufferInv
  <2> QED
    BY <1>3, <2>1
<1>6. \A n \in 1 .. Len(ioQueue') :
         /\ n + 1 \in 1 .. Len(ioQueue) /\ n + 1 # 1 /\ ioQueue'[n] = ioQueue[n + 1]
  BY <1>2
<1>7. 1 \in 1 .. Len(ioQueue)
  BY <1>2
<1>8. q \in Queued /\ Queued \subseteq Carried
  BY <1>2, <1>7 DEF Queued, Carried
<1>9. ASSUME NEW r \in Queued'
      PROVE  /\ r \in Queued /\ r.buffer # q.buffer /\ ~fragmentBufferFree[r.buffer]
             /\ irp'[r.irp].write => Filled(r)'
  <2>1. r \in Queued /\ r.buffer # q.buffer
    BY <1>2, <1>6, <1>7 DEF Queued, BufferInv
  <2>2. r.buffer \in {"A", "B"}
    BY <1>8, <2>1, CarriedFacts DEF Request
  <2>3. irp'[r.irp].write = irp[r.irp].write
    BY <1>8, <2>1, CarriedFacts, PendingSame DEF Next, IoThreadProc, SameIrp
  <2> QED
    BY <1>5, <2>1, <2>2, <2>3 DEF BufferInv, Filled, Sectors
<1>10. \A m, n \in 1 .. Len(ioQueue') : m # n => ioQueue'[m].buffer # ioQueue'[n].buffer
  <2> SUFFICES ASSUME NEW m \in 1 .. Len(ioQueue'), NEW n \in 1 .. Len(ioQueue'), m # n
               PROVE  ioQueue'[m].buffer # ioQueue'[n].buffer
    OBVIOUS
  <2>1. m + 1 # n + 1
    OBVIOUS
  <2> QED
    BY SMTT(30), <1>6, <2>1 DEF BufferInv
<1> QED
  BY <1>3, <1>4, <1>5, <1>8, <1>9, <1>10 DEF BufferInv

LEMMA BufferFinish ==
    ASSUME Pipeline, BufferInv, fragmentBufferFree \in [{"A", "B"} -> BOOLEAN], IoFinish
    PROVE  BufferInv'
<1>0. /\ "io" \in Threads /\ thread["io"].request \in Request /\ UNCHANGED <<irp, ioQueue>>
      /\ At("io", "finish")
  BY DEF Pipeline, Types, ThreadType, Threads, IoFinish, queues
<1>1. PICK q \in Request : q = thread["io"].request
  BY <1>0
<1>2. /\ fragmentBuffer' = [fragmentBuffer EXCEPT ![q.buffer] = << >>]
      /\ fragmentBufferFree' = [fragmentBufferFree EXCEPT ![q.buffer] = TRUE]
  BY <1>1 DEF IoFinish
<1>3. fragmentBuffer = [b \in {"A", "B"} |-> fragmentBuffer[b]]
  BY DEF BufferInv
<1>4. /\ \A b \in {"A", "B"} : b # q.buffer =>
            fragmentBuffer'[b] = fragmentBuffer[b] /\ fragmentBufferFree'[b] = fragmentBufferFree[b]
      /\ fragmentBuffer' = [b \in {"A", "B"} |-> fragmentBuffer'[b]]
  BY <1>2, <1>3
<1>5. thread'["io"].pc # "finish"
  BY OtherPc DEF Pipeline
<1>6. Queued' = Queued
  BY <1>0 DEF Queued
<1>7. ASSUME NEW r \in Queued
      PROVE  ~fragmentBufferFree'[r.buffer] /\ (irp[r.irp].write => Filled(r)')
  <2>1. r.buffer \in {"A", "B"} /\ r.buffer # q.buffer
    BY <1>0, <1>1, CarriedFacts DEF Carried, Request, BufferInv
  <2> QED
    BY <1>4, <2>1 DEF BufferInv, Filled, Sectors
<1> QED
  BY <1>0, <1>4, <1>5, <1>6, <1>7 DEF BufferInv, At

LEMMA BufferStep ==
    ASSUME AllInv, BufferInv, [Next]_vars
    PROVE  BufferInv'
<1>0. /\ "main" \in Threads /\ "io" \in Threads /\ "completion" \in Threads
      /\ Pipeline /\ fragmentBufferFree \in [{"A", "B"} -> BOOLEAN]
  BY DEF Threads, AllInv, RestTypes
<1>1. CASE UNCHANGED <<ioQueue, fragmentBuffer, fragmentBufferFree, thread>>
  BY <1>0, <1>1, BufferKept
<1>2. CASE MainQueue \/ IoPerform \/ IoFinish
  BY <1>0, <1>2, BufferQueue, BufferPerform, BufferFinish
<1>3. ASSUME NEW t \in Threads, AnyThread(t)
      PROVE  BufferInv'
  <2>1. UNCHANGED <<ioQueue, fragmentBuffer, fragmentBufferFree>>
    BY <1>3 DEF AnyThread, Complete, Decrement, SignalIdle, Exit, queues, work, buffers
  <2>2. thread'[t].pc # "finish" /\ \A u \in Threads : u # t => thread'[u] = thread[u]
    BY <1>0, <1>3, AnyPc, OneThread DEF AnyThread, Pipeline
  <2> QED
    BY <1>0, <2>1, <2>2, BufferKept DEF At
<1>4. CASE MainDequeue \/ MainGate \/ MainResumed \/ MainAccept \/ MainMisaligned \/ MainFragment
             \/ MainGetRequest
  <2>1. UNCHANGED <<ioQueue, fragmentBuffer, fragmentBufferFree>>
    BY <1>4 DEF MainDequeue, MainGate, MainResumed, MainAccept, MainMisaligned, MainFragment,
                MainGetRequest, queues, work, buffers
  <2>2. thread'["io"] = thread["io"]
    BY <1>0, <1>4, OneThread DEF Pipeline, MainThreadProc
  <2> QED
    BY <1>0, <2>1, <2>2, BufferKept
<1>5. CASE IoHandOver \/ IoReadAhead
  <2>1. UNCHANGED <<ioQueue, fragmentBuffer, fragmentBufferFree>>
    BY <1>5 DEF IoHandOver, IoReadAhead, queues, work, buffers
  <2>2. thread'["io"].pc # "finish"
    BY <1>0, <1>5, OtherPc DEF Pipeline
  <2> QED
    BY <1>0, <2>1, <2>2, BufferKept DEF At
<1>6. CASE CompletionDecrypt
  <2>1. UNCHANGED <<ioQueue, fragmentBuffer, fragmentBufferFree>>
    BY <1>6 DEF CompletionDecrypt, buffers
  <2>2. thread'["io"] = thread["io"]
    BY <1>0, <1>6, OneThread DEF Pipeline, CompletionThreadProc
  <2> QED
    BY <1>0, <2>1, <2>2, BufferKept
<1>7. CASE \E i \in Irps : AddIrp(i) \/ Adding(i) \/ Collect(i)
  BY <1>1, <1>7 DEF Adding, AddIrp, AddIrpQueue, AddIrpRefuse, AddIrpSignal, Collect, work, buffers, queues
<1>8. CASE Hold \/ Holder \/ Stop \/ Stopper
  <2>1. UNCHANGED <<fragmentBuffer, fragmentBufferFree>>
    BY <1>8 DEF Hold, Holder, HoldTest, HoldWake, HoldFails, HoldRecheck, HoldClear, HoldSuspend,
                HoldConfirm, HoldUndo, HoldInvalidate, HoldWork, Resume, ResumeSignal, Stop, Stopper,
                StopDrain, StopWait, StopJoin, io, work, buffers
  <2> QED
    BY <1>1, <1>8, <2>1, ControlFrame DEF queues
<1>9. CASE UNCHANGED vars
  BY <1>1, <1>9 DEF vars
<1> QED
  BY <1>0, <1>2, <1>3, <1>4, <1>5, <1>6, <1>7, <1>8, <1>9
     DEF Next, MainThreadProc, IoThreadProc, CompletionThreadProc

-----------------------------------------------------------------------------
(* The device. *)
LEMMA DiskKept == [Next]_vars /\ ~HoldWork /\ ~IoPerform => UNCHANGED disk
<1>1. ASSUME NEW i, AddIrp(i) \/ Adding(i) \/ Collect(i)
      PROVE  UNCHANGED disk
  BY <1>1 DEF Adding, AddIrp, AddIrpQueue, AddIrpRefuse, AddIrpSignal, Collect, device
<1>2. ASSUME NEW t, AnyThread(t)
      PROVE  UNCHANGED disk
  BY <1>2 DEF AnyThread, Complete, Decrement, SignalIdle, Exit, device
<1>3. MainDequeue \/ MainGate \/ MainResumed \/ MainAccept \/ MainMisaligned \/ MainFragment
        \/ MainGetRequest \/ MainQueue => UNCHANGED disk
  BY DEF MainDequeue, MainGate, MainResumed, MainAccept, MainMisaligned, MainFragment,
         MainGetRequest, MainQueue, device
<1>4. IoFinish \/ IoHandOver \/ IoReadAhead \/ CompletionDecrypt => UNCHANGED disk
  BY DEF IoFinish, IoHandOver, IoReadAhead, CompletionDecrypt, device
<1>5. HoldInvalidate => UNCHANGED disk
  BY DEF HoldInvalidate, device
<1>6. Hold \/ (Holder /\ ~HoldWork) \/ Stop \/ Stopper => UNCHANGED disk
  BY <1>5 DEF Hold, Holder, HoldTest, HoldWake, HoldFails, HoldRecheck, HoldClear, HoldSuspend,
         HoldConfirm, HoldUndo, Resume, ResumeSignal, Stop, Stopper, StopDrain,
         StopWait, StopJoin, io, device
<1>7. UNCHANGED vars => UNCHANGED disk
  BY DEF vars
<1>8. Requests /\ ~IoPerform => UNCHANGED disk
  BY <1>1, <1>2, <1>3, <1>4 DEF Requests, MainThreadProc, IoThreadProc, CompletionThreadProc
<1> QED
  BY <1>6, <1>7, <1>8 DEF Next, Requests

LEMMA AreaStep ==
    ASSUME Pipeline, RestTypes, AreaInv, [Next]_vars
    PROVE  AreaInv'
<1>1. UNCHANGED queue /\ disk = [s \in Disk |-> disk[s]]
  BY QueueKept DEF AreaInv
<1>2. disk' = [s \in Disk |-> disk'[s]]
  <2>1. CASE UNCHANGED disk
    BY <1>1, <2>1
  <2>2. CASE HoldWork
    BY <1>1, <2>2 DEF HoldWork
  <2>3. CASE IoPerform
    <3>1. UNCHANGED disk \/ \E new : disk' = Update(disk, new)
      BY <2>3 DEF IoPerform, IoWrite, IoRead, IoSkip
    <3>2. DOMAIN disk = Disk
      BY <1>1
    <3> QED
      BY <1>1, <3>1, <3>2 DEF Update
  <2> QED
    BY <2>1, <2>2, <2>3, DiskKept
<1>3. EncryptedAreaEnd \in Int /\ EncryptedAreaStart \in Nat /\ queue.ConfiguredEnd \in Int
  BY QueueFacts DEF RestTypes, Pipeline, QueueType, EncryptedAreaStart
<1>4. CASE UNCHANGED EncryptedAreaEnd
  BY <1>1, <1>2, <1>4 DEF AreaInv, EncryptedAreaStart, RemapEncryptedArea
<1>5. CASE HoldWork
  BY <1>1, <1>2, <1>3, <1>5 DEF HoldWork, AreaInv, EncryptedAreaStart, RemapEncryptedArea
<1> QED
  BY <1>4, <1>5, AreaKept

LEMMA DataInit == Init => DataInv
<1> SUFFICES ASSUME Init PROVE DataInv
  OBVIOUS
<1>1. Pipeline
  BY PipelineInit
<1>2. /\ \A t \in Threads : thread[t] = Idle
      /\ \A i \in Irps : irp[i].pc = "idle"
      /\ mainQueue = << >> /\ ioQueue = << >> /\ completionQueue = << >>
      /\ "main" \in Threads /\ "io" \in Threads /\ Idle.pc = "idle"
  BY DEF Init, Idle, NoIrp, Threads
<1>3. RangeInv
  BY <1>2 DEF RangeInv
<1>4. SplitInv
  BY <1>2 DEF SplitInv, Splitting, At
<1>5. Queued = {} /\ Carried = {}
  BY <1>2 DEF Queued, Carried, At, HasRequest
<1>6. SoundInv
  BY <1>5 DEF SoundInv
<1>7. BufferInv
  BY <1>2, <1>5 DEF Init, BufferInv, At
<1>8. AreaInv
  <2>1. EncryptedAreaStart - 1 <= EncryptedAreaEnd
    BY LayoutAssumption DEF Init, WellPlaced, EncryptedAreaStart
  <2> QED
    BY <2>1 DEF Init, AreaInv
<1> QED
  BY <1>3, <1>4, <1>6, <1>7, <1>8 DEF DataInv

LEMMA DataStep == AllInv /\ DataInv /\ [Next]_vars => DataInv'
<1> SUFFICES ASSUME AllInv, DataInv, [Next]_vars PROVE DataInv'
  OBVIOUS
<1>1. Pipeline /\ CursorInv /\ RestTypes
  BY DEF AllInv
<1>2. RangeInv' /\ SplitInv'
  BY <1>1, RangeStep, SplitStep DEF DataInv
<1>3. SoundInv' /\ BufferInv'
  BY SoundStep, BufferStep DEF DataInv
<1>4. AreaInv'
  BY <1>1, AreaStep DEF DataInv
<1> QED
  BY <1>2, <1>3, <1>4 DEF DataInv

\* Sectors that the device holds encrypted, and where the encrypted area is remapped to.
HeldEncrypted(a) == \E r \in Disk : r \in EncryptedPart({r}) /\ Location(r) = a
Remapped == {s + RemappedAreaOffset : s \in EncryptedAreaStart .. EncryptedAreaEnd}

LEMMA Layout ==
    ASSUME Types
    PROVE  /\ WellPlaced(queue) /\ DiskSize \in Nat
           /\ EncryptedAreaStart \in Nat /\ queue.InitialAreaEnd \in Int /\ queue.ConfiguredEnd \in Int
           /\ RemappedAreaOffset \in Nat /\ queue.DataAreaOffset \in Nat
           /\ queue.VirtualDeviceLength \in Nat
           /\ RemapEncryptedArea \in BOOLEAN /\ IsFilterDevice \in BOOLEAN
           /\ queue.ProtectedRegions \subseteq Nat \X Nat
           /\ queue.Ranges \subseteq [offset : Nat, length : Nat, aligned : BOOLEAN]
<1>1. queue \in QueueType /\ WellPlaced(queue) /\ DiskSize \in Nat
  BY QueueFacts, QueueAssumption, LayoutAssumption DEF Types, QueueAssumption
<1> QED
  BY <1>1 DEF QueueType, EncryptedAreaStart, RemappedAreaOffset, RemapEncryptedArea, IsFilterDevice

\* A sector that the clients address is on the device, not where the area is remapped to.
LEMMA Addressed ==
    ASSUME AllInv, DataInv, NEW r \in Carried, NEW s \in Sectors(r)
    PROVE  /\ s \in Disk
           /\ RemapEncryptedArea => s \notin Remapped
           /\ s \in r.encrypted <=> s \in EncryptedPart({s})
           /\ irp[r.irp].write => \A p \in queue.ProtectedRegions : s \notin p[1] .. p[2]
<1>0. Pipeline /\ Types
  BY DEF AllInv, Pipeline
<1>1. /\ r \in Request /\ r.irp \in Irps /\ irp[r.irp].pc = "pending" /\ Sound(r)
      /\ irp[r.irp] \in IrpType
  BY <1>0, CarriedFacts DEF DataInv, SoundInv, Types
<1>2. PICK i \in Irps : i = r.irp
  BY <1>1
<1>3. PICK g \in queue.Ranges : irp[i].offset = Base + g.offset /\ irp[i].length = g.length
                                /\ irp[i].aligned = g.aligned
  BY <1>1, <1>2 DEF DataInv, RangeInv
<1>4. /\ g.offset \in Nat /\ g.length \in Nat /\ g.aligned = TRUE /\ DiskSize \in Nat
      /\ queue.DataAreaOffset \in Nat /\ queue.VirtualDeviceLength \in Nat
  BY <1>0, <1>1, <1>2, <1>3, Layout DEF Sound, Valid
<1>5. /\ r.offset \in Nat /\ r.length \in Nat /\ s \in Nat
      /\ irp[i].offset <= s /\ s <= irp[i].offset + irp[i].length - 1
      /\ irp[i].offset \in Nat /\ irp[i].length \in Nat
  BY <1>1, <1>2 DEF Sound, Sectors, Request, IrpType
<1>6. s \in Disk
  <2>1. CASE IsFilterDevice
    <3>1. g.offset + g.length <= DiskSize
      BY <1>0, <1>4, <2>1, Layout DEF WellPlaced, IsFilterDevice
    <3> QED
      BY <1>3, <1>4, <1>5, <2>1, <3>1 DEF Base, Disk
  <2>2. CASE ~IsFilterDevice
    <3>1. queue.DataAreaOffset + queue.VirtualDeviceLength <= DiskSize
      BY <1>0, <2>2, Layout DEF WellPlaced, IsFilterDevice
    <3>2. irp[i].offset - queue.DataAreaOffset + irp[i].length <= queue.VirtualDeviceLength
      BY <1>1, <1>2, <2>2 DEF Sound, Valid
    <3> QED
      BY <1>4, <1>5, <3>1, <3>2 DEF Disk
  <2> QED
    BY <2>1, <2>2
<1>7. ASSUME RemapEncryptedArea PROVE s \notin Remapped
  <2>1. /\ IsFilterDevice
        /\ (g.offset .. g.offset + g.length - 1) \cap Remapped = {}
    BY <1>0, <1>7, Layout DEF WellPlaced, IsFilterDevice, RemapEncryptedArea, Remapped, DataInv, AreaInv,
       EncryptedAreaStart, RemappedAreaOffset
  <2>2. s \in g.offset .. g.offset + g.length - 1
    BY <1>3, <1>4, <1>5, <2>1 DEF Base
  <2> QED
    BY <2>1, <2>2
<1>8. s \in r.encrypted <=> s \in EncryptedPart({s})
  BY <1>1 DEF Sound, EncryptedPart
<1>9. ASSUME irp[r.irp].write, NEW p \in queue.ProtectedRegions PROVE s \notin p[1] .. p[2]
  <2>1. ~RegionsOverlap(irp[i].offset, irp[i].offset + irp[i].length - 1, p[1], p[2])
    BY <1>1, <1>2, <1>9 DEF Sound, Forbidden
  <2>2. p[1] \in Nat /\ p[2] \in Nat
    BY <1>0, Layout
  <2> QED
    BY <1>5, <2>1, <2>2 DEF RegionsOverlap
<1> QED
  BY <1>6, <1>7, <1>8, <1>9

\* The device holds a sector encrypted if it is in the encrypted area.
LEMMA Placed ==
    ASSUME AllInv, AreaInv, NEW s \in Disk, RemapEncryptedArea => s \notin Remapped
    PROVE  HeldEncrypted(Location(s)) <=> s \in EncryptedPart({s})
<1>0. /\ Types /\ DiskSize \in Nat /\ RemapEncryptedArea \in BOOLEAN
      /\ RemapEncryptedArea => IsFilterDevice
  BY Layout DEF AllInv, Pipeline, WellPlaced, RemapEncryptedArea, IsFilterDevice
<1>1. s \in EncryptedPart({s}) => HeldEncrypted(Location(s))
  BY DEF HeldEncrypted
<1>2. ASSUME HeldEncrypted(Location(s)) PROVE s \in EncryptedPart({s})
  <2>1. PICK u \in Disk : u \in EncryptedPart({u}) /\ Location(u) = Location(s)
    BY <1>2 DEF HeldEncrypted
  <2>2. CASE ~RemapEncryptedArea
    BY <2>1, <2>2 DEF Location
  <2>3. CASE RemapEncryptedArea
    <3>1. Location(u) = u + RemappedAreaOffset /\ u \in EncryptedAreaStart .. EncryptedAreaEnd
      BY <1>0, <2>1, <2>3 DEF Location, EncryptedPart
    <3>2. Location(u) \in Remapped
      BY <3>1 DEF Remapped
    <3>3. s \notin EncryptedPart({s}) => Location(s) = s
      BY DEF Location
    <3> QED
      BY <2>1, <2>3, <3>2, <3>3
  <2> QED
    BY <1>0, <2>2, <2>3
<1> QED
  BY <1>1, <1>2

\* What a write puts on the device.
LEMMA Written ==
    ASSUME AllInv, DataInv, NEW r \in Queued, irp[r.irp].write, IoWrite(r), NEW a \in Disk
    PROVE  \/ disk'[a] = disk[a]
           \/ \E s \in Sectors(r) :
                 a = Location(s) /\ disk'[a] = <<r.irp, IF s \in r.encrypted THEN 1 ELSE 0>>
<1>1. disk = [b \in Disk |-> disk[b]] /\ Filled(r)
  BY DEF DataInv, AreaInv, BufferInv
<1>2. PICK written \in SUBSET Sectors(r) :
         disk' = Update(disk, [b \in {Location(s) : s \in written} |->
                    Buffered(r.buffer, CHOOSE s \in written : Location(s) = b)])
  BY DEF IoWrite
<1>3. CASE a \notin {Location(s) : s \in written}
  BY <1>1, <1>2, <1>3 DEF Update
<1>4. CASE a \in {Location(s) : s \in written}
  <2> DEFINE s == CHOOSE s \in written : Location(s) = a
  <2>1. s \in written /\ Location(s) = a
    BY <1>4
  <2>2. disk'[a] = Buffered(r.buffer, s)
    BY <1>1, <1>2, <1>4 DEF Update
  <2> HIDE DEF s
  <2>3. Buffered(r.buffer, s) = <<r.irp, IF s \in r.encrypted THEN 1 ELSE 0>>
    BY <1>1, <2>1 DEF Buffered, Filled
  <2> QED
    BY <2>1, <2>2, <2>3
<1> QED
  BY <1>3, <1>4

\* The holder encrypts or decrypts at the end of the area, or wipes in it.
LEMMA LayersHoldWork ==
    ASSUME AllInv, DataInv, LayersMatchArea, HoldWork
    PROVE  LayersMatchArea'
<1>0. /\ Types /\ IsFilterDevice /\ UNCHANGED queue
      /\ EncryptedAreaEnd \in Int /\ EncryptedAreaStart \in Nat /\ DiskSize \in Nat
      /\ EncryptedAreaStart - 1 <= EncryptedAreaEnd
      /\ disk = [s \in Disk |-> disk[s]]
  BY Layout DEF HoldWork, HoldAt, AllInv, HeldInv, RestTypes, Pipeline, DataInv, AreaInv
<1>1. \A a \in Disk : disk[a][2] = IF HeldEncrypted(a) THEN 1 ELSE 0
  BY DEF LayersMatchArea, HeldEncrypted
<1> SUFFICES ASSUME NEW a \in Disk
             PROVE  disk'[a][2] = IF HeldEncrypted(a)' THEN 1 ELSE 0
  BY DEF LayersMatchArea, HeldEncrypted
<1>2. CASE ~RemapEncryptedArea
  <2>1. HeldEncrypted(a) <=> a \in EncryptedAreaStart .. EncryptedAreaEnd
    BY <1>0, <1>2 DEF HeldEncrypted, Location, EncryptedPart
  <2>2. HeldEncrypted(a)' <=> a \in EncryptedAreaStart .. EncryptedAreaEnd'
    BY <1>0, <1>2 DEF HeldEncrypted, Location, EncryptedPart, IsFilterDevice, RemapEncryptedArea,
                      EncryptedAreaStart
  <2>3. a \in Int
    BY <1>0 DEF Disk
  <2>4. CASE /\ disk' = [disk EXCEPT ![EncryptedAreaEnd + 1] = Encrypt(@)]
             /\ EncryptedAreaEnd' = EncryptedAreaEnd + 1
    <3>1. CASE a = EncryptedAreaEnd + 1
      <4>1. disk'[a][2] = disk[a][2] + 1
        BY <1>0, <2>4, <3>1 DEF Encrypt
      <4>2. ~HeldEncrypted(a) /\ HeldEncrypted(a)'
        BY <1>0, <2>1, <2>2, <2>4, <3>1
      <4> QED
        BY <1>1, <4>1, <4>2
    <3>2. CASE a # EncryptedAreaEnd + 1
      <4>1. disk'[a] = disk[a]
        BY <1>0, <2>4, <3>2
      <4>2. HeldEncrypted(a) <=> HeldEncrypted(a)'
        BY <1>0, <2>1, <2>2, <2>3, <2>4, <3>2
      <4> QED
        BY <1>1, <4>1, <4>2
    <3> QED
      BY <3>1, <3>2
  <2>5. CASE /\ EncryptedAreaEnd >= EncryptedAreaStart
             /\ disk' = [disk EXCEPT ![EncryptedAreaEnd] = Decrypt(@)]
             /\ EncryptedAreaEnd' = EncryptedAreaEnd - 1
    <3>1. CASE a = EncryptedAreaEnd
      <4>1. disk'[a][2] = disk[a][2] - 1
        BY <1>0, <2>5, <3>1 DEF Decrypt
      <4>2. HeldEncrypted(a) /\ ~HeldEncrypted(a)'
        BY <1>0, <2>1, <2>2, <2>5, <3>1
      <4> QED
        BY <1>1, <4>1, <4>2
    <3>2. CASE a # EncryptedAreaEnd
      <4>1. disk'[a] = disk[a]
        BY <1>0, <2>5, <3>2
      <4>2. HeldEncrypted(a) <=> HeldEncrypted(a)'
        BY <1>0, <2>1, <2>2, <2>3, <2>5, <3>2
      <4> QED
        BY <1>1, <4>1, <4>2
    <3> QED
      BY <3>1, <3>2
  <2> QED
    BY <1>2, <2>4, <2>5 DEF HoldWork
<1>3. CASE RemapEncryptedArea
  <2>1. PICK s \in EncryptedAreaStart .. EncryptedAreaEnd : disk' = [disk EXCEPT ![s] = Stale]
    BY <1>3 DEF HoldWork
  <2>2. UNCHANGED EncryptedAreaEnd
    BY <1>3 DEF HoldWork
  <2>3. HeldEncrypted(a)' <=> HeldEncrypted(a)
    BY <1>0, <2>2 DEF HeldEncrypted, Location, EncryptedPart, IsFilterDevice, RemapEncryptedArea,
                      EncryptedAreaStart, RemappedAreaOffset
  <2>4. CASE a # s
    BY <1>0, <1>1, <2>1, <2>3, <2>4
  <2>5. CASE a = s
    <3>1. disk'[a][2] = 0
      BY <1>0, <2>1, <2>5 DEF Stale
    <3>2. s \notin Remapped
      BY <1>0, <1>3, Layout DEF WellPlaced, RemapEncryptedArea, Remapped, EncryptedAreaStart,
                                 RemappedAreaOffset, DataInv, AreaInv
    <3>3. HeldEncrypted(s) => s \in Remapped
      BY <1>0, <1>3 DEF HeldEncrypted, Location, EncryptedPart, Remapped
    <3> QED
      BY <2>3, <2>5, <3>1, <3>2, <3>3
  <2> QED
    BY <2>4, <2>5
<1> QED
  BY <1>0, <1>2, <1>3, Layout

\* A request that is carried out.
LEMMA Performed ==
    ASSUME AllInv, DataInv, IoPerform
    PROVE  /\ UNCHANGED <<queue, EncryptedAreaEnd>>
           /\ UNCHANGED disk \/ \E r \in Queued : irp[r.irp].write /\ IoWrite(r)
<1>1. ioQueue # << >> /\ ioQueue \in Seq(Request)
  BY DEF IoPerform, AllInv, Pipeline, Types
<1>2. Head(ioQueue) \in Queued
  BY <1>1, Members DEF Queued
<1> QED
  BY <1>2 DEF IoPerform, IoRead, IoSkip

LEMMA LayersStep ==
    ASSUME AllInv, DataInv, LayersMatchArea, [Next]_vars
    PROVE  LayersMatchArea'
<1>1. ASSUME UNCHANGED <<queue, EncryptedAreaEnd>>, NEW a
      PROVE  HeldEncrypted(a)' <=> HeldEncrypted(a)
  BY <1>1 DEF HeldEncrypted, Location, EncryptedPart, IsFilterDevice, RemapEncryptedArea,
              EncryptedAreaStart, RemappedAreaOffset
<1>2. \A a \in Disk : disk[a][2] = IF HeldEncrypted(a) THEN 1 ELSE 0
  BY DEF LayersMatchArea, HeldEncrypted
<1>3. CASE HoldWork
  BY <1>3, LayersHoldWork
<1>4. CASE ~HoldWork /\ UNCHANGED disk
  <2>1. UNCHANGED <<queue, EncryptedAreaEnd>>
    BY <1>4, AreaKept, QueueKept
  <2> QED
    BY <1>1, <1>2, <1>4, <2>1 DEF LayersMatchArea, HeldEncrypted
<1>5. CASE IoPerform /\ ~UNCHANGED disk
  <2>1. UNCHANGED <<queue, EncryptedAreaEnd>>
    BY <1>5, Performed
  <2>2. PICK r \in Queued : irp[r.irp].write /\ IoWrite(r)
    BY <1>5, Performed
  <2> SUFFICES ASSUME NEW a \in Disk
               PROVE  disk'[a][2] = IF HeldEncrypted(a) THEN 1 ELSE 0
    BY <1>1, <2>1 DEF LayersMatchArea, HeldEncrypted
  <2>3. CASE disk'[a] = disk[a]
    BY <1>2, <2>3
  <2>4. ASSUME NEW s \in Sectors(r), a = Location(s),
               disk'[a] = <<r.irp, IF s \in r.encrypted THEN 1 ELSE 0>>
        PROVE  disk'[a][2] = IF HeldEncrypted(a) THEN 1 ELSE 0
    <3>1. /\ s \in Disk
          /\ RemapEncryptedArea => s \notin Remapped
          /\ s \in r.encrypted <=> s \in EncryptedPart({s})
      BY <2>2, Addressed DEF Carried
    <3>2. HeldEncrypted(a) <=> s \in r.encrypted
      BY <2>4, <3>1, Placed DEF DataInv
    <3> QED
      BY <2>4, <3>2
  <2> QED
    BY <2>2, <2>3, <2>4, Written
<1> QED
  BY <1>3, <1>4, <1>5, DiskKept

LEMMA LayersInit == Init => LayersMatchArea
  BY DEF Init, LayersMatchArea

(* The device holds a sector encrypted once if it is in the encrypted area or, for a hidden
   system, where that area is remapped to, and not encrypted otherwise: EncryptRequest...
   and the thread that encrypts the drive agree on the area although it moves under the
   requests, since it moves only between EncryptedIoQueueHoldWhenIdle and
   EncryptedIoQueueResumeFromHold. *)
THEOREM AreaEncrypted == Spec => []LayersMatchArea
<1>1. Init => AllInv /\ DataInv /\ LayersMatchArea
  BY InvInit, DataInit, LayersInit
<1>2. AllInv /\ DataInv /\ LayersMatchArea /\ [Next]_vars => (AllInv /\ DataInv /\ LayersMatchArea)'
  BY InvStep, DataStep, LayersStep
<1> QED
  BY <1>1, <1>2, PTL DEF Spec

LEMMA ProtectedStep ==
    ASSUME AllInv, DataInv, ProtectedUntouched, [Next]_vars
    PROVE  ProtectedUntouched'
<1>0. /\ UNCHANGED queue /\ Types /\ DiskSize \in Nat /\ disk = [s \in Disk |-> disk[s]]
  BY QueueKept, Layout DEF AllInv, Pipeline, DataInv, AreaInv
<1> SUFFICES ASSUME NEW p \in queue.ProtectedRegions, NEW a \in (p[1] .. p[2]) \cap Disk
             PROVE  disk'[a][1] = None
  BY <1>0 DEF ProtectedUntouched
<1>1. disk[a][1] = None
  BY DEF ProtectedUntouched
<1>2. p[1] \in Nat /\ p[2] \in Nat /\ a \in Nat
  BY <1>0, Layout
<1>3. ASSUME RemapEncryptedArea
      PROVE  a \notin EncryptedAreaStart .. EncryptedAreaEnd /\ a \notin Remapped
  BY <1>0, <1>3, Layout DEF WellPlaced, RemapEncryptedArea, EncryptedAreaStart, Remapped,
                             RemappedAreaOffset, DataInv, AreaInv
<1>4. CASE HoldWork
  <2>1. CASE \E b : disk' = [disk EXCEPT ![b] = Encrypt(@)] \/ disk' = [disk EXCEPT ![b] = Decrypt(@)]
    BY <1>0, <1>1, <2>1 DEF Encrypt, Decrypt
  <2>2. CASE RemapEncryptedArea /\ \E s \in EncryptedAreaStart .. EncryptedAreaEnd :
                                      disk' = [disk EXCEPT ![s] = Stale]
    BY <1>0, <1>1, <1>3, <2>2
  <2> QED
    BY <1>4, <2>1, <2>2 DEF HoldWork
<1>5. CASE UNCHANGED disk
  BY <1>1, <1>5
<1>6. CASE IoPerform /\ ~UNCHANGED disk
  <2>1. PICK r \in Queued : irp[r.irp].write /\ IoWrite(r)
    BY <1>6, Performed
  <2>2. ASSUME NEW s \in Sectors(r) PROVE a # Location(s)
    <3>1. /\ s \in Disk /\ s \notin p[1] .. p[2]
      BY <2>1, Addressed DEF Carried
    <3>2. CASE RemapEncryptedArea /\ s \in EncryptedPart({s})
      <4>1. s \in EncryptedAreaStart .. EncryptedAreaEnd
        BY <1>0, <3>2, Layout DEF WellPlaced, RemapEncryptedArea, IsFilterDevice, EncryptedPart
      <4>2. Location(s) \in Remapped
        BY <3>2, <4>1 DEF Location, Remapped
      <4> QED
        BY <1>3, <3>2, <4>2
    <3>3. CASE ~(RemapEncryptedArea /\ s \in EncryptedPart({s}))
      BY <3>1, <3>3 DEF Location
    <3> QED
      BY <3>2, <3>3
  <2> QED
    BY <1>1, <2>1, <2>2, Written
<1> QED
  BY <1>4, <1>5, <1>6, DiskKept

(* The threads never write into the hidden volume that the volume is to protect, nor into the
   header of an encrypted drive, nor does the holder of the queue. *)
THEOREM HiddenVolumeSafe == Spec => []ProtectedUntouched
<1>1. Init => AllInv /\ DataInv /\ ProtectedUntouched
  <2>1. Init => ProtectedUntouched
    BY DEF Init, ProtectedUntouched
  <2> QED
    BY <2>1, InvInit, DataInit
<1>2. AllInv /\ DataInv /\ ProtectedUntouched /\ [Next]_vars =>
         (AllInv /\ DataInv /\ ProtectedUntouched)'
  BY InvStep, DataStep, ProtectedStep
<1> QED
  BY <1>1, <1>2, PTL DEF Spec

-----------------------------------------------------------------------------
(* What reads return.  The parts of a request are done one after the other and only the last
   one decides its status, and a misaligned read is not remapped: a remapped area is read
   properly if no operation fails and the clients align what they ask for. *)
Faultless == \A q \in Queues : q.RemapEncryptedArea => ~q.Failures /\ \A g \in q.Ranges : g.aligned
NamesDistinct == "nodata" \notin Irps \cup {None}

Wanted(i) ==
    irp[i].offset .. irp[i].offset + irp[i].length - (IF irp[i].aligned THEN 1 ELSE 0)

ClientInv ==
    /\ data = [i \in Irps |-> data[i]]
    /\ \A i \in Irps :
          /\ irp[i].pc = "idle" => data[i] = << >>
          /\ irp[i].pc # "idle" => data[i] = [s \in Wanted(i) |-> data[i][s]]
          /\ irp[i].pc = "refused" => irp[i].status = "failed"

\* The read-ahead buffer is what is on the device.
ReadAheadInv ==
    /\ readAhead = [valid |-> readAhead.valid, offset |-> readAhead.offset,
                    length |-> readAhead.length, content |-> readAhead.content,
                    lastOffset |-> readAhead.lastOffset, lastLength |-> readAhead.lastLength]
    /\ readAhead.offset \in Nat /\ readAhead.length \in Nat
    /\ readAhead.lastOffset \in Nat /\ readAhead.lastLength \in Nat
    /\ readAhead.valid =>
          \A a \in readAhead.offset .. readAhead.offset + readAhead.length - 1 :
              readAhead.content[a] = disk[a]
    /\ hold = "held" => ~readAhead.valid

\* So is what has been read into a fragment buffer.
ReadInv ==
    \A r \in Carried :
        At("io", "finish") /\ r = thread["io"].request
          /\ ~irp[r.irp].write /\ irp[r.irp].status = "ok" =>
            fragmentBuffer[r.buffer] = [s \in Sectors(r) |-> disk[Location(s)]]

\* Fragments of an IRP are handled in the order of their offsets.
Before(r, i, offset) == r.irp = i => r.offset + r.length <= offset
Handed == {completionQueue[n] : n \in 1 .. Len(completionQueue)}
Performing == IF HasRequest THEN {thread["io"].request} ELSE {}
Sorted(q) == \A m, n \in 1 .. Len(q) : m < n => Before(q[m], q[n].irp, q[n].offset)
OrderInv ==
    /\ Sorted(completionQueue) /\ Sorted(ioQueue)
    /\ \A r \in Handed : \A q \in Queued \cup Performing : Before(r, q.irp, q.offset)
    /\ \A r \in Performing : \A q \in Queued : Before(r, q.irp, q.offset)
    /\ thread["main"].pc \in Splitting =>
          \A r \in Handed \cup Queued \cup Performing : Before(r, thread["main"].irp, cursor.offset)

MisalignedInv ==
    \A i \in Irps : At("main", "misaligned") /\ thread["main"].irp = i => Misaligned(i)

\* The encrypted sectors that have been read are decrypted by the completion thread.
Undecrypted == Handed \cup (IF At("io", "handOver") THEN {thread["io"].request} ELSE {})
LeftEncrypted(i, s) == \E r \in Undecrypted : r.irp = i /\ s \in r.encrypted
LayerInv ==
    \A i \in Irps : irp[i].pc # "idle" /\ ~irp[i].write /\ irp[i].status = "ok" =>
        \A s \in Wanted(i) : data[i][s][2] = IF LeftEncrypted(i, s) THEN 1 ELSE 0

\* The steps that transfer data.
LEMMA DataKept ==
    ASSUME [Next]_vars, ~(MainMisaligned \/ IoPerform \/ IoFinish \/ CompletionDecrypt)
    PROVE  UNCHANGED data \/ \E i \in Irps : AddIrp(i) \/ Collect(i)
<1>1. ASSUME NEW i, Adding(i)
      PROVE  UNCHANGED data
  BY <1>1 DEF Adding, AddIrpQueue, AddIrpRefuse, AddIrpSignal
<1>2. ASSUME NEW t, AnyThread(t)
      PROVE  UNCHANGED data
  BY <1>2 DEF AnyThread, Complete, Decrement, SignalIdle, Exit, clients
<1>3. MainDequeue \/ MainGate \/ MainResumed \/ MainAccept \/ MainFragment \/ MainGetRequest \/ MainQueue =>
          UNCHANGED data
  BY DEF MainDequeue, MainGate, MainResumed, MainAccept, MainFragment, MainGetRequest, MainQueue, clients
<1>4. IoHandOver \/ IoReadAhead => UNCHANGED data
  BY DEF IoHandOver, IoReadAhead, clients
<1>5. HoldInvalidate \/ HoldWork => UNCHANGED data
  BY DEF HoldInvalidate, HoldWork, clients
<1>6. Hold \/ Holder \/ Stop \/ Stopper => UNCHANGED data
  BY <1>5 DEF Hold, Holder, HoldTest, HoldWake, HoldFails, HoldRecheck, HoldClear, HoldSuspend,
         HoldConfirm, HoldUndo, Resume, ResumeSignal, Stop, Stopper, StopDrain,
         StopWait, StopJoin, io, clients
<1>7. UNCHANGED vars => UNCHANGED data
  BY DEF vars
<1> QED
  BY <1>1, <1>2, <1>3, <1>4, <1>6, <1>7 DEF Next, MainThreadProc, IoThreadProc, CompletionThreadProc

LEMMA DataSteps ==
    ASSUME Pipeline, data = [i \in Irps |-> data[i]], [Next]_vars
    PROVE  /\ data' = [i \in Irps |-> data'[i]]
           /\ \A i \in Irps :
                 \/ AddIrp(i) \/ Collect(i) \/ data'[i] = data[i]
                 \/ /\ MainMisaligned /\ i = thread["main"].irp /\ irp[i].pc = "pending"
                    /\ data'[i] = [s \in DOMAIN data[i] |->
                                     IF s \in EncryptedPart(DOMAIN data[i])
                                     THEN Decrypt(disk[s]) ELSE disk[s]]
                 \/ /\ IoPerform /\ i = Head(ioQueue).irp /\ irp[i].pc = "pending"
                    /\ IoWrite(Head(ioQueue)) /\ \E new : data'[i] = Update(data[i], new)
                 \/ /\ IoFinish /\ i = thread["io"].request.irp /\ irp[i].pc = "pending"
                    /\ data'[i] = Update(data[i], fragmentBuffer[thread["io"].request.buffer])
                 \/ /\ CompletionDecrypt /\ i = Head(completionQueue).irp /\ irp[i].pc = "pending"
                    /\ data'[i] = Update(data[i], [s \in Head(completionQueue).encrypted |->
                                                      Decrypt(data[i][s])])
<1>1. ASSUME NEW j \in Irps, NEW x, data' = [data EXCEPT ![j] = x]
      PROVE  /\ data' = [i \in Irps |-> data'[i]] /\ data'[j] = x
             /\ \A i \in Irps : i # j => data'[i] = data[i]
  BY <1>1
<1>2. CASE UNCHANGED data
  BY <1>2
<1>3. CASE \E j \in Irps : AddIrp(j) \/ Collect(j)
  <2>1. PICK j \in Irps : AddIrp(j) \/ Collect(j)
    BY <1>3
  <2>2. PICK x : data' = [data EXCEPT ![j] = x]
    BY <2>1 DEF AddIrp, Collect
  <2> QED
    BY <1>1, <2>1, <2>2
<1>4. CASE MainMisaligned /\ ~UNCHANGED data
  <2>1. PICK j \in Irps : j = thread["main"].irp /\ irp[j].pc = "pending"
    BY <1>4 DEF MainMisaligned, At, Pipeline, PendingInv, Working, Threads
  <2>2. data' = [data EXCEPT ![j] = [s \in DOMAIN data[j] |->
                    IF s \in EncryptedPart(DOMAIN data[j]) THEN Decrypt(disk[s]) ELSE disk[s]]]
    BY <1>4, <2>1 DEF MainMisaligned
  <2> QED
    BY ZenonT(60), <1>1, <1>4, <2>1, <2>2
<1>5. CASE IoPerform /\ ~UNCHANGED data
  <2>1. Head(ioQueue) \in Queued
    BY <1>5, Members DEF IoPerform, Queued, Pipeline, Types
  <2>2. PICK j \in Irps : j = Head(ioQueue).irp /\ irp[j].pc = "pending"
    BY <2>1, CarriedFacts DEF Carried
  <2>3. IoWrite(Head(ioQueue))
    BY <1>5 DEF IoPerform, IoRead, IoSkip
  <2>4. PICK new : data' = [data EXCEPT ![j] = Update(data[j], new)]
    BY <2>2, <2>3 DEF IoWrite
  <2> QED
    BY <1>1, <1>5, <2>2, <2>3, <2>4
<1>6. CASE IoFinish /\ ~UNCHANGED data
  <2>1. PICK j \in Irps : j = thread["io"].request.irp /\ irp[j].pc = "pending"
    BY <1>6, CarriedFacts DEF Carried, HasRequest, IoFinish, At
  <2>2. data' = [data EXCEPT ![j] = Update(data[j], fragmentBuffer[thread["io"].request.buffer])]
    BY <1>6, <2>1 DEF IoFinish
  <2> QED
    BY <1>1, <1>6, <2>1, <2>2
<1>7. CASE CompletionDecrypt /\ ~UNCHANGED data
  <2> DEFINE r == Head(completionQueue)
  <2>1. r \in Handed
    BY <1>7, Members DEF CompletionDecrypt, Handed, Pipeline, Types
  <2>2. PICK j \in Irps : j = r.irp /\ irp[j].pc = "pending"
    BY <2>1, CarriedFacts DEF Carried, Handed
  <2>3. data' = [data EXCEPT ![j] = Update(data[j], [s \in r.encrypted |-> Decrypt(data[j][s])])]
    BY <1>7, <2>2 DEF CompletionDecrypt, Decrypted
  <2> QED
    BY ZenonT(60), <1>1, <1>7, <2>2, <2>3
<1> QED
  BY <1>2, <1>3, <1>4, <1>5, <1>6, <1>7, DataKept

LEMMA ClientStep ==
    ASSUME Pipeline, ClientInv, [Next]_vars
    PROVE  ClientInv'
<1>1. data' = [i \in Irps |-> data'[i]]
  BY DataSteps DEF ClientInv
<1>2. ASSUME NEW i \in Irps
      PROVE  /\ irp'[i].pc = "idle" => data'[i] = << >>
             /\ irp'[i].pc # "idle" => data'[i] = [s \in Wanted(i)' |-> data'[i][s]]
             /\ irp'[i].pc = "refused" => irp'[i].status = "failed"
  <2>1. CASE AddIrp(i)
    <3>1. PICK write \in BOOLEAN, g \in queue.Ranges :
            /\ irp' = [irp EXCEPT ![i] =
                 [pc |-> "counted", write |-> write, offset |-> Base + g.offset,
                  length |-> g.length, aligned |-> g.aligned, status |-> "ok"]]
            /\ data' = [data EXCEPT ![i] =
                 [s \in Base + g.offset .. Base + g.offset + g.length -
                         (IF g.aligned THEN 1 ELSE 0) |-> NoData]]
      BY <2>1 DEF AddIrp, Base
    <3>2. /\ irp'[i].pc = "counted" /\ irp'[i].offset = Base + g.offset /\ irp'[i].length = g.length
          /\ irp'[i].aligned = g.aligned
      BY <3>1 DEF Pipeline, Types
    <3>3. data'[i] = [s \in Wanted(i)' |-> NoData]
      BY <3>1, <3>2 DEF Wanted, ClientInv
    <3> QED
      BY <3>2, <3>3
  <2>2. CASE Collect(i)
    BY <2>2 DEF Collect, Pipeline, Types, NoIrp, ClientInv
  <2>3. CASE ~AddIrp(i) /\ ~Collect(i)
    <3>1. /\ SameIrp(i) /\ (irp'[i].pc = "idle" <=> irp[i].pc = "idle")
          /\ irp'[i].pc = "refused" => irp'[i].status = "failed"
      <4>1. Adding(i) => /\ irp'[i].pc # "idle" /\ irp[i].pc # "idle"
                         /\ irp'[i].pc = "refused" => irp'[i].status = "failed"
        BY AddingIrp DEF Pipeline, ClientInv
      <4>2. ASSUME NEW t \in Threads, Complete(t), thread[t].irp = i
            PROVE  irp[i].pc = "pending" /\ irp'[i].pc = "done"
        BY <4>2, CompletedIrp
      <4>3. ASSUME irp'[i].pc = irp[i].pc, irp[i].pc # "pending" => irp'[i] = irp[i]
            PROVE  irp'[i].pc = "refused" => irp'[i].status = "failed"
        BY <4>3 DEF ClientInv
      <4> QED
        BY <2>3, <4>1, <4>2, <4>3, IrpSteps
    <3>2. Wanted(i)' = Wanted(i)
      BY <3>1 DEF Wanted, SameIrp
    <3>3. CASE data'[i] = data[i]
      BY <3>1, <3>2, <3>3 DEF ClientInv
    <3>4. CASE irp[i].pc = "pending" /\ data'[i] = [s \in DOMAIN data[i] |-> data'[i][s]]
      BY <3>1, <3>2, <3>4 DEF ClientInv
    <3> QED
      BY <2>3, <3>3, <3>4, DataSteps DEF ClientInv, Update
  <2> QED
    BY <2>1, <2>2, <2>3
<1> QED
  BY <1>1, <1>2 DEF ClientInv


\* The status of an IRP is that of the last thing done for it, but a failure is kept.
LEMMA StatusSteps ==
    ASSUME Pipeline, [Next]_vars, NEW i \in Irps, irp'[i].status = "ok"
    PROVE  \/ AddIrp(i) \/ Collect(i) \/ irp[i].status = "ok"
           \/ MainMisaligned /\ i = thread["main"].irp
<1>0. irp \in [Irps -> IrpType] /\ Types
  BY DEF Pipeline, Types
<1>1. CASE UNCHANGED irp
  BY <1>1
<1>2. CASE \E t \in Threads : Complete(t)
  BY <1>2, CompletedIrp
<1>3. CASE \E j \in Irps : AddIrp(j) \/ Collect(j)
  BY <1>0, <1>3, ClientFrame
<1>4. CASE \E j \in Irps : Adding(j)
  <2>1. PICK j \in Irps : Adding(j)
    BY <1>4
  <2>2. CASE i # j
    BY <1>0, <2>1, <2>2, AddingIrp
  <2>3. AddIrpQueue(i) => irp'[i].status = irp[i].status
    BY <1>0 DEF AddIrpQueue, IrpGoes, IrpType
  <2>4. AddIrpRefuse(i) \/ AddIrpSignal(i) => irp'[i].pc # "pending"
    BY <1>0 DEF AddIrpRefuse, AddIrpSignal, IrpGoes, IrpType
  <2>5. CASE i = j
    <3>1. AddIrpRefuse(i) \/ AddIrpSignal(i) => irp[i].status = "ok"
      BY <1>0, <2>1, <2>4, <2>5, AddingIrp
    <3> QED
      BY <2>1, <2>3, <2>5, <3>1 DEF Adding
  <2> QED
    BY <2>2, <2>5
<1>5. CASE MainAccept
  <2>1. \/ UNCHANGED irp
        \/ irp' = [irp EXCEPT ![thread["main"].irp].status = "failed"]
    BY <1>5 DEF MainAccept
  <2> QED
    BY <1>0, <2>1 DEF IrpType
<1>6. CASE MainMisaligned
  BY <1>0, <1>6 DEF MainMisaligned, IrpType
<1>7. CASE IoPerform
  <2>1. \/ UNCHANGED irp
        \/ /\ irp[Head(ioQueue).irp].status = "ok"
           /\ \E status : irp' = [irp EXCEPT ![Head(ioQueue).irp].status = status]
    BY <1>7 DEF IoPerform, IoWrite, IoRead, IoSkip
  <2> QED
    BY <1>0, <2>1 DEF IrpType
<1>8. ASSUME NEW t \in Threads, Decrement(t) \/ SignalIdle(t) \/ Exit(t) PROVE UNCHANGED irp
  BY <1>8 DEF Decrement, SignalIdle, Exit, clients
<1>9. MainDequeue \/ MainGate \/ MainResumed \/ MainFragment \/ MainGetRequest \/ MainQueue =>
          UNCHANGED irp
  BY DEF MainDequeue, MainGate, MainResumed, MainFragment, MainGetRequest, MainQueue, clients
<1>10. IoFinish \/ IoHandOver \/ IoReadAhead \/ CompletionDecrypt => UNCHANGED irp
  BY DEF IoFinish, IoHandOver, IoReadAhead, CompletionDecrypt, clients
<1>11. Hold \/ Holder \/ Stop \/ Stopper \/ UNCHANGED vars => UNCHANGED irp
  BY ControlFrame DEF vars
<1> QED
  BY <1>1, <1>2, <1>3, <1>4, <1>5, <1>6, <1>7, <1>8, <1>9, <1>10, <1>11
     DEF Next, MainThreadProc, IoThreadProc, CompletionThreadProc, AnyThread, Threads


-----------------------------------------------------------------------------
(* The device operations for a request cover its sectors, where they are on the device. *)
Elements(q) == {q[n] : n \in DOMAIN q}

LEMMA Joined ==
    ASSUME NEW S, NEW p \in Seq(S), NEW q \in Seq(S)
    PROVE  /\ p \o q \in Seq(S)
           /\ Elements(p \o q) = Elements(p) \cup Elements(q)
<1>1. /\ p \o q \in Seq(S) /\ Len(p) \in Nat /\ Len(q) \in Nat
      /\ DOMAIN (p \o q) = 1 .. Len(p) + Len(q)
      /\ DOMAIN p = 1 .. Len(p) /\ DOMAIN q = 1 .. Len(q)
      /\ \A n \in 1 .. Len(p) + Len(q) : (p \o q)[n] = IF n <= Len(p) THEN p[n] ELSE q[n - Len(p)]
  BY ConcatProperties, LenProperties
<1> DEFINE j == p \o q
<1> HIDE DEF j
<1>2. \A n \in DOMAIN j : \/ n \in DOMAIN p /\ j[n] = p[n]
                          \/ n - Len(p) \in DOMAIN q /\ j[n] = q[n - Len(p)]
  BY <1>1 DEF j
<1>3. \A n \in DOMAIN p : n \in DOMAIN j /\ j[n] = p[n]
  BY <1>1 DEF j
<1>4. \A n \in DOMAIN q : n + Len(p) \in DOMAIN j /\ j[n + Len(p)] = q[n]
  BY <1>1 DEF j
<1>5. {j[n] : n \in DOMAIN j} = {p[n] : n \in DOMAIN p} \cup {q[n] : n \in DOMAIN q}
  BY <1>2, <1>3, <1>4
<1> QED
  BY <1>1, <1>5 DEF j, Elements

PartType == [offset : Nat, length : Nat, shift : Nat]
PartAt(offset, length, shift) ==
    IF length > 0 THEN <<[offset |-> offset, length |-> length, shift |-> shift]>> ELSE << >>

LEMMA PartElements ==
    ASSUME NEW offset \in Nat, NEW length \in Int, NEW shift \in Nat
    PROVE  LET q == PartAt(offset, length, shift)
               sectors == offset .. offset + length - 1
           IN  /\ q \in Seq(PartType)
               /\ \A p \in Elements(q) : Sectors(p) = sectors /\ p.shift = shift
               /\ length > 0 => \E p \in Elements(q) : Sectors(p) = sectors
<1> DEFINE q == PartAt(offset, length, shift)
           last == offset + length - 1
<1>1. CASE length > 0
  <2> DEFINE p == [offset |-> offset, length |-> length, shift |-> shift]
  <2>1. p \in PartType /\ Sectors(p) = offset .. last /\ p.shift = shift
    BY <1>1 DEF PartType, Sectors
  <2>2. q = <<p>>
    BY <1>1 DEF PartAt
  <2> HIDE DEF p
  <2>3. <<p>> \in Seq(PartType) /\ DOMAIN <<p>> = {1} /\ <<p>>[1] = p
    BY <2>1
  <2>4. Elements(q) = {p}
    BY <2>2, <2>3 DEF Elements
  <2> QED
    BY <2>1, <2>2, <2>3, <2>4
<1>2. CASE ~(length > 0)
  <2>1. q = << >>
    BY <1>2 DEF PartAt
  <2>2. DOMAIN q = {}
    BY <2>1
  <2>3. Elements(q) = {}
    BY <2>2 DEF Elements
  <2> QED
    BY <1>2, <2>1, <2>3
<1> QED
  BY <1>1, <1>2

LEMMA PartShift ==
    ASSUME NEW offset \in Nat, NEW length \in Int, NEW shift \in Nat
    PROVE  \A p \in Elements(PartAt(offset, length, shift)) : p.shift = shift
  BY PartElements

LEMMA PartsCover ==
    ASSUME AllInv, DataInv, NEW r \in Queued
    PROVE  /\ Parts(r) \in Seq(PartType) /\ Parts(r) # << >>
           /\ \A n \in DOMAIN Parts(r) : \A s \in Sectors(Parts(r)[n]) :
                 s \in Sectors(r) /\ Location(s) = s + Parts(r)[n].shift
           /\ \A s \in Sectors(r) : \E n \in DOMAIN Parts(r) : s \in Sectors(Parts(r)[n])
           /\ ~RemapEncryptedArea => Len(Parts(r)) = 1
<1> DEFINE Covers(parts) ==
              /\ parts \in Seq(PartType) /\ parts # << >>
              /\ \A p \in Elements(parts) : \A s \in Sectors(p) :
                    s \in Sectors(r) /\ Location(s) = s + p.shift
              /\ \A s \in Sectors(r) : \E p \in Elements(parts) : s \in Sectors(p)
<1>0. /\ r \in Request /\ r \in Carried /\ r.offset \in Nat /\ r.length \in Nat
      /\ r.encrypted = EncryptedPart(Sectors(r))
  BY CarriedFacts DEF Carried, AllInv, DataInv, SoundInv, Sound, Request
<1>1. /\ EncryptedAreaStart \in Nat /\ EncryptedAreaEnd \in Int /\ RemappedAreaOffset \in Nat
      /\ RemapEncryptedArea => IsFilterDevice
      /\ RemapEncryptedArea \in BOOLEAN
  BY Layout DEF AllInv, Pipeline, RestTypes, WellPlaced, RemapEncryptedArea, IsFilterDevice
<1>2. \A s \in Sectors(r) : Location(s) = IF RemapEncryptedArea /\ s \in r.encrypted
                                          THEN s + RemappedAreaOffset ELSE s
  BY <1>0, Addressed DEF Location
<1>3. CASE ~(RemapEncryptedArea /\ r.encrypted # {})
  <2> DEFINE p == [offset |-> r.offset, length |-> r.length, shift |-> 0]
  <2>1. Parts(r) = <<p>>
    BY <1>3 DEF Parts
  <2>2. p \in PartType /\ Sectors(p) = Sectors(r) /\ p.shift = 0
    BY <1>0 DEF PartType, Sectors
  <2>3. \A s \in Sectors(r) : Location(s) = s + 0
    BY <1>0, <1>2, <1>3 DEF Sectors
  <2> HIDE DEF p
  <2>4. <<p>> \in Seq(PartType) /\ <<p>> # << >> /\ DOMAIN <<p>> = {1} /\ <<p>>[1] = p /\ Len(<<p>>) = 1
    BY <2>2
  <2> QED
    BY <2>1, <2>2, <2>3, <2>4
<1>4. CASE RemapEncryptedArea /\ r.encrypted # {}
  <2> DEFINE last == r.offset + r.length - 1
  <2>1. r.encrypted = (r.offset .. last) \cap (EncryptedAreaStart .. EncryptedAreaEnd) /\ last \in Int
    BY <1>0, <1>1, <1>4 DEF EncryptedPart, Sectors
  <2>20. Sectors(r) = r.offset .. last
    BY DEF Sectors
  <2>21. last = r.offset + r.length - 1
    OBVIOUS
  <2> HIDE DEF last
  <2>2. PICK low \in Int, high \in Int :
           /\ low <= high /\ r.encrypted = low .. high
           /\ (CHOOSE s \in r.encrypted : \A u \in r.encrypted : s <= u) = low
           /\ Cardinality(r.encrypted) = high - low + 1
    <3> DEFINE low == IF r.offset < EncryptedAreaStart THEN EncryptedAreaStart ELSE r.offset
               high == IF last < EncryptedAreaEnd THEN last ELSE EncryptedAreaEnd
    <3>1. low \in Int /\ high \in Int /\ r.encrypted = low .. high
      BY <1>0, <1>1, <2>1
    <3> HIDE DEF low, high
    <3>2. low <= high
      BY <1>4, <3>1
    <3>3. low \in low .. high /\ \A u \in low .. high : low <= u
      BY <3>1, <3>2
    <3>4. \A s \in low .. high : (\A u \in low .. high : s <= u) => s = low
      BY <3>1, <3>3
    <3>5. (CHOOSE s \in low .. high : \A u \in low .. high : s <= u) = low
      BY <3>3, <3>4
    <3>6. Cardinality(low .. high) = IF low > high THEN 0 ELSE high - low + 1
      BY <3>1, FS_Interval
    <3>7. Cardinality(low .. high) = high - low + 1
      BY <3>1, <3>2, <3>6
    <3> QED
      BY <3>1, <3>2, <3>5, <3>7
  <2>3. PICK end \in Int : end = high + 1
    OBVIOUS
  <2>4. PICK a, b, c :
           /\ Parts(r) = a \o b \o c
           /\ a = PartAt(r.offset, low - r.offset, 0) /\ b = PartAt(low, end - low, RemappedAreaOffset)
           /\ c = PartAt(end, r.offset + r.length - end, 0)
    <3>1. low + Cardinality(r.encrypted) = end
      BY <2>2, <2>3
    <3> DEFINE first == CHOOSE s \in r.encrypted : \A u \in r.encrypted : s <= u
               after == first + Cardinality(r.encrypted)
    <3>2. Parts(r) = PartAt(r.offset, first - r.offset, 0)
                        \o PartAt(first, after - first, RemappedAreaOffset)
                        \o PartAt(after, r.offset + r.length - after, 0)
      BY <1>4 DEF Parts, PartAt
    <3>3. first = low /\ after = end
      BY <2>2, <3>1
    <3> HIDE DEF first, after
    <3> QED
      BY <3>2, <3>3
  <2>5. low \in r.encrypted /\ high \in r.encrypted
    BY <2>2
  <2>6. /\ r.offset <= low /\ high <= last /\ low \in Nat /\ end \in Nat
        /\ \A s \in Sectors(r) : s \in Nat /\ (s < low \/ s \in low .. high \/ s >= end)
    BY SMTT(30), <1>0, <2>20, <2>1, <2>2, <2>3, <2>5
  <2>7. /\ a \in Seq(PartType) /\ \A p \in Elements(a) : Sectors(p) = r.offset .. low - 1 /\ p.shift = 0
        /\ r.offset <= low - 1 => \E p \in Elements(a) : Sectors(p) = r.offset .. low - 1
    <3>1. PICK length \in Int : length = low - r.offset
      BY <1>0
    <3>2. r.offset + length - 1 = low - 1 /\ (r.offset <= low - 1 => length > 0)
      BY <1>0, <3>1
    <3>3. a = PartAt(r.offset, length, 0) /\ r.offset \in Nat /\ 0 \in Nat
      BY <1>0, <1>1, <2>4, <2>6, <3>1
    <3>4. a \in Seq(PartType)
      BY <3>3, PartElements
    <3>5. \A p \in Elements(a) : Sectors(p) = r.offset .. r.offset + length - 1
      BY ZenonT(60), <3>3, PartElements
    <3>6. \A p \in Elements(a) : p.shift = 0
      BY <3>3, PartShift
    <3>7. length > 0 => \E p \in Elements(a) : Sectors(p) = r.offset .. r.offset + length - 1
      BY <3>3, PartElements
    <3> QED
      BY <3>2, <3>4, <3>5, <3>6, <3>7
  <2>8. /\ b \in Seq(PartType) /\ \A p \in Elements(b) : Sectors(p) = low .. high /\ p.shift = RemappedAreaOffset
        /\ low <= high => \E p \in Elements(b) : Sectors(p) = low .. high
    <3>1. PICK length \in Int : length = end - low
      BY <2>2, <2>3
    <3>2. low + length - 1 = high /\ (low <= high => length > 0)
      BY <2>2, <2>3, <3>1
    <3>3. b = PartAt(low, length, RemappedAreaOffset) /\ low \in Nat /\ RemappedAreaOffset \in Nat
      BY <1>0, <1>1, <2>4, <2>6, <3>1
    <3>4. b \in Seq(PartType)
      BY <3>3, PartElements
    <3>5. \A p \in Elements(b) : Sectors(p) = low .. low + length - 1
      BY <3>3, PartElements
    <3>6. \A p \in Elements(b) : p.shift = RemappedAreaOffset
      BY <3>3, PartShift
    <3>7. length > 0 => \E p \in Elements(b) : Sectors(p) = low .. low + length - 1
      BY <3>3, PartElements
    <3> QED
      BY <3>2, <3>4, <3>5, <3>6, <3>7
  <2>9. /\ c \in Seq(PartType) /\ \A p \in Elements(c) : Sectors(p) = end .. last /\ p.shift = 0
        /\ end <= last => \E p \in Elements(c) : Sectors(p) = end .. last
    <3>1. PICK length \in Int : length = r.offset + r.length - end
      BY <1>0, <2>21
    <3>2. end + length - 1 = last /\ (end <= last => length > 0)
      BY <1>0, <2>21, <3>1
    <3>3. c = PartAt(end, length, 0) /\ end \in Nat /\ 0 \in Nat
      BY <1>0, <1>1, <2>4, <2>6, <3>1
    <3>4. c \in Seq(PartType)
      BY <3>3, PartElements
    <3>5. \A p \in Elements(c) : Sectors(p) = end .. end + length - 1
      BY <3>3, PartElements
    <3>6. \A p \in Elements(c) : p.shift = 0
      BY <3>3, PartShift
    <3>7. length > 0 => \E p \in Elements(c) : Sectors(p) = end .. end + length - 1
      BY <3>3, PartElements
    <3> QED
      BY <3>2, <3>4, <3>5, <3>6, <3>7
  <2> DEFINE All == Elements(a) \cup Elements(b) \cup Elements(c)
  <2>10. Parts(r) \in Seq(PartType) /\ Elements(Parts(r)) = All
    <3>1. a \o b \in Seq(PartType) /\ Elements(a \o b) = Elements(a) \cup Elements(b)
      BY <2>7, <2>8, Joined
    <3>2. PICK ab : ab = a \o b
      OBVIOUS
    <3>3. ab \in Seq(PartType) /\ c \in Seq(PartType)
      BY <2>9, <3>1, <3>2
    <3>4. ab \o c \in Seq(PartType) /\ Elements(ab \o c) = Elements(ab) \cup Elements(c)
      BY <3>3, Joined
    <3> QED
      BY <2>4, <3>1, <3>2, <3>4
  <2>11. ASSUME NEW p \in All, NEW s \in Sectors(p)
         PROVE  s \in Sectors(r) /\ Location(s) = s + p.shift
    <3>1. CASE p \in Elements(b)
      <4>1. s \in low .. high /\ p.shift = RemappedAreaOffset
        BY <2>8, <3>1
      <4>2. s \in r.offset .. last
        BY <1>0, <2>1, <2>2, <2>6, <4>1
      <4> QED
        BY <1>2, <1>4, <2>20, <2>2, <4>1, <4>2
    <3>2. CASE p \in Elements(a)
      <4>1. s \in r.offset .. low - 1 /\ p.shift = 0
        BY <2>7, <3>2
      <4>2. s \in r.offset .. last /\ s \notin low .. high /\ s + 0 = s
        BY <1>0, <2>1, <2>2, <2>6, <4>1
      <4> QED
        BY <1>2, <2>20, <2>2, <4>1, <4>2
    <3>3. CASE p \in Elements(c)
      <4>1. s \in end .. last /\ p.shift = 0
        BY <2>9, <3>3
      <4>2. s \in r.offset .. last /\ s \notin low .. high /\ s + 0 = s
        BY <1>0, <2>1, <2>2, <2>3, <2>6, <4>1
      <4> QED
        BY <1>2, <2>20, <2>2, <4>1, <4>2
    <3> QED
      BY <3>1, <3>2, <3>3
  <2>12. ASSUME NEW s \in Sectors(r)
         PROVE  \E p \in All : s \in Sectors(p)
    <3>0. s \in r.offset .. last /\ s \in Nat
      BY <2>20, <2>6
    <3>1. CASE s < low
      <4>1. s \in r.offset .. low - 1 /\ r.offset <= low - 1
        BY <1>0, <2>6, <3>0, <3>1
      <4> QED
        BY <2>7, <4>1
    <3>2. CASE s \in low .. high
      BY <2>2, <2>8, <3>2
    <3>3. CASE s >= end
      <4>1. s \in end .. last /\ end <= last
        BY <2>1, <2>6, <3>0, <3>3
      <4> QED
        BY <2>9, <4>1
    <3> QED
      BY <2>6, <3>1, <3>2, <3>3
  <2>13. Parts(r) # << >>
    <3>1. low \in Sectors(r)
      BY <1>0, <2>20, <2>1, <2>2, <2>6
    <3>2. Elements(Parts(r)) # {}
      BY <2>10, <2>12, <3>1
    <3>3. DOMAIN << >> = {}
      OBVIOUS
    <3> QED
      BY <3>2, <3>3 DEF Elements
  <2>14. Covers(Parts(r))
    BY <2>10, <2>11, <2>12, <2>13
  <2> QED
    BY <1>4, <2>14 DEF Elements
<1> QED
  BY <1>3, <1>4


-----------------------------------------------------------------------------
(* The read-ahead buffer and the fragment buffers. *)
LEMMA ReadAheadKept ==
    ASSUME [Next]_vars, ~(IoPerform \/ IoReadAhead \/ HoldInvalidate)
    PROVE  UNCHANGED readAhead
<1>1. ASSUME NEW i, AddIrp(i) \/ Adding(i) \/ Collect(i)
      PROVE  UNCHANGED readAhead
  BY <1>1 DEF Adding, AddIrp, AddIrpQueue, AddIrpRefuse, AddIrpSignal, Collect, work
<1>2. ASSUME NEW t, AnyThread(t)
      PROVE  UNCHANGED readAhead
  BY <1>2 DEF AnyThread, Complete, Decrement, SignalIdle, Exit, work
<1>3. MainDequeue \/ MainGate \/ MainResumed \/ MainAccept \/ MainMisaligned \/ MainFragment
        \/ MainGetRequest \/ MainQueue => UNCHANGED readAhead
  BY DEF MainDequeue, MainGate, MainResumed, MainAccept, MainMisaligned, MainFragment,
         MainGetRequest, MainQueue, work
<1>4. IoFinish \/ IoHandOver \/ CompletionDecrypt => UNCHANGED readAhead
  BY DEF IoFinish, IoHandOver, CompletionDecrypt, work
<1>5. HoldWork => UNCHANGED readAhead
  BY DEF HoldWork, work
<1>6. Hold \/ (Holder /\ ~HoldInvalidate) \/ Stop \/ Stopper => UNCHANGED readAhead
  BY <1>5 DEF Hold, Holder, HoldTest, HoldWake, HoldFails, HoldRecheck, HoldClear, HoldSuspend,
         HoldConfirm, HoldUndo, Resume, ResumeSignal, Stop, Stopper, StopDrain,
         StopWait, StopJoin, io, work
<1>7. UNCHANGED vars => UNCHANGED readAhead
  BY DEF vars
<1> QED
  BY <1>1, <1>2, <1>3, <1>4, <1>6, <1>7
     DEF Next, MainThreadProc, IoThreadProc, CompletionThreadProc

LEMMA HeldReached == [Next]_vars /\ hold' = "held" => hold = "held" \/ HoldInvalidate
<1>1. ASSUME NEW i, AddIrp(i) \/ Adding(i) \/ Collect(i)
      PROVE  UNCHANGED hold
  BY <1>1 DEF Adding, AddIrp, AddIrpQueue, AddIrpRefuse, AddIrpSignal, Collect, suspension, control
<1>2. ASSUME NEW t, AnyThread(t)
      PROVE  UNCHANGED hold
  BY <1>2 DEF AnyThread, Complete, Decrement, SignalIdle, Exit, suspension, control
<1>3. MainDequeue \/ MainGate \/ MainResumed \/ MainAccept \/ MainMisaligned \/ MainFragment
        \/ MainGetRequest \/ MainQueue => UNCHANGED hold
  BY DEF MainDequeue, MainGate, MainResumed, MainAccept, MainMisaligned, MainFragment,
         MainGetRequest, MainQueue, suspension, control
<1>4. IoPerform \/ IoFinish \/ IoHandOver \/ IoReadAhead \/ CompletionDecrypt => UNCHANGED hold
  BY DEF IoPerform, IoFinish, IoHandOver, IoReadAhead, CompletionDecrypt, suspension, control
<1>5. Hold \/ (Holder /\ ~HoldInvalidate) \/ Stop \/ Stopper => hold' = hold \/ hold' # "held"
  BY DEF Hold, Holder, HoldTest, HoldWake, HoldFails, HoldRecheck, HoldClear, HoldSuspend,
         HoldConfirm, HoldUndo, HoldWork, Resume, ResumeSignal, Stop, Stopper, StopDrain,
         StopWait, StopJoin, HoldGoes, control, suspension
<1>6. UNCHANGED vars => UNCHANGED hold
  BY DEF vars
<1> QED
  BY <1>1, <1>2, <1>3, <1>4, <1>5, <1>6
     DEF Next, MainThreadProc, IoThreadProc, CompletionThreadProc

LEMMA ReadAheadStep ==
    ASSUME AllInv, DataInv, ReadAheadInv, [Next]_vars
    PROVE  ReadAheadInv'
<1>0. readAhead = [valid |-> readAhead.valid, offset |-> readAhead.offset,
                   length |-> readAhead.length, content |-> readAhead.content,
                   lastOffset |-> readAhead.lastOffset, lastLength |-> readAhead.lastLength]
  BY DEF ReadAheadInv
<1>1. CASE HoldInvalidate
  <2>1. UNCHANGED disk /\ readAhead' = [readAhead EXCEPT !.valid = FALSE]
    BY <1>1 DEF HoldInvalidate, Invalidated, device
  <2> QED
    BY <2>1 DEF ReadAheadInv
<1>2. CASE HoldWork
  <2>1. UNCHANGED <<readAhead, hold>> /\ hold = "held"
    BY <1>2 DEF HoldWork, HoldAt, work, control, suspension
  <2> QED
    BY <2>1 DEF ReadAheadInv
<1>3. CASE UNCHANGED <<readAhead, disk>> /\ ~HoldInvalidate
  BY <1>3, HeldReached DEF ReadAheadInv
<1>4. CASE IoReadAhead
  <2> DEFINE offset == readAhead.lastOffset + readAhead.lastLength
             length == readAhead.lastLength
  <2>1. PICK valid \in BOOLEAN :
           readAhead' = [readAhead EXCEPT
                  !.valid = valid, !.offset = offset, !.length = length,
                  !.content = IF valid THEN [a \in offset .. offset + length - 1 |-> disk[a]]
                              ELSE << >>]
    <3>1. PICK ok \in Outcome :
             LET valid == ok /\ offset + length <= queue.MaxReadAheadOffset IN
             readAhead' = [readAhead EXCEPT
                  !.valid = valid, !.offset = offset, !.length = length,
                  !.content = IF valid THEN [a \in offset .. offset + length - 1 |-> disk[a]]
                              ELSE << >>]
      BY <1>4 DEF IoReadAhead
    <3>2. (ok /\ offset + length <= queue.MaxReadAheadOffset) \in BOOLEAN
      OBVIOUS
    <3> QED
      BY <3>1, <3>2
  <2>2. UNCHANGED <<disk, hold>> /\ hold # "held"
    BY <1>4 DEF IoReadAhead, device, control, suspension, AllInv, HeldInv, Harmless, At, Threads
  <2>3. offset \in Nat /\ length \in Nat
    BY DEF ReadAheadInv
  <2> DEFINE content == IF valid THEN [a \in offset .. offset + length - 1 |-> disk[a]] ELSE << >>
  <2>4. valid => \A a \in offset .. offset + length - 1 : content[a] = disk[a]
    OBVIOUS
  <2>5. readAhead' = [readAhead EXCEPT !.valid = valid, !.offset = offset, !.length = length,
                                       !.content = content]
    BY <2>1
  <2> HIDE DEF offset, length, content
  <2>6. readAhead' = [valid |-> valid, offset |-> offset, length |-> length, content |-> content,
                      lastOffset |-> readAhead.lastOffset, lastLength |-> readAhead.lastLength]
    BY <1>0, <2>5
  <2> QED
    BY <2>2, <2>3, <2>4, <2>6 DEF ReadAheadInv
<1>5. CASE IoPerform
  <2>1. PICK r \in Queued : r = Head(ioQueue)
    BY <1>5, Members DEF IoPerform, Queued, AllInv, Pipeline, Types
  <2>2. UNCHANGED hold /\ hold # "held"
    BY <1>5 DEF IoPerform, control, suspension, AllInv, HeldInv
  <2>3. CASE IoWrite(r)
    BY <1>0, <2>2, <2>3 DEF IoWrite, Invalidated, ReadAheadInv
  <2>4. CASE IoRead(r)
    <3>1. PICK last : /\ last = Parts(r)[Len(Parts(r))]
                      /\ readAhead' = [readAhead EXCEPT !.lastOffset = last.offset + last.shift,
                                                        !.lastLength = last.length]
                      /\ UNCHANGED disk
      BY <2>4 DEF IoRead
    <3>2. last \in PartType
      <4>1. Parts(r) \in Seq(PartType) /\ Parts(r) # << >>
        BY PartsCover
      <4>2. Len(Parts(r)) \in 1 .. Len(Parts(r))
        BY <4>1, Taken
      <4> QED
        BY <3>1, <4>1, <4>2, Lengths
    <3>3. last.offset + last.shift \in Nat /\ last.length \in Nat
      BY <3>2 DEF PartType
    <3>4. PICK offset \in Nat, length \in Nat :
             readAhead' = [readAhead EXCEPT !.lastOffset = offset, !.lastLength = length]
      BY <3>1, <3>3
    <3> QED
      BY <1>0, <2>2, <3>1, <3>4 DEF ReadAheadInv
  <2>5. CASE IoSkip(r)
    BY <1>0, <2>2, <2>5 DEF IoSkip, ReadAheadInv
  <2> QED
    BY <1>5, <2>1, <2>3, <2>4, <2>5 DEF IoPerform
<1> QED
  BY <1>1, <1>2, <1>3, <1>4, <1>5, ReadAheadKept, DiskKept


\* What the requests under way depend on changes in a few steps only.
LEMMA RequestSteps ==
    ASSUME Pipeline, [Next]_vars
    PROVE  /\ UNCHANGED ioQueue \/ IoPerform \/ MainQueue
           /\ UNCHANGED completionQueue \/ IoHandOver \/ CompletionDecrypt
           /\ UNCHANGED <<fragmentBuffer, fragmentBufferFree>> \/ MainQueue \/ IoPerform \/ IoFinish
           /\ UNCHANGED cursor \/ MainAccept \/ MainQueue
           /\ \/ UNCHANGED thread["io"] \/ IoPerform \/ IoFinish \/ IoHandOver
              \/ {thread["io"].pc, thread'["io"].pc} \cap {"finish", "handOver"} = {}
           /\ \/ UNCHANGED thread["main"] \/ MainAccept \/ MainFragment \/ MainGetRequest \/ MainQueue
              \/ thread'["main"].pc \notin Splitting
<1>0. Types /\ "main" \in Threads /\ "io" \in Threads /\ "completion" \in Threads
  BY DEF Pipeline, Threads
<1> DEFINE Same == UNCHANGED <<ioQueue, completionQueue, fragmentBuffer, fragmentBufferFree, cursor>>
<1>1. ASSUME NEW t \in Threads, AnyThread(t)
      PROVE  /\ Same /\ \A u \in Threads : u # t => thread'[u] = thread[u]
             /\ {thread[t].pc, thread'[t].pc} \cap {"finish", "handOver", "fragment", "getRequest", "queue"} = {}
  <2>1. Same
    BY <1>1 DEF AnyThread, Complete, Decrement, SignalIdle, Exit, queues, work, buffers
  <2>2. thread'[t].pc \in {"decrement", "idle", "signal", "signalReadAhead", "exited"}
    BY <1>0, <1>1, AnyPc DEF AnyThread
  <2>3. thread[t].pc \in {"complete", "decrement", "readAheadDone", "signal", "signalReadAhead", "idle"}
    BY <1>1 DEF AnyThread, Complete, Decrement, SignalIdle, Exit, At
  <2> QED
    BY <1>0, <1>1, <2>1, <2>2, <2>3, OneThread
<1>2. CASE \E t \in Threads : AnyThread(t)
  BY <1>0, <1>1, <1>2 DEF Splitting, Threads
<1>3. MainDequeue \/ MainGate \/ MainResumed \/ MainMisaligned =>
          Same /\ thread'["main"].pc \notin Splitting
  BY <1>0, MainPc DEF MainDequeue, MainGate, MainResumed, MainMisaligned, work, buffers, queues, Splitting
<1>4. /\ MainFragment \/ MainGetRequest => Same
      /\ MainAccept => UNCHANGED <<queues, fragmentBuffer, fragmentBufferFree>>
  BY DEF MainFragment, MainGetRequest, MainAccept, buffers, queues
<1>5. /\ MainThreadProc => thread'["io"] = thread["io"]
      /\ IoThreadProc \/ CompletionThreadProc => thread'["main"] = thread["main"]
      /\ CompletionThreadProc => thread'["io"] = thread["io"]
  BY <1>0, OneThread
<1>6. IoReadAhead => /\ Same
                     /\ {thread["io"].pc, thread'["io"].pc} \cap {"finish", "handOver"} = {}
  BY <1>0, OtherPc DEF IoReadAhead, At, buffers, queues
<1>7. /\ MainQueue => UNCHANGED completionQueue
      /\ IoPerform => UNCHANGED <<completionQueue, cursor>>
      /\ IoFinish => UNCHANGED <<queues, cursor>>
      /\ IoHandOver => UNCHANGED <<ioQueue, work>>
      /\ CompletionDecrypt => UNCHANGED <<ioQueue, cursor, buffers>>
  BY DEF MainQueue, IoPerform, IoFinish, IoHandOver, CompletionDecrypt
<1>8. CASE MainThreadProc
  BY <1>0, <1>2, <1>3, <1>4, <1>5, <1>7, <1>8 DEF MainThreadProc, queues
<1>9. CASE IoThreadProc \/ CompletionThreadProc
  BY <1>0, <1>2, <1>5, <1>6, <1>7, <1>9 DEF IoThreadProc, CompletionThreadProc, queues, work, buffers
<1>10. CASE \E i \in Irps : AddIrp(i) \/ Adding(i) \/ Collect(i)
  <2>1. Same /\ UNCHANGED thread
    BY <1>10 DEF Adding, AddIrp, AddIrpQueue, AddIrpRefuse, AddIrpSignal, Collect, work, buffers, queues
  <2> QED
    BY <2>1
<1>11. CASE Hold \/ Holder \/ Stop \/ Stopper
  <2>1. UNCHANGED <<fragmentBuffer, fragmentBufferFree>>
    BY <1>11 DEF Hold, Holder, HoldTest, HoldWake, HoldFails, HoldRecheck, HoldClear, HoldSuspend,
                 HoldConfirm, HoldUndo, HoldInvalidate, HoldWork, Resume, ResumeSignal, Stop, Stopper,
                 StopDrain, StopWait, StopJoin, io, work, buffers
  <2> QED
    BY <1>11, <2>1, ControlFrame DEF queues
<1>12. CASE UNCHANGED vars
  BY <1>12 DEF vars
<1> QED
  BY <1>8, <1>9, <1>10, <1>11, <1>12 DEF Next


\* A part that has been read is what is on the device.
LEMMA PartRead ==
    ASSUME ReadAheadInv, NEW p \in PartType, NEW s \in Sectors(p), Cached(p)
    PROVE  readAhead.content[s + p.shift] = disk[s + p.shift]
<1>1. p.offset \in Nat /\ p.length \in Nat /\ p.shift \in Nat /\ s \in p.offset .. p.offset + p.length - 1
  BY DEF PartType, Sectors
<1>2. /\ readAhead.valid /\ readAhead.offset = p.offset + p.shift /\ readAhead.length >= p.length
      /\ readAhead.length \in Nat
  BY DEF Cached, ReadAheadInv
<1>3. PICK a \in Nat : a = s + p.shift
  BY <1>1
<1>4. a \in readAhead.offset .. readAhead.offset + readAhead.length - 1
  BY <1>1, <1>2, <1>3
<1> QED
  BY <1>2, <1>3, <1>4 DEF ReadAheadInv

LEMMA ReadWhole ==
    ASSUME Faultless, AllInv, DataInv, ReadAheadInv, NEW r \in Queued, IoRead(r),
           irp'[r.irp].status = "ok"
    PROVE  fragmentBuffer'[r.buffer] = [s \in Sectors(r) |-> disk[Location(s)]]
<1> DEFINE parts == Parts(r)
           Read(s, ok) ==
              LET n == CHOOSE n \in DOMAIN parts : s \in Sectors(parts[n])
                  a == s + parts[n].shift
              IN  IF ~ok[n] THEN Stale
                  ELSE IF Cached(parts[n]) THEN readAhead.content[a] ELSE disk[a]
<1>1. PICK ok \in [DOMAIN parts -> Outcome] :
         /\ fragmentBuffer' = [fragmentBuffer EXCEPT ![r.buffer] = [s \in Sectors(r) |-> Read(s, ok)]]
         /\ irp' = [irp EXCEPT ![r.irp].status = LastStatus(parts, ok)]
  BY DEF IoRead
<1>2. /\ r \in Carried /\ r.irp \in Irps /\ r.buffer \in {"A", "B"} /\ queue \in Queues
      /\ irp \in [Irps -> IrpType] /\ fragmentBuffer = [b \in {"A", "B"} |-> fragmentBuffer[b]]
  BY CarriedFacts DEF Carried, Request, AllInv, Pipeline, Types, DataInv, BufferInv
<1>3. ok[Len(parts)]
  BY <1>1, <1>2 DEF LastStatus, IrpType
<1>4. /\ parts \in Seq(PartType)
      /\ \A n \in DOMAIN parts : \A s \in Sectors(parts[n]) :
            s \in Sectors(r) /\ Location(s) = s + parts[n].shift
      /\ \A s \in Sectors(r) : \E n \in DOMAIN parts : s \in Sectors(parts[n])
      /\ ~RemapEncryptedArea => Len(parts) = 1
  BY PartsCover
<1> HIDE DEF parts
<1>5. ASSUME NEW n \in DOMAIN parts PROVE ok[n] = TRUE
  <2>1. CASE RemapEncryptedArea
    BY <1>2, <2>1 DEF Faultless, RemapEncryptedArea, Outcome
  <2>2. CASE ~RemapEncryptedArea
    <3>1. n = Len(parts)
      BY <1>4, <2>2
    <3>2. ok[n] \in BOOLEAN
      BY DEF Outcome
    <3> QED
      BY <1>3, <3>1, <3>2
  <2> QED
    BY <2>1, <2>2
<1>6. ASSUME NEW s \in Sectors(r) PROVE Read(s, ok) = disk[Location(s)]
  <2> DEFINE n == CHOOSE n \in DOMAIN parts : s \in Sectors(parts[n])
  <2>1. n \in DOMAIN parts /\ s \in Sectors(parts[n])
    BY <1>4
  <2>2. Read(s, ok) = IF ~ok[n] THEN Stale
                      ELSE IF Cached(parts[n]) THEN readAhead.content[s + parts[n].shift]
                           ELSE disk[s + parts[n].shift]
    OBVIOUS
  <2> HIDE DEF n, Read
  <2>3. ok[n] = TRUE /\ Location(s) = s + parts[n].shift /\ parts[n] \in PartType
    <3>1. ok[n] = TRUE
      BY <1>5, <2>1
    <3>2. Location(s) = s + parts[n].shift
      BY <1>4, <2>1
    <3>3. parts[n] \in PartType
      BY <1>4, <2>1
    <3> QED
      BY <3>1, <3>2, <3>3
  <2>4. Cached(parts[n]) => readAhead.content[s + parts[n].shift] = disk[s + parts[n].shift]
    BY <2>1, <2>3, PartRead
  <2> QED
    BY <2>2, <2>3, <2>4
<1> HIDE DEF Read
<1>7. [s \in Sectors(r) |-> Read(s, ok)] = [s \in Sectors(r) |-> disk[Location(s)]]
  BY <1>6
<1> QED
  BY <1>1, <1>2, <1>7

LEMMA ReadStep ==
    ASSUME Faultless, AllInv, DataInv, ReadAheadInv, ReadInv, [Next]_vars
    PROVE  ReadInv'
<1>0. Pipeline /\ Types /\ "io" \in Threads /\ "main" \in Threads
  BY DEF AllInv, Pipeline, Threads
<1> SUFFICES ASSUME NEW r \in Carried', At("io", "finish")', r = thread'["io"].request,
                    ~irp'[r.irp].write, irp'[r.irp].status = "ok"
             PROVE  fragmentBuffer'[r.buffer] = [s \in Sectors(r) |-> disk'[Location(s)']]
  BY DEF ReadInv, Sectors
<1>1. ASSUME UNCHANGED <<queue, EncryptedAreaEnd>>, NEW s
      PROVE  Location(s)' = Location(s)
  BY <1>1 DEF Location, RemapEncryptedArea, EncryptedPart, IsFilterDevice, EncryptedAreaStart,
              RemappedAreaOffset
<1>2. CASE IoPerform
  <2>1. PICK q \in Queued : q = Head(ioQueue)
    BY <1>0, <1>2, Members DEF IoPerform, Queued, Types
  <2>2. q = r /\ UNCHANGED <<queue, EncryptedAreaEnd>>
    BY <1>0, <1>2, <2>1 DEF IoPerform, Types
  <2>3. ~irp[r.irp].write
    BY <1>0, <1>2, <2>1, <2>2, CarriedFacts, PendingSame DEF SameIrp, Carried
  <2>4. IoRead(r)
    BY <1>2, <2>1, <2>2, <2>3 DEF IoPerform, IoSkip
  <2>5. UNCHANGED disk
    BY <2>4 DEF IoRead
  <2> QED
    BY <1>1, <2>1, <2>2, <2>4, <2>5, ReadWhole
<1>3. CASE ~IoPerform
  <2>1. ~IoFinish /\ ~IoHandOver
    BY <1>0, OtherPc DEF At
  <2>2. thread'["io"] = thread["io"] /\ r \in Carried /\ At("io", "finish")
    BY <1>0, <1>3, <2>1, RequestSteps DEF At, Carried, HasRequest
  <2>3. r \in Request /\ r.irp \in Irps /\ irp[r.irp].pc = "pending" /\ r.irp = thread["io"].irp
    BY <1>0, <2>2, CarriedFacts DEF Pipeline, PendingInv, Working, At
  <2>4. PICK i \in Irps : i = r.irp
    BY <2>3
  <2>5. ~irp[i].write
    BY <1>0, <2>3, <2>4, PendingSame DEF SameIrp
  <2>6. irp[i].status = "ok"
    <3>1. ~AddIrp(i) /\ ~Collect(i)
      BY <2>3, <2>4 DEF AddIrp, Collect, IrpAt
    <3>2. ~(MainMisaligned /\ i = thread["main"].irp)
      <4>1. ASSUME thread["main"].pc = "misaligned" PROVE i # thread["main"].irp
        BY <1>0, <2>2, <2>3, <2>4, <4>1 DEF Pipeline, WaitingInv, Working, Splitting, At, Threads
      <4> QED
        BY <4>1 DEF MainMisaligned, At
    <3> QED
      BY <1>0, <2>4, <3>1, <3>2, StatusSteps
  <2>7. fragmentBuffer[r.buffer] = [s \in Sectors(r) |-> disk[Location(s)]]
    BY <2>2, <2>4, <2>5, <2>6 DEF ReadInv
  <2>8. ~HoldWork
    BY <2>2 DEF HoldWork, HoldAt, AllInv, HeldInv, Harmless, At, Threads
  <2>9. UNCHANGED <<queue, EncryptedAreaEnd, disk>>
    BY <1>3, <2>8, QueueKept, AreaKept, DiskKept
  <2>10. fragmentBuffer'[r.buffer] = fragmentBuffer[r.buffer]
    <3>1. CASE MainQueue
      <4>1. PICK q : q = thread["main"].request /\ fragmentBufferFree[q.buffer]
                     /\ \/ UNCHANGED fragmentBuffer
                        \/ \E new : fragmentBuffer' = [fragmentBuffer EXCEPT ![q.buffer] = new]
        BY <3>1 DEF MainQueue
      <4>2. r.buffer # q.buffer /\ r.buffer \in {"A", "B"}
        BY <2>2, <2>3, <4>1 DEF DataInv, BufferInv, Request
      <4> QED
        BY <4>1, <4>2 DEF DataInv, BufferInv
    <3> QED
      BY <1>0, <1>3, <2>1, <3>1, RequestSteps
  <2> QED
    BY <1>1, <2>7, <2>9, <2>10
<1> QED
  BY <1>2, <1>3


-----------------------------------------------------------------------------
(* The fragments of an IRP do not overlap. *)
LEMMA SortedStep ==
    ASSUME NEW q \in Seq(Request), Sorted(q)
    PROVE  /\ \A x \in Request : (\A r \in {q[n] : n \in 1 .. Len(q)} : Before(r, x.irp, x.offset)) =>
                  Sorted(Append(q, x))
           /\ q # << >> => /\ Sorted(Tail(q))
                           /\ \A r \in {Tail(q)[n] : n \in 1 .. Len(Tail(q))} :
                                 Before(Head(q), r.irp, r.offset)
<1>1. ASSUME NEW x \in Request, \A r \in {q[n] : n \in 1 .. Len(q)} : Before(r, x.irp, x.offset)
      PROVE  Sorted(Append(q, x))
  <2> DEFINE p == Append(q, x)
  <2>1. /\ Len(q) \in Nat /\ Len(p) = Len(q) + 1 /\ p[Len(q) + 1] = x
        /\ \A n \in 1 .. Len(q) : p[n] = q[n]
    BY Added
  <2> HIDE DEF p
  <2>2. \A n \in 1 .. Len(q) : Before(q[n], x.irp, x.offset)
    BY <1>1
  <2>3. ASSUME NEW m \in 1 .. Len(p), NEW n \in 1 .. Len(p), m < n
        PROVE  Before(p[m], p[n].irp, p[n].offset)
    <3>1. CASE n = Len(q) + 1
      BY <2>1, <2>2, <2>3, <3>1
    <3>2. CASE n # Len(q) + 1
      BY <2>1, <2>3, <3>2 DEF Sorted
    <3> QED
      BY <3>1, <3>2
  <2> QED
    BY <2>3 DEF Sorted, p
<1>2. ASSUME q # << >>
      PROVE  /\ Sorted(Tail(q))
             /\ \A r \in {Tail(q)[n] : n \in 1 .. Len(Tail(q))} : Before(Head(q), r.irp, r.offset)
  <2> DEFINE p == Tail(q)
  <2>1. /\ Len(q) \in Nat \ {0} /\ Len(p) = Len(q) - 1 /\ Head(q) = q[1]
        /\ \A n \in 1 .. Len(q) - 1 : p[n] = q[n + 1]
    BY <1>2, Taken
  <2> HIDE DEF p
  <2>2. \A n \in 1 .. Len(p) : n + 1 \in 1 .. Len(q) /\ 1 < n + 1 /\ p[n] = q[n + 1]
    BY <2>1
  <2>3. ASSUME NEW m \in 1 .. Len(p), NEW n \in 1 .. Len(p), m < n
        PROVE  Before(p[m], p[n].irp, p[n].offset)
    <3>1. m + 1 < n + 1
      BY <2>3
    <3> QED
      BY <2>2, <3>1 DEF Sorted
  <2>4. 1 \in 1 .. Len(q)
    BY <2>1
  <2>5. \A n \in 1 .. Len(p) : Before(q[1], p[n].irp, p[n].offset)
    BY <2>2, <2>4 DEF Sorted
  <2> QED
    BY <2>1, <2>3, <2>5 DEF Sorted, p
<1> QED
  BY <1>1, <1>2

LEMMA OrderStep ==
    ASSUME AllInv, DataInv, OrderInv, [Next]_vars
    PROVE  OrderInv'
<1> DEFINE main == thread["main"]
<1>0. /\ Pipeline /\ Types /\ "main" \in Threads /\ "io" \in Threads /\ "completion" \in Threads
      /\ ioQueue \in Seq(Request) /\ completionQueue \in Seq(Request)
  BY DEF AllInv, Pipeline, Types, Threads
<1>1. ASSUME UNCHANGED <<ioQueue, completionQueue>>, Performing' \subseteq Performing,
             main'.pc \in Splitting => main.pc \in Splitting /\ UNCHANGED <<main.irp, cursor>>
      PROVE  OrderInv'
  <2>1. Handed' = Handed /\ Queued' = Queued
    BY <1>1 DEF Handed, Queued
  <2>2. Sorted(completionQueue)' /\ Sorted(ioQueue)'
    BY <1>1 DEF OrderInv, Sorted
  <2> QED
    BY <1>1, <2>1, <2>2 DEF OrderInv
<1>2. MainThreadProc => UNCHANGED thread["io"] /\ Performing' = Performing
  BY <1>0, OneThread DEF Performing, HasRequest
<1>3. IoThreadProc \/ CompletionThreadProc => UNCHANGED main
  BY <1>0, OneThread
<1>4. CASE MainAccept
  <2>1. UNCHANGED <<ioQueue, completionQueue>> /\ Handed' = Handed /\ Queued' = Queued
    BY <1>4 DEF MainAccept, queues, Handed, Queued
  <2>2. ASSUME main'.pc \in Splitting
        PROVE  \A r \in Handed \cup Queued \cup Performing : r.irp # main'.irp
    <3>1. main.pc = "accept" /\ main'.irp = main.irp
      <4>1. Goes("main", "fragment") \/ Goes("main", "misaligned") \/ Goes("main", "complete")
        BY <1>4 DEF MainAccept
      <4> QED
        BY <1>0, <1>4, <4>1, GoesFacts DEF MainAccept, At, ThreadPc
    <3>2. /\ \A n \in 1 .. Len(ioQueue) : ioQueue[n].irp # main.irp
          /\ \A n \in 1 .. Len(completionQueue) : completionQueue[n].irp # main.irp
          /\ thread["io"].pc \in Working => thread["io"].irp # main.irp
      BY <1>0, <3>1 DEF Pipeline, WaitingInv, Working, Splitting
    <3>3. HasRequest => thread["io"].request.irp # main.irp
      BY <1>0, <3>2 DEF HasRequest, Working, Pipeline, PendingInv
    <3> QED
      BY <3>1, <3>2, <3>3 DEF Handed, Queued, Performing
  <2>3. Sorted(completionQueue)' /\ Sorted(ioQueue)'
    BY <2>1 DEF OrderInv, Sorted
  <2> QED
    BY <1>2, <1>4, <2>1, <2>2, <2>3 DEF OrderInv, Before, MainThreadProc
<1>5. CASE MainFragment \/ MainGetRequest
  <2>1. UNCHANGED <<ioQueue, completionQueue, cursor, main.irp>> /\ main.pc \in Splitting
    <3>1. CASE MainFragment
      <4>1. Goes("main", "getRequest")
        BY <3>1 DEF MainFragment
      <4> QED
        BY <1>0, <3>1, <4>1, GoesFacts DEF MainFragment, queues, At, Splitting, ThreadPc
    <3>2. CASE MainGetRequest
      BY <1>0, <3>2 DEF MainGetRequest, queues, At, Splitting, Types, ThreadType
    <3> QED
      BY <1>5, <3>1, <3>2
  <2> QED
    BY <1>1, <1>2, <1>5, <2>1 DEF MainThreadProc
<1>6. CASE MainQueue
  <2>1. PICK q \in Carried : q = main.request
    BY <1>6 DEF MainQueue, Carried
  <2>2. /\ main.pc = "queue" /\ ioQueue' = Append(ioQueue, q) /\ UNCHANGED completionQueue
        /\ ~q.last => cursor' = NextFragment
        /\ thread' = [thread EXCEPT !["main"] =
                        IF q.last THEN Idle ELSE [Idle EXCEPT !.pc = "fragment", !.irp = q.irp]]
    BY <1>6, <2>1 DEF MainQueue, At
  <2>3. q \in Request /\ q.irp = main.irp /\ q.irp \in Irps
    BY <1>0, <2>1, <2>2, CarriedFacts DEF Pipeline, PendingInv, Working, At, Threads
  <2>4. /\ q.offset = cursor.offset /\ q.offset \in Nat /\ MaxFragment \in Nat
        /\ ~q.last => q.length = MaxFragment
    BY <1>0, <2>1, <2>2, <2>3, QueueFacts DEF DataInv, SplitInv, At, Request, QueueType, MaxFragment
  <2>5. Handed' = Handed /\ Queued' = Queued \cup {q} /\ Performing' = Performing
    BY <1>0, <1>2, <1>6, <2>2, <2>3, Members DEF Handed, Queued, MainThreadProc
  <2>6. \A r \in Handed \cup Queued \cup Performing : Before(r, q.irp, q.offset)
    BY <2>2, <2>3, <2>4 DEF OrderInv, Splitting
  <2>7. Sorted(completionQueue)' /\ Sorted(ioQueue)'
    <3>1. Sorted(completionQueue')
      BY <2>2 DEF OrderInv
    <3>2. Sorted(Append(ioQueue, q))
      BY <1>0, <2>3, <2>6, SortedStep DEF OrderInv, Queued
    <3> QED
      BY <2>2, <3>1, <3>2 DEF Sorted
  <2>8. ASSUME main'.pc \in Splitting, NEW r \in Handed \cup Queued \cup Performing \cup {q}
        PROVE  Before(r, main'.irp, cursor'.offset)
    <3>1. ~q.last /\ main'.irp = q.irp
      BY <1>0, <2>2, <2>8 DEF Types, Idle, Splitting
    <3>2. cursor'.offset = q.offset + MaxFragment
      BY <2>2, <2>4, <3>1 DEF NextFragment
    <3>3. r \in Request
      <4>1. Handed \cup Queued \cup Performing \subseteq Carried
        BY DEF Handed, Queued, Performing, Carried
      <4> QED
        BY <1>0, <2>3, <4>1, CarriedFacts
    <3>4. r.irp = q.irp => r.offset + r.length <= q.offset + MaxFragment
      <4>1. r.offset \in Nat /\ r.length \in Nat
        BY <3>3 DEF Request
      <4>2. CASE r = q
        BY <2>4, <3>1, <4>1, <4>2
      <4>3. CASE r # q
        BY <2>4, <2>6, <4>1, <4>3 DEF Before
      <4> QED
        BY <4>2, <4>3
    <3> QED
      BY <3>1, <3>2, <3>4 DEF Before
  <2> QED
    BY <2>5, <2>6, <2>7, <2>8 DEF OrderInv
<1>7. CASE IoPerform
  <2>1. PICK q \in Queued : q = Head(ioQueue)
    BY <1>0, <1>7, Members DEF IoPerform, Queued
  <2>2. /\ ioQueue # << >> /\ ioQueue' = Tail(ioQueue) /\ UNCHANGED <<completionQueue, cursor>>
        /\ thread["io"].pc = "idle" /\ thread'["io"].request = q
    BY <1>0, <1>7, <2>1 DEF IoPerform, At, Types
  <2>3. Handed' = Handed /\ Queued' \subseteq Queued /\ Performing' \subseteq {q} /\ UNCHANGED main
    BY <1>0, <1>3, <1>7, <2>2, Members DEF Handed, Queued, Performing, IoThreadProc
  <2>4. Sorted(ioQueue') /\ \A r \in Queued' : Before(q, r.irp, r.offset)
    BY <1>0, <2>1, <2>2, SortedStep DEF OrderInv, Queued
  <2>5. Sorted(completionQueue)' /\ Sorted(ioQueue)'
    BY <2>2, <2>4 DEF OrderInv, Sorted
  <2> QED
    BY <2>1, <2>2, <2>3, <2>4, <2>5 DEF OrderInv
<1>8. CASE IoFinish
  <2>1. UNCHANGED <<ioQueue, completionQueue, cursor>>
    BY <1>8 DEF IoFinish, queues
  <2>2. Performing' \subseteq Performing
    <3>1. PICK pc \in {"handOver", "complete", "idle"} : Goes("io", pc)
      BY <1>8 DEF IoFinish
    <3>2. thread'["io"].pc = pc /\ (pc # "idle" => thread'["io"].request = thread["io"].request)
      BY <1>0, <3>1, GoesFacts DEF ThreadPc
    <3> QED
      BY <1>8, <3>1, <3>2 DEF Performing, HasRequest, IoFinish, At
  <2> QED
    BY <1>1, <1>3, <1>8, <2>1, <2>2 DEF IoThreadProc
<1>9. CASE IoHandOver
  <2>1. PICK q \in Request : q = thread["io"].request
    BY <1>0 DEF Types, ThreadType
  <2>2. /\ completionQueue' = Append(completionQueue, q) /\ UNCHANGED <<ioQueue, cursor>>
        /\ q \in Performing
    BY <1>9, <2>1 DEF IoHandOver, At, Performing, HasRequest, work
  <2>3. Handed' = Handed \cup {q} /\ Queued' = Queued /\ Performing' = {} /\ UNCHANGED main
    <3>1. thread'["io"].pc \notin {"finish", "handOver"}
      BY <1>0, <1>9, OtherPc
    <3> QED
      BY <1>0, <1>3, <1>9, <2>2, <3>1, Members DEF Handed, Queued, Performing, HasRequest, IoThreadProc
  <2>4. Sorted(completionQueue') /\ Sorted(ioQueue)
    BY <1>0, <2>2, SortedStep DEF OrderInv, Handed
  <2>5. Sorted(completionQueue)' /\ Sorted(ioQueue)'
    BY <2>2, <2>4 DEF Sorted
  <2> QED
    BY <2>2, <2>3, <2>5 DEF OrderInv
<1>10. CASE CompletionDecrypt
  <2>1. completionQueue # << >> /\ completionQueue' = Tail(completionQueue) /\ UNCHANGED <<ioQueue, cursor>>
    BY <1>10 DEF CompletionDecrypt
  <2>2. Handed' \subseteq Handed /\ Queued' = Queued /\ Performing' = Performing /\ UNCHANGED main
    <3>1. UNCHANGED thread["io"]
      BY <1>0, <1>10, OneThread DEF CompletionThreadProc
    <3> QED
      BY <1>0, <1>3, <1>10, <2>1, <3>1, Members
         DEF Handed, Queued, Performing, HasRequest, CompletionThreadProc
  <2>3. Sorted(completionQueue') /\ Sorted(ioQueue)
    BY <1>0, <2>1, SortedStep DEF OrderInv
  <2>4. Sorted(completionQueue)' /\ Sorted(ioQueue)'
    BY <2>1, <2>3 DEF Sorted
  <2> QED
    BY <2>1, <2>2, <2>4 DEF OrderInv
<1>11. CASE /\ ~MainAccept /\ ~MainFragment /\ ~MainGetRequest /\ ~MainQueue
            /\ ~IoPerform /\ ~IoFinish /\ ~IoHandOver /\ ~CompletionDecrypt
  <2>1. UNCHANGED <<ioQueue, completionQueue, cursor>>
    BY <1>0, <1>11, RequestSteps
  <2>2. UNCHANGED thread["io"] \/ {thread["io"].pc, thread'["io"].pc} \cap {"finish", "handOver"} = {}
    BY <1>0, <1>11, RequestSteps
  <2>3. UNCHANGED main \/ main'.pc \notin Splitting
    BY <1>0, <1>11, RequestSteps
  <2> QED
    BY <1>1, <2>1, <2>2, <2>3 DEF Performing, HasRequest
<1> QED
  BY <1>4, <1>5, <1>6, <1>7, <1>8, <1>9, <1>10, <1>11


-----------------------------------------------------------------------------
(* Every sector read is decrypted as often as it is encrypted. *)
LEMMA MisalignedStep ==
    ASSUME Pipeline, MisalignedInv, [Next]_vars
    PROVE  MisalignedInv'
<1>0. Types /\ "main" \in Threads /\ "io" \in Threads /\ "completion" \in Threads
  BY DEF Pipeline, Threads
<1> SUFFICES ASSUME NEW i \in Irps, thread'["main"].pc = "misaligned", thread'["main"].irp = i
             PROVE  Misaligned(i)'
  BY DEF MisalignedInv, At
<1>1. ASSUME irp[i].pc = "pending", Misaligned(i) PROVE Misaligned(i)'
  BY <1>1, PendingSame, QueueKept DEF Misaligned, SameIrp, IsFilterDevice
<1>2. CASE UNCHANGED thread["main"]
  <2>1. At("main", "misaligned") /\ thread["main"].irp = i
    BY <1>2 DEF At
  <2>2. irp[i].pc = "pending"
    BY <1>0, <2>1 DEF Pipeline, PendingInv, Working, At
  <2> QED
    BY <1>1, <2>1, <2>2 DEF MisalignedInv
<1>3. CASE MainAccept
  <2>1. PICK j \in Irps : j = thread["main"].irp /\ irp[j].pc = "pending"
    BY <1>0, <1>3 DEF MainAccept, At, Pipeline, PendingInv, Working
  <2>2. PICK pc \in {"misaligned", "fragment", "complete"} :
           Goes("main", pc) /\ (pc = "misaligned" => Misaligned(j))
    BY <1>3, <2>1 DEF MainAccept
  <2>3. thread'["main"].pc = pc /\ thread'["main"].irp = j
    BY <1>0, <2>1, <2>2, GoesFacts DEF ThreadPc
  <2> QED
    BY <1>1, <2>1, <2>2, <2>3
<1>4. ASSUME NEW t \in Threads, AnyThread(t) PROVE UNCHANGED thread["main"]
  <2>1. thread'[t].pc # "misaligned"
    BY <1>0, <1>4, AnyPc DEF AnyThread
  <2> QED
    BY <1>0, <1>4, <2>1, OneThread
<1>5. CASE MainThreadProc
  BY <1>0, <1>2, <1>3, <1>4, <1>5, MainPc DEF MainThreadProc
<1>6. CASE IoThreadProc \/ CompletionThreadProc
  BY <1>0, <1>2, <1>6, OneThread
<1>7. CASE \E j \in Irps : AddIrp(j) \/ Adding(j) \/ Collect(j)
  BY <1>2, <1>7 DEF Adding, AddIrp, AddIrpQueue, AddIrpRefuse, AddIrpSignal, Collect
<1>8. CASE Hold \/ Holder \/ Stop \/ Stopper \/ UNCHANGED vars
  BY <1>2, <1>8, ControlFrame DEF vars
<1> QED
  BY <1>5, <1>6, <1>7, <1>8 DEF Next

LEMMA UndecryptedSteps ==
    ASSUME Pipeline, OrderInv, [Next]_vars
    PROVE  /\ Undecrypted \subseteq Carried /\ Undecrypted' \subseteq Carried'
           /\ ~IoFinish /\ ~CompletionDecrypt => Undecrypted' = Undecrypted
           /\ IoFinish => Undecrypted' = Undecrypted \cup
                 (IF irp[thread["io"].request.irp].write THEN {} ELSE {thread["io"].request})
           /\ CompletionDecrypt =>
                 /\ Head(completionQueue) \in Undecrypted
                 /\ Undecrypted' \subseteq Undecrypted
                 /\ Undecrypted \subseteq Undecrypted' \cup {Head(completionQueue)}
                 /\ \A r \in Undecrypted' :
                       Before(Head(completionQueue), r.irp, r.offset)
<1>0. /\ Types /\ "io" \in Threads /\ "completion" \in Threads
      /\ ioQueue \in Seq(Request) /\ completionQueue \in Seq(Request)
  BY DEF Pipeline, Types, Threads
<1>1. Undecrypted \subseteq Carried
  BY DEF Undecrypted, Carried, Handed, HasRequest, At
<1>2. Undecrypted' \subseteq Carried'
  BY DEF Undecrypted, Carried, Handed, HasRequest, At
<1>3. ASSUME IoHandOver PROVE Undecrypted' = Undecrypted
  <2>1. PICK q \in Request : q = thread["io"].request
    BY <1>0 DEF Types, ThreadType
  <2>2. completionQueue' = Append(completionQueue, q) /\ At("io", "handOver")
    BY <1>3, <2>1 DEF IoHandOver
  <2>3. thread'["io"].pc # "handOver"
    BY <1>0, <1>3, OtherPc
  <2>4. Handed' = Handed \cup {q}
    BY <1>0, <2>2, Members DEF Handed
  <2> QED
    BY <2>1, <2>2, <2>3, <2>4 DEF Undecrypted, At
<1>4. ASSUME ~IoFinish, ~CompletionDecrypt, ~IoHandOver PROVE Undecrypted' = Undecrypted
  <2>1. Handed' = Handed
    BY <1>0, <1>4, RequestSteps DEF Handed
  <2>2. IoPerform => ~At("io", "handOver") /\ ~At("io", "handOver")'
    BY <1>0, OtherPc DEF IoPerform, At
  <2> QED
    BY <1>0, <1>4, <2>1, <2>2, RequestSteps DEF Undecrypted, At
<1>5. ASSUME IoFinish
      PROVE  Undecrypted' = Undecrypted \cup
                 (IF irp[thread["io"].request.irp].write THEN {} ELSE {thread["io"].request})
  <2>1. Handed' = Handed /\ thread["io"].pc = "finish"
    BY <1>5 DEF Handed, IoFinish, queues, At
  <2>2. thread'["io"].pc = "handOver" <=> ~irp[thread["io"].request.irp].write
    BY <1>0, <1>5, OtherPc
  <2>3. thread'["io"].pc = "handOver" => thread'["io"].request = thread["io"].request
    <3>1. PICK pc \in {"handOver", "complete", "idle"} : Goes("io", pc)
      BY <1>5 DEF IoFinish
    <3> QED
      BY <1>0, <3>1, GoesFacts DEF ThreadPc
  <2> QED
    BY <2>1, <2>2, <2>3 DEF Undecrypted, At
<1>6. ASSUME CompletionDecrypt
      PROVE  /\ Head(completionQueue) \in Undecrypted
             /\ Undecrypted' \subseteq Undecrypted
             /\ Undecrypted \subseteq Undecrypted' \cup {Head(completionQueue)}
             /\ \A r \in Undecrypted' : Before(Head(completionQueue), r.irp, r.offset)
  <2>1. completionQueue # << >> /\ completionQueue' = Tail(completionQueue)
    BY <1>6 DEF CompletionDecrypt
  <2>2. UNCHANGED thread["io"]
    BY <1>0, <1>6, OneThread DEF CompletionThreadProc
  <2>3. Handed' \subseteq Handed /\ Head(completionQueue) \in Handed
    BY <1>0, <2>1, Members DEF Handed
  <2>4. Handed \subseteq Handed' \cup {Head(completionQueue)}
    <3> DEFINE p == Tail(completionQueue)
    <3>1. /\ Len(completionQueue) \in Nat \ {0} /\ Len(p) = Len(completionQueue) - 1
          /\ Head(completionQueue) = completionQueue[1]
          /\ \A n \in 1 .. Len(completionQueue) - 1 : p[n] = completionQueue[n + 1]
      BY <1>0, <2>1, Taken
    <3> HIDE DEF p
    <3>2. ASSUME NEW n \in 1 .. Len(completionQueue), n # 1
          PROVE  \E m \in 1 .. Len(p) : completionQueue[n] = p[m]
      <4>1. n - 1 \in 1 .. Len(p) /\ completionQueue[n] = p[n - 1]
        BY <3>1, <3>2
      <4> QED
        BY <4>1
    <3> QED
      BY ZenonT(60), <2>1, <3>1, <3>2 DEF Handed, p
  <2>5. \A r \in Handed' : Before(Head(completionQueue), r.irp, r.offset)
    BY <1>0, <2>1, SortedStep DEF OrderInv, Handed
  <2>6. At("io", "handOver") => Before(Head(completionQueue), thread["io"].request.irp, thread["io"].request.offset)
    BY <2>3 DEF OrderInv, Performing, HasRequest, At
  <2> QED
    BY <2>2, <2>3, <2>4, <2>5, <2>6 DEF Undecrypted, At
<1> QED
  BY <1>1, <1>2, <1>3, <1>4, <1>5, <1>6


\* Where a sector of a request is, it is encrypted if the request says so.
LEMMA SectorHeld ==
    ASSUME AllInv, DataInv, LayersMatchArea, NEW r \in Carried, NEW s \in Sectors(r)
    PROVE  /\ Location(s) \in Disk
           /\ disk[Location(s)][2] = IF s \in r.encrypted THEN 1 ELSE 0
<1>1. /\ s \in Disk /\ (RemapEncryptedArea => s \notin Remapped)
      /\ (s \in r.encrypted <=> s \in EncryptedPart({s}))
  BY Addressed
<1>2. Location(s) \in Disk
  <2>1. CASE RemapEncryptedArea /\ s \in EncryptedPart({s})
    <3>1. /\ IsFilterDevice /\ Remapped \subseteq Disk
      BY <2>1, Layout DEF WellPlaced, RemapEncryptedArea, Remapped, EncryptedAreaStart, IsFilterDevice,
                          RemappedAreaOffset, DataInv, AreaInv, AllInv, Pipeline, Disk
    <3>2. Location(s) \in Remapped
      BY <2>1, <3>1 DEF Location, Remapped, EncryptedPart
    <3> QED
      BY <3>1, <3>2
  <2>2. CASE ~(RemapEncryptedArea /\ s \in EncryptedPart({s}))
    BY <1>1, <2>2 DEF Location
  <2> QED
    BY <2>1, <2>2
<1>3. HeldEncrypted(Location(s)) <=> s \in r.encrypted
  BY <1>1, Placed DEF DataInv
<1> QED
  BY <1>2, <1>3 DEF LayersMatchArea, HeldEncrypted

LEMMA MisalignedHeld ==
    ASSUME Faultless, AllInv, DataInv, LayersMatchArea, NEW i \in Irps, irp[i].pc = "pending",
           Misaligned(i), NEW s \in Wanted(i), NEW sectors, s \in sectors
    PROVE  s \in Disk /\ disk[s][2] = IF s \in EncryptedPart(sectors) THEN 1 ELSE 0
<1>0. Types /\ irp[i] \in IrpType
  BY DEF AllInv, Pipeline, Types
<1>1. PICK g \in queue.Ranges : irp[i].offset = Base + g.offset /\ irp[i].length = g.length
                                /\ irp[i].aligned = g.aligned
  BY DEF DataInv, RangeInv
<1>2. /\ IsFilterDevice /\ ~g.aligned /\ ~irp[i].aligned /\ Base = 0
      /\ g.offset \in Nat /\ g.length \in Nat /\ DiskSize \in Nat
  BY <1>0, <1>1, Layout DEF Misaligned, Base, IrpType
<1>3. ~RemapEncryptedArea
  BY <1>0, <1>1, <1>2 DEF Faultless, RemapEncryptedArea, Types
<1>4. g.offset + (g.length + 1) <= DiskSize
  BY <1>0, <1>1, <1>2, Layout DEF WellPlaced, IsFilterDevice
<1>5. s \in g.offset .. g.offset + g.length
  BY <1>1, <1>2 DEF Wanted
<1>6. s \in Disk
  BY <1>2, <1>4, <1>5 DEF Disk
<1>7. HeldEncrypted(s) <=> s \in EncryptedPart({s})
  BY <1>3, <1>6, Placed DEF DataInv, Location
<1> QED
  BY <1>6, <1>7 DEF LayersMatchArea, HeldEncrypted, EncryptedPart

ReadsInv == ClientInv /\ ReadAheadInv /\ ReadInv /\ OrderInv /\ MisalignedInv /\ LayerInv

LEMMA LayerStep ==
    ASSUME Faultless, AllInv, DataInv, LayersMatchArea, ReadsInv, [Next]_vars
    PROVE  LayerInv'
<1>0. /\ Pipeline /\ Types /\ "main" \in Threads /\ "io" \in Threads /\ "completion" \in Threads
      /\ irp \in [Irps -> IrpType] /\ data = [i \in Irps |-> data[i]] /\ OrderInv
  BY DEF AllInv, Pipeline, Types, Threads, ReadsInv, ClientInv
<1> SUFFICES ASSUME NEW i \in Irps, irp'[i].pc # "idle", ~irp'[i].write, irp'[i].status = "ok",
                    NEW s \in Wanted(i)'
             PROVE  data'[i][s][2] = IF LeftEncrypted(i, s)' THEN 1 ELSE 0
  BY DEF LayerInv
<1>1. ASSUME \A r \in Undecrypted' : r.irp # i, data'[i][s][2] = 0
      PROVE  data'[i][s][2] = IF LeftEncrypted(i, s)' THEN 1 ELSE 0
  BY <1>1 DEF LeftEncrypted
<1>2. CASE AddIrp(i)
  <2>1. irp[i].pc = "idle" /\ Undecrypted' = Undecrypted
    <3>1. irp[i].pc = "idle" /\ UNCHANGED <<completionQueue, thread>>
      BY <1>2 DEF AddIrp, IrpAt, queues
    <3> QED
      BY <3>1 DEF Undecrypted, Handed, At
  <2>2. \A r \in Undecrypted' : r.irp # i
    BY <1>0, <2>1, UndecryptedSteps, CarriedFacts
  <2>3. data'[i][s] = NoData
    <3>1. PICK write \in BOOLEAN, g \in queue.Ranges :
            /\ irp' = [irp EXCEPT ![i] =
                 [pc |-> "counted", write |-> write, offset |-> Base + g.offset,
                  length |-> g.length, aligned |-> g.aligned, status |-> "ok"]]
            /\ data' = [data EXCEPT ![i] =
                 [u \in Base + g.offset .. Base + g.offset + g.length -
                         (IF g.aligned THEN 1 ELSE 0) |-> NoData]]
      BY <1>2 DEF AddIrp, Base
    <3>2. /\ irp'[i].offset = Base + g.offset /\ irp'[i].length = g.length
          /\ irp'[i].aligned = g.aligned
      BY <1>0, <3>1
    <3>3. data'[i] = [u \in Wanted(i)' |-> NoData]
      BY <1>0, <3>1, <3>2 DEF Wanted
    <3> QED
      BY <3>3
  <2> QED
    BY <1>1, <2>2, <2>3 DEF NoData
<1>3. CASE Collect(i)
  BY <1>0, <1>3 DEF Collect, NoIrp
<1>4. CASE ~AddIrp(i) /\ ~Collect(i)
  <2>1. /\ SameIrp(i) /\ irp[i].pc # "idle" /\ ~irp[i].write /\ Wanted(i)' = Wanted(i)
    <3>1. SameIrp(i) /\ irp[i].pc # "idle"
      <4>1. Adding(i) => irp[i].pc # "idle"
        BY <1>0, AddingIrp
      <4>2. ASSUME NEW t \in Threads, Complete(t), thread[t].irp = i PROVE irp[i].pc # "idle"
        BY <1>0, <4>2, CompletedIrp
      <4> QED
        BY <1>0, <1>4, <4>1, <4>2, IrpSteps
    <3> QED
      BY <3>1 DEF SameIrp, Wanted
  <2>2. s \in Wanted(i) /\ data[i] = [u \in Wanted(i) |-> data[i][u]]
    BY <2>1 DEF ReadsInv, ClientInv
  <2>3. CASE MainMisaligned /\ i = thread["main"].irp
    <3>1. At("main", "misaligned") /\ irp[i].pc = "pending" /\ Misaligned(i)
      BY <1>0, <2>3 DEF MainMisaligned, At, Pipeline, PendingInv, Working, ReadsInv, MisalignedInv
    <3>2. PICK ok \in BOOLEAN :
            /\ irp' = [irp EXCEPT ![i].status = IF ok THEN "ok" ELSE "failed"]
            /\ data' = IF ~ok THEN data ELSE [data EXCEPT ![i] =
                [u \in DOMAIN data[i] |-> IF u \in EncryptedPart(DOMAIN data[i])
                                          THEN Decrypt(disk[u]) ELSE disk[u]]]
      BY <2>3 DEF MainMisaligned, Outcome
    <3>3. data'[i][s] = IF s \in EncryptedPart(DOMAIN data[i]) THEN Decrypt(disk[s]) ELSE disk[s]
      <4>1. ok
        BY <1>0, <3>2 DEF IrpType
      <4> QED
        BY <1>0, <2>2, <3>2, <4>1
    <3>4. data'[i][s][2] = 0
      BY <2>2, <3>1, <3>3, MisalignedHeld DEF Decrypt
    <3>5. \A r \in Undecrypted : r.irp # i
      <4>1. /\ \A n \in 1 .. Len(completionQueue) : completionQueue[n].irp # i
            /\ thread["io"].pc \in Working => thread["io"].irp # i
        BY <1>0, <2>3, <3>1 DEF Pipeline, WaitingInv, Working, Splitting, At
      <4>2. At("io", "handOver") => thread["io"].request.irp # i
        BY <1>0, <4>1 DEF Pipeline, PendingInv, Working, At
      <4> QED
        BY <4>1, <4>2 DEF Undecrypted, Handed
    <3>6. Undecrypted' = Undecrypted
      <4>1. UNCHANGED completionQueue /\ UNCHANGED thread["io"]
        BY <1>0, <2>3, OneThread DEF MainMisaligned, queues, MainThreadProc
      <4> QED
        BY <4>1 DEF Undecrypted, Handed, At
    <3> QED
      BY <1>1, <3>4, <3>5, <3>6
  <2>4. CASE ~(MainMisaligned /\ i = thread["main"].irp)
    <3>1. data[i][s][2] = IF LeftEncrypted(i, s) THEN 1 ELSE 0
      <4>1. irp[i].status = "ok"
        BY <1>0, <1>4, <2>4, StatusSteps
      <4> QED
        BY <2>1, <2>2, <4>1 DEF ReadsInv, LayerInv
    <3>2. ASSUME LeftEncrypted(i, s)' <=> LeftEncrypted(i, s), data'[i][s] = data[i][s]
          PROVE  data'[i][s][2] = IF LeftEncrypted(i, s)' THEN 1 ELSE 0
      BY <3>1, <3>2
    <3>3. CASE IoFinish
      <4>1. PICK r \in Carried : r = thread["io"].request /\ At("io", "finish")
        BY <3>3 DEF IoFinish, Carried, HasRequest, At
      <4>2. Undecrypted' = Undecrypted \cup (IF irp[r.irp].write THEN {} ELSE {r})
        BY <1>0, <3>3, <4>1, UndecryptedSteps
      <4>3. UNCHANGED irp /\ (data' = IF irp[r.irp].write \/ irp[r.irp].status # "ok" THEN data
                   ELSE [data EXCEPT ![r.irp] = Update(data[r.irp], fragmentBuffer[r.buffer])])
        BY <3>3, <4>1 DEF IoFinish
      <4>4. CASE r.irp # i
        BY <1>0, <3>2, <4>2, <4>3, <4>4 DEF LeftEncrypted
      <4>5. CASE r.irp = i
        <5>1. fragmentBuffer[r.buffer] = [u \in Sectors(r) |-> disk[Location(u)]]
          BY <2>1, <4>1, <4>3, <4>5 DEF ReadsInv, ReadInv
        <5>2. data'[i] = Update(data[i], [u \in Sectors(r) |-> disk[Location(u)]])
          BY <1>0, <2>1, <4>3, <4>5, <5>1
        <5>3. data'[i][s] = IF s \in Sectors(r) THEN disk[Location(s)] ELSE data[i][s]
          BY <2>2, <5>2 DEF Update
        <5>4. \A q \in Carried : q.encrypted = EncryptedPart(Sectors(q))
          BY DEF DataInv, SoundInv, Sound
        <5>5. s \notin Sectors(r) => s \notin r.encrypted
          BY <5>4 DEF EncryptedPart
        <5>6. CASE s \notin Sectors(r)
          BY <3>2, <4>2, <5>3, <5>5, <5>6 DEF LeftEncrypted
        <5>7. CASE s \in Sectors(r)
          <6>1. disk[Location(s)][2] = IF s \in r.encrypted THEN 1 ELSE 0
            BY <5>7, SectorHeld
          <6>2. \A q \in Carried : s \in q.encrypted => s \in r.encrypted
            BY <5>4, <5>7 DEF EncryptedPart
          <6>3. LeftEncrypted(i, s)' <=> s \in r.encrypted
            <7>1. r \in Undecrypted' /\ Undecrypted' \subseteq Undecrypted \cup {r}
              BY <2>1, <4>2, <4>5
            <7>2. \A q \in Undecrypted' : s \in q.encrypted => s \in r.encrypted
              BY <1>0, <6>2, <7>1, UndecryptedSteps
            <7> QED
              BY <4>5, <7>1, <7>2 DEF LeftEncrypted
          <6> QED
            BY <5>3, <5>7, <6>1, <6>3
        <5> QED
          BY <5>6, <5>7
      <4> QED
        BY <4>4, <4>5
    <3>4. CASE CompletionDecrypt
      <4>1. PICK r \in Undecrypted :
              /\ r = Head(completionQueue)
              /\ Undecrypted' \subseteq Undecrypted /\ Undecrypted \subseteq Undecrypted' \cup {r}
              /\ \A q \in Undecrypted' : Before(r, q.irp, q.offset)
        BY <1>0, <3>4, UndecryptedSteps
      <4>2. UNCHANGED irp /\ (data' = IF irp[r.irp].status # "ok" THEN data
                   ELSE [data EXCEPT ![r.irp] =
                            Update(data[r.irp], [u \in r.encrypted |-> Decrypt(data[r.irp][u])])])
        BY <3>4, <4>1 DEF CompletionDecrypt, Decrypted
      <4>3. CASE r.irp # i
        <5>1. LeftEncrypted(i, s)' <=> LeftEncrypted(i, s)
          BY <4>1, <4>3 DEF LeftEncrypted
        <5> QED
          BY <1>0, <3>2, <4>2, <4>3, <5>1
      <4>4. CASE r.irp = i
        <5>1. data'[i] = Update(data[i], [u \in r.encrypted |-> Decrypt(data[i][u])])
          BY <1>0, <4>2, <4>4
        <5>2. data'[i][s] = IF s \in r.encrypted THEN Decrypt(data[i][s]) ELSE data[i][s]
          BY <2>2, <5>1 DEF Update
        <5>3. CASE s \notin r.encrypted
          <6>1. LeftEncrypted(i, s)' <=> LeftEncrypted(i, s)
            BY <4>1, <5>3 DEF LeftEncrypted
          <6> QED
            BY <3>2, <5>2, <5>3, <6>1
        <5>4. CASE s \in r.encrypted
          <6>1. data[i][s][2] = 1
            BY <3>1, <4>4, <5>4 DEF LeftEncrypted
          <6>2. ASSUME NEW q \in Undecrypted', q.irp = i, s \in q.encrypted
                PROVE  FALSE
            <7>1. q \in Carried /\ r \in Carried
              BY <1>0, <4>1, UndecryptedSteps
            <7>2. s \in Sectors(q) /\ s \in Sectors(r) /\ q \in Request /\ r \in Request
              BY <1>0, <5>4, <6>2, <7>1, CarriedFacts DEF DataInv, SoundInv, Sound, EncryptedPart
            <7>3. r.offset + r.length <= q.offset
              BY <4>1, <4>4, <6>2 DEF Before
            <7> QED
              BY <7>2, <7>3 DEF Sectors, Request
          <6> QED
            BY <5>2, <5>4, <6>1, <6>2 DEF LeftEncrypted, Decrypt
        <5> QED
          BY <5>3, <5>4
      <4> QED
        BY <4>3, <4>4
    <3>5. CASE ~IoFinish /\ ~CompletionDecrypt
      <4>1. LeftEncrypted(i, s)' <=> LeftEncrypted(i, s)
        BY <1>0, <3>5, UndecryptedSteps DEF LeftEncrypted
      <4>2. data'[i] = data[i]
        <5>1. CASE IoPerform
          <6>1. PICK j \in Irps : j = Head(ioQueue).irp
            BY <1>0, <5>1, Members, CarriedFacts DEF IoPerform, Queued, Carried
          <6>2. \/ UNCHANGED data
                \/ irp[j].write /\ \E new : data' = [data EXCEPT ![j] = new]
            BY <5>1, <6>1 DEF IoPerform, IoWrite, IoRead, IoSkip
          <6> QED
            BY <1>0, <2>1, <6>1, <6>2
        <5>2. CASE MainMisaligned
          BY <1>0, <2>4, <5>2 DEF MainMisaligned
        <5>3. CASE ~IoPerform /\ ~MainMisaligned
          BY <1>0, <1>4, <3>5, <5>3, DataSteps
        <5> QED
          BY <5>1, <5>2, <5>3
      <4> QED
        BY <3>2, <4>1, <4>2
    <3> QED
      BY <3>3, <3>4, <3>5
  <2> QED
    BY <2>3, <2>4
<1> QED
  BY <1>2, <1>3, <1>4

LEMMA ReadsStep ==
    ASSUME Faultless, AllInv, DataInv, LayersMatchArea, ReadsInv, [Next]_vars
    PROVE  ReadsInv'
<1>1. Pipeline
  BY DEF AllInv
<1> QED
  BY <1>1, ClientStep, ReadAheadStep, ReadStep, OrderStep, MisalignedStep, LayerStep DEF ReadsInv

LEMMA ReadsInit == Init => ReadsInv
<1> SUFFICES ASSUME Init PROVE ReadsInv
  OBVIOUS
<1>1. ClientInv
  BY DEF Init, ClientInv, NoIrp
<1>2. ReadAheadInv
  BY DEF Init, ReadAheadInv
<1>3. Queued = {} /\ Handed = {} /\ Performing = {}
  BY DEF Init, Queued, Handed, Performing, HasRequest, Idle, Threads
<1>4. ReadInv /\ MisalignedInv /\ LayerInv
  BY DEF Init, ReadInv, MisalignedInv, LayerInv, Idle, NoIrp, At, Threads
<1>5. OrderInv
  BY <1>3 DEF Init, OrderInv, Sorted, Idle, Threads, Splitting
<1> QED
  BY <1>1, <1>2, <1>4, <1>5 DEF ReadsInv

(* A read that is completed with success returns plain text: the completion thread decrypts
   exactly those sectors of a fragment that were encrypted when the I/O thread read them from the
   device or from the read-ahead buffer, each of them once, although the area is encrypted and
   decrypted between the requests, and a misaligned read is decrypted by the main thread. *)
THEOREM PlainTextRead == ASSUME Faultless PROVE Spec => []ReadsDecrypted
<1>1. Init => AllInv /\ DataInv /\ LayersMatchArea /\ ReadsInv
  BY InvInit, DataInit, LayersInit, ReadsInit
<1>2. AllInv /\ DataInv /\ LayersMatchArea /\ ReadsInv /\ [Next]_vars =>
         (AllInv /\ DataInv /\ LayersMatchArea /\ ReadsInv)'
  BY InvStep, DataStep, LayersStep, ReadsStep
<1>3. AllInv /\ ReadsInv => ReadsDecrypted
  <2> SUFFICES ASSUME AllInv, ReadsInv, NEW i \in Irps, irp[i].pc = "done", irp[i].status = "ok",
                      ~irp[i].write, NEW s \in DOMAIN data[i]
               PROVE  data[i][s][2] = 0
    BY DEF ReadsDecrypted, IrpAt
  <2>1. s \in Wanted(i)
    BY DEF ReadsInv, ClientInv
  <2>2. \A r \in Undecrypted : r.irp # i
    <3>1. Undecrypted \subseteq Carried
      BY DEF Undecrypted, Carried, Handed, HasRequest, At
    <3> QED
      BY <3>1, CarriedFacts DEF AllInv
  <2> QED
    BY <2>1, <2>2 DEF ReadsInv, LayerInv, LeftEncrypted
<1> QED
  BY <1>1, <1>2, <1>3, PTL DEF Spec


-----------------------------------------------------------------------------
(* A request that succeeds has been carried out on all of its sectors. *)

\* A sector is transferred, or a request or the main thread will get to it.
Fresh(i) ==
    \/ \E n \in 1 .. Len(mainQueue) : mainQueue[n] = i
    \/ thread["main"].pc \in Waiting \cup {"misaligned"} /\ thread["main"].irp = i
InQueue(i, s) == \E r \in Queued : r.irp = i /\ s \in Sectors(r)
BeingRead(i, s) ==
    At("io", "finish") /\ ~irp[i].write /\ thread["io"].request.irp = i /\ s \in Sectors(thread["io"].request)
NotSplit(i, s) == thread["main"].pc \in Splitting /\ thread["main"].irp = i /\ s >= cursor.offset
Ahead(i, s) == InQueue(i, s) \/ BeingRead(i, s) \/ NotSplit(i, s)
CoverInv ==
    \A i \in Irps : irp[i].pc = "pending" /\ irp[i].status = "ok" /\ ~Fresh(i) =>
        \A s \in Wanted(i) : data[i][s][1] # "nodata" \/ Ahead(i, s)
ValueInv == \A a \in Disk : disk[a][1] # "nodata"

LEMMA ValueStep ==
    ASSUME NamesDistinct, AllInv, DataInv, ValueInv, [Next]_vars
    PROVE  ValueInv'
<1>0. disk = [s \in Disk |-> disk[s]]
  BY DEF DataInv, AreaInv
<1> SUFFICES ASSUME NEW a \in Disk PROVE disk'[a][1] # "nodata"
  BY DEF ValueInv
<1>1. disk[a][1] # "nodata"
  BY DEF ValueInv
<1>2. CASE HoldWork
  BY <1>0, <1>1, <1>2 DEF HoldWork, Encrypt, Decrypt, Stale
<1>3. CASE UNCHANGED disk
  BY <1>1, <1>3
<1>4. CASE IoPerform /\ ~UNCHANGED disk
  <2>1. PICK r \in Queued : irp[r.irp].write /\ IoWrite(r)
    BY <1>4, Performed
  <2>2. r.irp \in Irps
    BY <2>1, CarriedFacts DEF Carried, AllInv
  <2> QED
    BY <1>1, <2>1, <2>2, Written DEF NamesDistinct
<1> QED
  BY <1>2, <1>3, <1>4, DiskKept

\* An IRP that the main thread gets to is read at once, or split, or refused.
LEMMA FreshStep ==
    ASSUME Pipeline, [Next]_vars, NEW i \in Irps, irp'[i].pc = "pending", ~Fresh(i)'
    PROVE  \/ irp[i].pc = "pending" /\ ~Fresh(i)
           \/ (MainAccept \/ MainMisaligned) /\ i = thread["main"].irp
<1>0. /\ Types /\ "main" \in Threads /\ "io" \in Threads /\ "completion" \in Threads
      /\ mainQueue \in Seq(Irps)
  BY DEF Pipeline, Types, Threads
<1> DEFINE InMainQueue == \E n \in 1 .. Len(mainQueue) : mainQueue[n] = i
           AtMain == thread["main"].pc \in Waiting \cup {"misaligned"} /\ thread["main"].irp = i
<1>1. Fresh(i) <=> InMainQueue \/ AtMain
  BY DEF Fresh
<1>2. ~InMainQueue' /\ ~AtMain'
  BY DEF Fresh
<1>3. irp[i].pc \in {"counted", "pending"}
  BY PendingSame
<1>4. ASSUME UNCHANGED mainQueue, UNCHANGED thread["main"], irp[i].pc = "pending"
      PROVE  ~Fresh(i)
  BY <1>1, <1>2, <1>4
<1>5. CASE MainDequeue
  <2> DEFINE new == [thread["main"] EXCEPT !.pc = "gate", !.irp = Head(mainQueue)]
  <2>1. /\ At("main", "idle") /\ mainQueue # << >> /\ mainQueue' = Tail(mainQueue)
        /\ thread' = [thread EXCEPT !["main"] = new] /\ UNCHANGED irp
    BY <1>5 DEF MainDequeue, clients
  <2>2. new.pc = "gate" /\ new.irp = Head(mainQueue)
    BY <1>0 DEF Types, ThreadType
  <2> HIDE DEF new
  <2>3. Head(mainQueue) # i
    BY <1>0, <1>2, <2>1, <2>2 DEF Types, Waiting
  <2>4. /\ Len(mainQueue) \in Nat \ {0} /\ Len(mainQueue') = Len(mainQueue) - 1
        /\ Head(mainQueue) = mainQueue[1]
        /\ \A n \in 1 .. Len(mainQueue) - 1 : mainQueue'[n] = mainQueue[n + 1]
    BY <1>0, <2>1, Taken
  <2>5. ASSUME NEW n \in 1 .. Len(mainQueue) PROVE mainQueue[n] # i
    <3>1. CASE n = 1
      BY <2>3, <2>4, <3>1
    <3>2. CASE n # 1
      <4>1. n - 1 \in 1 .. Len(mainQueue') /\ mainQueue'[n - 1] = mainQueue[n]
        BY <2>4, <3>2
      <4> QED
        BY <1>2, <4>1
    <3> QED
      BY <3>1, <3>2
  <2> QED
    BY <1>1, <2>1, <2>5 DEF At, Waiting
<1>6. CASE MainGate \/ MainResumed
  <2>1. /\ UNCHANGED <<irp, mainQueue>> /\ thread["main"].pc \in Waiting
        /\ \E pc \in {"resumeWait", "accept"} : Goes("main", pc)
    BY <1>6 DEF MainGate, MainResumed, clients, queues, At, Waiting
  <2>2. thread'["main"].pc \in Waiting /\ thread'["main"].irp = thread["main"].irp
    BY <1>0, <2>1, GoesFacts DEF ThreadPc, Waiting
  <2> QED
    BY <1>1, <1>2, <2>1, <2>2
<1>7. CASE MainAccept \/ MainMisaligned
  <2>1. UNCHANGED mainQueue
    BY <1>7 DEF MainAccept, MainMisaligned, queues
  <2>2. irp[i].pc = "pending"
    <3>1. ~AddIrp(i) /\ ~Adding(i)
      <4>1. itemsFree' # itemsFree \/ thread' # thread
        <5>1. MainAccept => thread'["main"].pc # thread["main"].pc
          BY <1>0, MainPc DEF MainAccept, At
        <5>2. MainMisaligned => thread'["main"].pc # thread["main"].pc
          BY <1>0, MainPc DEF MainMisaligned, At
        <5> QED
          BY <1>7, <5>1, <5>2
      <4>2. AddIrp(i) \/ Adding(i) => UNCHANGED <<thread, itemsFree>>
        BY DEF AddIrp, Adding, AddIrpQueue, AddIrpRefuse, AddIrpSignal, work, pool
      <4> QED
        BY <4>1, <4>2
    <3>2. ~Collect(i)
      BY <1>0 DEF Collect, NoIrp, Types
    <3>3. ASSUME NEW t \in Threads, Complete(t), thread[t].irp = i PROVE FALSE
      BY <3>3, CompletedIrp
    <3> QED
      BY <3>1, <3>2, <3>3, IrpSteps
  <2> QED
    BY <1>1, <1>2, <1>7, <2>1, <2>2 DEF MainAccept, MainMisaligned, At, Waiting
<1>8. CASE MainFragment \/ MainGetRequest \/ MainQueue
  <2>1. UNCHANGED <<irp, mainQueue>> /\ thread["main"].pc \in Splitting
    BY <1>8 DEF MainFragment, MainGetRequest, MainQueue, clients, queues, At, Splitting
  <2> QED
    BY <1>1, <1>2, <2>1 DEF Splitting, Waiting
<1>9. ASSUME NEW t \in Threads, AnyThread(t)
      PROVE  irp[i].pc = "pending" /\ ~Fresh(i)
  <2>1. UNCHANGED mainQueue
    BY <1>9 DEF AnyThread, Complete, Decrement, SignalIdle, Exit, queues
  <2>2. thread[t].pc \in {"complete", "decrement", "readAheadDone", "signal", "signalReadAhead", "idle"}
    BY <1>9 DEF AnyThread, Complete, Decrement, SignalIdle, Exit, At
  <2>3. t # "main" => UNCHANGED thread["main"]
    BY <1>0, <1>9, OneThread
  <2>4. irp[i].pc = "pending"
    BY <1>0, <1>9, CompletedIrp DEF AnyThread, Decrement, SignalIdle, Exit, clients
  <2> QED
    BY <1>1, <1>2, <2>1, <2>2, <2>3, <2>4 DEF Waiting
<1>10. CASE IoPerform \/ IoFinish \/ IoHandOver \/ IoReadAhead \/ CompletionDecrypt
  <2>1. UNCHANGED mainQueue
    BY <1>10 DEF IoPerform, IoFinish, IoHandOver, IoReadAhead, CompletionDecrypt, queues
  <2>2. UNCHANGED thread["main"]
    BY <1>0, <1>10, OneThread DEF IoThreadProc, CompletionThreadProc
  <2>3. irp[i].pc = "pending"
    <3>1. \A t \in Threads : ~Complete(t) \/ irp[i].pc = "pending"
      BY <1>0, CompletedIrp
    <3> QED
      BY <1>10, <3>1, IrpFrame DEF IoThreadProc, CompletionThreadProc
  <2> QED
    BY <1>4, <2>1, <2>2, <2>3
<1>11. CASE \E j \in Irps : AddIrp(j) \/ Adding(j) \/ Collect(j)
  <2>1. PICK j \in Irps : AddIrp(j) \/ Adding(j) \/ Collect(j)
    BY <1>11
  <2>2. UNCHANGED thread /\ (AddIrpQueue(j) \/ UNCHANGED mainQueue)
    BY <2>1 DEF Adding, AddIrp, AddIrpQueue, AddIrpRefuse, AddIrpSignal, Collect, queues
  <2>3. CASE AddIrpQueue(j)
    <3>1. mainQueue' = Append(mainQueue, j)
      BY <2>3 DEF AddIrpQueue
    <3>2. /\ Len(mainQueue) \in Nat /\ Len(mainQueue') = Len(mainQueue) + 1
          /\ mainQueue'[Len(mainQueue) + 1] = j
          /\ \A n \in 1 .. Len(mainQueue) : mainQueue'[n] = mainQueue[n]
      BY <1>0, <3>1, Added
    <3>3. i # j
      <4>1. Len(mainQueue) + 1 \in 1 .. Len(mainQueue')
        BY <3>2
      <4> QED
        BY <1>2, <3>2, <4>1
    <3>4. ~InMainQueue
      <4>1. \A n \in 1 .. Len(mainQueue) : n \in 1 .. Len(mainQueue')
        BY <3>2
      <4> QED
        BY <1>2, <3>2, <4>1
    <3>5. irp'[i] = irp[i]
      BY <1>0, <2>3, <3>3, AddingIrp DEF Adding
    <3> QED
      BY <1>1, <1>2, <2>2, <3>4, <3>5
  <2>4. CASE ~AddIrpQueue(j)
    <3>1. irp[i].pc = "pending"
      <4>1. PICK new \in IrpType : irp' = [irp EXCEPT ![j] = new]
        BY <1>0, <2>1, <2>4, ClientFrame DEF Adding
      <4>2. i # j
        <5>1. AddIrp(i) => irp'[i].pc = "counted"
          BY <1>0 DEF AddIrp, Types
        <5>2. Collect(i) => irp'[i].pc = "idle"
          BY <1>0 DEF Collect, NoIrp, Types
        <5>3. AddIrpRefuse(i) \/ AddIrpSignal(i) => irp'[i].pc # "pending"
          BY <1>0 DEF AddIrpRefuse, AddIrpSignal, IrpGoes, IrpType, Types
        <5> QED
          BY <2>1, <2>4, <5>1, <5>2, <5>3 DEF Adding
      <4> QED
        BY <1>0, <4>1, <4>2 DEF Types
    <3> QED
      BY <1>4, <2>2, <2>4, <3>1
  <2> QED
    BY <2>3, <2>4
<1>12. CASE Hold \/ Holder \/ Stop \/ Stopper \/ UNCHANGED vars
  BY <1>4, <1>12, ControlFrame DEF vars, queues
<1>13. CASE \E t \in Threads : AnyThread(t)
  BY <1>9, <1>13
<1> QED
  BY <1>0, <1>5, <1>6, <1>7, <1>8, <1>10, <1>11, <1>12, <1>13
     DEF Next, MainThreadProc, IoThreadProc, CompletionThreadProc

LEMMA SplittingSteps ==
    ASSUME Pipeline, [Next]_vars, thread["main"].pc \in Splitting
    PROVE  UNCHANGED thread["main"] \/ MainFragment \/ MainGetRequest \/ MainQueue
<1>0. Types /\ "main" \in Threads /\ "io" \in Threads /\ "completion" \in Threads
  BY DEF Pipeline, Threads
<1>1. MainThreadProc => MainFragment \/ MainGetRequest \/ MainQueue
  BY DEF MainThreadProc, AnyThread, Complete, Decrement, SignalIdle, Exit, MainDequeue, MainGate,
         MainResumed, MainAccept, MainMisaligned, At, Splitting
<1>2. IoThreadProc \/ CompletionThreadProc => UNCHANGED thread["main"]
  BY <1>0, OneThread
<1>3. (\E i \in Irps : AddIrp(i) \/ Adding(i) \/ Collect(i)) => UNCHANGED thread
  BY DEF Adding, AddIrp, AddIrpQueue, AddIrpRefuse, AddIrpSignal, Collect
<1>4. Hold \/ Holder \/ Stop \/ Stopper \/ UNCHANGED vars => UNCHANGED thread
  BY ControlFrame DEF vars
<1> QED
  BY <1>1, <1>2, <1>3, <1>4 DEF Next

\* A sector that has not been put into a request stays ahead of the main thread until it is.
LEMMA NotSplitStep ==
    ASSUME AllInv, DataInv, [Next]_vars, NEW i \in Irps, NEW s \in Wanted(i), NotSplit(i, s)
    PROVE  NotSplit(i, s)' \/ InQueue(i, s)'
<1> DEFINE main == thread["main"]
<1>0. /\ Pipeline /\ Types /\ "main" \in Threads /\ ioQueue \in Seq(Request)
      /\ main.pc \in Splitting /\ main.irp = i /\ s >= cursor.offset /\ main \in ThreadType
  BY DEF AllInv, Pipeline, Types, Threads, NotSplit
<1>1. CASE UNCHANGED main /\ ~MainQueue /\ ~MainAccept
  BY <1>0, <1>1, RequestSteps DEF NotSplit
<1>2. CASE MainFragment \/ MainGetRequest
  <2>1. UNCHANGED <<cursor, main.irp>>
    <3>1. CASE MainFragment
      <4>1. Goes("main", "getRequest") /\ UNCHANGED cursor
        BY <3>1 DEF MainFragment
      <4> QED
        BY <1>0, <4>1, GoesFacts DEF ThreadPc
    <3>2. CASE MainGetRequest
      BY <1>0, <3>2 DEF MainGetRequest, Types, ThreadType
    <3> QED
      BY <1>2, <3>1, <3>2
  <2>2. main'.pc \in Splitting
    BY <1>0, <1>2, MainPc DEF Splitting
  <2> QED
    BY <1>0, <2>1, <2>2 DEF NotSplit
<1>3. CASE MainQueue
  <2>1. PICK q \in Carried : q = main.request
    BY <1>3 DEF MainQueue, Carried
  <2>2. /\ main.pc = "queue" /\ ioQueue' = Append(ioQueue, q) /\ (~q.last => cursor' = NextFragment)
        /\ thread' = [thread EXCEPT !["main"] =
                        IF q.last THEN Idle ELSE [Idle EXCEPT !.pc = "fragment", !.irp = q.irp]]
    BY <1>3, <2>1 DEF MainQueue, At
  <2>3. q \in Request /\ q.irp = i
    BY <1>0, <2>1, <2>2, CarriedFacts DEF Pipeline, PendingInv, Working, At, Threads
  <2>4. /\ q.offset = cursor.offset /\ q.offset \in Nat /\ MaxFragment \in Nat
        /\ q.length = IF q.last THEN cursor.remaining ELSE MaxFragment
    BY <1>0, <2>1, <2>2, <2>3, QueueFacts DEF DataInv, SplitInv, At, Request
  <2>5. q \in Queued'
    BY <1>0, <2>2, <2>3, Members DEF Queued
  <2>6. s \in Sectors(q) => InQueue(i, s)'
    BY <2>3, <2>5 DEF InQueue, Sectors
  <2>7. s \in Int
    BY DEF Wanted
  <2>8. CASE q.last
    <3>1. /\ irp[i].aligned /\ cursor.offset + cursor.remaining = irp[i].offset + irp[i].length
          /\ irp[i].offset \in Nat /\ irp[i].length \in Nat
      BY <1>0 DEF DataInv, SplitInv, Valid, Types, IrpType
    <3>2. s <= irp[i].offset + irp[i].length - 1
      BY <3>1 DEF Wanted
    <3>3. s \in Sectors(q)
      BY <1>0, <2>4, <2>7, <2>8, <3>1, <3>2 DEF Sectors, AllInv, CursorInv
    <3> QED
      BY <2>6, <3>3
  <2>9. CASE ~q.last
    <3>1. main'.pc = "fragment" /\ main'.irp = i
      BY <1>0, <2>2, <2>3, <2>9 DEF Types, Idle
    <3>2. cursor'.offset = q.offset + MaxFragment
      BY <2>2, <2>4, <2>9 DEF NextFragment
    <3>3. s \in Sectors(q) \/ s >= cursor'.offset
      BY <1>0, <2>4, <2>7, <2>9, <3>2 DEF Sectors
    <3> QED
      BY <2>6, <3>1, <3>3 DEF NotSplit, Splitting
  <2> QED
    BY <2>8, <2>9
<1>4. ~MainAccept
  BY <1>0 DEF MainAccept, At, Splitting
<1> QED
  BY <1>0, <1>1, <1>2, <1>3, <1>4, SplittingSteps

\* A write that succeeds has written all of its fragment.
LEMMA WroteWhole ==
    ASSUME Faultless, AllInv, DataInv, NEW r \in Queued, IoWrite(r), irp'[r.irp].status = "ok"
    PROVE  data' = [data EXCEPT ![r.irp] = Update(data[r.irp], [s \in Sectors(r) |-> <<r.irp, 0>>])]
<1> DEFINE parts == Parts(r)
<1>1. PICK ok \in [DOMAIN parts -> Outcome], written \in SUBSET Sectors(r) :
         /\ (\A p \in DOMAIN parts : ok[p]) => written = Sectors(r)
         /\ data' = [data EXCEPT ![r.irp] = Update(data[r.irp], [s \in written |-> <<r.irp, 0>>])]
         /\ irp' = [irp EXCEPT ![r.irp].status = LastStatus(parts, ok)]
  BY DEF IoWrite
<1>2. r.irp \in Irps /\ queue \in Queues /\ irp \in [Irps -> IrpType]
  BY CarriedFacts DEF Carried, AllInv, Pipeline, Types
<1>3. ok[Len(parts)]
  BY <1>1, <1>2 DEF LastStatus, IrpType
<1>4. parts \in Seq(PartType) /\ (~RemapEncryptedArea => Len(parts) = 1)
  BY PartsCover
<1> HIDE DEF parts
<1>5. ASSUME NEW n \in DOMAIN parts PROVE ok[n] = TRUE
  <2>1. CASE RemapEncryptedArea
    BY <1>2, <2>1 DEF Faultless, RemapEncryptedArea, Outcome
  <2>2. CASE ~RemapEncryptedArea
    <3>1. n = Len(parts)
      BY <1>4, <2>2
    <3>2. ok[n] \in BOOLEAN
      BY DEF Outcome
    <3> QED
      BY <1>3, <3>1, <3>2
  <2> QED
    BY <2>1, <2>2
<1>6. written = Sectors(r)
  BY <1>1, <1>5
<1> QED
  BY <1>1, <1>6

\* What has been transferred stays so, and what has been read into a fragment buffer is.
LEMMA FinishedStep ==
    ASSUME Faultless, NamesDistinct, AllInv, DataInv, LayersMatchArea, ReadsInv, ValueInv, [Next]_vars,
           NEW i \in Irps, irp[i].pc = "pending", irp[i].status = "ok",
           ~(MainMisaligned /\ i = thread["main"].irp), NEW s \in Wanted(i)
    PROVE  /\ data[i][s][1] # "nodata" => data'[i][s][1] # "nodata"
           /\ BeingRead(i, s) => BeingRead(i, s)' \/ data'[i][s][1] # "nodata"
<1>0. /\ Pipeline /\ Types /\ "io" \in Threads /\ irp \in [Irps -> IrpType]
      /\ data = [j \in Irps |-> data[j]] /\ data[i] = [u \in Wanted(i) |-> data[i][u]]
  BY DEF AllInv, Pipeline, Types, Threads, ReadsInv, ClientInv
<1>1. ~AddIrp(i) /\ ~Collect(i)
  BY DEF AddIrp, Collect, IrpAt
<1>2. CASE IoFinish
  <2>1. PICK r \in Carried : r = thread["io"].request /\ At("io", "finish")
    BY <1>2 DEF IoFinish, Carried, HasRequest, At
  <2>2. data' = IF irp[r.irp].write \/ irp[r.irp].status # "ok" THEN data
                ELSE [data EXCEPT ![r.irp] = Update(data[r.irp], fragmentBuffer[r.buffer])]
    BY <1>2, <2>1 DEF IoFinish
  <2>3. CASE r.irp # i
    BY <1>0, <2>1, <2>2, <2>3 DEF BeingRead
  <2>4. CASE r.irp = i /\ irp[i].write
    BY <1>0, <2>1, <2>2, <2>4 DEF BeingRead
  <2>5. CASE r.irp = i /\ ~irp[i].write
    <3>1. fragmentBuffer[r.buffer] = [u \in Sectors(r) |-> disk[Location(u)]]
      BY <2>1, <2>5 DEF ReadsInv, ReadInv
    <3>2. data'[i] = Update(data[i], [u \in Sectors(r) |-> disk[Location(u)]])
      BY <1>0, <2>2, <2>5, <3>1
    <3>3. data'[i][s] = IF s \in Sectors(r) THEN disk[Location(s)] ELSE data[i][s]
      BY <1>0, <3>2 DEF Update
    <3>4. s \in Sectors(r) => disk[Location(s)][1] # "nodata"
      BY SectorHeld DEF ValueInv
    <3>5. BeingRead(i, s) => s \in Sectors(r)
      BY <2>1 DEF BeingRead
    <3> QED
      BY <3>3, <3>4, <3>5
  <2> QED
    BY <2>3, <2>4, <2>5
<1>3. CASE ~IoFinish
  <2>1. BeingRead(i, s) => BeingRead(i, s)'
    <3> SUFFICES ASSUME BeingRead(i, s) PROVE BeingRead(i, s)'
      OBVIOUS
    <3>1. ~IoPerform /\ ~IoHandOver
      BY DEF BeingRead, IoPerform, IoHandOver, At
    <3>2. UNCHANGED thread["io"]
      BY <1>0, <1>3, <3>1, RequestSteps DEF BeingRead, At
    <3>3. irp'[i].write = irp[i].write
      BY <1>0, PendingSame DEF SameIrp
    <3> QED
      BY <3>2, <3>3 DEF BeingRead, At, Sectors
  <2>2. data[i][s][1] # "nodata" => data'[i][s][1] # "nodata"
    <3>1. CASE IoPerform /\ ~UNCHANGED data
      <4>1. PICK r : r = Head(ioQueue) /\ IoWrite(r)
        BY <3>1 DEF IoPerform, IoRead, IoSkip
      <4>2. PICK written : data' = [data EXCEPT ![r.irp] =
                                      Update(data[r.irp], [u \in written |-> <<r.irp, 0>>])]
        BY <4>1 DEF IoWrite
      <4>3. CASE r.irp = i
        <5>1. data'[i] = Update(data[i], [u \in written |-> <<i, 0>>])
          BY <1>0, <4>2, <4>3
        <5>2. data'[i][s] = IF s \in written THEN <<i, 0>> ELSE data[i][s]
          BY <1>0, <5>1 DEF Update
        <5> QED
          BY <5>2 DEF NamesDistinct
      <4> QED
        BY <1>0, <4>2, <4>3
    <3>2. CASE CompletionDecrypt /\ ~UNCHANGED data
      <4>1. PICK r : data' = [data EXCEPT ![r.irp] =
                         Update(data[r.irp], [u \in r.encrypted |-> Decrypt(data[r.irp][u])])]
        BY <3>2 DEF CompletionDecrypt, Decrypted
      <4>2. CASE r.irp = i
        <5>1. data'[i] = Update(data[i], [u \in r.encrypted |-> Decrypt(data[i][u])])
          BY <1>0, <4>1, <4>2
        <5>2. data'[i][s] = IF s \in r.encrypted THEN Decrypt(data[i][s]) ELSE data[i][s]
          BY <1>0, <5>1 DEF Update
        <5> QED
          BY <5>2 DEF Decrypt
      <4> QED
        BY <1>0, <4>1, <4>2
    <3>3. CASE MainMisaligned
      BY <1>0, <3>3 DEF MainMisaligned
    <3> QED
      BY <1>0, <1>1, <1>3, <3>1, <3>2, <3>3, DataSteps
  <2> QED
    BY <2>1, <2>2
<1> QED
  BY <1>2, <1>3

\* The I/O thread carries out the request at the head of its queue.
LEMMA QueuedStep ==
    ASSUME Faultless, NamesDistinct, AllInv, DataInv, ReadsInv, [Next]_vars,
           NEW i \in Irps, irp[i].pc = "pending", irp[i].status = "ok", irp'[i].status = "ok",
           NEW s \in Wanted(i), InQueue(i, s)
    PROVE  InQueue(i, s)' \/ BeingRead(i, s)' \/ data'[i][s][1] # "nodata"
<1>0. /\ Pipeline /\ Types /\ "io" \in Threads /\ irp \in [Irps -> IrpType] /\ ioQueue \in Seq(Request)
      /\ data = [j \in Irps |-> data[j]] /\ data[i] = [u \in Wanted(i) |-> data[i][u]]
  BY DEF AllInv, Pipeline, Types, Threads, ReadsInv, ClientInv
<1>1. PICK r \in Queued : r.irp = i /\ s \in Sectors(r)
  BY DEF InQueue
<1>2. r \in Queued' => InQueue(i, s)'
  BY <1>1 DEF InQueue, Sectors
<1>3. CASE ~IoPerform
  <2>1. MainQueue => ioQueue' = Append(ioQueue, thread["main"].request)
    BY DEF MainQueue
  <2>2. thread["main"].request \in Request
    BY <1>0 DEF Types, ThreadType, Threads
  <2> QED
    BY <1>0, <1>2, <1>3, <2>1, <2>2, Members, RequestSteps DEF Queued
<1>4. CASE IoPerform
  <2>1. PICK q \in Queued : q = Head(ioQueue)
    BY <1>0, <1>4, Members DEF IoPerform, Queued
  <2>2. /\ ioQueue # << >> /\ ioQueue' = Tail(ioQueue)
        /\ thread' = [thread EXCEPT !["io"] = [pc |-> "finish", irp |-> q.irp, request |-> q]]
    BY <1>4, <2>1 DEF IoPerform
  <2>3. CASE r # q
    <3>1. PICK n \in 1 .. Len(ioQueue) : ioQueue[n] = r
      BY DEF Queued
    <3>2. /\ Len(ioQueue) \in Nat \ {0} /\ Len(ioQueue') = Len(ioQueue) - 1 /\ q = ioQueue[1]
          /\ \A m \in 1 .. Len(ioQueue) - 1 : ioQueue'[m] = ioQueue[m + 1]
      BY <1>0, <2>1, <2>2, Taken
    <3>3. n # 1
      BY <2>3, <3>1, <3>2
    <3>4. n - 1 \in 1 .. Len(ioQueue') /\ ioQueue'[n - 1] = r
      BY <3>1, <3>2, <3>3
    <3> QED
      BY <1>2, <3>4 DEF Queued
  <2>4. CASE r = q /\ ~irp[i].write
    <3>1. irp'[i].write = irp[i].write
      BY <1>0, PendingSame DEF SameIrp
    <3>2. At("io", "finish")' /\ thread'["io"].request = r
      BY <1>0, <2>2, <2>4 DEF At, Types
    <3> QED
      BY <1>1, <2>4, <3>1, <3>2 DEF BeingRead, At, Sectors
  <2>5. CASE r = q /\ irp[i].write
    <3>1. IoWrite(r)
      BY <1>1, <1>4, <2>1, <2>5 DEF IoPerform
    <3>2. data' = [data EXCEPT ![i] = Update(data[i], [u \in Sectors(r) |-> <<i, 0>>])]
      BY <1>1, <3>1, WroteWhole
    <3>3. data'[i][s] = <<i, 0>>
      BY <1>0, <1>1, <3>2 DEF Update
    <3> QED
      BY <3>3 DEF NamesDistinct
  <2> QED
    BY <2>3, <2>4, <2>5
<1> QED
  BY <1>3, <1>4

LEMMA CoverStep ==
    ASSUME Faultless, NamesDistinct, AllInv, DataInv, LayersMatchArea, ReadsInv, ValueInv, CoverInv,
           [Next]_vars
    PROVE  CoverInv'
<1>0. /\ Pipeline /\ Types /\ "main" \in Threads /\ irp \in [Irps -> IrpType]
      /\ data = [j \in Irps |-> data[j]]
  BY DEF AllInv, Pipeline, Types, Threads, ReadsInv, ClientInv
<1> SUFFICES ASSUME NEW i \in Irps, irp'[i].pc = "pending", irp'[i].status = "ok", ~Fresh(i)',
                    NEW s \in Wanted(i)'
             PROVE  data'[i][s][1] # "nodata" \/ Ahead(i, s)'
  BY DEF CoverInv
<1>1. CASE MainMisaligned /\ i = thread["main"].irp
  <2>1. At("main", "misaligned") /\ irp[i].pc = "pending" /\ Misaligned(i)
    BY <1>0, <1>1 DEF MainMisaligned, At, Pipeline, PendingInv, Working, ReadsInv, MisalignedInv
  <2>2. s \in Wanted(i) /\ data[i] = [u \in Wanted(i) |-> data[i][u]]
    BY <1>0, <2>1, PendingSame DEF ReadsInv, ClientInv, Wanted, SameIrp
  <2>3. PICK ok \in BOOLEAN :
            /\ irp' = [irp EXCEPT ![i].status = IF ok THEN "ok" ELSE "failed"]
            /\ data' = IF ~ok THEN data ELSE [data EXCEPT ![i] =
                [u \in DOMAIN data[i] |-> IF u \in EncryptedPart(DOMAIN data[i])
                                          THEN Decrypt(disk[u]) ELSE disk[u]]]
    BY <1>1 DEF MainMisaligned, Outcome
  <2>4. ok
    BY <1>0, <2>3 DEF IrpType
  <2>5. data'[i][s] = IF s \in EncryptedPart(DOMAIN data[i]) THEN Decrypt(disk[s]) ELSE disk[s]
    BY <1>0, <2>2, <2>3, <2>4
  <2>6. s \in Disk
    BY <2>1, <2>2, MisalignedHeld
  <2> QED
    BY <2>5, <2>6 DEF ValueInv, Decrypt
<1>2. CASE MainAccept /\ i = thread["main"].irp
  <2>1. irp[i].pc = "pending"
    BY <1>0, <1>2 DEF MainAccept, At, Pipeline, PendingInv, Working
  <2>2. SameIrp(i)
    BY <1>0, <2>1, PendingSame
  <2>3. Goes("main", "fragment") /\ cursor'.offset = irp[i].offset
    <3>1. ~Goes("main", "misaligned")
      <4>1. ASSUME Goes("main", "misaligned") PROVE FALSE
        <5>1. thread'["main"].pc = "misaligned" /\ thread'["main"].irp = i
          BY <1>0, <1>2, <4>1, GoesFacts DEF ThreadPc
        <5> QED
          BY <5>1 DEF Fresh
      <4> QED
        BY <4>1
    <3>2. irp' # [irp EXCEPT ![i].status = "failed"]
      BY <1>0 DEF IrpType
    <3> QED
      BY <1>2, <3>1, <3>2 DEF MainAccept
  <2>4. thread'["main"].pc = "fragment" /\ thread'["main"].irp = i
    BY <1>0, <1>2, <2>3, GoesFacts DEF ThreadPc
  <2>5. s >= irp[i].offset
    BY <1>0, <2>2 DEF Wanted, SameIrp, IrpType
  <2> QED
    BY <2>3, <2>4, <2>5 DEF Ahead, NotSplit, Splitting
<1>3. CASE ~(MainMisaligned /\ i = thread["main"].irp) /\ ~(MainAccept /\ i = thread["main"].irp)
  <2>1. irp[i].pc = "pending" /\ ~Fresh(i)
    BY <1>0, <1>3, FreshStep
  <2>2. irp[i].status = "ok"
    BY <1>0, <1>3, <2>1, StatusSteps DEF AddIrp, Collect, IrpAt
  <2>3. s \in Wanted(i)
    BY <1>0, <2>1, PendingSame DEF Wanted, SameIrp
  <2>4. data[i][s][1] # "nodata" \/ Ahead(i, s)
    BY <2>1, <2>2, <2>3 DEF CoverInv
  <2>5. CASE data[i][s][1] # "nodata" \/ BeingRead(i, s)
    <3>1. /\ data[i][s][1] # "nodata" => data'[i][s][1] # "nodata"
          /\ BeingRead(i, s) => BeingRead(i, s)' \/ data'[i][s][1] # "nodata"
      BY <1>3, <2>1, <2>2, <2>3, FinishedStep
    <3> QED
      BY <2>5, <3>1 DEF Ahead
  <2>6. CASE InQueue(i, s)
    BY <2>1, <2>2, <2>3, <2>6, QueuedStep DEF Ahead
  <2>7. CASE NotSplit(i, s)
    BY <2>1, <2>3, <2>7, NotSplitStep DEF Ahead
  <2> QED
    BY <2>4, <2>5, <2>6, <2>7 DEF Ahead
<1> QED
  BY <1>1, <1>2, <1>3

LEMMA CoverInit == NamesDistinct /\ Init => ValueInv /\ CoverInv
<1> SUFFICES ASSUME NamesDistinct, Init PROVE ValueInv /\ CoverInv
  OBVIOUS
<1>1. ValueInv
  BY DEF Init, ValueInv, NamesDistinct
<1>2. CoverInv
  BY DEF Init, CoverInv, NoIrp
<1> QED
  BY <1>1, <1>2

-----------------------------------------------------------------------------
(* The encrypted device is a disk: what LogicalDisk sees of the queue. *)
Content == [s \in Disk |-> IF s \in Logical THEN disk[Location(s)][1] ELSE None]
Mapped == [i \in Irps |-> RequestOf(i)]
Op(i) == IF irp[i].pc = "idle" THEN "none" ELSE IF irp[i].write THEN "write" ELSE "read"
Values(i) == [s \in DOMAIN data[i] \cap Logical |-> data[i][s][1]]
Phase(i) ==
    IF irp[i].pc = "idle" THEN "none" ELSE IF irp[i].pc = "done" THEN irp[i].status ELSE "active"

LEMMA Fields ==
    ASSUME NEW i \in Irps
    PROVE  Mapped[i] = [op |-> Op(i), data |-> Values(i), status |-> Phase(i)]
  BY DEF Mapped, RequestOf, Op, Values, Phase, IrpAt

\* What is not where the area is remapped to can be addressed; no two addresses are the same place.
LEMMA LogicalIs ==
    ASSUME AllInv, AreaInv
    PROVE  Logical = IF RemapEncryptedArea THEN Disk \ Remapped ELSE Disk
<1>1. RemapEncryptedArea \in BOOLEAN /\ (RemapEncryptedArea => EncryptedAreaEnd = queue.InitialAreaEnd)
  BY Layout DEF AllInv, Pipeline, RemapEncryptedArea, AreaInv
<1>2. CASE RemapEncryptedArea
  BY <1>1, <1>2 DEF Logical, Remapped
<1>3. CASE ~RemapEncryptedArea
  BY <1>3 DEF Logical
<1> QED
  BY <1>1, <1>2, <1>3

LEMMA LocationIs ==
    ASSUME AllInv, AreaInv, NEW s \in Logical
    PROVE  /\ s \in Disk /\ Location(s) \in Int
           /\ Location(s) = s \/ (RemapEncryptedArea /\ Location(s) = s + RemappedAreaOffset)
           /\ RemapEncryptedArea => /\ Location(s) \notin EncryptedAreaStart .. EncryptedAreaEnd
                                    /\ Location(s) = s <=> Location(s) \notin Remapped
<1>0. /\ DiskSize \in Nat /\ RemappedAreaOffset \in Nat /\ RemapEncryptedArea \in BOOLEAN
      /\ EncryptedAreaStart \in Nat /\ EncryptedAreaEnd \in Int
      /\ RemapEncryptedArea => IsFilterDevice
      /\ RemapEncryptedArea => (EncryptedAreaStart .. EncryptedAreaEnd) \cap Remapped = {}
  BY Layout DEF AllInv, Pipeline, RestTypes, WellPlaced, RemappedAreaOffset, RemapEncryptedArea, IsFilterDevice,
     EncryptedAreaStart, Remapped, AreaInv
<1>1. s \in Disk /\ s \in Int /\ (RemapEncryptedArea => s \notin Remapped)
  BY <1>0, LogicalIs DEF Disk
<1>2. CASE RemapEncryptedArea /\ s \in EncryptedPart({s})
  <2>1. Location(s) = s + RemappedAreaOffset /\ s \in EncryptedAreaStart .. EncryptedAreaEnd
    BY <1>0, <1>2 DEF Location, EncryptedPart
  <2>2. Location(s) \in Remapped
    BY <2>1 DEF Remapped
  <2>3. Location(s) # s
    BY <1>1, <1>2, <2>2
  <2> QED
    BY <1>0, <1>1, <1>2, <2>1, <2>2, <2>3
<1>3. CASE ~(RemapEncryptedArea /\ s \in EncryptedPart({s}))
  <2>1. Location(s) = s
    BY <1>3 DEF Location
  <2>2. RemapEncryptedArea => s \notin EncryptedAreaStart .. EncryptedAreaEnd
    BY <1>0, <1>3 DEF EncryptedPart
  <2> QED
    BY <1>0, <1>1, <2>1, <2>2
<1> QED
  BY <1>2, <1>3

LEMMA LocationInjective ==
    ASSUME AllInv, AreaInv, NEW s \in Logical, NEW u \in Logical, Location(s) = Location(u)
    PROVE  s = u
<1>1. DiskSize \in Nat /\ RemappedAreaOffset \in Nat
  BY Layout DEF AllInv, Pipeline, RemappedAreaOffset
<1>2. s \in Int /\ u \in Int
  BY <1>1, LocationIs DEF Disk
<1>3. CASE ~RemapEncryptedArea
  BY <1>3, LocationIs
<1>4. CASE RemapEncryptedArea
  <2>1. Location(s) = s <=> Location(u) = u
    BY <1>4, LocationIs
  <2>2. CASE Location(s) = s
    BY <2>1, <2>2
  <2>3. CASE Location(s) # s
    <3>1. Location(s) = s + RemappedAreaOffset /\ Location(u) = u + RemappedAreaOffset
      BY <2>1, <2>3, LocationIs
    <3>2. PICK a \in Int, b \in Int, o \in Int : a = s /\ b = u /\ o = RemappedAreaOffset
      BY <1>1, <1>2
    <3>3. a + o = b + o
      BY <3>1, <3>2
    <3> QED
      BY <3>2, <3>3
  <2> QED
    BY <2>2, <2>3
<1> QED
  BY <1>3, <1>4

LEMMA LogicalKept == [Next]_vars => UNCHANGED Logical
  BY QueueKept DEF Logical, RemapEncryptedArea, EncryptedAreaStart, RemappedAreaOffset

LEMMA LocationKept ==
    ASSUME UNCHANGED <<queue, EncryptedAreaEnd>>, NEW s
    PROVE  Location(s)' = Location(s)
  BY DEF Location, RemapEncryptedArea, EncryptedPart, IsFilterDevice, EncryptedAreaStart,
         RemappedAreaOffset

\* The holder of the queue changes the layers, or what cannot be addressed.
LEMMA HeldContent ==
    ASSUME AllInv, AreaInv, HoldWork
    PROVE  UNCHANGED Content
<1>0. /\ disk = [a \in Disk |-> disk[a]] /\ UNCHANGED queue /\ UNCHANGED Logical
      /\ \A s \in Logical : s \in Disk
  BY LogicalIs DEF AreaInv, HoldWork, Logical, RemapEncryptedArea, EncryptedAreaStart, RemappedAreaOffset
<1>1. ASSUME NEW s \in Logical PROVE disk'[Location(s)'][1] = disk[Location(s)][1]
  <2>1. CASE ~RemapEncryptedArea
    <3>1. Location(s) = s /\ Location(s)' = s
      BY <1>0, <2>1 DEF Location, RemapEncryptedArea
    <3>2. \E a : disk' = [disk EXCEPT ![a] = Encrypt(disk[a])] \/ disk' = [disk EXCEPT ![a] = Decrypt(disk[a])]
      BY <2>1 DEF HoldWork
    <3>3. disk'[s][1] = disk[s][1]
      BY <1>0, <1>1, <3>2 DEF Encrypt, Decrypt
    <3> QED
      BY <3>1, <3>3
  <2>2. CASE RemapEncryptedArea
    <3>1. PICK a \in EncryptedAreaStart .. EncryptedAreaEnd :
             disk' = [disk EXCEPT ![a] = Stale] /\ UNCHANGED EncryptedAreaEnd
      BY <2>2 DEF HoldWork
    <3>2. Location(s)' = Location(s) /\ Location(s) # a
      BY <1>0, <1>1, <2>2, <3>1, LocationIs, LocationKept
    <3>3. disk'[Location(s)] = disk[Location(s)]
      BY <1>0, <3>1, <3>2
    <3> QED
      BY <3>2, <3>3
  <2> QED
    BY <2>1, <2>2
<1> QED
  BY <1>0, <1>1 DEF Content

LEMMA ContentKept ==
    ASSUME AllInv, DataInv, [Next]_vars, ~IoPerform \/ UNCHANGED disk
    PROVE  UNCHANGED Content
<1>1. CASE HoldWork
  BY <1>1, HeldContent DEF DataInv
<1>2. CASE ~HoldWork
  <2>1. UNCHANGED <<queue, EncryptedAreaEnd, disk, Logical>>
    BY <1>2, QueueKept, AreaKept, DiskKept, LogicalKept
  <2> QED
    BY <2>1, LocationKept DEF Content
<1> QED
  BY <1>1, <1>2

\* A write gets to what it addresses.
LEMMA WrittenContent ==
    ASSUME AllInv, DataInv, [Next]_vars, IoPerform, NEW r \in Queued, irp[r.irp].write, IoWrite(r)
    PROVE  \E written \in SUBSET (Sectors(r) \cap Logical) :
              /\ Content' = [s \in Disk |-> IF s \in written THEN r.irp ELSE Content[s]]
              /\ data' = [data EXCEPT ![r.irp] = Update(data[r.irp], [s \in written |-> <<r.irp, 0>>])]
<1>1. PICK written \in SUBSET Sectors(r) :
         /\ disk' = Update(disk, [a \in {Location(s) : s \in written} |->
                       Buffered(r.buffer, CHOOSE s \in written : Location(s) = a)])
         /\ data' = [data EXCEPT ![r.irp] = Update(data[r.irp], [s \in written |-> <<r.irp, 0>>])]
  BY DEF IoWrite
<1>2. /\ disk = [a \in Disk |-> disk[a]] /\ Filled(r) /\ AreaInv
      /\ UNCHANGED <<queue, EncryptedAreaEnd, Logical>>
  BY Performed, LogicalKept DEF DataInv, BufferInv, AreaInv
<1>3. written \subseteq Logical
  <2>1. ASSUME NEW s \in written PROVE s \in Logical
    <3>1. r \in Carried /\ s \in Sectors(r)
      BY DEF Carried
    <3>2. s \in Disk /\ (RemapEncryptedArea => s \notin Remapped)
      BY <3>1, Addressed
    <3> QED
      BY <1>2, <3>2, LogicalIs
  <2> QED
    BY <2>1
<1>4. ASSUME NEW s \in Logical
      PROVE  disk'[Location(s)][1] = IF s \in written THEN r.irp ELSE disk[Location(s)][1]
  <2>0. Location(s) \in Disk
    <3>1. /\ s \in Disk /\ RemapEncryptedArea \in BOOLEAN
          /\ RemapEncryptedArea => Remapped \subseteq Disk
      BY <1>2, LocationIs, Layout DEF WellPlaced, RemapEncryptedArea, Remapped, EncryptedAreaStart,
         RemappedAreaOffset, AreaInv, AllInv, Pipeline, Disk
    <3> QED
      BY <1>2, <3>1, LocationIs
  <2>1. CASE s \in written
    <3> DEFINE u == CHOOSE u \in written : Location(u) = Location(s)
    <3>1. u \in written /\ Location(u) = Location(s)
      BY <2>1
    <3>2. disk'[Location(s)] = Buffered(r.buffer, u)
      BY <1>1, <1>2, <2>0, <2>1 DEF Update
    <3> HIDE DEF u
    <3>3. u = s
      BY <1>2, <1>3, <3>1, LocationInjective
    <3>4. Buffered(r.buffer, s) = <<r.irp, IF s \in r.encrypted THEN 1 ELSE 0>>
      BY <1>1, <1>2, <2>1 DEF Buffered, Filled
    <3> QED
      BY <2>1, <3>2, <3>3, <3>4
  <2>2. CASE s \notin written
    <3>1. Location(s) \notin {Location(u) : u \in written}
      BY <1>2, <1>3, <2>2, LocationInjective
    <3>2. disk'[Location(s)] = disk[Location(s)]
      BY <1>1, <1>2, <2>0, <3>1 DEF Update
    <3> QED
      BY <2>2, <3>2
  <2> QED
    BY <2>1, <2>2
<1>5. Content' = [s \in Disk |-> IF s \in written THEN r.irp ELSE Content[s]]
  <2>1. Content' = [s \in Disk |-> IF s \in Logical THEN disk'[Location(s)][1] ELSE None]
    BY <1>2, LocationKept DEF Content
  <2>2. ASSUME NEW s \in Disk
        PROVE  (IF s \in Logical THEN disk'[Location(s)][1] ELSE None) =
               (IF s \in written THEN r.irp ELSE Content[s])
    BY <1>3, <1>4 DEF Content
  <2> QED
    BY <2>1, <2>2
<1> QED
  BY <1>1, <1>3, <1>5


-----------------------------------------------------------------------------
(* Which step of LogicalDisk a step of the queue is. *)

\* The steps that an IRP's caller or the disk can see.
Seen(i) ==
    \/ AddIrp(i) \/ Collect(i) \/ AddIrpRefuse(i) \/ AddIrpSignal(i)
    \/ \E t \in Threads : Complete(t) /\ thread[t].irp = i
    \/ MainMisaligned /\ thread["main"].irp = i
    \/ IoPerform /\ Head(ioQueue).irp = i /\ irp[i].write /\ irp[i].status = "ok"
    \/ IoFinish /\ thread["io"].request.irp = i

LEMMA Unseen ==
    ASSUME AllInv, ReadsInv, [Next]_vars, NEW i \in Irps, ~Seen(i)
    PROVE  Mapped'[i] = Mapped[i]
<1>0. /\ Pipeline /\ Types /\ UNCHANGED <<queue, Logical>> /\ data = [j \in Irps |-> data[j]]
      /\ ~AddIrp(i) /\ ~Collect(i)
  BY QueueKept, LogicalKept DEF AllInv, Pipeline, ReadsInv, ClientInv, Seen
<1>1. Op(i)' = Op(i) /\ Phase(i)' = Phase(i)
  <2>1. CASE Adding(i) /\ SameIrp(i)
    <3>1. irp[i].pc = "counted" /\ irp'[i].pc = "pending"
      <4>1. AddIrpQueue(i)
        BY <2>1 DEF Adding, Seen
      <4> QED
        BY <1>0, <4>1 DEF AddIrpQueue, IrpAt, IrpGoes, Types, IrpType
    <3> QED
      BY <2>1, <3>1 DEF Op, Phase, SameIrp
  <2>2. CASE SameIrp(i) /\ irp'[i].pc = irp[i].pc /\ (irp[i].pc # "pending" => irp'[i] = irp[i])
    BY <2>2 DEF Op, Phase, SameIrp
  <2> QED
    BY <1>0, <2>1, <2>2, IrpSteps DEF Seen
<1>2. Values(i)' = Values(i)
  <2>1. CASE data'[i] = data[i]
    BY <1>0, <2>1 DEF Values
  <2>2. CASE /\ CompletionDecrypt
             /\ data'[i] = Update(data[i], [s \in Head(completionQueue).encrypted |-> Decrypt(data[i][s])])
    <3>1. DOMAIN data'[i] = DOMAIN data[i] /\ \A s \in DOMAIN data[i] : data'[i][s][1] = data[i][s][1]
      BY <2>2 DEF Update, Decrypt
    <3> QED
      BY <1>0, <3>1 DEF Values
  <2>3. ASSUME IoPerform, i = Head(ioQueue).irp PROVE data'[i] = data[i]
    <3>1. ~(irp[i].write /\ irp[i].status = "ok")
      BY <2>3 DEF Seen
    <3> QED
      BY <2>3, <3>1 DEF IoPerform, IoRead, IoSkip
  <2> QED
    BY <1>0, <2>1, <2>2, <2>3, DataSteps DEF Seen
<1>3. Mapped'[i] = [op |-> Op(i)', data |-> Values(i)', status |-> Phase(i)']
  BY DEF Mapped, RequestOf, Op, Values, Phase, IrpAt
<1> QED
  BY <1>1, <1>2, <1>3, Fields

LEMMA Framed ==
    ASSUME UNCHANGED Logical, NEW i \in Irps, irp'[i] = irp[i], data'[i] = data[i]
    PROVE  Mapped'[i] = Mapped[i]
  BY DEF Mapped, RequestOf, IrpAt

LEMMA OneMapped ==
    ASSUME NEW i \in Irps, \A j \in Irps : j # i => Mapped'[j] = Mapped[j]
    PROVE  Mapped' = [Mapped EXCEPT ![i] = [op |-> Op(i)', data |-> Values(i)', status |-> Phase(i)']]
<1>1. Mapped'[i] = [op |-> Op(i)', data |-> Values(i)', status |-> Phase(i)']
  BY DEF Mapped, RequestOf, Op, Values, Phase, IrpAt
<1>2. Mapped = [j \in Irps |-> Mapped[j]] /\ Mapped' = [j \in Irps |-> Mapped'[j]]
  BY DEF Mapped
<1> HIDE DEF Mapped
<1> QED
  BY <1>1, <1>2

LEMMA Submitted ==
    ASSUME NEW i \in Irps, NEW op \in {"read", "write"}, NEW sectors \in SUBSET Disk,
           Mapped[i].op = "none", Content' = Content,
           Mapped' = [Mapped EXCEPT ![i] =
              [op |-> op, data |-> [s \in sectors |-> "nodata"], status |-> "active"]]
    PROVE  Device!Submit(i)
<1>1. Device!Submit(i) <=>
         /\ Mapped[i].op = "none"
         /\ \E o \in {"read", "write"}, S \in SUBSET Disk :
               Mapped' = [Mapped EXCEPT ![i] =
                  [op |-> o, data |-> [s \in S |-> "nodata"], status |-> "active"]]
         /\ Content' = Content
  BY DEF Mapped, Content, Device!Submit, Device!Untouched, Device!NoData
<1> QED
  BY <1>1

LEMMA Transferred ==
    ASSUME NEW i \in Irps, NEW sectors \in SUBSET DOMAIN Mapped[i].data, Mapped[i].status = "active",
           Content' = [s \in Disk |-> IF Mapped[i].op = "write" /\ s \in sectors THEN i ELSE Content[s]],
           Mapped' = [Mapped EXCEPT ![i].data =
              [s \in DOMAIN Mapped[i].data |->
                  IF s \in sectors THEN Content'[s] ELSE Mapped[i].data[s]]]
    PROVE  Device!Transfer(i)
<1>1. Device!Transfer(i) <=>
         /\ Mapped[i].status = "active"
         /\ \E S \in SUBSET DOMAIN Mapped[i].data :
               /\ Content' = [s \in Disk |-> IF Mapped[i].op = "write" /\ s \in S
                                             THEN i ELSE Content[s]]
               /\ Mapped' = [Mapped EXCEPT ![i].data =
                     [s \in DOMAIN Mapped[i].data |->
                         IF s \in S THEN Content'[s] ELSE Mapped[i].data[s]]]
  BY DEF Mapped, Content, Device!Transfer, Device!Active
<1> QED
  BY <1>1

LEMMA Answered ==
    ASSUME NEW i \in Irps, NEW status \in {"ok", "failed"}, Mapped[i].status = "active", Content' = Content,
           status = "ok" => \A s \in DOMAIN Mapped[i].data : Mapped[i].data[s] # "nodata",
           Mapped' = [Mapped EXCEPT ![i].status = status]
    PROVE  Device!Complete(i)
<1>1. Device!Complete(i) <=>
         /\ Mapped[i].status = "active"
         /\ \E answer \in {"ok", "failed"} :
               /\ answer = "ok" => \A s \in DOMAIN Mapped[i].data : Mapped[i].data[s] # "nodata"
               /\ Mapped' = [Mapped EXCEPT ![i].status = answer]
         /\ Content' = Content
  BY DEF Mapped, Content, Device!Complete, Device!Active, Device!NoData
<1> QED
  BY <1>1

LEMMA Fetched ==
    ASSUME NEW i \in Irps, Mapped[i].status \in {"ok", "failed"}, Content' = Content,
           Mapped' = [Mapped EXCEPT ![i] = [op |-> "none", data |-> << >>, status |-> "none"]]
    PROVE  Device!Collect(i)
  BY DEF Mapped, Content, Device!Collect, Device!NoRequest

LEMMA TransferStep ==
    ASSUME NEW i \in Irps, NEW sectors \in SUBSET DOMAIN Values(i), UNCHANGED Logical,
           Phase(i) = "active", Phase(i)' = "active", Op(i)' = Op(i), DOMAIN data'[i] = DOMAIN data[i],
           Content' = [s \in Disk |-> IF Op(i) = "write" /\ s \in sectors THEN i ELSE Content[s]],
           \A s \in DOMAIN Values(i) :
               data'[i][s][1] = IF s \in sectors THEN Content'[s] ELSE data[i][s][1],
           \A j \in Irps : j # i => Mapped'[j] = Mapped[j]
    PROVE  Device!Transfer(i)
<1> DEFINE new == [s \in DOMAIN Values(i) |-> IF s \in sectors THEN Content'[s] ELSE Values(i)[s]]
<1>1. Mapped[i] = [op |-> Op(i), data |-> Values(i), status |-> "active"]
  BY Fields
<1>2. Values(i)' = new
  BY DEF Values
<1>3. Mapped' = [Mapped EXCEPT ![i] = [op |-> Op(i), data |-> new, status |-> "active"]]
  BY <1>2, OneMapped
<1> HIDE DEF new
<1>4. Mapped' = [Mapped EXCEPT ![i].data = new]
  <2>1. [Mapped[i] EXCEPT !.data = new] = [op |-> Op(i), data |-> new, status |-> "active"]
    BY <1>1
  <2> QED
    BY <1>3, <2>1, Zenon
<1>5. Mapped[i].status = "active" /\ Mapped[i].op = Op(i) /\ Mapped[i].data = Values(i)
  BY <1>1
<1>6. /\ new = [s \in DOMAIN Mapped[i].data |-> IF s \in sectors THEN Content'[s] ELSE Mapped[i].data[s]]
      /\ Content' = [s \in Disk |-> IF Mapped[i].op = "write" /\ s \in sectors THEN i ELSE Content[s]]
      /\ sectors \in SUBSET DOMAIN Mapped[i].data
  BY <1>5 DEF new
<1>7. Mapped' = [Mapped EXCEPT ![i].data =
         [s \in DOMAIN Mapped[i].data |-> IF s \in sectors THEN Content'[s] ELSE Mapped[i].data[s]]]
  BY <1>4, <1>6
<1> QED
  BY <1>5, <1>6, <1>7, Transferred

LEMMA CompleteStep ==
    ASSUME NEW i \in Irps, UNCHANGED <<Logical, Content>>, Phase(i) = "active",
           Phase(i)' \in {"ok", "failed"}, Op(i)' = Op(i), data'[i] = data[i],
           Phase(i)' = "ok" => \A s \in DOMAIN Values(i) : Values(i)[s] # "nodata",
           \A j \in Irps : j # i => Mapped'[j] = Mapped[j]
    PROVE  Device!Complete(i)
<1>1. Mapped[i] = [op |-> Op(i), data |-> Values(i), status |-> "active"]
  BY Fields
<1>2. Values(i)' = Values(i)
  BY DEF Values
<1>3. PICK status \in {"ok", "failed"} : status = Phase(i)'
  OBVIOUS
<1>4. Mapped' = [Mapped EXCEPT ![i] = [op |-> Op(i), data |-> Values(i), status |-> status]]
  BY <1>2, <1>3, OneMapped
<1>5. Mapped' = [Mapped EXCEPT ![i].status = status]
  <2>1. [Mapped[i] EXCEPT !.status = status] = [op |-> Op(i), data |-> Values(i), status |-> status]
    BY <1>1
  <2> QED
    BY <1>4, <2>1, Zenon
<1>6. Mapped[i].status = "active" /\ Mapped[i].data = Values(i)
  BY <1>1
<1>7. status = "ok" => \A s \in DOMAIN Mapped[i].data : Mapped[i].data[s] # "nodata"
  BY <1>3, <1>6
<1>8. Content' = Content
  OBVIOUS
<1> QED
  BY <1>3, <1>5, <1>6, <1>7, <1>8, Answered

LEMMA AddedStep ==
    ASSUME AllInv, DataInv, ReadsInv, [Next]_vars, NEW i \in Irps, AddIrp(i)
    PROVE  Device!Submit(i)
<1>0. /\ Types /\ data = [j \in Irps |-> data[j]] /\ irp \in [Irps -> IrpType]
      /\ UNCHANGED <<queue, Logical>> /\ Logical \subseteq Disk
  BY QueueKept, LogicalKept, LogicalIs DEF AllInv, Pipeline, Types, ReadsInv, ClientInv, DataInv
<1>1. PICK write \in BOOLEAN, g \in queue.Ranges :
        /\ irp' = [irp EXCEPT ![i] =
             [pc |-> "counted", write |-> write, offset |-> Base + g.offset,
              length |-> g.length, aligned |-> g.aligned, status |-> "ok"]]
        /\ data' = [data EXCEPT ![i] =
             [s \in Base + g.offset .. Base + g.offset + g.length -
                     (IF g.aligned THEN 1 ELSE 0) |-> NoData]]
  BY DEF AddIrp, Base
<1>2. PICK sectors : data'[i] = [s \in sectors |-> NoData]
  BY <1>0, <1>1
<1>3. Values(i)' = [s \in sectors \cap Logical |-> "nodata"]
  BY <1>0, <1>2 DEF Values, NoData
<1>4. Op(i)' \in {"read", "write"} /\ Phase(i)' = "active" /\ Op(i) = "none"
  BY <1>0, <1>1 DEF Op, Phase, AddIrp, IrpAt
<1>5. \A j \in Irps : j # i => Mapped'[j] = Mapped[j]
  BY <1>0, <1>1, Framed
<1>6. Mapped[i].op = "none"
  <2>1. Mapped[i] = [op |-> Op(i), data |-> Values(i), status |-> Phase(i)]
    BY Fields
  <2> QED
    BY <1>4, <2>1
<1>7. Mapped' = [Mapped EXCEPT ![i] = [op |-> Op(i)', data |-> Values(i)', status |-> Phase(i)']]
  BY <1>5, OneMapped
<1>8. Content' = Content
  <2>1. UNCHANGED disk
    BY DEF AddIrp, device
  <2> QED
    BY <2>1, ContentKept
<1>9. PICK op \in {"read", "write"} : op = Op(i)'
  BY <1>4
<1>10. sectors \cap Logical \in SUBSET Disk
  BY <1>0
<1>11. Mapped' = [Mapped EXCEPT ![i] =
          [op |-> op, data |-> [s \in sectors \cap Logical |-> "nodata"], status |-> "active"]]
  BY <1>3, <1>4, <1>7, <1>9
<1> QED
  BY <1>6, <1>8, <1>10, <1>11, Submitted

LEMMA CollectedStep ==
    ASSUME AllInv, DataInv, ReadsInv, [Next]_vars, NEW i \in Irps, Collect(i)
    PROVE  Device!Collect(i)
<1>0. /\ Types /\ data = [j \in Irps |-> data[j]] /\ irp \in [Irps -> IrpType]
      /\ UNCHANGED <<queue, Logical>>
  BY QueueKept, LogicalKept DEF AllInv, Pipeline, Types, ReadsInv, ClientInv
<1>1. /\ irp[i].pc = "done" /\ irp' = [irp EXCEPT ![i] = NoIrp] /\ data' = [data EXCEPT ![i] = << >>]
      /\ UNCHANGED disk
  BY DEF Collect, IrpAt, device
<1>2. Values(i)' = << >>
  <2>1. DOMAIN data'[i] = {}
    BY <1>0, <1>1
  <2> QED
    BY <2>1 DEF Values
<1>3. Op(i)' = "none" /\ Phase(i)' = "none" /\ Phase(i) \in {"ok", "failed"}
  BY <1>0, <1>1 DEF Op, Phase, NoIrp, IrpType
<1>4. \A j \in Irps : j # i => Mapped'[j] = Mapped[j]
  BY <1>0, <1>1, Framed
<1>5. Mapped[i].status \in {"ok", "failed"}
  <2>1. Mapped[i] = [op |-> Op(i), data |-> Values(i), status |-> Phase(i)]
    BY Fields
  <2> QED
    BY <1>3, <2>1
<1>6. Mapped' = [Mapped EXCEPT ![i] = [op |-> Op(i)', data |-> Values(i)', status |-> Phase(i)']]
  BY <1>4, OneMapped
<1>7. Mapped' = [Mapped EXCEPT ![i] = [op |-> "none", data |-> << >>, status |-> "none"]]
  BY <1>2, <1>3, <1>6
<1>8. Content' = Content
  BY <1>1, ContentKept
<1> QED
  BY <1>5, <1>7, <1>8, Fetched


\* The main thread reads a misaligned request.
LEMMA MisalignedSeen ==
    ASSUME Faultless, AllInv, DataInv, LayersMatchArea, ReadsInv, [Next]_vars, MainMisaligned
    PROVE  (\E i \in Irps : Device!Transfer(i)) \/ UNCHANGED <<Content, Mapped>>
<1>0. /\ Pipeline /\ Types /\ data = [j \in Irps |-> data[j]] /\ irp \in [Irps -> IrpType]
      /\ UNCHANGED <<queue, Logical>>
  BY QueueKept, LogicalKept DEF AllInv, Pipeline, Types, ReadsInv, ClientInv
<1>1. PICK i \in Irps : i = thread["main"].irp /\ irp[i].pc = "pending" /\ Misaligned(i)
  BY <1>0 DEF MainMisaligned, At, Pipeline, PendingInv, Working, Threads, ReadsInv, MisalignedInv
<1>2. PICK ok \in BOOLEAN :
        /\ irp' = [irp EXCEPT ![i].status = IF ok THEN "ok" ELSE "failed"]
        /\ data' = IF ~ok THEN data ELSE [data EXCEPT ![i] =
             [u \in DOMAIN data[i] |-> IF u \in EncryptedPart(DOMAIN data[i])
                                       THEN Decrypt(disk[u]) ELSE disk[u]]]
  BY <1>1 DEF MainMisaligned, Outcome
<1>3. Op(i)' = Op(i) /\ Phase(i) = "active" /\ Phase(i)' = "active" /\ Op(i) = "read"
  BY <1>0, <1>1, <1>2 DEF Op, Phase, IrpType, Misaligned
<1>4. \A j \in Irps : j # i => Mapped'[j] = Mapped[j]
  <2>1. ASSUME NEW j \in Irps, j # i PROVE irp'[j] = irp[j] /\ data'[j] = data[j]
    BY <1>0, <1>2, <2>1
  <2> QED
    BY <1>0, <2>1, Framed
<1>5. Content' = Content
  <2>1. UNCHANGED disk
    BY DEF MainMisaligned, device
  <2> QED
    BY <2>1, ContentKept
<1>6. DOMAIN data'[i] = DOMAIN data[i] /\ DOMAIN Values(i) = DOMAIN data[i] \cap Logical
  BY <1>0, <1>2 DEF Values
<1>7. Content' = [s \in Disk |-> IF Op(i) = "write" /\ s \in {} THEN i ELSE Content[s]]
  BY <1>5 DEF Content
<1>8. CASE ok
  <2> DEFINE sectors == DOMAIN Values(i)
  <2>1. ASSUME NEW s \in sectors PROVE data'[i][s][1] = Content'[s]
    <3>1. s \in DOMAIN data[i] /\ s \in Logical
      BY <1>6
    <3>2. data'[i][s][1] = disk[s][1]
      BY <1>0, <1>2, <1>8, <3>1 DEF Decrypt
    <3>3. Location(s) = s /\ s \in Disk
      <4>1. irp[i] \in IrpType /\ queue \in Queues
        BY <1>0 DEF Types
      <4>2. PICK g \in queue.Ranges : irp[i].aligned = g.aligned
        BY <1>1 DEF DataInv, RangeInv
      <4>3. ~RemapEncryptedArea
        BY <1>1, <4>1, <4>2 DEF Faultless, RemapEncryptedArea, Misaligned
      <4> QED
        BY <3>1, <4>3, LocationIs DEF DataInv
    <3> QED
      BY <1>5, <3>1, <3>2, <3>3 DEF Content
  <2>2. Content' = [s \in Disk |-> IF Op(i) = "write" /\ s \in sectors THEN i ELSE Content[s]]
    BY <1>3, <1>5 DEF Content
  <2>3. \A s \in DOMAIN Values(i) : data'[i][s][1] = IF s \in sectors THEN Content'[s] ELSE data[i][s][1]
    BY <2>1
  <2>4. sectors \in SUBSET DOMAIN Values(i)
    OBVIOUS
  <2> HIDE DEF sectors
  <2>5. Device!Transfer(i)
    BY <1>0, <1>3, <1>4, <1>6, <2>2, <2>3, <2>4, TransferStep
  <2> QED
    BY <2>5
<1>9. CASE ~ok
  <2>1. \A s \in DOMAIN Values(i) : data'[i][s][1] = IF s \in {} THEN Content'[s] ELSE data[i][s][1]
    BY <1>2, <1>9
  <2>2. {} \in SUBSET DOMAIN Values(i)
    OBVIOUS
  <2>3. Device!Transfer(i)
    BY <1>0, <1>3, <1>4, <1>6, <1>7, <2>1, <2>2, TransferStep
  <2> QED
    BY <2>3
<1> QED
  BY <1>8, <1>9

\* The I/O thread writes.
LEMMA WriteSeen ==
    ASSUME Faultless, AllInv, DataInv, ReadsInv, [Next]_vars, IoPerform,
           irp[Head(ioQueue).irp].write, irp[Head(ioQueue).irp].status = "ok"
    PROVE  \E i \in Irps : Device!Transfer(i)
<1>0. /\ Pipeline /\ Types /\ data = [j \in Irps |-> data[j]] /\ irp \in [Irps -> IrpType]
      /\ UNCHANGED <<queue, Logical>>
  BY QueueKept, LogicalKept DEF AllInv, Pipeline, Types, ReadsInv, ClientInv
<1>1. PICK r \in Queued : r = Head(ioQueue)
  BY <1>0, Members DEF IoPerform, Queued, Types
<1>2. PICK i \in Irps : i = r.irp /\ irp[i].pc = "pending" /\ irp[i].write
  BY <1>0, <1>1, CarriedFacts DEF Carried
<1>3. IoWrite(r)
  BY <1>1, <1>2 DEF IoPerform
<1>4. PICK written \in SUBSET (Sectors(r) \cap Logical) :
        /\ Content' = [s \in Disk |-> IF s \in written THEN i ELSE Content[s]]
        /\ data' = [data EXCEPT ![i] = Update(data[i], [s \in written |-> <<i, 0>>])]
  <2>1. irp[r.irp].write
    BY <1>2
  <2>2. \E written \in SUBSET (Sectors(r) \cap Logical) :
           /\ Content' = [s \in Disk |-> IF s \in written THEN r.irp ELSE Content[s]]
           /\ data' = [data EXCEPT ![r.irp] = Update(data[r.irp], [s \in written |-> <<r.irp, 0>>])]
    BY <1>1, <1>3, <2>1, WrittenContent
  <2> QED
    BY <1>2, <2>2, Zenon
<1>5. \E status : irp' = [irp EXCEPT ![i].status = status]
  BY <1>2, <1>3 DEF IoWrite
<1>6. Op(i)' = Op(i) /\ Phase(i) = "active" /\ Phase(i)' = "active" /\ Op(i) = "write"
  BY <1>0, <1>2, <1>5 DEF Op, Phase, IrpType
<1>7. \A j \in Irps : j # i => Mapped'[j] = Mapped[j]
  <2>1. ASSUME NEW j \in Irps, j # i PROVE irp'[j] = irp[j] /\ data'[j] = data[j]
    BY <1>0, <1>4, <1>5, <2>1
  <2> QED
    BY <1>0, <2>1, Framed
<1>8. DOMAIN Values(i) = DOMAIN data[i] \cap Logical /\ DOMAIN data[i] = Wanted(i)
  BY <1>2 DEF Values, ReadsInv, ClientInv
<1>9. Sectors(r) \subseteq Wanted(i)
  <2>1. r \in Carried
    BY DEF Carried
  <2>2. /\ r \in Request /\ irp[i] \in IrpType /\ irp[i].aligned
        /\ irp[i].offset <= r.offset /\ r.offset + r.length <= irp[i].offset + irp[i].length
    BY <1>0, <1>2, <2>1, CarriedFacts DEF DataInv, SoundInv, Sound, Valid
  <2> QED
    BY <2>2 DEF Sectors, Wanted, Request, IrpType
<1>10. written \in SUBSET DOMAIN Values(i)
  BY <1>8, <1>9
<1>11. data'[i] = [s \in DOMAIN data[i] |-> IF s \in written THEN <<i, 0>> ELSE data[i][s]]
  BY <1>0, <1>4 DEF Update
<1>12. \A s \in DOMAIN Values(i) : data'[i][s][1] = IF s \in written THEN Content'[s] ELSE data[i][s][1]
  <2>1. Logical \subseteq Disk
    BY LogicalIs DEF DataInv
  <2> QED
    BY <1>4, <1>8, <1>11, <2>1
<1>13. Content' = [s \in Disk |-> IF Op(i) = "write" /\ s \in written THEN i ELSE Content[s]]
  BY <1>4, <1>6
<1>14. DOMAIN data'[i] = DOMAIN data[i]
  BY <1>11
<1> QED
  BY <1>0, <1>6, <1>7, <1>10, <1>12, <1>13, <1>14, TransferStep

\* What the I/O thread has read gets to the caller.
LEMMA FinishSeen ==
    ASSUME Faultless, AllInv, DataInv, ReadsInv, [Next]_vars, IoFinish
    PROVE  \E i \in Irps : Device!Transfer(i)
<1>0. /\ Pipeline /\ Types /\ data = [j \in Irps |-> data[j]] /\ irp \in [Irps -> IrpType]
      /\ UNCHANGED <<queue, Logical>>
  BY QueueKept, LogicalKept DEF AllInv, Pipeline, Types, ReadsInv, ClientInv
<1>1. PICK r \in Carried : r = thread["io"].request /\ At("io", "finish")
  BY DEF IoFinish, Carried, HasRequest, At
<1>2. PICK i \in Irps : i = r.irp /\ irp[i].pc = "pending"
  BY <1>0, CarriedFacts
<1>3. UNCHANGED irp /\ UNCHANGED disk /\ (data' = IF irp[i].write \/ irp[i].status # "ok" THEN data
               ELSE [data EXCEPT ![i] = Update(data[i], fragmentBuffer[r.buffer])])
  BY <1>1, <1>2 DEF IoFinish, device
<1>4. Op(i)' = Op(i) /\ Phase(i) = "active" /\ Phase(i)' = "active"
  BY <1>2, <1>3 DEF Op, Phase
<1>5. \A j \in Irps : j # i => Mapped'[j] = Mapped[j]
  <2>1. ASSUME NEW j \in Irps, j # i PROVE irp'[j] = irp[j] /\ data'[j] = data[j]
    BY <1>0, <1>3, <2>1
  <2> QED
    BY <1>0, <2>1, Framed
<1>6. Content' = Content
  BY <1>3, ContentKept
<1>7. DOMAIN Values(i) = DOMAIN data[i] \cap Logical /\ DOMAIN data[i] = Wanted(i)
  BY <1>2 DEF Values, ReadsInv, ClientInv
<1>8. CASE irp[i].write \/ irp[i].status # "ok"
  <2>1. \A s \in DOMAIN Values(i) : data'[i][s][1] = IF s \in {} THEN Content'[s] ELSE data[i][s][1]
    BY <1>3, <1>8
  <2>2. {} \in SUBSET DOMAIN Values(i) /\ DOMAIN data'[i] = DOMAIN data[i]
    BY <1>3, <1>8
  <2>3. Content' = [s \in Disk |-> IF Op(i) = "write" /\ s \in {} THEN i ELSE Content[s]]
    BY <1>6 DEF Content
  <2>4. Device!Transfer(i)
    BY <1>0, <1>4, <1>5, <2>1, <2>2, <2>3, TransferStep
  <2> QED
    BY <2>4
<1>9. CASE ~irp[i].write /\ irp[i].status = "ok"
  <2>1. fragmentBuffer[r.buffer] = [u \in Sectors(r) |-> disk[Location(u)]]
    BY <1>1, <1>2, <1>9 DEF ReadsInv, ReadInv
  <2>2. data'[i] = Update(data[i], [u \in Sectors(r) |-> disk[Location(u)]])
    BY <1>0, <1>3, <1>9, <2>1
  <2>3. data'[i] = [s \in DOMAIN data[i] |-> IF s \in Sectors(r) THEN disk[Location(s)] ELSE data[i][s]]
    BY <2>2 DEF Update
  <2> DEFINE sectors == DOMAIN Values(i) \cap Sectors(r)
  <2>4. Logical \subseteq Disk
    BY LogicalIs DEF DataInv
  <2>5. \A s \in DOMAIN Values(i) : data'[i][s][1] = IF s \in sectors THEN Content'[s] ELSE data[i][s][1]
    BY <1>6, <1>7, <2>3, <2>4 DEF Content
  <2>6. Content' = [s \in Disk |-> IF Op(i) = "write" /\ s \in sectors THEN i ELSE Content[s]]
    BY <1>2, <1>6, <1>9 DEF Content, Op
  <2>7. sectors \in SUBSET DOMAIN Values(i) /\ DOMAIN data'[i] = DOMAIN data[i]
    BY <2>3
  <2> HIDE DEF sectors
  <2>8. Device!Transfer(i)
    BY <1>0, <1>4, <1>5, <2>5, <2>6, <2>7, TransferStep
  <2> QED
    BY <2>8
<1> QED
  BY <1>8, <1>9


\* An IRP that is completed with success has been carried out.
LEMMA NothingAhead ==
    ASSUME Pipeline, CoverInv, NEW t \in Threads, Complete(t), NEW i \in Irps, i = thread[t].irp,
           irp[i].status = "ok", NEW s \in Wanted(i)
    PROVE  data[i][s][1] # "nodata"
<1>0. /\ Types /\ "main" \in Threads /\ "io" \in Threads /\ "completion" \in Threads
      /\ At(t, "complete") /\ irp[i].pc = "pending" /\ thread[t].pc \in Working
      /\ t \in {"main", "io", "completion"}
  BY DEF Complete, At, Pipeline, PendingInv, Working, Threads
<1>1. thread["main"].pc \in Working /\ thread["main"].irp = i => t = "main"
  <2>1. t \in {"io", "completion"} => thread[t].request.last
    BY <1>0 DEF Pipeline, PendingInv, At
  <2> QED
    BY <1>0, <2>1 DEF Pipeline, WaitingInv, At
<1>2. ~Fresh(i)
  <2>1. \A n \in 1 .. Len(mainQueue) : mainQueue[n] # i
    BY <1>0 DEF Pipeline, WaitingInv
  <2> QED
    BY <1>0, <1>1, <2>1 DEF Fresh, Waiting, Working, At
<1>3. ~NotSplit(i, s)
  BY <1>0, <1>1 DEF NotSplit, Splitting, Working, At
<1>4. \A n \in 1 .. Len(ioQueue) : ioQueue[n].irp # i
  <2>1. CASE t = "main"
    BY <1>0, <2>1 DEF Pipeline, WaitingInv, At, Splitting
  <2>2. CASE t = "io"
    BY <1>0, <2>2 DEF Pipeline, PendingInv, LastInv, At
  <2>3. CASE t = "completion"
    BY <1>0, <2>3 DEF Pipeline, LastInv
  <2> QED
    BY <1>0, <2>1, <2>2, <2>3
<1>5. ~InQueue(i, s)
  BY <1>4 DEF InQueue, Queued
<1>6. ~BeingRead(i, s)
  <2> SUFFICES ASSUME At("io", "finish"), thread["io"].request.irp = i PROVE FALSE
    BY DEF BeingRead
  <2>1. thread["io"].pc \in Working /\ thread["io"].irp = i
    BY <1>0 DEF Pipeline, PendingInv, Working, At
  <2>2. CASE t = "main"
    BY <1>0, <2>1, <2>2 DEF Pipeline, WaitingInv, At, Splitting
  <2>3. CASE t = "io"
    BY <1>0, <2>3 DEF At
  <2>4. CASE t = "completion"
    BY <1>0, <2>1, <2>4 DEF Pipeline, LastInv
  <2> QED
    BY <1>0, <2>2, <2>3, <2>4
<1> QED
  BY <1>0, <1>2, <1>3, <1>5, <1>6 DEF CoverInv, Ahead

LEMMA CompleteSeen ==
    ASSUME AllInv, DataInv, ReadsInv, CoverInv, [Next]_vars, NEW t \in Threads, Complete(t)
    PROVE  \E i \in Irps : Device!Complete(i)
<1>0. /\ Pipeline /\ Types /\ data = [j \in Irps |-> data[j]] /\ irp \in [Irps -> IrpType]
      /\ UNCHANGED <<queue, Logical>>
  BY QueueKept, LogicalKept DEF AllInv, Pipeline, Types, ReadsInv, ClientInv
<1>1. UNCHANGED <<data, disk>>
  BY DEF Complete, device
<1>2. PICK i \in Irps : i = thread[t].irp
  BY <1>0, CompletedIrp
<1>3. /\ irp[i].pc = "pending" /\ irp'[i].pc = "done" /\ irp'[i].write = irp[i].write
      /\ irp'[i].status = irp[i].status
      /\ \A j \in Irps : j # i => irp'[j] = irp[j]
  BY <1>0, <1>2, CompletedIrp DEF SameIrp
<1>4. /\ Op(i)' = Op(i) /\ Phase(i) = "active" /\ Phase(i)' = irp[i].status
      /\ Phase(i)' \in {"ok", "failed"}
  BY <1>0, <1>3 DEF Op, Phase, IrpType
<1>5. \A j \in Irps : j # i => Mapped'[j] = Mapped[j]
  BY <1>0, <1>1, <1>3, Framed
<1>6. Content' = Content
  BY <1>1, ContentKept
<1>7. Phase(i)' = "ok" => \A s \in DOMAIN Values(i) : Values(i)[s] # "nodata"
  <2>1. \A s \in DOMAIN Values(i) : s \in Wanted(i) /\ Values(i)[s] = data[i][s][1]
    BY <1>3 DEF Values, ReadsInv, ClientInv
  <2>2. ASSUME irp[i].status = "ok", NEW s \in Wanted(i) PROVE data[i][s][1] # "nodata"
    BY <1>0, <1>2, <2>2, NothingAhead
  <2> QED
    BY <1>4, <2>1, <2>2
<1> QED
  BY <1>0, <1>1, <1>4, <1>5, <1>6, <1>7, CompleteStep

\* Or the queue refuses it.
LEMMA RefuseSeen ==
    ASSUME AllInv, DataInv, ReadsInv, [Next]_vars, NEW i \in Irps, AddIrpRefuse(i) \/ AddIrpSignal(i)
    PROVE  Device!Complete(i) \/ UNCHANGED <<Content, Mapped>>
<1>0. /\ Pipeline /\ Types /\ data = [j \in Irps |-> data[j]] /\ irp \in [Irps -> IrpType]
      /\ UNCHANGED <<queue, Logical>>
  BY QueueKept, LogicalKept DEF AllInv, Pipeline, Types, ReadsInv, ClientInv
<1>1. UNCHANGED <<data, disk>>
  BY DEF AddIrpRefuse, AddIrpSignal, device
<1>2. /\ irp[i].pc \in {"counted", "refused"} /\ irp'[i].pc \in {"refused", "done"}
      /\ irp'[i].status = "failed" \/ (irp'[i].status = irp[i].status /\ irp[i].pc = "refused")
      /\ SameIrp(i)
      /\ \A j \in Irps : j # i => irp'[j] = irp[j]
  <2>1. irp'[i].pc # "pending"
    BY <1>0 DEF AddIrpRefuse, AddIrpSignal, IrpGoes, IrpType
  <2>2. Adding(i)
    BY DEF Adding
  <2>3. /\ irp[i].pc \in {"counted", "refused"} /\ irp'[i].pc \in {"pending", "refused", "done"}
        /\ irp'[i].pc # "pending" => irp'[i].status = "failed" \/
              (irp[i].pc = "refused" /\ irp'[i].status = irp[i].status)
        /\ \A j \in Irps : SameIrp(j) /\ (j # i => irp'[j] = irp[j])
    BY <1>0, <2>2, AddingIrp
  <2>4. SameIrp(i) /\ \A j \in Irps : j # i => irp'[j] = irp[j]
    BY <2>3
  <2> QED
    BY <2>1, <2>3, <2>4
<1>3. irp'[i].status = "failed"
  BY <1>2 DEF ReadsInv, ClientInv
<1>4. Op(i)' = Op(i) /\ Phase(i) = "active" /\ Phase(i)' \in {"active", "failed"}
  BY <1>2, <1>3 DEF Op, Phase, SameIrp
<1>5. \A j \in Irps : j # i => Mapped'[j] = Mapped[j]
  BY <1>0, <1>1, <1>2, Framed
<1>6. Content' = Content
  BY <1>1, ContentKept
<1>7. CASE Phase(i)' = "failed"
  BY <1>0, <1>1, <1>4, <1>5, <1>6, <1>7, CompleteStep
<1>8. CASE Phase(i)' = "active"
  <2>1. Values(i)' = Values(i)
    BY <1>0, <1>1 DEF Values
  <2>2. Mapped'[i] = [op |-> Op(i)', data |-> Values(i)', status |-> Phase(i)']
    BY DEF Mapped, RequestOf, Op, Values, Phase, IrpAt
  <2>3. Mapped'[i] = Mapped[i]
    BY <1>4, <1>8, <2>1, <2>2, Fields
  <2>4. Mapped = [j \in Irps |-> Mapped[j]] /\ Mapped' = [j \in Irps |-> Mapped'[j]]
    BY DEF Mapped
  <2>5. Mapped' = Mapped
    BY <1>5, <2>3, <2>4
  <2> QED
    BY <1>6, <2>5
<1> QED
  BY <1>4, <1>7, <1>8

LEMMA DeviceStep ==
    ASSUME Faultless, AllInv, DataInv, LayersMatchArea, ReadsInv, CoverInv, [Next]_vars
    PROVE  [Device!Next]_<<Content, Mapped>>
<1>1. CASE \E i \in Irps : AddIrp(i)
  BY <1>1, AddedStep DEF Device!Next
<1>2. CASE \E i \in Irps : Collect(i)
  BY <1>2, CollectedStep DEF Device!Next
<1>3. CASE \E i \in Irps : AddIrpRefuse(i) \/ AddIrpSignal(i)
  BY <1>3, RefuseSeen DEF Device!Next
<1>4. CASE \E t \in Threads : Complete(t)
  BY <1>4, CompleteSeen DEF Device!Next
<1>5. CASE MainMisaligned
  BY <1>5, MisalignedSeen DEF Device!Next
<1>6. CASE IoPerform /\ irp[Head(ioQueue).irp].write /\ irp[Head(ioQueue).irp].status = "ok"
  BY <1>6, WriteSeen DEF Device!Next
<1>7. CASE IoFinish
  BY <1>7, FinishSeen DEF Device!Next
<1>8. CASE \A i \in Irps : ~Seen(i)
  <2>1. \A i \in Irps : Mapped'[i] = Mapped[i]
    BY <1>8, Unseen
  <2>2. Mapped = [i \in Irps |-> Mapped[i]] /\ Mapped' = [i \in Irps |-> Mapped'[i]]
    BY DEF Mapped
  <2>3. Mapped' = Mapped
    BY <2>1, <2>2
  <2>4. IoPerform => UNCHANGED disk
    <3>1. ASSUME IoPerform PROVE UNCHANGED disk
      <4>1. Head(ioQueue) \in Queued
        BY <3>1, Members DEF IoPerform, Queued, AllInv, Pipeline, Types
      <4>2. Head(ioQueue).irp \in Irps
        BY <4>1, CarriedFacts DEF Carried, AllInv
      <4>3. ~(irp[Head(ioQueue).irp].write /\ irp[Head(ioQueue).irp].status = "ok")
        BY <1>8, <3>1, <4>2 DEF Seen
      <4> QED
        BY <3>1, <4>3 DEF IoPerform, IoRead, IoSkip
    <3> QED
      BY <3>1
  <2>5. Content' = Content
    BY <2>4, ContentKept
  <2> QED
    BY <2>3, <2>5
<1> QED
  BY <1>1, <1>2, <1>3, <1>4, <1>5, <1>6, <1>7, <1>8 DEF Seen

LEMMA DeviceInit == ASSUME Init PROVE Device!Init
<1>1. Content = [s \in Disk |-> None]
  <2>0. AllInv /\ DataInv
    BY InvInit, DataInit
  <2>1. ASSUME NEW s \in Disk PROVE (IF s \in Logical THEN disk[Location(s)][1] ELSE None) = None
    <3>1. \A a \in Disk : disk[a][1] = None
      BY DEF Init
    <3>2. s \in Logical => Location(s) \in Disk
      <4>1. /\ RemapEncryptedArea \in BOOLEAN
            /\ RemapEncryptedArea => Remapped \subseteq Disk
        BY <2>0, Layout DEF WellPlaced, RemapEncryptedArea, Remapped, EncryptedAreaStart,
           RemappedAreaOffset, AreaInv, DataInv, AllInv, Pipeline, Disk
      <4> QED
        BY <2>0, <4>1, LocationIs DEF DataInv
    <3> QED
      BY <3>1, <3>2
  <2> QED
    BY <2>1 DEF Content
<1>2. Mapped = [i \in Irps |-> [op |-> "none", data |-> << >>, status |-> "none"]]
  <2>1. ASSUME NEW i \in Irps PROVE RequestOf(i) = [op |-> "none", data |-> << >>, status |-> "none"]
    <3>1. irp[i].pc = "idle" /\ data[i] = << >>
      BY DEF Init, NoIrp
    <3>2. DOMAIN data[i] = {}
      BY <3>1
    <3>3. Values(i) = << >>
      BY <3>2 DEF Values
    <3>4. Mapped[i] = RequestOf(i)
      BY DEF Mapped
    <3> QED
      BY <3>1, <3>3, <3>4, Fields DEF Op, Phase
  <2> QED
    BY <2>1 DEF Mapped
<1> QED
  BY <1>1, <1>2 DEF Device!Init, Device!NoRequest, Content, Mapped

(* The encrypted device is a disk (LogicalDisk): whatever the order in which the fragments of the
   requests, the read-ahead, the remapping and the encryption of the area underneath happen, a
   read returns what the sectors held, a write changes the sectors it names and no other, and an
   IRP is completed with success only when all of its sectors have been transferred. *)
THEOREM QueueIsDisk == ASSUME Faultless, NamesDistinct PROVE Spec => ImplementsDisk
<1> DEFINE IInv == AllInv /\ DataInv /\ LayersMatchArea /\ ReadsInv /\ ValueInv /\ CoverInv
<1>1. Init => IInv
  BY InvInit, DataInit, LayersInit, ReadsInit, CoverInit
<1>2. IInv /\ [Next]_vars => IInv'
  BY InvStep, DataStep, LayersStep, ReadsStep, ValueStep, CoverStep
<1>3. Init => Device!Init
  BY DeviceInit
<1>4. IInv /\ [Next]_vars => [Device!Next]_<<Content, Mapped>>
  BY DeviceStep
<1> QED
  BY <1>1, <1>2, <1>3, <1>4, PTL DEF Spec, ImplementsDisk, Device!Spec, Content, Mapped
=============================================================================
