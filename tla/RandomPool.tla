----------------------------- MODULE RandomPool -----------------------------
(* The random number generator's pool (Common/Random.c): the thread that polls the system now
   and then, the hooks that add what the user does, and the calls that take bytes out of the
   pool, all under one critical section, which RandSetHashFunction does not enter.

   The pool is an array of cells. What matters of a cell is which of the inputs added so far it
   depends on, so a cell is the set of their numbers: adding is union, and so is XOR; inverting
   the pool changes nothing. *)
EXTENDS Naturals, Sequences

CONSTANTS
    PoolSize,    \* RNG_POOL_SIZE, in cells
    MixInterval, \* RANDMIX_BYTE_INTERVAL, in cells
    DigestSizes, \* the sizes of the digests of the hash functions, in cells
    MaxInputs,   \* how many inputs are added
    MaxStarts    \* how often the generator is started

VARIABLES
    rpStarted,   \* bRandDidInit
    rpPool,      \* pRandPool, empty when there is none
    rpIndex,     \* nRandIndex
    rpRead,      \* randPoolReadIndex
    rpHash,      \* the digest size of HashFunction
    rpLock,      \* which thread is in the critical section critRandProt
    rpTerminate, \* bThreadTerminate
    rpPoller,    \* whether the thread that polls runs
    rpSlow,      \* bDidSlowPoll
    rpWork,      \* what each thread has left to do of its call
    rpOut,       \* [bytes, due]: the bytes the last call returned, and the inputs added before it
    rpCount      \* [inputs, starts]: how many there have been

rpVars == <<rpStarted, rpPool, rpIndex, rpRead, rpHash, rpLock, rpTerminate, rpPoller, rpSlow,
            rpWork, rpOut, rpCount>>

Threads == {"user", "poller"}
NoPool == <<>>
Cells == 0..PoolSize - 1
NoOutput == [bytes |-> {}, due |-> {}]
Work(op) == <<[op |-> op]>>

Init ==
    /\ rpStarted = FALSE /\ rpPool = NoPool /\ rpIndex = 0 /\ rpRead = 0
    /\ rpHash \in DigestSizes /\ rpLock = "none" /\ rpTerminate = FALSE /\ rpPoller = FALSE
    /\ rpSlow = FALSE /\ rpWork = [t \in Threads |-> <<>>] /\ rpOut = NoOutput
    /\ rpCount = [inputs |-> 0, starts |-> 0]

CanAdd(n) == rpCount.inputs + n <= MaxInputs

\* A bug: the fast poll leaves the pool unmixed.
FaultyFastPoll == Work("add") \o <<[op |-> "index", value |-> rpIndex]>>
\* FastPoll: what the system tells, mixed, and the index as it was.
FastPoll == Work("add") \o Work("mix") \o <<[op |-> "index", value |-> rpIndex]>>
SlowPoll == Work("add") \o Work("mix")

Busy(t) == rpWork[t] # <<>>

-----------------------------------------------------------------------------
(* The calls of the user's thread, and of the thread that polls. *)

\* Randinit; when a hook or the thread cannot be set up RandStop frees the pool again.
Randinit ==
    /\ ~rpStarted /\ ~Busy("user") /\ rpCount.starts < MaxStarts
    /\ rpCount' = [rpCount EXCEPT !.starts = @ + 1]
    /\ \/ /\ rpStarted' = TRUE /\ rpPoller' = TRUE
          /\ rpPool' = IF rpPool = NoPool THEN [i \in Cells |-> {}] ELSE rpPool
          /\ rpSlow' = (rpPool # NoPool /\ rpSlow)
       \/ /\ rpPool' = NoPool /\ rpSlow' = FALSE /\ UNCHANGED <<rpStarted, rpPoller>>
    /\ UNCHANGED <<rpIndex, rpRead, rpHash, rpLock, rpTerminate, rpWork, rpOut>>

\* A call enters the critical section and has its work to do there.
Enter(t, work) ==
    /\ ~Busy(t) /\ rpLock = "none" /\ rpLock' = t
    /\ rpWork' = [rpWork EXCEPT ![t] = work \o Work("leave")]
    /\ UNCHANGED <<rpStarted, rpPool, rpIndex, rpRead, rpHash, rpTerminate, rpPoller, rpSlow, rpCount>>

\* RandgetBytes: the bytes read from the pool, and read again after the pool has been mixed.
RandgetBytes ==
    /\ rpStarted /\ CanAdd(3)
    /\ \E forceSlowPoll \in BOOLEAN, length \in 1..PoolSize :
          LET slow == IF ~rpSlow \/ forceSlowPoll THEN SlowPoll \o Work("slow") ELSE <<>>
              read == [i \in 1..length |-> [op |-> "read", nth |-> i]]
          IN Enter("user", slow \o Work("fast") \o read \o Work("fast") \o read)
    /\ rpOut' = [bytes |-> {}, due |-> UNION {rpPool[i] : i \in Cells}]

\* MouseProc and KeyboardProc
Hook == rpStarted /\ CanAdd(1) /\ Enter("user", Work("add")) /\ rpOut' = NoOutput

\* PeriodicFastPollThreadProc
Poll == rpPoller /\ ~rpTerminate /\ CanAdd(1) /\ Enter("poller", Work("fast")) /\ UNCHANGED rpOut

\* RandSetHashFunction, which the thread that polls may be using.
RandSetHashFunction ==
    /\ ~Busy("user")
    /\ rpHash' \in DigestSizes /\ rpHash' # rpHash /\ rpOut' = NoOutput
    /\ UNCHANGED <<rpStarted, rpPool, rpIndex, rpRead, rpLock, rpTerminate, rpPoller, rpSlow, rpWork, rpCount>>

\* A bug: RandStop does not wait for the thread.
FaultyAwaitsThread == TRUE
\* RandStop waits until the thread that polls has ended.
AwaitsThread == ~rpPoller

\* RandStop: the thread is told to end, and when it has, the pool is freed if that is asked.
RandStop ==
    /\ rpStarted /\ rpLock = "none" /\ ~Busy("user") /\ rpTerminate' = TRUE
    /\ \E freePool \in BOOLEAN :
          rpWork' = [rpWork EXCEPT !["user"] = Work(IF freePool THEN "stopAndFree" ELSE "stop")]
    /\ UNCHANGED <<rpStarted, rpPool, rpIndex, rpRead, rpHash, rpLock, rpPoller, rpSlow, rpOut, rpCount>>

RandStopped ==
    /\ Busy("user") /\ Head(rpWork["user"]).op \in {"stop", "stopAndFree"} /\ AwaitsThread
    /\ rpStarted' = FALSE /\ rpTerminate' = FALSE /\ rpOut' = NoOutput
    /\ rpWork' = [rpWork EXCEPT !["user"] = <<>>]
    /\ IF Head(rpWork["user"]).op = "stopAndFree" THEN rpPool' = NoPool /\ rpSlow' = FALSE
       ELSE UNCHANGED <<rpPool, rpSlow>>
    /\ UNCHANGED <<rpIndex, rpRead, rpHash, rpLock, rpPoller, rpCount>>

\* The thread that polls finds that it has to end.
PollerEnds ==
    /\ rpPoller /\ ~Busy("poller") /\ rpLock = "none" /\ rpTerminate
    /\ rpPoller' = FALSE /\ rpTerminate' = FALSE
    /\ UNCHANGED <<rpStarted, rpPool, rpIndex, rpRead, rpHash, rpLock, rpSlow, rpWork, rpOut, rpCount>>

-----------------------------------------------------------------------------
(* The steps of a call. *)
Do(t, op) == Busy(t) /\ Head(rpWork[t]).op = op
Continue(t, work) == rpWork' = [rpWork EXCEPT ![t] = work \o Tail(@)]
Rest == UNCHANGED <<rpStarted, rpHash, rpTerminate, rpPoller>>

\* RandaddByte: the cell at the index, and a mix at every interval.
RandaddByte(t) ==
    LET index == IF rpIndex = PoolSize THEN 0 ELSE rpIndex
    IN /\ Do(t, "add")
       /\ rpCount' = [rpCount EXCEPT !.inputs = @ + 1]
       /\ rpPool' = [rpPool EXCEPT ![index] = @ \cup {rpCount.inputs + 1}]
       /\ rpIndex' = index + 1
       /\ Continue(t, IF index % MixInterval = 0 THEN Work("mix") ELSE <<>>)
       /\ Rest /\ UNCHANGED <<rpRead, rpLock, rpSlow, rpOut>>

\* Randmix: the size of the digest is decided once for the whole mix...
Randmix(t) ==
    /\ Do(t, "mix")
    /\ Continue(t, <<[op |-> "digest", at |-> 0, size |-> rpHash]>>)
    /\ Rest /\ UNCHANGED <<rpPool, rpIndex, rpRead, rpLock, rpSlow, rpOut, rpCount>>

\* ...and the hash function anew for each digest: when it has changed to a shorter one, the end
\* of the digest is what an earlier one has left there.
MixDigest(t) ==
    LET work == Head(rpWork[t])
        fresh == {i \in Cells : i >= work.at /\ i - work.at < work.size /\ i - work.at < rpHash}
        next == work.at + work.size
    IN /\ Do(t, "digest")
       /\ rpPool' = [i \in Cells |->
                        IF i \in fresh THEN UNION {rpPool[j] : j \in Cells} ELSE rpPool[i]]
       /\ Continue(t, IF next < PoolSize THEN <<[work EXCEPT !.at = next]>> ELSE <<>>)
       /\ Rest /\ UNCHANGED <<rpIndex, rpRead, rpLock, rpSlow, rpOut, rpCount>>

\* A bug: the end of the pool is forgotten.
FaultyNextRead == rpRead + 1

NextRead == (rpRead + 1) % PoolSize

\* The n-th byte, which the second reading XORs with what the first has put there.
ReadByte(t) ==
    LET nth == Head(rpWork[t]).nth
        earlier == {b \in rpOut.bytes : b.nth = nth}
        inputs == rpPool[rpRead] \cup UNION {b.inputs : b \in earlier}
    IN /\ Do(t, "read")
       /\ rpOut' = [rpOut EXCEPT !.bytes = (@ \ earlier) \cup {[nth |-> nth, inputs |-> inputs]}]
       /\ rpRead' = NextRead
       /\ Continue(t, <<>>)
       /\ Rest /\ UNCHANGED <<rpPool, rpIndex, rpLock, rpSlow, rpCount>>

RestoreIndex(t) ==
    /\ Do(t, "index") /\ rpIndex' = Head(rpWork[t]).value /\ Continue(t, <<>>)
    /\ Rest /\ UNCHANGED <<rpPool, rpRead, rpLock, rpSlow, rpOut, rpCount>>

BeginFastPoll(t) ==
    /\ Do(t, "fast") /\ Continue(t, FastPoll)
    /\ Rest /\ UNCHANGED <<rpPool, rpIndex, rpRead, rpLock, rpSlow, rpOut, rpCount>>

SlowPolled(t) ==
    /\ Do(t, "slow") /\ rpSlow' = TRUE /\ Continue(t, <<>>)
    /\ Rest /\ UNCHANGED <<rpPool, rpIndex, rpRead, rpLock, rpOut, rpCount>>

Leave(t) ==
    /\ Do(t, "leave") /\ rpLock' = "none" /\ Continue(t, <<>>)
    /\ Rest /\ UNCHANGED <<rpPool, rpIndex, rpRead, rpSlow, rpOut, rpCount>>

Calls == Randinit \/ RandgetBytes \/ Hook \/ Poll \/ RandSetHashFunction \/ RandStop \/ RandStopped \/ PollerEnds
Steps(t) ==
    \/ RandaddByte(t) \/ Randmix(t) \/ MixDigest(t) \/ ReadByte(t) \/ RestoreIndex(t)
    \/ BeginFastPoll(t) \/ SlowPolled(t) \/ Leave(t)

Next == Calls \/ \E t \in Threads : Steps(t)

-----------------------------------------------------------------------------
(* The pool's indices stay in the pool and the lock is held by the thread at work. *)
TypeOK ==
    /\ rpIndex \in 0..PoolSize /\ rpRead \in Cells /\ rpHash \in DigestSizes
    /\ rpPool = NoPool \/ DOMAIN rpPool = Cells
    /\ rpLock \in Threads => Busy(rpLock)
    /\ rpCount.inputs \in 0..MaxInputs

(* Every byte a caller takes depends on everything that was added to the pool before, whatever
   the thread that polls was doing and however the hash function was changed (RandgetBytes). *)
OutputDependsOnAll ==
    ~Busy("user") => \A b \in rpOut.bytes : rpOut.due \subseteq b.inputs

(* Nothing works on the pool once it is freed (RandStop). *)
PoolAlive == rpPool = NoPool => ~rpPoller /\ rpLock = "none"
=============================================================================
