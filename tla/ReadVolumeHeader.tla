-------------------------- MODULE ReadVolumeHeader --------------------------
(***************************************************************************)
(* Common/Volumes.c, ReadVolumeHeader: the header key is derived with every *)
(* PRF, on the thread pool when it runs, and each derived key is tried on   *)
(* the header.  The function owns the key items the pool's threads write    *)
(* to; it frees them once its noOutstandingWorkItemEvent has been set.      *)
(* Key item numbers and PRF numbers are 1 .. PrfCount; keys, algorithms and *)
(* modes are abstracted to the PRF that opens the header, if any.           *)
(***************************************************************************)
EXTENDS EncryptionThreadPool

CONSTANT PrfCount   \* LAST_PRF_ID - FIRST_PRF_ID + 1

ASSUME PrfAssumption == PrfCount \in Nat \ {0} /\ KeyItems = 1 .. PrfCount

VARIABLE header     \* locals of each ReadVolumeHeader call

Prfs == 1 .. PrfCount
NoPrf == 0

\* items[i]: the PRF key item i is in use for, NoPrf when item->Free.
NewCall == [pc |-> "ready", threads |-> 0, right |-> NoPrf, prf |-> 1, queued |-> 0,
            items |-> [i \in KeyItems |-> NoPrf], tried |-> {}, status |-> "none"]

HeaderInit == Init /\ header = [k \in KeyClients |-> NewCall]

HeaderAt(k, pc) == header[k].pc = pc
HeaderGoes(k, pc) == header' = [header EXCEPT ![k].pc = pc]

\* GetEncryptionThreadCount and the initialisation; `right' is the PRF the
\* volume was created with, if the password is the right one at all.
Call(k) ==
    /\ HeaderAt(k, "ready")
    /\ control \in {"running", "failed"}
    /\ \E right \in Prfs \cup {NoPrf} :
          header' = [header EXCEPT ![k] =
              [NewCall EXCEPT !.pc = "for", !.right = right,
                  !.threads = IF ThreadPoolRunning THEN ThreadCount ELSE 0]]
    /\ UNCHANGED vars

\* A derived key is tried.  With the right key the header is accepted or is of
\* a kind this version cannot use; any key may be refused by a cipher (goto err).
Try(k, prf, next, items, queued) ==
    LET h == header[k] IN
    \E status \in {"error", IF prf = h.right THEN "success" ELSE "none"} :
        header' = [header EXCEPT ![k] =
            [h EXCEPT !.tried = h.tried \cup {prf}, !.items = items, !.queued = queued,
                      !.prf = next, !.status = status,
                      !.pc = IF status = "none" THEN "for" ELSE "finish"]]

\* Without a pool: derive and try in this thread.
TryInline(k) ==
    LET h == header[k] IN
    /\ HeaderAt(k, "for") /\ h.threads <= 1 /\ h.prf <= PrfCount
    /\ Try(k, h.prf, h.prf + 1, h.items, h.queued)
    /\ UNCHANGED vars

\* A faulty variant, for the check that the properties notice it.  (So are the
\* other definitions named Faulty...)
FaultyCanQueue(h) == h.queued < h.threads

CanQueue(h) == h.queued < h.threads /\ h.prf <= PrfCount

\* Enqueue the next PRF on the first free key item.
Queue(k) ==
    LET h == header[k]
        free == {i \in KeyItems : h.items[i] = NoPrf}
    IN  /\ HeaderAt(k, "for") /\ h.threads > 1 /\ CanQueue(h)
        /\ \E i \in free :
              /\ \A j \in free : i <= j
              /\ BeginKeyDerivation(k, i)
              /\ header' = [header EXCEPT ![k].items[i] = h.prf, ![k].pc = "queueing"]

\* EncryptionThreadPoolBeginKeyDerivation has returned.
Queued(k) ==
    LET h == header[k] IN
    /\ HeaderAt(k, "queueing") /\ KeyAt(k, "idle")
    /\ header' = [header EXCEPT ![k] =
           [h EXCEPT !.queued = h.queued + 1,
                     !.prf = IF h.prf < PrfCount THEN h.prf + 1 ELSE h.prf,
                     !.pc = IF h.prf < PrfCount THEN "for" ELSE "scan"]]
    /\ UNCHANGED vars

FaultyWait(k) ==
    LET h == header[k] IN
    /\ HeaderAt(k, "for") /\ h.threads > 1 /\ ~CanQueue(h)
    /\ h.prf <= PrfCount \/ h.queued > 0
    /\ HeaderGoes(k, "scan")
    /\ UNCHANGED vars

\* The threads or the PRFs are used up, but derivations are outstanding: wait,
\* with the loop variable taken back so that the loop does not skip a PRF.
Wait(k) ==
    LET h == header[k] IN
    /\ HeaderAt(k, "for") /\ h.threads > 1 /\ ~CanQueue(h)
    /\ h.prf <= PrfCount \/ h.queued > 0
    /\ header' = [header EXCEPT ![k].prf = @ - 1, ![k].pc = "scan"]
    /\ UNCHANGED vars

Completed(k) == {i \in KeyItems : header[k].items[i] # NoPrf /\ KeyReady[k][i]}

FaultyCollect(k) ==
    LET h == header[k] IN
    /\ HeaderAt(k, "scan")
    /\ \E i \in Completed(k) :
          Try(k, h.items[i], h.prf, [h.items EXCEPT ![i] = NoPrf], h.queued - 1)
    /\ UNCHANGED vars

\* A completed derivation is tried; its item is free again.
Collect(k) ==
    LET h == header[k] IN
    /\ HeaderAt(k, "scan")
    /\ \E i \in Completed(k) :
          Try(k, h.items[i], h.prf + 1, [h.items EXCEPT ![i] = NoPrf], h.queued - 1)
    /\ UNCHANGED vars

Sleep(k) ==
    /\ HeaderAt(k, "scan") /\ Completed(k) = {}
    /\ HeaderGoes(k, "sleep")
    /\ UNCHANGED vars

Wake(k) ==
    /\ HeaderAt(k, "sleep")
    /\ keyDerivationCompletedEvent[k]
    /\ keyDerivationCompletedEvent' = [keyDerivationCompletedEvent EXCEPT ![k] = FALSE]
    /\ HeaderGoes(k, "scan")
    /\ UNCHANGED <<flags, ring, events, queue, worker, clients, key, KeyReady,
                   outstandingWorkItemCount, noOutstandingWorkItemEvent>>

\* The for loop ends: ERR_PASSWORD_WRONG.
GiveUp(k) ==
    LET h == header[k] IN
    /\ HeaderAt(k, "for") /\ h.prf > PrfCount /\ h.queued = 0
    /\ header' = [header EXCEPT ![k].status = "passwordWrong", ![k].pc = "finish"]
    /\ UNCHANGED vars

\* ret: wait for noOutstandingWorkItemEvent, then burn and free the key items.
Finish(k) ==
    /\ HeaderAt(k, "finish")
    /\ header[k].threads > 1 => noOutstandingWorkItemEvent[k]
    /\ noOutstandingWorkItemEvent' =
          [noOutstandingWorkItemEvent EXCEPT ![k] = IF header[k].threads > 1 THEN FALSE ELSE @]
    /\ HeaderGoes(k, "returned")
    /\ UNCHANGED <<flags, ring, events, queue, worker, clients, key, KeyReady,
                   outstandingWorkItemCount, keyDerivationCompletedEvent>>

Header(k) ==
    \/ TryInline(k) \/ Queue(k) \/ Queued(k) \/ Wait(k) \/ Collect(k)
    \/ Sleep(k) \/ Wake(k) \/ GiveUp(k) \/ Finish(k)

\* The pool is stopped only when no call is under way.
HeaderNext ==
    \/ /\ Pool /\ UNCHANGED header
       /\ Stop => \A k \in KeyClients : header[k].pc \in {"ready", "returned"}
    \/ \E k \in KeyClients : Call(k) \/ Header(k)

HeaderSpec == HeaderInit /\ [][HeaderNext]_<<vars, header>>

HeaderFairSpec ==
    /\ HeaderSpec
    /\ \A w \in Workers : WF_vars(EncryptionThreadProc(w)) /\ SF_vars(WorkerAcquire(w))
    /\ \A k \in KeyClients :
          /\ WF_vars(EncryptionThreadPoolBeginKeyDerivation(k)) /\ SF_vars(BeginKeyLock(k))
          /\ WF_<<vars, header>>(Header(k))

-----------------------------------------------------------------------------

HeaderTypeOK ==
    header \in [KeyClients ->
        [pc : {"ready", "for", "queueing", "scan", "sleep", "finish", "returned"},
         threads : {0, ThreadCount}, right : Prfs \cup {NoPrf},
         prf : 0 .. PrfCount + 1, queued : 0 .. ThreadCount,
         items : [KeyItems -> Prfs \cup {NoPrf}], tried : SUBSET Prfs,
         status : {"none", "success", "error", "passwordWrong"}]]

\* The password is called wrong only when the key of every PRF has been tried:
\* the scheduling loop, which steps its variable back while it waits, skips none
\* and leaves no derivation uncollected.
WrongOnlyAfterAll ==
    \A k \in KeyClients : header[k].status = "passwordWrong" => header[k].tried = Prfs

\* No PRF is derived twice by one call: those being derived are distinct and
\* not yet tried.
DerivedOnce ==
    \A k \in KeyClients : \A i \in KeyItems : header[k].items[i] # NoPrf =>
        /\ header[k].items[i] \notin header[k].tried
        /\ \A j \in KeyItems \ {i} : header[k].items[j] # header[k].items[i]

\* The function returns, although it waits for two events the threads set.
HeaderReturns ==
    \A k \in KeyClients : HeaderAt(k, "for") ~> HeaderAt(k, "returned")

\* Key items of k that a thread has still to write to, or whose count it has
\* still to decrease, or whose event it has still to set.
InUse(k) ==
    \/ \E i \in Slots : queue[i].State = "Ready" /\ queue[i].Owner = k
    \/ \E w \in Workers :
          /\ worker[w].pc \in {"stopCheck", "derive", "signalKey", "decrementKey",
                               "signalNoOutstanding"}
          /\ queue[worker[w].item].Owner = k

\* The key items and the events are freed only when no thread uses them any
\* more: what waiting for noOutstandingWorkItemEvent is there for.
FreedWhenUnused ==
    \A k \in KeyClients : HeaderAt(k, "returned") => ~InUse(k)
=============================================================================
