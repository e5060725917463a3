----------------------- MODULE MCEncryptionThreadPool -----------------------
(* The thread pool with two threads and the smallest ring the code's ratio of
   ring to threads allows, so that positions wrap within a call or two. *)
EXTENDS EncryptionThreadPool, TLC

Symmetry == Permutations(Workers) \cup Permutations(DataClients)

\* States that differ only in the FirstFragment of free items that no worker
\* has still to read, or in the events only the key clients' own code reads,
\* are one state.
Named(i) == \E w \in Workers :
                worker[w].item = i /\ worker[w].pc \in {"signalFree", "decrement", "signalDone"}
LiveItem(i) ==
    IF IsFree(i) /\ ~Named(i) THEN [queue[i] EXCEPT !.FirstFragment = 0] ELSE queue[i]

View == <<flags, ring, events, [i \in Slots |-> LiveItem(i)], worker, clients,
          key, KeyReady, outstandingWorkItemCount>>
=============================================================================
