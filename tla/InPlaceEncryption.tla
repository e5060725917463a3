------------------------- MODULE InPlaceEncryption -------------------------
(* Encryption of the data of a partition in place (Format/InPlace.c), resumed after
   pauses, errors and crashes. The data area is shifted up by the size of the
   primary header, so the ciphertext of a data unit is written one place above
   its plain text, from the end of the partition to its start; the backup header, which
   lies above the data, records how far this has come.

   A place of the partition holds <<"plain", u>> or <<"cipher", u>> of data unit u,
   or Junk. One unit stands for TC_VOLUME_DATA_OFFSET bytes, and data unit 0 for the
   start of the file system, which is concealed meanwhile. *)
EXTENDS Integers, FiniteSets, FiniteSetsExt

CONSTANTS
    Units,              \* size of the data area
    ChunkUnits,         \* TC_MAX_NONSYS_INPLACE_ENC_WORK_CHUNK_SIZE
    UpdateInterval,     \* TC_NONSYS_INPLACE_ENC_HEADER_UPDATE_INTERVAL
    WipePasses,         \* GetWipePassCount, 0 without wiping
    MaxFaults           \* bounds failures and crashes

VARIABLES
    place,          \* what each place of the partition holds
    backupHeader,   \* [valid, length]: encrypted area, as saved
    primaryHeader,  \* the primary header has been written
    pending,        \* the configuration file counts this partition
    enc,            \* the wizard's thread and its locals
    faults          \* [failed, crashed, cut, unconcealed]: errors, crashes within the transformation,
                    \* other crashes, and whether the start ended before the concealment

inPlaceVars == <<place, backupHeader, primaryHeader, pending, enc, faults>>

Data == 0..(Units - 1)
Junk == <<"junk", 0>>
Plain(u) == <<"plain", u>>
Cipher(u) == <<"cipher", u>>
Concealed == <<"concealed", 0>>

\* XOR with TC_NTFS_CONCEAL_CONSTANT
Conceal(content) ==
    CASE content = Plain(0) -> Concealed
      [] content = Concealed -> Plain(0)
      [] OTHER -> Junk
Encrypt(content, u) == IF content = Plain(u) THEN Cipher(u) ELSE Junk
Decrypt(content, u) == IF content = Cipher(u) THEN Plain(u) ELSE Junk

NoThread == [pc |-> "none", remaining |-> 0, chunk |-> 0, pass |-> 0, distance |-> 0,
             buf |-> << >>, changed |-> FALSE, paused |-> FALSE]

Init ==
    /\ place = [p \in 0..Units |-> IF p = Units THEN Junk ELSE Plain(p)]
    /\ backupHeader = [valid |-> FALSE, length |-> 0]
    /\ primaryHeader = FALSE /\ pending = FALSE
    /\ enc = NoThread
    /\ faults = [failed |-> 0, crashed |-> 0, cut |-> 0, unconcealed |-> FALSE]

FaultLeft == faults.failed + faults.crashed + faults.cut < MaxFaults
Fail == FaultLeft /\ faults' = [faults EXCEPT !.failed = @ + 1]
Succeed == UNCHANGED faults
Go(pc) == enc' = [enc EXCEPT !.pc = pc]

-----------------------------------------------------------------------------
(* EncryptPartitionInPlaceBegin. The file system has been shrunk by the size of the headers. *)
Begin ==
    /\ enc.pc = "none" /\ ~backupHeader.valid
    /\ place[0] = Plain(0)
    /\ enc' = [NoThread EXCEPT !.pc = "dismount"]
    /\ UNCHANGED <<place, backupHeader, primaryHeader, pending, faults>>

\* Retried, then forced if the user agrees.
DismountFileSystem ==
    /\ enc.pc = "dismount"
    /\ Go("backup") \/ enc' = NoThread
    /\ UNCHANGED <<place, backupHeader, primaryHeader, pending, faults>>

\* Written and read back.
WriteBackupHeader ==
    /\ enc.pc = "backup"
    /\ \/ backupHeader' = [valid |-> TRUE, length |-> 0] /\ Go("conceal")
       \/ enc' = NoThread /\ UNCHANGED backupHeader
    /\ UNCHANGED <<place, primaryHeader, pending, faults>>

\* On a write error the modification is undone, until that works; the backup header stays.
ConcealNTFS ==
    /\ enc.pc = "conceal"
    /\ \/ /\ place' = [place EXCEPT ![0] = Conceal(@)]
          /\ Go("saveSettings") /\ Succeed
       \/ /\ FaultLeft
          /\ faults' = [faults EXCEPT !.cut = @ + 1, !.unconcealed = TRUE]
          /\ enc' = NoThread /\ UNCHANGED place
    /\ UNCHANGED <<backupHeader, primaryHeader, pending>>

SaveSettings ==
    /\ enc.pc = "saveSettings"
    /\ pending' = TRUE /\ Go("open")
    /\ UNCHANGED <<place, backupHeader, primaryHeader, faults>>

-----------------------------------------------------------------------------
(* EncryptPartitionInPlaceResume. After a pause, an error or a crash the wizard looks
   for partitions with a backup header whose encrypted area is not complete. *)
Resume ==
    /\ enc.pc = "none" /\ backupHeader.valid /\ backupHeader.length # Units
    /\ enc' = [NoThread EXCEPT !.pc = "open"]
    /\ UNCHANGED <<place, backupHeader, primaryHeader, pending, faults>>

OpenBackupHeader ==
    /\ enc.pc = "open"
    /\ \/ enc' = [enc EXCEPT !.pc = "loop", !.remaining = Units - backupHeader.length]
       \/ enc' = NoThread
    /\ UNCHANGED <<place, backupHeader, primaryHeader, pending, faults>>

\* Positions below are relative to EncryptedAreaStart = remaining + 1.
NextChunk(t) == Min({t.remaining, ChunkUnits})

Loop ==
    /\ enc.pc = "loop"
    /\ IF enc.remaining > 0
         THEN enc' = [enc EXCEPT !.pc = "read", !.chunk = NextChunk(enc)]
         ELSE Go("update")
    /\ UNCHANGED <<place, backupHeader, primaryHeader, pending, faults>>

ChunkOf(t) == (t.remaining - t.chunk)..(t.remaining - 1)
Read(u) == IF u = 0 THEN Conceal(place[0]) ELSE place[u]

\* A read error is corrected by zeroing sectors, or ends the process.
ReadChunk ==
    /\ enc.pc = "read"
    /\ \/ /\ Succeed
          /\ enc' = [enc EXCEPT !.buf = [u \in ChunkOf(enc) |-> Encrypt(Read(u), u)],
                         !.pass = 1, !.pc = IF WipePasses > 0 THEN "wipe" ELSE "write"]
       \/ Fail /\ Go("close")
    /\ UNCHANGED <<place, backupHeader, primaryHeader, pending>>

\* The write of a chunk may be cut short after any of its units.
WriteUnits(content, written) ==
    place' = [p \in DOMAIN place |-> IF p - 1 \in written THEN content[p - 1] ELSE place[p]]

WriteSome(content) == \E written \in SUBSET ChunkOf(enc) : WriteUnits(content, written)

WipePass ==
    /\ enc.pc = "wipe"
    /\ LET wiped == [u \in ChunkOf(enc) |-> Junk] IN
       \/ /\ WriteUnits(wiped, ChunkOf(enc)) /\ Succeed
          /\ enc' = [enc EXCEPT !.pass = @ + 1,
                         !.pc = IF enc.pass = WipePasses THEN "write" ELSE "wipe"]
       \/ WriteSome(wiped) /\ Fail /\ Go("undo")
    /\ UNCHANGED <<backupHeader, primaryHeader, pending>>

WriteChunkBegin ==
    /\ enc.pc = "write"
    /\ WriteSome(enc.buf) /\ Go("writing")
    /\ UNCHANGED <<backupHeader, primaryHeader, pending, faults>>

WriteChunkEnd ==
    /\ enc.pc = "writing"
    /\ \/ WriteUnits(enc.buf, ChunkOf(enc)) /\ Succeed /\ Go("advance")
       \/ UNCHANGED place /\ Fail /\ Go("undo")
    /\ UNCHANGED <<backupHeader, primaryHeader, pending>>

\* Undo failed write operation: the plain text of the chunk that lay where the
\* ciphertext went, which is all but the chunk's first unit.
OldUnits ==
    {u \in ChunkOf(enc) : u > enc.remaining - enc.chunk}
\* A bug: the ciphertext is written back as it is.
FaultyRestoreUnits(units) ==
    place' = [p \in DOMAIN place |-> IF p \in units THEN enc.buf[p] ELSE place[p]]

RestoreUnits(units) ==
    place' = [p \in DOMAIN place |-> IF p \in units THEN Decrypt(enc.buf[p], p) ELSE place[p]]

UndoWrite ==
    /\ enc.pc = "undo"
    /\ \/ RestoreUnits(OldUnits) /\ Succeed
       \/ Fail /\ \E units \in SUBSET OldUnits : RestoreUnits(units)
    /\ Go("close")
    /\ UNCHANGED <<backupHeader, primaryHeader, pending>>

Advance ==
    /\ enc.pc = "advance"
    /\ LET distance == enc.distance + enc.chunk IN
       enc' = [enc EXCEPT !.remaining = @ - enc.chunk, !.distance = distance,
                   !.changed = TRUE, !.buf = << >>,
                   !.pc = IF distance >= UpdateInterval THEN "intervalUpdate" ELSE "poll"]
    /\ UNCHANGED <<place, backupHeader, primaryHeader, pending, faults>>

\* FastVolumeHeaderUpdate, every interval, after the loop and again when closing.
FastVolumeHeaderUpdate ==
    backupHeader' = [backupHeader EXCEPT !.length = Units - enc.remaining]

Update ==
    /\ enc.pc \in {"intervalUpdate", "update"}
    /\ \/ /\ FastVolumeHeaderUpdate /\ Succeed
          /\ enc' = IF enc.pc = "intervalUpdate"
                    THEN [enc EXCEPT !.pc = "poll", !.distance = 0]
                    ELSE [enc EXCEPT !.pc = IF enc.paused THEN "close" ELSE "primary"]
       \/ Fail /\ UNCHANGED backupHeader /\ Go("close")
    /\ UNCHANGED <<place, primaryHeader, pending>>

\* bVolTransformThreadCancel
PollCancel ==
    /\ enc.pc = "poll"
    /\ \/ Go("loop")
       \/ enc' = [enc EXCEPT !.pc = "update", !.paused = TRUE]
    /\ UNCHANGED <<place, backupHeader, primaryHeader, pending, faults>>

\* The primary header overwrites what is left of the plain text.
WritePrimaryHeader ==
    /\ enc.pc = "primary"
    /\ place' = [place EXCEPT ![0] = Junk]
    /\ \/ primaryHeader' = TRUE /\ pending' = FALSE /\ Succeed
       \/ Fail /\ UNCHANGED <<primaryHeader, pending>>
    /\ Go("close")
    /\ UNCHANGED backupHeader

Close ==
    /\ enc.pc = "close"
    /\ \/ enc.changed /\ FastVolumeHeaderUpdate /\ Succeed
       \/ enc.changed /\ Fail /\ UNCHANGED backupHeader
       \/ ~enc.changed /\ Succeed /\ UNCHANGED backupHeader
    /\ enc' = NoThread
    /\ UNCHANGED <<place, primaryHeader, pending>>

Crash ==
    /\ enc.pc # "none" /\ FaultLeft
    /\ enc' = NoThread
    /\ faults' = IF enc.pc \in {"dismount", "backup", "conceal", "saveSettings", "open", "primary"}
                 THEN [faults EXCEPT !.cut = @ + 1, !.unconcealed = @ \/ enc.pc = "conceal"]
                 ELSE [faults EXCEPT !.crashed = @ + 1]
    /\ UNCHANGED <<place, backupHeader, primaryHeader, pending>>

Next ==
    \/ Begin \/ DismountFileSystem \/ WriteBackupHeader \/ ConcealNTFS \/ SaveSettings
    \/ Resume \/ OpenBackupHeader \/ Loop \/ ReadChunk \/ WipePass
    \/ WriteChunkBegin \/ WriteChunkEnd \/ UndoWrite \/ Advance \/ Update
    \/ PollCancel \/ WritePrimaryHeader \/ Close \/ Crash

-----------------------------------------------------------------------------
\* Type invariant.
TypeOK ==
    /\ \A p \in 0..Units : place[p] \in {Junk, Concealed} \cup {Plain(u) : u \in Data}
                                        \cup {Cipher(u) : u \in Data}
    /\ backupHeader.length \in 0..Units
    /\ enc.remaining \in 0..Units /\ enc.chunk \in 0..ChunkUnits

\* Data units that a resumed encryption, or the mounted volume, will get right.
Kept(u) ==
    IF ~backupHeader.valid THEN place[u] = Plain(u)
    ELSE IF u + backupHeader.length >= Units THEN place[u + 1] = Cipher(u)
    ELSE place[u] = IF u = 0 THEN Concealed ELSE Plain(u)
Lag == ((UpdateInterval + ChunkUnits - 1) \div ChunkUnits) * ChunkUnits

\* Whenever the process has stopped, what the backup header says and what is on the
\* partition fit together, so that it can be resumed or the volume mounted: only
\* a crash in the middle of the transformation, or a second failure while
\* the first is handled, costs data, and no more than the header lags behind; and a
\* start that ends between the backup header and the concealment costs the start of the
\* file system, which a resumed process takes for concealed.
NothingLost ==
    enc.pc = "none" =>
        Cardinality({u \in Data : ~Kept(u)})
            <= (faults.crashed + faults.failed \div 2) * Lag + (IF faults.unconcealed THEN 1 ELSE 0)
=============================================================================
