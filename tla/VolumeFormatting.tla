-------------------------- MODULE VolumeFormatting --------------------------
(* Creation of a volume (Common/Format.c, Common/Fat.c): the headers, the file system
   and the random data that fills the rest. A file is written through one buffer; for
   a device the buffer is copied to that of a write thread, which works meanwhile. *)
EXTENDS Integers, Sequences, SequencesExt, FiniteSetsExt

CONSTANTS
    SectorSize,     \* FormatSectorSize
    DataSectors,    \* num_sectors, below 2^31
    BufferSectors   \* FormatWriteBufferSize in sectors

VARIABLES
    vfParams,   \* FORMAT_VOL_PARAMETERS, and bInstantRetryOtherFilesys
    vfOp,       \* the program counter, and the locals of TCFormatVolume and FormatFat
    vfDisk,     \* the headers and the data area
    vfHostKept, \* nothing of the outer volume around a hidden one was overwritten
    vfThread    \* FormatWriteThreadProc, its request and the two events

vfVars == <<vfParams, vfOp, vfDisk, vfHostKept, vfThread>>

Sectors == 0..(DataSectors - 1)
CeilDiv(a, b) == (a + b - 1) \div b

-----------------------------------------------------------------------------
(* GetFatParams, for the default cluster size. *)
DefaultClusterBytes(sectors) ==
    LET kilobytes == (sectors \div 2) * (SectorSize \div 512)
        Limits == <<512 * 1048576, 128 * 1048576, 64 * 1048576, 32 * 1048576, 16 * 1048576,
                    512 * 1024, 256 * 1024, 1024, 0>>
        Sizes == <<131072, 65536, 32768, 16384, 8192, 4096, 2048, 1024, 512>>
    IN Sizes[Min({i \in DOMAIN Limits : kilobytes >= Limits[i]})]

ClusterSectors(sectors) ==
    LET wanted == Max({1, DefaultClusterBytes(sectors) \div SectorSize})
    IN IF sectors <= 4 * (262144 \div SectorSize) THEN 1
       ELSE Min({wanted, 262144 \div SectorSize, 128})

\* The type is chosen by the clusters the volume would have without allocation tables.
Layout(type, sectors, reserved, rootSectors) ==
    LET cluster == ClusterSectors(sectors)
        left == sectors - reserved - (IF type = 32 THEN 0 ELSE rootSectors)
        count == left \div cluster
        bytes == IF type = 12 THEN (count * 3 + 1) \div 2 ELSE count * (type \div 8)
    IN [type |-> type, reserved |-> reserved, root |-> rootSectors, cluster |-> cluster,
        count |-> count, fat |-> CeilDiv(bytes, SectorSize)]

GetFatParams(sectors) ==
    LET root == CeilDiv(512 * 32, SectorSize)
        fat12 == Layout(12, sectors, 2, root)
        fat16 == Layout(16, sectors, 2, root)
        fat32(r) == Layout(32, sectors, r, fat16.cluster)
        aligned == {r \in 32..40 : ((r + 2 * fat32(r).fat) * SectorSize) % 4096 = 0}
        ft == IF fat12.count < 4085 THEN fat12
              ELSE IF fat16.count < 65525 THEN fat16
              ELSE fat32(IF SectorSize = 512 /\ aligned # {} THEN Min(aligned) ELSE 32)
    IN [ft EXCEPT !.count = @ - (ft.fat * 2) \div ft.cluster]

ft == GetFatParams(DataSectors)
\* Boot sectors, both allocation tables and the root directory.
FsSectors == ft.reserved + 2 * ft.fat + ft.root

-----------------------------------------------------------------------------
Old == [data |-> "old", key |-> "none"]
Content(data, key) == [data |-> data, key |-> key]
NewDisk == [primary |-> FALSE, backup |-> FALSE, sector |-> [s \in Sectors |-> Old]]
NoThread == [running |-> FALSE, full |-> FALSE, failed |-> FALSE, first |-> 0, request |-> << >>]

Init ==
    /\ vfParams \in [device : BOOLEAN, hidden : BOOLEAN, quick : BOOLEAN, retry : {FALSE},
                     fileSystem : {"none", "fat", "ntfs"}]
    /\ vfOp = [pc |-> "open", key |-> "master", next |-> 0, buf |-> << >>, ok |-> TRUE, lost |-> FALSE]
    /\ vfDisk = NewDisk /\ vfHostKept = TRUE /\ vfThread = NoThread

Go(pc) == vfOp' = [vfOp EXCEPT !.pc = pc]
GotoError(pc) == vfOp' = [vfOp EXCEPT !.pc = pc, !.ok = FALSE]
KeepsContents == vfParams.hidden \/ vfParams.retry

\* A device may refuse, or need its first sectors zeroed before it can be written raw.
OpenDevice ==
    /\ vfOp.pc = "open" /\ vfParams.device
    /\ \/ Go("header") /\ UNCHANGED <<vfDisk, vfHostKept>>
       \/ /\ ~KeepsContents
          /\ vfDisk' = [vfDisk EXCEPT !.primary = FALSE]
          /\ vfHostKept' = ~vfParams.hidden
          /\ Go("header") \/ GotoError("close")
       \/ GotoError("close") /\ UNCHANGED <<vfDisk, vfHostKept>>
    /\ UNCHANGED <<vfParams, vfThread>>

\* CREATE_ALWAYS or OPEN_EXISTING; a new file is allocated to its size.
CreateVolumeFile ==
    /\ vfOp.pc = "open" /\ ~vfParams.device
    /\ IF KeepsContents THEN UNCHANGED <<vfDisk, vfHostKept>>
       ELSE vfDisk' = NewDisk /\ vfHostKept' = ~vfParams.hidden
    /\ Go("header") \/ GotoError("close")
    /\ UNCHANGED <<vfParams, vfThread>>

\* At the start of the host or at the place of a hidden volume's header; not again on a retry.
WriteVolumeHeader ==
    /\ vfOp.pc = "header"
    /\ \/ ~vfParams.retry /\ vfDisk' = [vfDisk EXCEPT !.primary = TRUE] /\ Go("format")
       \/ vfParams.retry /\ Go("format") /\ UNCHANGED vfDisk
       \/ ~vfParams.retry /\ GotoError("close") /\ UNCHANGED vfDisk
    /\ vfParams' = [vfParams EXCEPT !.quick = @ \/ vfParams.hidden]
    /\ UNCHANGED <<vfHostKept, vfThread>>

StartFormatWriteThread ==
    /\ vfOp.pc = "format"
    /\ \/ /\ vfThread' = [NoThread EXCEPT !.running = vfParams.device]
          /\ vfOp' = [vfOp EXCEPT !.next = 0, !.buf = << >>,
                         !.pc = IF vfParams.fileSystem = "fat" THEN "fat"
                                ELSE IF vfParams.quick THEN "stop" ELSE "temporaryKey"]
       \/ vfParams.device /\ GotoError("close") /\ UNCHANGED vfThread
    /\ UNCHANGED <<vfParams, vfDisk, vfHostKept>>

\* WriteSector, until the buffer is full or "end" reached; the user may abort.
AppendSectors(data, end) ==
    LET n == Min({BufferSectors - Len(vfOp.buf), end - vfOp.next - Len(vfOp.buf)})
    IN vfOp' = [vfOp EXCEPT !.buf = @ \o [i \in 1..n |-> data]]

Appended(end) == vfOp.next + Len(vfOp.buf) = end
Abort == GotoError("stop") /\ UNCHANGED <<vfDisk, vfThread>>

WriteAt(disk, first, contents) ==
    [disk EXCEPT !.sector = [s \in Sectors |->
        IF s - first + 1 \in DOMAIN contents THEN contents[s - first + 1] ELSE @[s]]]

\* The buffer is encrypted when it is flushed.
Encrypted == [i \in DOMAIN vfOp.buf |-> Content(vfOp.buf[i], vfOp.key)]
Flushed == vfOp' = [vfOp EXCEPT !.next = @ + Len(vfOp.buf), !.buf = << >>]

FlushFormatWriteBuffer ==
    \/ /\ ~vfThread.running
       /\ \/ vfDisk' = WriteAt(vfDisk, vfOp.next, Encrypted) /\ Flushed /\ UNCHANGED vfThread
          \/ Abort
    \/ /\ vfThread.running /\ ~vfThread.full
       /\ IF vfThread.failed THEN Abort
          ELSE /\ vfThread' = [vfThread EXCEPT !.full = TRUE, !.first = vfOp.next, !.request = Encrypted]
               /\ Flushed /\ UNCHANGED vfDisk

FormatWriteThreadProc ==
    /\ vfThread.full
    /\ \/ /\ vfDisk' = WriteAt(vfDisk, vfThread.first, vfThread.request)
          /\ vfThread' = [vfThread EXCEPT !.full = FALSE, !.failed = FALSE]
       \/ vfThread' = [vfThread EXCEPT !.full = FALSE, !.failed = TRUE] /\ UNCHANGED vfDisk
    /\ UNCHANGED <<vfParams, vfOp, vfHostKept>>

WriteBuffer(pc, data, end) ==
    /\ vfOp.pc = pc
    /\ \/ /\ Len(vfOp.buf) < BufferSectors /\ ~Appended(end)
          /\ AppendSectors(data, end) /\ UNCHANGED <<vfDisk, vfThread>>
       \/ Len(vfOp.buf) = BufferSectors /\ FlushFormatWriteBuffer
       \/ Abort
    /\ UNCHANGED <<vfParams, vfHostKept>>

FormatFat == WriteBuffer("fat", "fs", FsSectors)
FillWithRandomData == WriteBuffer("fill", "zero", DataSectors)

\* A bug: what the buffer still holds is left to the next flush.
FaultyBeforeTemporaryKey == Go("temporaryKey") /\ UNCHANGED <<vfDisk, vfThread>>

\* The file system must be flushed before the keys are replaced.
BeforeTemporaryKey ==
    IF vfOp.buf # << >> THEN FlushFormatWriteBuffer
    ELSE Go("temporaryKey") /\ UNCHANGED <<vfDisk, vfThread>>

FinishFat ==
    /\ vfOp.pc = "fat" /\ Appended(FsSectors) /\ Len(vfOp.buf) < BufferSectors
    /\ IF ~vfParams.quick THEN BeforeTemporaryKey
       ELSE IF vfOp.buf # << >> THEN FlushFormatWriteBuffer
       ELSE Go("stop") /\ UNCHANGED <<vfDisk, vfThread>>
    /\ UNCHANGED <<vfParams, vfHostKept>>

UseTemporaryKey ==
    /\ vfOp.pc = "temporaryKey"
    /\ vfOp' = [vfOp EXCEPT !.pc = "fill", !.key = "temporary"] \/ GotoError("stop")
    /\ UNCHANGED <<vfParams, vfDisk, vfHostKept, vfThread>>

\* FormatNoFs restores the keys, FormatFat does not.
FinishFill ==
    /\ vfOp.pc = "fill" /\ Appended(DataSectors) /\ Len(vfOp.buf) < BufferSectors
    /\ IF vfOp.buf # << >> THEN FlushFormatWriteBuffer
       ELSE /\ vfOp' = [vfOp EXCEPT !.pc = "stop",
                           !.key = IF vfParams.fileSystem = "fat" THEN @ ELSE "master"]
            /\ UNCHANGED <<vfDisk, vfThread>>
    /\ UNCHANGED <<vfParams, vfHostKept>>

\* The last request is waited for, but nobody looks at its result.
StopFormatWriteThread ==
    /\ vfOp.pc = "stop" /\ ~vfThread.full
    /\ vfThread' = NoThread
    /\ vfOp' = [vfOp EXCEPT !.pc = IF vfOp.ok THEN "backup" ELSE "close", !.buf = << >>,
                            !.lost = @ \/ vfThread.failed]
    /\ UNCHANGED <<vfParams, vfDisk, vfHostKept>>

\* Created from the master key that was kept in memory.
WriteHeaderBackup ==
    /\ vfOp.pc = "backup"
    /\ \/ /\ vfDisk' = [vfDisk EXCEPT !.backup = TRUE]
          /\ vfOp' = [vfOp EXCEPT !.key = "master", !.pc = IF vfParams.hidden THEN "close" ELSE "reserved"]
       \/ GotoError("close") /\ UNCHANGED vfDisk
    /\ UNCHANGED <<vfParams, vfHostKept, vfThread>>

FillReservedAreas ==
    /\ vfOp.pc = "reserved"
    /\ Go("close") \/ GotoError("close")
    /\ UNCHANGED <<vfParams, vfDisk, vfHostKept, vfThread>>

\* A bug: the file is emptied also when a hidden volume could not be created in it.
FaultyTruncates == ~vfParams.device /\ ~vfOp.ok

Truncates == ~vfParams.device /\ ~vfParams.hidden /\ ~vfOp.ok

CloseVolume ==
    /\ vfOp.pc = "close"
    /\ IF Truncates THEN vfDisk' = NewDisk /\ vfHostKept' = ~vfParams.hidden
       ELSE UNCHANGED <<vfDisk, vfHostKept>>
    /\ Go(IF ~vfOp.ok THEN "failed" ELSE IF vfParams.fileSystem = "ntfs" THEN "ntfs" ELSE "done")
    /\ UNCHANGED <<vfParams, vfThread>>

\* The new volume is mounted and formatted by Windows, up to 50 times, and dismounted. After
\* a failure the user may ask for FAT, without the destructive operations above.
FormatNtfs ==
    /\ vfOp.pc = "ntfs"
    /\ \/ Go("failed") /\ UNCHANGED <<vfParams, vfDisk>>
       \/ /\ vfDisk' = WriteAt(vfDisk, 0, [i \in 1..FsSectors |-> Content("fs", "master")])
          /\ Go("done") /\ UNCHANGED vfParams
       \/ /\ vfParams' = [vfParams EXCEPT !.fileSystem = "fat", !.retry = TRUE, !.quick = TRUE]
          /\ Go("open") /\ UNCHANGED vfDisk
    /\ UNCHANGED <<vfHostKept, vfThread>>

Next ==
    \/ OpenDevice \/ CreateVolumeFile \/ WriteVolumeHeader \/ StartFormatWriteThread
    \/ FormatFat \/ FinishFat \/ UseTemporaryKey \/ FillWithRandomData \/ FinishFill
    \/ FormatWriteThreadProc \/ StopFormatWriteThread
    \/ WriteHeaderBackup \/ FillReservedAreas \/ CloseVolume \/ FormatNtfs

-----------------------------------------------------------------------------
\* Type invariant.
TypeOK ==
    /\ vfOp.next \in 0..DataSectors /\ Len(vfOp.buf) <= BufferSectors
    /\ vfOp.key \in {"master", "temporary"}
    /\ FsSectors <= DataSectors

\* A volume reported as created has both headers, and a file system every sector of which
\* the master key decrypts, also when FAT was created instead of NTFS; the outer
\* volume is never harmed by the creation of a hidden one. (A failed last write of
\* the write thread is left out, see CreatedWhole.)
VolumeUsable ==
    /\ vfHostKept
    /\ vfOp.pc = "done" =>
        /\ vfDisk.primary /\ vfDisk.backup
        /\ ~vfOp.lost /\ vfParams.fileSystem # "none" =>
              \A s \in 0..(FsSectors - 1) : vfDisk.sector[s] = Content("fs", "master")

\* A volume reported as created without quick format has been overwritten as a whole.
CreatedWhole ==
    vfOp.pc = "done" /\ ~vfParams.quick => \A s \in Sectors : vfDisk.sector[s] # Old
=============================================================================
