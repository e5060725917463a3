------------------------- MODULE MCEncryptedIoQueue -------------------------
(* The I/O queue over a device of a few sectors, with requests that fall into,
   outside and across the encrypted area and that need one or two fragments. *)
EXTENDS EncryptedIoQueue, TLC

Symmetry == Permutations(Irps)

Aligned(offset, length) == [offset |-> offset, length |-> length, aligned |-> TRUE]
Misplaced(offset, length) == [offset |-> offset, length |-> length, aligned |-> FALSE]

OneClient == {CHOOSE i \in Irps : TRUE}

\* Drive filter: sector 0 is a header, sectors 1 and 2 can be encrypted.
Filter == [
    IsFilterDevice |-> TRUE, ProtectedRegions |-> {<<0, 0>>},
    DataAreaOffset |-> 0, VirtualDeviceLength |-> 0,
    EncryptedAreaStart |-> 1, InitialAreaEnd |-> 1, ConfiguredEnd |-> 2,
    RemapEncryptedArea |-> FALSE, RemappedAreaOffset |-> 0,
    MaxReadAheadOffset |-> 3, MaxFragment |-> 1,
    Ranges |-> {Aligned(1, 2)}, Clients |-> Irps, Failures |-> FALSE]

\* One request at a time, so that the device is read ahead: in two fragments or
\* misaligned, and from the header into the encrypted area.
ReadAheadFilter == [Filter EXCEPT !.Clients = OneClient,
    !.Ranges = {Aligned(1, 2), Misplaced(1, 1)}]
HeaderFilter == [ReadAheadFilter EXCEPT !.Ranges = {Aligned(0, 1), Aligned(1, 1)}]

\* Hidden system: sector 1 of the decoy system is remapped to sector 4.
Remap == [Filter EXCEPT !.ProtectedRegions = {}, !.ConfiguredEnd = 1,
    !.RemapEncryptedArea = TRUE, !.RemappedAreaOffset = 3,
    !.MaxReadAheadOffset = 5, !.MaxFragment = 3, !.Ranges = {Aligned(0, 3)}]

\* Volume: the data area is at 1 .. 3, a hidden volume at sector 3.
Volume == [Filter EXCEPT !.IsFilterDevice = FALSE, !.ProtectedRegions = {<<3, 3>>},
    !.DataAreaOffset = 1, !.VirtualDeviceLength = 3, !.MaxReadAheadOffset = 4,
    !.Ranges = {Aligned(0, 2), Aligned(1, 2), Aligned(2, 2), Misplaced(0, 1)},
    !.Clients = OneClient, !.Failures = TRUE]

FilterQueue == {Filter}
DeviceQueues == {ReadAheadFilter, HeaderFilter, Remap, Volume}
FailingRemapQueue == {[Remap EXCEPT !.Clients = OneClient, !.Failures = TRUE]}
LiveQueues == {ReadAheadFilter,
               [Volume EXCEPT !.Ranges = {Aligned(1, 1)}, !.Clients = Irps, !.Failures = FALSE]}

\* Fields that will be overwritten before they are read make no difference.
View == <<queue, irp, data, disk, EncryptedAreaEnd, queues,
          [t \in Threads |-> IF thread[t].pc \in {"decrement", "signal"}
                             THEN [Idle EXCEPT !.pc = thread[t].pc] ELSE thread[t]],
          cursor, activeFragmentBuffer, fragmentBuffer, fragmentBufferFree, pool,
          [readAhead EXCEPT
              !.offset = IF readAhead.valid THEN @ ELSE 0,
              !.length = IF readAhead.valid THEN @ ELSE 0,
              !.content = IF readAhead.valid THEN @ ELSE << >>,
              !.lastOffset = IF thread["io"].pc \in {"finish", "handOver", "readAhead"} THEN @ ELSE 0,
              !.lastLength = IF thread["io"].pc \in {"finish", "handOver", "readAhead"} THEN @ ELSE 0],
          counts, IoThreadPendingRequestCount, suspension, stopping, ProtectionAction>>
=============================================================================
