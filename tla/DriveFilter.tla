---------------------------- MODULE DriveFilter ----------------------------
(* Encryption and decryption of the system drive while it is in use
   (Driver/DriveFilter.c): the setup thread, the thread that wipes the decoy
   system, the device control requests that start and abort them under the root
   mutex (Driver/Ntdriver.c), the header on the disk, and power failures.

   Positions are bytes, with the inclusive ends and the -1 of the code; a
   sector has SectorBytes bytes and is represented by how often it is encrypted,
   or Lost when what it held is overwritten. Requests of the file system
   are the business of EncryptedIoQueue; here `held` says they are kept out. *)
EXTENDS Integers, FiniteSets, FiniteSetsExt

CONSTANTS
    Sectors,          \* sectors of the system partition
    SectorBytes,
    BlockSize,        \* TC_ENCRYPTION_SETUP_IO_BLOCK_SIZE
    HeaderThreshold,  \* TC_ENCRYPTION_SETUP_HEADER_UPDATE_THRESHOLD
    WipePasses,       \* GetWipePassCount of the request's algorithm, 0 for none
    Systems,          \* SUBSET {"normal", "hidden"}
    FaultyOperations, \* SUBSET {"read", "write", "undo", "header"}
    MaxFaults         \* bounds the failing operations and power failures

ASSUME SetupAssumption ==
    /\ SectorBytes \in Nat \ {0, 1}
    /\ Sectors \subseteq Nat /\ \E first, last \in Sectors : Sectors = first..last
    /\ BlockSize \in Nat /\ BlockSize > 0 /\ BlockSize % SectorBytes = 0
    /\ HeaderThreshold \in Nat \ {0}
    /\ WipePasses \in Nat /\ MaxFaults \in Nat

VARIABLES
    sector,       \* sector[s]: encryptions of s, or Lost
    passes,       \* passes[s]: passes of the current wipe made over s, in order
    header,       \* the header on the disk: [present, length]
    drive,        \* the filter's extension
    held,         \* the I/O queue is suspended and idle
    setup,        \* SetupThreadProc and its locals
    wipe,         \* DecoySystemWipeThreadProc and its locals
    status,       \* what the status requests read
    rootMutex,    \* RootDeviceControlMutex: "free", "control" or "setup"
    control,      \* the device control request under way
    failures,
    crashes

vars == <<sector, passes, header, drive, held, setup, wipe, status, rootMutex,
          control, failures, crashes>>

Lost == 100
Add(x, n) == IF x = Lost THEN Lost ELSE x + n

ConfStart == SectorBytes * Min(Sectors)
ConfEnd == SectorBytes * (Max(Sectors) + 1) - 1
SectorsOf(offset, size) ==
    {s \in Sectors : offset <= s * SectorBytes /\ s * SectorBytes < offset + size}

\* Sectors that are encrypted according to an area.
AreaSectors(start, end) ==
    IF start = -1 \/ end = -1 THEN {} ELSE SectorsOf(start, end + 1 - start)

Unmounted == [mounted |-> FALSE, hidden |-> FALSE, headerKeys |-> FALSE,
              VolumeHeaderPresent |-> FALSE, confStart |-> -1, confEnd |-> -1,
              start |-> -1, end |-> -1]
NoThread == [pc |-> "none", mode |-> "encryption",
             abort |-> FALSE, offset |-> 0, size |-> 0, pass |-> 0, bytes |-> 0,
             buffer |-> << >>, headerUpdateRequired |-> FALSE]
NoWipe == [pc |-> "none", abort |-> FALSE, offset |-> 0, size |-> 0, pass |-> 0]
Idle == [pc |-> "idle", request |-> "none"]
Reset == [SetupInProgress |-> FALSE, SetupResult |-> "success",
          WipeInProgress |-> FALSE, WipedAreaEnd |-> -1]

Init ==
    /\ \E system \in Systems :
         /\ drive = [Unmounted EXCEPT !.hidden = system = "hidden"]
         /\ header = [present |-> TRUE,
                      length |-> IF system = "hidden" THEN ConfEnd + 1 - ConfStart ELSE 0]
    /\ sector = [s \in Sectors |-> 0]
    /\ passes = [s \in Sectors |-> 0]
    /\ held = FALSE /\ setup = NoThread /\ wipe = NoWipe /\ status = Reset
    /\ rootMutex = "free" /\ control = Idle
    /\ failures = 0 /\ crashes = 0

\* An operation of the disk fails: budgeted, and only where the instance allows it.
Fail(operation) ==
    /\ operation \in FaultyOperations /\ failures + crashes < MaxFaults
    /\ failures' = failures + 1
Succeed == UNCHANGED failures

-----------------------------------------------------------------------------
(* MountDrive, at boot: the password has opened the header. *)
AreaEnd(length) == IF length = 0 THEN -1 ELSE ConfStart + length - 1

MountDrive ==
    /\ ~drive.mounted /\ header.present /\ setup.pc = "none"
    /\ drive' = [drive EXCEPT
           !.mounted = TRUE, !.headerKeys = TRUE, !.VolumeHeaderPresent = TRUE,
           !.confStart = ConfStart, !.confEnd = ConfEnd,
           !.start = IF header.length = 0 THEN -1 ELSE ConfStart,
           !.end = AreaEnd(header.length)]
    /\ UNCHANGED <<sector, passes, header, held, setup, wipe, status, rootMutex,
                   control, failures, crashes>>

(* The power fails. A hidden system's remapped area is not at stake. *)
Crash ==
    /\ failures + crashes < MaxFaults /\ drive.mounted
    /\ crashes' = crashes + 1
    /\ drive' = [Unmounted EXCEPT !.hidden = drive.hidden]
    /\ held' = FALSE /\ setup' = NoThread /\ wipe' = NoWipe /\ status' = Reset
    /\ rootMutex' = "free" /\ control' = Idle
    /\ UNCHANGED <<sector, passes, header, failures>>

-----------------------------------------------------------------------------
(* Setup thread. *)
SetupGo(pc) == setup' = [setup EXCEPT !.pc = pc]
SetupFrame == UNCHANGED <<passes, wipe, crashes>>
Quiet == SetupFrame /\ UNCHANGED <<sector, header, rootMutex, control, failures>>

SetupStart ==
    /\ setup.pc = "start"
    /\ Quiet /\ UNCHANGED <<drive, held>>
    /\ status' = [status EXCEPT !.SetupResult = "error"]
    /\ \/ drive.headerKeys /\ SetupGo("holdFirst")
       \/ SetupGo("ret")

\* EncryptedIoQueueHoldWhenIdle: a time limit that runs out lets the thread see
\* the abort request; without one the caller tries again.
SetupHold ==
    /\ setup.pc \in {"holdFirst", "hold"}
    /\ Quiet /\ UNCHANGED <<drive, status>>
    /\ \/ ~held /\ held' = TRUE /\ SetupGo(IF setup.pc = "hold" THEN "read" ELSE "mode")
       \/ setup.abort /\ SetupGo("abort") /\ UNCHANGED held

SetupMode ==
    /\ setup.pc = "mode"
    /\ Quiet /\ UNCHANGED status
    /\ LET empty == drive.start = -1 \/ drive.end = -1 IN
       \/ /\ setup.mode = "encryption" /\ empty
          /\ drive' = [drive EXCEPT !.start = drive.confStart, !.end = -1]
          /\ setup' = [setup EXCEPT !.pc = "loop", !.offset = drive.confStart]
          /\ held' = FALSE
       \/ /\ setup.mode = "encryption" /\ ~empty /\ drive.end = drive.confEnd
          /\ SetupGo("err") /\ UNCHANGED <<drive, held>>
       \/ /\ setup.mode = "decryption" /\ empty
          /\ SetupGo("abort") /\ UNCHANGED <<drive, held>>
       \/ /\ ~empty /\ ~(setup.mode = "encryption" /\ drive.end = drive.confEnd)
          /\ setup' = [setup EXCEPT !.pc = "loop", !.offset = drive.end + 1]
          /\ held' = FALSE /\ UNCHANGED drive

\* Forgets that the last block is short.
FaultyNextBlock(t, d) ==
    [offset |-> IF t.mode = "encryption" THEN t.offset ELSE t.offset - t.size, size |-> t.size]

\* The next block, clipped to the area that is configured or still encrypted.
NextBlock(t, d) ==
    IF t.mode = "encryption"
      THEN [offset |-> t.offset, size |-> Min({t.size, d.confEnd + 1 - t.offset})]
      ELSE LET size == Min({t.size, t.offset - d.start})
           IN  [offset |-> t.offset - size, size |-> size]

SetupLoop ==
    /\ setup.pc = "loop"
    /\ Quiet /\ UNCHANGED <<drive, held, status>>
    /\ IF setup.abort THEN SetupGo("abort")
       ELSE LET block == NextBlock(setup, drive)
            IN  setup' = [setup EXCEPT !.offset = block.offset, !.size = block.size,
                              !.pc = IF block.size = 0 THEN "abort" ELSE "hold"]

BlockSectors == SectorsOf(setup.offset, setup.size)
Transform(content, n) == [s \in DOMAIN content |-> Add(content[s], n)]
Direction == IF setup.mode = "encryption" THEN 1 ELSE -1

\* An unreadable block is zeroed or skipped if the request says so, and the data
\* that can be read are transformed; that may fail as well.
SetupRead ==
    /\ setup.pc = "read"
    /\ SetupFrame /\ UNCHANGED <<sector, header, drive, held, rootMutex, control>>
    /\ LET read == setup' = [setup EXCEPT !.pc = IF setup.mode = "encryption" /\ WipePasses > 0
                                          THEN "wipe" ELSE "write",
                                 !.pass = 1,
                                 !.buffer = Transform([s \in BlockSectors |-> sector[s]],
                                                      Direction)]
       IN \/ Succeed /\ read /\ UNCHANGED status
          \/ Fail("read") /\ read /\ UNCHANGED status
          \/ Fail("read") /\ SetupGo("err")
             /\ status' = [status EXCEPT !.SetupResult = "error"]

\* Writing a block takes time: an interruption leaves some of its sectors done.
WriteSome(content, written) ==
    sector' = [s \in Sectors |-> IF s \in written THEN content[s] ELSE sector[s]]
Overwritten == [s \in BlockSectors |-> Lost]

\* A wipe pass over the plain text, which is now only in memory.
SetupWipePass ==
    /\ setup.pc = "wipe"
    /\ SetupFrame /\ UNCHANGED <<header, drive, held, rootMutex, control>>
    /\ \/ /\ WriteSome(Overwritten, BlockSectors) /\ Succeed /\ UNCHANGED status
          /\ setup' = [setup EXCEPT !.pass = @ + 1,
                           !.pc = IF setup.pass = WipePasses THEN "write" ELSE "wipe"]
       \/ /\ Fail("write") /\ \E part \in SUBSET BlockSectors : WriteSome(Overwritten, part)
          /\ SetupGo("undo") /\ status' = [status EXCEPT !.SetupResult = "error"]

SetupWriteBegin ==
    /\ setup.pc = "write"
    /\ SetupFrame /\ UNCHANGED <<header, drive, held, rootMutex, control, status, failures>>
    /\ \E part \in SUBSET BlockSectors : WriteSome(setup.buffer, part)
    /\ SetupGo("writing")

SetupWriteEnd ==
    /\ setup.pc = "writing"
    /\ SetupFrame /\ UNCHANGED <<header, drive, held, rootMutex, control>>
    /\ \/ /\ WriteSome(setup.buffer, BlockSectors) /\ Succeed
          /\ SetupGo("advance") /\ UNCHANGED status
       \/ /\ Fail("write") /\ UNCHANGED sector
          /\ SetupGo("undo") /\ status' = [status EXCEPT !.SetupResult = "error"]

\* Gives up at once when a write fails.
FaultySetupUndo ==
    /\ setup.pc = "undo"
    /\ Quiet /\ UNCHANGED <<drive, held, status>>
    /\ SetupGo("err")

\* Undo failed write operation: the old contents are written once more, and
\* nobody asks whether that worked.
SetupUndo ==
    /\ setup.pc = "undo"
    /\ SetupFrame /\ UNCHANGED <<header, drive, held, rootMutex, control, status>>
    /\ LET old == Transform(setup.buffer, -Direction) IN
       \/ WriteSome(old, BlockSectors) /\ Succeed
       \/ Fail("undo") /\ \E part \in SUBSET BlockSectors : WriteSome(old, part)
    /\ SetupGo("err")

SetupAdvance ==
    /\ setup.pc = "advance"
    /\ Quiet /\ UNCHANGED status
    /\ LET offset == IF setup.mode = "encryption" THEN setup.offset + setup.size ELSE setup.offset
       IN  /\ drive' = [drive EXCEPT !.end = offset - 1]
           /\ setup' = [setup EXCEPT !.offset = offset, !.headerUpdateRequired = TRUE,
                            !.bytes = @ + setup.size, !.buffer = << >>,
                            !.pc = IF setup.bytes + setup.size >= HeaderThreshold
                                   THEN "save" ELSE "loop"]
    /\ held' = FALSE

\* SaveDriveVolumeHeader
AreaIsEmpty == drive.start = -1 \/ drive.end = -1 \/ drive.end <= drive.start
\* Saves the length that is configured, not the one reached.
FaultySavedHeader == [header EXCEPT !.length = ConfEnd + 1 - ConfStart]

SavedHeader ==
    IF AreaIsEmpty
      THEN IF setup.mode = "decryption" THEN [present |-> FALSE, length |-> 0] ELSE header
      ELSE [header EXCEPT !.length = drive.end + 1 - drive.start]
SaveDriveVolumeHeader ==
    /\ header' = SavedHeader
    /\ drive' = [drive EXCEPT !.VolumeHeaderPresent =
                    @ /\ ~(AreaIsEmpty /\ setup.mode = "decryption")]

\* The code notes that the header is gone before it tries to write.
FailedSave ==
    /\ Fail("header") /\ UNCHANGED header
    /\ drive' \in {drive, [drive EXCEPT !.VolumeHeaderPresent =
                               @ /\ ~(AreaIsEmpty /\ setup.mode = "decryption")]}

\* The periodic save: its status is asserted in debug builds and then dropped.
SetupSave ==
    /\ setup.pc = "save"
    /\ SetupFrame /\ UNCHANGED <<sector, held, rootMutex, control, status>>
    /\ \/ SaveDriveVolumeHeader /\ Succeed
       \/ FailedSave
    /\ setup' = [setup EXCEPT !.headerUpdateRequired = FALSE, !.bytes = 0, !.pc = "loop"]

\* Labels abort and err.
SetupEnd ==
    /\ setup.pc \in {"abort", "err"}
    /\ Quiet
    /\ status' = IF setup.pc = "abort" THEN [status EXCEPT !.SetupResult = "success"] ELSE status
    /\ LET start == IF drive.end = -1 THEN -1 ELSE drive.start
       IN  /\ drive' = [drive EXCEPT !.start = start]
           /\ setup' = [setup EXCEPT !.offset = 0, !.size = 0, !.pass = 0, !.bytes = 0,
                            !.buffer = << >>,
                            !.pc = IF setup.mode = "decryption" /\ start >= drive.end
                                   THEN "holdLast" ELSE "saveLast"]
    /\ held' = FALSE

SetupDecrypted ==
    /\ setup.pc = "holdLast"
    /\ Quiet /\ UNCHANGED <<status, held>>
    /\ ~held
    /\ drive' = [drive EXCEPT !.confStart = -1, !.confEnd = -1, !.start = -1, !.end = -1]
    /\ setup' = [setup EXCEPT !.headerUpdateRequired = TRUE, !.pc = "saveLast"]

SetupSaveLast ==
    /\ setup.pc = "saveLast"
    /\ SetupFrame /\ UNCHANGED <<sector, held, rootMutex, control>>
    /\ \/ ~setup.headerUpdateRequired /\ UNCHANGED <<header, drive, status, failures>>
       \/ /\ setup.headerUpdateRequired
          /\ SaveDriveVolumeHeader /\ Succeed /\ UNCHANGED status
       \/ /\ setup.headerUpdateRequired /\ FailedSave
          /\ status' = IF status.SetupResult = "success"
                       THEN [status EXCEPT !.SetupResult = "error"] ELSE status
    /\ SetupGo(IF setup.mode = "decryption" /\ drive.confEnd = -1 /\ drive.mounted
               THEN "poll" ELSE "ret")

\* Closes the keys without regard to requests that use them.
UnlockedSetupPoll ==
    /\ setup.pc = "poll"
    /\ Quiet /\ UNCHANGED <<drive, held, status>>
    /\ SetupGo("dismount")

\* Waits for the mutex even if the thread that holds it waits for this one.
BlockingSetupPoll ==
    /\ setup.pc = "poll" /\ rootMutex = "free"
    /\ SetupFrame /\ UNCHANGED <<sector, header, drive, held, control, status, failures>>
    /\ rootMutex' = "setup" /\ SetupGo("dismount")

\* The root mutex, or the request to abort of a thread that holds it and waits.
SetupPoll ==
    /\ setup.pc = "poll"
    /\ SetupFrame /\ UNCHANGED <<sector, header, drive, held, control, status, failures>>
    /\ \/ rootMutex = "free" /\ rootMutex' = "setup"
       \/ rootMutex # "free" /\ setup.abort /\ UNCHANGED rootMutex
    /\ SetupGo("dismount")

SetupDismount ==
    /\ setup.pc = "dismount"
    /\ SetupFrame /\ UNCHANGED <<sector, header, held, control, status, failures>>
    /\ drive' = [drive EXCEPT !.mounted = FALSE, !.headerKeys = FALSE]
    /\ rootMutex' = IF setup.abort THEN rootMutex ELSE "free"
    /\ SetupGo("ret")

SetupReturn ==
    /\ setup.pc = "ret"
    /\ Quiet /\ UNCHANGED <<drive, held>>
    /\ status' = [status EXCEPT !.SetupInProgress = FALSE]
    /\ setup' = [NoThread EXCEPT !.pc = "done"]

SetupThreadProc ==
    \/ SetupStart \/ SetupHold \/ SetupMode \/ SetupLoop \/ SetupRead \/ SetupWipePass
    \/ SetupWriteBegin \/ SetupWriteEnd \/ SetupUndo \/ SetupAdvance \/ SetupSave
    \/ SetupEnd \/ SetupDecrypted \/ SetupSaveLast \/ SetupPoll \/ SetupDismount
    \/ SetupReturn

-----------------------------------------------------------------------------
(* Decoy system wipe thread. *)
WipeGo(pc) == wipe' = [wipe EXCEPT !.pc = pc]
WipeFrame == UNCHANGED <<sector, header, drive, setup, rootMutex, control, crashes>>

WipeStart ==
    /\ wipe.pc = "start"
    /\ WipeFrame /\ UNCHANGED <<passes, held, status, failures>>
    /\ \/ wipe' = [wipe EXCEPT !.pc = "loop", !.offset = drive.confStart]
       \/ WipeGo("ret")

WipeLoop ==
    /\ wipe.pc = "loop"
    /\ WipeFrame /\ UNCHANGED <<passes, held, status, failures>>
    /\ LET size == Min({wipe.size, drive.confEnd + 1 - wipe.offset}) IN
       IF wipe.abort \/ size = 0
         THEN WipeGo("end")
         ELSE wipe' = [wipe EXCEPT !.size = size, !.pass = 1, !.pc = "hold"]

WipeHold ==
    /\ wipe.pc = "hold"
    /\ WipeFrame /\ UNCHANGED <<passes, status, failures>>
    /\ \/ ~held /\ held' = TRUE /\ WipeGo("write")
       \/ wipe.abort /\ WipeGo("end") /\ UNCHANGED held

WipeSectors == SectorsOf(wipe.offset, wipe.size)

\* Leaves out the last pass.
FaultyWipeWrite ==
    /\ wipe.pc = "write"
    /\ WipeFrame /\ UNCHANGED <<status, failures>>
    /\ passes' = [s \in Sectors |->
           passes[s] + IF s \in WipeSectors /\ passes[s] = wipe.pass - 1 THEN 1 ELSE 0]
    /\ held' = FALSE
    /\ wipe' = [wipe EXCEPT !.pass = @ + 1,
                    !.pc = IF wipe.pass + 1 = WipePasses THEN "report" ELSE "hold"]

\* Label err leaves the queue's hold to be undone at the end.
WipeWrite ==
    /\ wipe.pc = "write"
    /\ WipeFrame /\ UNCHANGED status
    /\ \/ /\ Succeed
          /\ passes' = [s \in Sectors |->
                 passes[s] + IF s \in WipeSectors /\ passes[s] = wipe.pass - 1 THEN 1 ELSE 0]
          /\ held' = FALSE
          /\ wipe' = [wipe EXCEPT !.pass = @ + 1,
                          !.pc = IF wipe.pass = WipePasses THEN "report" ELSE "hold"]
       \/ Fail("write") /\ WipeGo("end") /\ UNCHANGED <<passes, held>>

WipeReport ==
    /\ wipe.pc = "report"
    /\ WipeFrame /\ UNCHANGED <<passes, held, failures>>
    /\ wipe' = [wipe EXCEPT !.offset = @ + wipe.size, !.pc = "loop"]
    /\ status' = [status EXCEPT !.WipedAreaEnd = wipe.offset + wipe.size - 1]

WipeEnd ==
    /\ wipe.pc = "end"
    /\ WipeFrame /\ UNCHANGED <<passes, status, failures>>
    /\ held' = FALSE /\ WipeGo("ret")

WipeReturn ==
    /\ wipe.pc = "ret"
    /\ WipeFrame /\ UNCHANGED <<passes, held, failures>>
    /\ status' = [status EXCEPT !.WipeInProgress = FALSE]
    /\ wipe' = [NoWipe EXCEPT !.pc = "done"]

DecoySystemWipeThreadProc ==
    \/ WipeStart \/ WipeLoop \/ WipeHold \/ WipeWrite \/ WipeReport \/ WipeEnd \/ WipeReturn

-----------------------------------------------------------------------------
(* Device control requests, one after the other under the root mutex. Shutdown
   and hibernation abort the setup with a request like any other. *)
ControlFrame == UNCHANGED <<sector, passes, header, held, failures, crashes>>
Requests == {"encrypt", "decrypt", "abort", "wipe", "abortWipe", "properties", "reopen"}
Finish == control' = Idle /\ rootMutex' = "free"

\* A request that waits for the mutex has no effect yet. User mode reopens the
\* header only while no setup is in progress.
ControlBegin ==
    /\ control.pc = "idle" /\ rootMutex = "free"
    /\ ControlFrame /\ UNCHANGED <<drive, setup, wipe, status>>
    /\ rootMutex' = "control"
    /\ \E request \in Requests :
         /\ request = "reopen" => ~status.SetupInProgress
         /\ control' = [pc |-> "process", request |-> request]

ModeOf == [encrypt |-> "encryption", decrypt |-> "decryption"]

CannotStart ==
    \/ control.request \in {"encrypt", "decrypt"}
       /\ (status.SetupInProgress \/ ~drive.mounted \/ drive.hidden)
    \/ control.request = "wipe" /\ (~drive.mounted \/ ~drive.hidden \/ status.WipeInProgress)

\* Refusals, and aborts of threads that do not exist.
ControlRefuse ==
    /\ control.pc = "process"
    /\ ControlFrame /\ UNCHANGED <<drive, setup, wipe, status>>
    /\ \/ CannotStart
       \/ control.request = "abort" /\ setup.pc = "none"
       \/ control.request = "abortWipe" /\ wipe.pc = "none"
       \/ ~drive.mounted /\ control.request \in {"properties", "reopen"}
       \/ ~drive.headerKeys /\ control.request = "reopen"
    /\ Finish

\* The flag, then TCStopThread; a start gets rid of the last thread that way.
ControlAbort ==
    /\ control.pc = "process" /\ ~CannotStart
    /\ ControlFrame /\ UNCHANGED <<drive, status, rootMutex>>
    /\ \/ /\ control.request \in {"encrypt", "decrypt", "abort"} /\ setup.pc # "none"
          /\ setup' = [setup EXCEPT !.abort = TRUE] /\ UNCHANGED wipe
       \/ /\ control.request \in {"wipe", "abortWipe"} /\ wipe.pc # "none"
          /\ wipe' = [wipe EXCEPT !.abort = TRUE] /\ UNCHANGED setup
    /\ control' = [control EXCEPT !.pc = "join"]

ControlJoin ==
    /\ control.pc = "join"
    /\ ControlFrame /\ UNCHANGED <<drive, status>>
    /\ \/ /\ control.request \in {"encrypt", "decrypt", "abort"} /\ setup.pc = "done"
          /\ setup' = NoThread /\ UNCHANGED wipe
       \/ /\ control.request \in {"wipe", "abortWipe"} /\ wipe.pc = "done"
          /\ wipe' = NoWipe /\ UNCHANGED setup
    /\ IF control.request \in {"abort", "abortWipe"}
         THEN Finish
         ELSE control' = [control EXCEPT !.pc = "process"] /\ UNCHANGED rootMutex

StartBootEncryptionSetup ==
    /\ control.pc = "process" /\ control.request \in {"encrypt", "decrypt"}
    /\ ~CannotStart /\ setup.pc = "none"
    /\ ControlFrame /\ UNCHANGED <<drive, wipe>>
    /\ \/ /\ setup' = [NoThread EXCEPT !.pc = "start", !.size = BlockSize,
                             !.mode = ModeOf[control.request]]
          /\ status' = [status EXCEPT !.SetupInProgress = TRUE]
       \/ UNCHANGED <<setup, status>>
    /\ Finish

StartDecoySystemWipe ==
    /\ control.pc = "process" /\ control.request = "wipe"
    /\ ~CannotStart /\ wipe.pc = "none"
    /\ UNCHANGED <<sector, header, drive, held, setup, failures, crashes>>
    /\ passes' = [s \in Sectors |-> 0]
    /\ \/ /\ wipe' = [NoWipe EXCEPT !.pc = "start", !.size = BlockSize]
          /\ status' = [status EXCEPT !.WipeInProgress = TRUE,
                                      !.WipedAreaEnd = drive.confStart]
       \/ /\ status' = [status EXCEPT !.WipedAreaEnd = drive.confStart] /\ UNCHANGED wipe
    /\ Finish

\* GetBootDriveVolumeProperties and ReopenBootVolumeHeader look at DriveMounted
\* and then use the keys.
ControlCheck ==
    /\ control.pc = "process" /\ control.request \in {"properties", "reopen"}
    /\ drive.mounted /\ (control.request = "reopen" => drive.headerKeys)
    /\ ControlFrame /\ UNCHANGED <<drive, setup, wipe, status, rootMutex>>
    /\ control' = [control EXCEPT !.pc = "use"]

ControlUse ==
    /\ control.pc = "use"
    /\ ControlFrame /\ UNCHANGED <<setup, wipe, status>>
    /\ \/ UNCHANGED drive
       \/ control.request = "reopen" /\ drive' = [drive EXCEPT !.headerKeys = FALSE]
    /\ Finish

DeviceControl ==
    \/ ControlRefuse \/ ControlAbort \/ ControlJoin
    \/ StartBootEncryptionSetup \/ StartDecoySystemWipe \/ ControlCheck \/ ControlUse

Next == MountDrive \/ Crash \/ SetupThreadProc \/ DecoySystemWipeThreadProc
        \/ ControlBegin \/ DeviceControl

Fairness == WF_vars(SetupThreadProc) /\ WF_vars(DecoySystemWipeThreadProc)
            /\ WF_vars(DeviceControl)
Spec == Init /\ [][Next]_vars /\ Fairness
-----------------------------------------------------------------------------
\* Type invariant.
TypeOK ==
    /\ sector \in [Sectors -> -3..5 \cup {Lost}]
    /\ passes \in [Sectors -> 0..WipePasses]
    /\ header \in [present : BOOLEAN, length : 0..(ConfEnd + 1 - ConfStart)]
    /\ drive.start \in {-1, ConfStart} /\ drive.end \in -1..ConfEnd
    /\ held \in BOOLEAN
    /\ setup.offset \in 0..(ConfEnd + 1) /\ setup.size \in 0..BlockSize
    /\ rootMutex \in {"free", "control", "setup"}
    /\ control.request \in Requests \cup {"none"}

\* Where the data are encrypted: the queue's area, or the header's after a reboot.
CurrentArea ==
    IF drive.mounted THEN AreaSectors(drive.start, drive.end)
    ELSE IF header.present THEN AreaSectors(ConfStart, AreaEnd(header.length)) ELSE {}
Damaged == {s \in Sectors : sector[s] # (IF s \in CurrentArea THEN 1 ELSE 0)}
Lag == ((HeaderThreshold + BlockSize - 1) \div BlockSize) * BlockSize

\* Nothing is lost while power and disk hold. A power failure costs at most the
\* blocks written since the header was last saved, and a block is lost otherwise only if
\* both its write and the write that undoes it fail (lines 1366-1407).
LossBounded ==
    ~drive.hidden /\ ~held =>
        SectorBytes * Cardinality(Damaged) <= crashes * Lag + (failures \div 2) * BlockSize

\* When the setup thread is gone and has reported success, the header records the
\* area that the driver uses, so that the setup can be resumed after a reboot.
HeaderCurrent ==
    setup.pc \in {"none", "ret", "done"} /\ drive.mounted /\ status.SetupResult = "success"
    /\ ~drive.hidden =>
        header.present /\ drive.end = AreaEnd(header.length)

\* The keys, which the setup thread closes when all is decrypted (line 1452), are
\* open whenever a request that has looked at DriveMounted uses them, and the
\* header's keys whenever the header is written.
KeysOpenWhenUsed ==
    /\ control.pc = "use" => drive.mounted
    /\ setup.pc \in {"save", "saveLast"} /\ ~AreaIsEmpty => drive.headerKeys

\* Tcformat.c:5821 takes a wipe for complete when WipedAreaEnd is the end of the
\* area: all passes have then been made over everything below it.
WipeReported ==
    status.WipedAreaEnd > ConfStart =>
        \A s \in SectorsOf(ConfStart, status.WipedAreaEnd + 1 - ConfStart) :
            passes[s] = WipePasses

\* Every request returns, those that wait under the root mutex for a thread
\* which itself asks for that mutex too (line 1444).
RequestsReturn == control.pc # "idle" ~> control.pc = "idle"

=============================================================================
