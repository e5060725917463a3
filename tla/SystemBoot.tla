---------------------------- MODULE SystemBoot ----------------------------
(* The paths by which the system partition is accessed from power on to power off: the
   boot loader with its INT 13 filter (Boot/Windows), the drive filter's queue, the
   crash dump and hibernation filters (Driver/DumpFilter.c, DriveFilter.c), and what
   the loaders do to the drive: the copy of a system to the hidden volume and, from
   the Rescue Disk, decryption and repair.

   The drive holds, in sectors: the header, an extra boot partition, the system
   partition and the partition following it, in which a hidden volume may lie. *)
EXTENDS Integers, FiniteSetsExt

CONSTANTS
    SystemSectors,      \* size of the system partition, and of a hidden system
    HiddenOffset,       \* EncryptedAreaStart in the header of the hidden volume
    FragmentSectors,    \* fragmentSectorCount at first
    MaxFaults           \* bounds failing transfers

VARIABLES
    sbDrive,    \* [hidden, extra]: a hidden volume and an extra boot partition exist
    sbDisk,     \* what each sector holds
    sbHeader,   \* [usable, length] of the header of the drive
    sbPhase,    \* hidden OS creation phase in the boot sector
    sbLoader,   \* program counter and variables of the boot loader in memory
    sbQueue,    \* the drive filter: EncryptedAreaStart..EncryptedAreaEnd and remapping
    sbWritten,  \* history: what each system last wrote to its partition
    sbDamaged,  \* history: sectors whose transfer failed while the drive was decrypted
    sbStray,    \* history: a hidden system has changed a sector outside its volume
    sbFaults

sbVars == <<sbDrive, sbDisk, sbHeader, sbPhase, sbLoader, sbQueue, sbWritten, sbDamaged,
            sbStray, sbFaults>>

HeaderSector == 0
ExtraSector == 1
ActiveStart == 2
ActiveEnd == ActiveStart + SystemSectors - 1
Active == ActiveStart..ActiveEnd
FollowingStart == ActiveEnd + 1
HiddenStart == FollowingStart + HiddenOffset
Hidden == HiddenStart..(HiddenStart + SystemSectors - 1)
DiskSectors == 0..(HiddenStart + SystemSectors)
Systems == {"normal", "hidden"}
Values == {"old", "new"}

Plain(data) == [data |-> data, key |-> "none", unit |-> 0]
Garbage == Plain("garbage")
Encrypt(content, key, unit) ==
    IF content.key = "none" THEN [data |-> content.data, key |-> key, unit |-> unit] ELSE Garbage
Decrypt(content, key, unit) ==
    IF content.key = key /\ content.unit = unit THEN Plain(content.data) ELSE Garbage

NoArea == [start |-> 0, length |-> 0]
In(s, area) == s \in area.start..(area.start + area.length - 1)
NoLoader == [pc |-> "off", rescue |-> FALSE, system |-> "none", evp |-> NoArea, phase |-> "none",
             next |-> 0, fragment |-> FragmentSectors, skip |-> FALSE, done |-> FALSE]
NoQueue == [start |-> 0, length |-> 0, remapped |-> FALSE, offset |-> 0, unit |-> 0]

\* A drive at rest: a system encrypted up to some sector, with or without a hidden one,
\* or a system that is yet to be copied to the hidden volume.
Init ==
    /\ sbDrive \in [hidden : BOOLEAN, extra : BOOLEAN]
    /\ sbPhase \in IF sbDrive.hidden THEN {"none", "cloning"} ELSE {"none"}
    /\ sbHeader \in {[usable |-> TRUE, length |-> n] : n \in 0..SystemSectors}
                        \cup {[usable |-> FALSE, length |-> 0]}
    /\ (sbPhase = "cloning") <=> ~sbHeader.usable
    /\ sbDisk = [s \in DiskSectors |->
                    IF s \in ActiveStart..(ActiveStart + sbHeader.length - 1)
                    THEN Encrypt(Plain("old"), "normal", s)
                    ELSE IF s \in Hidden /\ sbDrive.hidden /\ sbPhase = "none"
                    THEN Encrypt(Plain("old"), "hidden", s - FollowingStart) ELSE Plain("old")]
    /\ sbLoader = NoLoader /\ sbQueue = NoQueue
    /\ sbWritten = [w \in Systems |-> [s \in Active |-> "old"]]
    /\ sbDamaged = {} /\ sbStray = FALSE /\ sbFaults = 0

Goto(pc) == sbLoader' = [sbLoader EXCEPT !.pc = pc]
Fault == sbFaults < MaxFaults /\ sbFaults' = sbFaults + 1
KeepsDisk == UNCHANGED <<sbDisk, sbWritten, sbStray>>
Static == UNCHANGED <<sbDrive, sbDamaged>>

-----------------------------------------------------------------------------
(* main: the loader of the drive acts by the phase in its boot sector; that of the
   Rescue Disk stops when a hidden system is being created. *)
PowerOn ==
    /\ sbLoader.pc = "off"
    /\ \E rescue \in BOOLEAN :
         /\ rescue => sbPhase = "none"
         /\ sbLoader' = [NoLoader EXCEPT !.pc = IF ~rescue /\ sbPhase = "cloning" THEN "copy" ELSE "menu",
                                         !.rescue = rescue, !.phase = IF rescue THEN "none" ELSE sbPhase]
    /\ UNCHANGED <<sbHeader, sbPhase, sbQueue, sbFaults>> /\ KeepsDisk /\ Static

\* While decrypting the loader warns not to turn off the power.
PowerOff ==
    /\ sbLoader.pc \notin {"off", "decrypt", "decrypted"}
    /\ sbLoader' = NoLoader /\ sbQueue' = NoQueue
    /\ UNCHANGED <<sbHeader, sbPhase, sbFaults>> /\ KeepsDisk /\ Static

\* The headers a password may open: the one of the drive, unless a hidden system is being
\* created, and that of a hidden volume in a larger partition following the active one.
OpenVolume(skipNormal, skipHidden) ==
    {w \in Systems : IF w = "normal" THEN ~skipNormal /\ sbHeader.usable
                     ELSE ~skipHidden /\ sbDrive.hidden}

\* MountVolume
EncryptedVirtualPartition(w) ==
    IF w = "hidden" THEN [start |-> ActiveStart, length |-> SystemSectors]
    ELSE [start |-> ActiveStart, length |-> sbHeader.length]

\* MountVolume, GetSystemPartitions and InstallInterruptFilters succeed; otherwise the
\* loader erases its arguments and the menu is back.
BootEncryptedDrive ==
    /\ sbLoader.pc = "menu"
    /\ \E w \in OpenVolume(sbLoader.phase # "none", FALSE) :
         sbLoader' = [sbLoader EXCEPT !.pc = "bios", !.system = w, !.evp = EncryptedVirtualPartition(w)]
    /\ UNCHANGED <<sbHeader, sbPhase, sbQueue, sbFaults>> /\ KeepsDisk /\ Static

-----------------------------------------------------------------------------
(* The INT 13 filter: requests to the drive of the encrypted virtual partition. *)

\* ReadWritePartiallyCoversEncryptedArea, which also refuses what is beyond the area.
PartiallyCovers(first, count) ==
    LET end == first + count - 1
        evp == sbLoader.evp
    IN \/ first < evp.start /\ end >= evp.start
       \/ first >= evp.start /\ end >= evp.start + evp.length

Accepts(first, count) == sbLoader.system = "hidden" => ~PartiallyCovers(first, count)

\* ReadEncryptedSectors, of one of the sectors.
BootRead(disk, w, evp, s) ==
    IF ~In(s, evp) THEN disk[s]
    ELSE IF w = "hidden" THEN Decrypt(disk[s - evp.start + HiddenStart], w, s - evp.start + HiddenOffset)
    ELSE Decrypt(disk[s], w, s)

\* WriteEncryptedSectors: all sectors are written at the same offset from their address.
BootLocation(s) == IF sbLoader.system = "hidden" THEN s + HiddenStart - sbLoader.evp.start ELSE s
BootUnit(s) == IF sbLoader.system = "hidden" THEN s - sbLoader.evp.start + HiddenOffset ELSE s
Written(s) ==
    IF In(s, sbLoader.evp) THEN Encrypt(Plain("new"), sbLoader.system, BootUnit(s)) ELSE Plain("new")

\* The system has written count sectors.
Stored(first, count) ==
    sbWritten' = [sbWritten EXCEPT ![sbLoader.system] =
                    [s \in Active |-> IF s \in first..(first + count - 1) THEN "new" ELSE @[s]]]

\* Sectors are encrypted and written one by one, until one cannot be.
WriteEncryptedSectors(first, written) ==
    /\ sbDisk' = [t \in DiskSectors |->
                    IF \E s \in first..(first + written - 1) : BootLocation(s) = t
                    THEN Written(CHOOSE s \in Active \cup {ExtraSector} : BootLocation(s) = t)
                    ELSE sbDisk[t]]
    /\ Stored(first, written)
    /\ sbStray' = (sbStray \/ (sbLoader.system = "hidden" /\ BootLocation(first) \notin Hidden))

\* A request to write, by CHS or LBA address; reading changes nothing.
Int13Filter ==
    /\ sbLoader.pc = "bios"
    /\ \E first \in (IF sbDrive.extra THEN {ExtraSector} ELSE {}) \cup Active, count \in 1..2 :
         /\ first + count - 1 <= ActiveEnd /\ (first = ExtraSector => count = 1) /\ Accepts(first, count)
         /\ \E written \in 0..count :
              /\ IF written < count THEN Fault ELSE UNCHANGED sbFaults
              /\ WriteEncryptedSectors(first, written)
    /\ UNCHANGED <<sbHeader, sbPhase, sbLoader, sbQueue>> /\ Static

-----------------------------------------------------------------------------
(* Windows: the drive filter takes the arguments the loader left in memory, MountDrive. *)
QueueOf(w) ==
    IF w = "hidden"
    THEN [start |-> ActiveStart, length |-> SystemSectors, remapped |-> TRUE,
          offset |-> FollowingStart + HiddenOffset - ActiveStart, unit |-> HiddenOffset - ActiveStart]
    ELSE [start |-> ActiveStart, length |-> sbHeader.length, remapped |-> FALSE, offset |-> 0, unit |-> 0]

MountDrive ==
    /\ sbLoader.pc = "bios"
    /\ Goto("windows") /\ sbQueue' = QueueOf(sbLoader.system)
    /\ UNCHANGED <<sbHeader, sbPhase, sbFaults>> /\ KeepsDisk /\ Static

Location(queue, s) == IF In(s, queue) THEN s + queue.offset ELSE s
DataUnit(queue, s) == s + queue.unit
QueueRead(disk, w, queue, s) ==
    IF In(s, queue) THEN Decrypt(disk[Location(queue, s)], w, DataUnit(queue, s)) ELSE disk[s]

\* A write reaches location, encrypted under unit when the sector is in the area.
SystemWrites(s, location, unit) ==
    /\ sbDisk' = [sbDisk EXCEPT ![location] = IF In(s, sbQueue) THEN Encrypt(Plain("new"), sbLoader.system, unit)
                                              ELSE Plain("new")]
    /\ Stored(s, 1)
    /\ sbStray' = (sbStray \/ (sbLoader.system = "hidden" /\ location \notin Hidden))

\* A volume other than the system volume is writable unless a hidden system is running,
\* VolumeFilter.c DispatchControl.
IsWritable(s) == sbLoader.system = "hidden" => s \in Active

QueueWrite ==
    /\ sbLoader.pc = "windows"
    /\ \E s \in (IF sbDrive.extra THEN {ExtraSector} ELSE {}) \cup Active :
         IsWritable(s) /\ SystemWrites(s, Location(sbQueue, s), DataUnit(sbQueue, s))
    /\ UNCHANGED <<sbHeader, sbPhase, sbLoader, sbQueue, sbFaults>> /\ Static

\* CrashDumpEnabled and HibernationEnabled
DumpEnabled == ~(sbQueue.remapped /\ sbDrive.extra)

\* The volume of the dump must start within the area configured to be encrypted.
DumpFilterEntry(partitionStart) ==
    partitionStart \in sbQueue.start..(sbQueue.start + SystemSectors - 1)

\* DumpFilterWrite moves the whole request when a part of it is in the encrypted area.
DumpFilterWrite ==
    /\ sbLoader.pc = "windows" /\ DumpEnabled /\ DumpFilterEntry(ActiveStart)
    /\ \E s \in Active :
         SystemWrites(s, IF In(s, sbQueue) /\ sbQueue.remapped THEN s + sbQueue.offset ELSE s,
                      IF sbQueue.remapped THEN s + sbQueue.unit ELSE s)
    /\ Goto("dumping")
    /\ UNCHANGED <<sbHeader, sbPhase, sbQueue, sbFaults>> /\ Static

\* The start of the partition the hibernation driver is given.
HiberDriverEntryFilter(partitionStart) ==
    IF sbQueue.remapped THEN partitionStart + sbQueue.offset ELSE partitionStart

\* Mutant: the hibernation filter forgets the data unit of the hidden volume.
FaultyHiberDriverWriteFunctionFilter ==
    /\ sbLoader.pc = "windows" /\ DumpEnabled
    /\ \E s \in Active : SystemWrites(s, Location(sbQueue, s), s)
    /\ Goto("dumping")
    /\ UNCHANGED <<sbHeader, sbPhase, sbQueue, sbFaults>> /\ Static

\* The start of the partition was moved once for all writes; this adapts the data unit only.
HiberDriverWriteFunctionFilter ==
    /\ sbLoader.pc = "windows" /\ DumpEnabled
    /\ \E s \in Active :
         SystemWrites(s, HiberDriverEntryFilter(ActiveStart) + (s - ActiveStart),
                      IF sbQueue.remapped THEN s + sbQueue.unit ELSE s)
    /\ Goto("dumping")
    /\ UNCHANGED <<sbHeader, sbPhase, sbQueue, sbFaults>> /\ Static

\* One block of SetupThreadProc with the saving of the header, in detail in DriveFilter.
SetupBlock ==
    /\ sbLoader.pc = "windows" /\ sbLoader.system = "normal"
    /\ \E change \in {-1, 1} :
         LET s == ActiveStart + sbQueue.length + (IF change = 1 THEN 0 ELSE -1)
         IN /\ s \in Active
            /\ sbQueue' = [sbQueue EXCEPT !.length = @ + change]
            /\ sbHeader' = [sbHeader EXCEPT !.length = @ + change]
            /\ sbDisk' = [sbDisk EXCEPT ![s] = IF change = 1 THEN Encrypt(@, "normal", s) ELSE Decrypt(@, "normal", s)]
    /\ UNCHANGED <<sbPhase, sbLoader, sbWritten, sbStray, sbFaults>> /\ Static

-----------------------------------------------------------------------------
(* CopySystemPartitionToHiddenVolume, when the phase is "cloning". *)
StartCopy ==
    /\ sbLoader.pc = "copy"
    /\ \/ "hidden" \in OpenVolume(TRUE, FALSE)
          /\ sbLoader' = [sbLoader EXCEPT !.pc = "copying", !.next = 0]
       \/ Goto("copymenu")     \* Esc, memory or partition errors
    /\ UNCHANGED <<sbHeader, sbPhase, sbQueue, sbFaults>> /\ KeepsDisk /\ Static

\* Mutant: after an aborted copy the partly copied system may be booted.
FaultyLeaveBootMenu ==
    /\ sbLoader.pc = "copymenu" /\ sbLoader' = [sbLoader EXCEPT !.pc = "menu"]
    /\ UNCHANGED <<sbHeader, sbPhase, sbQueue, sbFaults>> /\ KeepsDisk /\ Static

\* After the boot menu the loop of main tries to copy again.
LeaveBootMenu ==
    /\ sbLoader.pc = "copymenu" /\ Goto("copy")
    /\ UNCHANGED <<sbHeader, sbPhase, sbQueue, sbFaults>> /\ KeepsDisk /\ Static

CopyFragment ==
    /\ sbLoader.pc = "copying" /\ sbLoader.next < SystemSectors
    /\ LET count == Min({FragmentSectors, SystemSectors - sbLoader.next})
           Source(t) == t - HiddenStart + ActiveStart
       IN \E written \in 0..count :
            /\ sbDisk' = [t \in DiskSectors |->
                            IF t - HiddenStart \in sbLoader.next..(sbLoader.next + written - 1)
                            THEN Encrypt(sbDisk[Source(t)], "hidden", t - HiddenStart + HiddenOffset)
                            ELSE sbDisk[t]]
            /\ IF written < count THEN Fault /\ Goto("copymenu")
               ELSE sbLoader' = [sbLoader EXCEPT !.next = @ + count] /\ UNCHANGED sbFaults
    /\ UNCHANGED <<sbHeader, sbPhase, sbQueue, sbWritten, sbStray>> /\ Static

AbortCopy ==
    /\ sbLoader.pc = "copying" /\ sbLoader.next < SystemSectors /\ Goto("copymenu")
    /\ UNCHANGED <<sbHeader, sbPhase, sbQueue, sbFaults>> /\ KeepsDisk /\ Static

\* UpdateBootSectorConfiguration may fail, which main does not look at.
FinishCopy ==
    /\ sbLoader.pc = "copying" /\ sbLoader.next = SystemSectors
    /\ sbLoader' = [sbLoader EXCEPT !.pc = "menu", !.phase = "wiping"]
    /\ \/ sbPhase' = "wiping" /\ UNCHANGED sbFaults
       \/ UNCHANGED sbPhase /\ Fault
    /\ sbWritten' = [sbWritten EXCEPT !["hidden"] = sbWritten["normal"]]
    /\ UNCHANGED <<sbHeader, sbQueue, sbDisk, sbStray>> /\ Static

-----------------------------------------------------------------------------
(* DecryptDrive, from the Rescue Disk: from the end of the area to its start. *)
DecryptDrive ==
    /\ sbLoader.pc = "menu" /\ sbLoader.rescue /\ sbHeader.usable
    /\ sbLoader' = [sbLoader EXCEPT !.pc = "decrypt", !.system = "normal", !.next = sbHeader.length,
                                    !.fragment = FragmentSectors, !.skip = FALSE, !.done = FALSE]
    /\ UNCHANGED <<sbHeader, sbPhase, sbQueue, sbFaults>> /\ KeepsDisk /\ Static

Fragment == Min({sbLoader.fragment, sbLoader.next})
FragmentStart == ActiveStart + sbLoader.next - Fragment
Decrypted(first, count) ==
    [s \in DiskSectors |-> IF s \in first..(first + count - 1) THEN Decrypt(sbDisk[s], "normal", s) ELSE sbDisk[s]]
Progress == sbLoader' = [sbLoader EXCEPT !.next = @ - Fragment, !.fragment = Fragment, !.done = TRUE]

DecryptFragment ==
    /\ sbLoader.pc = "decrypt" /\ sbLoader.next > 0
    /\ sbDisk' = Decrypted(FragmentStart, Fragment) /\ Progress
    /\ UNCHANGED <<sbDrive, sbHeader, sbPhase, sbQueue, sbWritten, sbDamaged, sbStray, sbFaults>>

\* A write may fail after some sectors. The user skips bad sectors, or stops here; when
\* bad sectors are skipped already the fragment counts as done.
FailFragment ==
    /\ sbLoader.pc = "decrypt" /\ sbLoader.next > 0 /\ Fault
    /\ \E written \in 0..(Fragment - 1) : sbDisk' = Decrypted(FragmentStart, written)
    /\ sbDamaged' = sbDamaged \cup (FragmentStart..(FragmentStart + Fragment - 1))
    /\ IF sbLoader.skip THEN Progress
       ELSE \/ sbLoader' = [sbLoader EXCEPT !.skip = TRUE, !.fragment = 1]
            \/ Goto("decrypted")
    /\ UNCHANGED <<sbDrive, sbHeader, sbPhase, sbQueue, sbWritten, sbStray>>

DeferDecryption ==
    /\ sbLoader.pc = "decrypt" /\ Goto("decrypted")
    /\ UNCHANGED <<sbHeader, sbPhase, sbQueue, sbFaults>> /\ KeepsDisk /\ Static

\* The header is read and written until this succeeds.
UpdateHeader ==
    /\ sbLoader.pc = "decrypted"
    /\ Goto("menu")
    /\ sbHeader' = IF sbLoader.done THEN [sbHeader EXCEPT !.length = sbLoader.next] ELSE sbHeader
    /\ UNCHANGED <<sbPhase, sbQueue, sbFaults>> /\ KeepsDisk /\ Static

(* RepairMenu: the header of the Rescue Disk, made before encryption, says that the
   whole area is encrypted. It is written only if the one of the drive cannot be used. *)
RestoreVolumeHeader ==
    /\ sbLoader.pc = "menu" /\ sbLoader.rescue /\ ~sbHeader.usable
    /\ sbHeader' = [usable |-> TRUE, length |-> SystemSectors]
    /\ UNCHANGED <<sbPhase, sbLoader, sbQueue, sbFaults>> /\ KeepsDisk /\ Static

\* Other software damages the header of a drive that is encrypted completely.
DamageHeader ==
    /\ sbLoader.pc = "off" /\ sbHeader = [usable |-> TRUE, length |-> SystemSectors] /\ Fault
    /\ sbHeader' = [sbHeader EXCEPT !.usable = FALSE]
    /\ UNCHANGED <<sbPhase, sbLoader, sbQueue>> /\ KeepsDisk /\ Static

Next ==
    \/ PowerOn \/ PowerOff \/ BootEncryptedDrive \/ Int13Filter \/ MountDrive
    \/ QueueWrite \/ DumpFilterWrite \/ HiberDriverWriteFunctionFilter \/ SetupBlock
    \/ StartCopy \/ LeaveBootMenu \/ CopyFragment \/ AbortCopy \/ FinishCopy
    \/ DecryptDrive \/ DecryptFragment \/ FailFragment \/ DeferDecryption \/ UpdateHeader
    \/ RestoreVolumeHeader \/ DamageHeader

-----------------------------------------------------------------------------
TypeOK ==
    /\ sbDrive \in [hidden : BOOLEAN, extra : BOOLEAN]
    /\ sbDisk \in [DiskSectors -> [data : Values \cup {"garbage"}, key : Systems \cup {"none"}, unit : Nat]]
    /\ sbHeader \in [usable : BOOLEAN, length : 0..SystemSectors]
    /\ sbPhase \in {"none", "cloning", "wiping"}
    /\ sbLoader.pc \in {"off", "menu", "bios", "windows", "dumping", "copy", "copymenu", "copying",
                        "decrypt", "decrypted"}
    /\ sbLoader.next \in 0..SystemSectors
    /\ sbWritten \in [Systems -> [Active -> Values]] /\ sbDamaged \subseteq Active

\* The system that runs, or would run when booted: in the middle of a decryption, with
\* the area its loader has reached.
AreaLength == IF sbLoader.pc \in {"decrypt", "decrypted"} THEN sbLoader.next ELSE sbHeader.length
Bootable(w) ==
    IF w = "hidden" THEN sbDrive.hidden /\ (sbPhase # "cloning" \/ sbLoader.system = "hidden")
    ELSE sbHeader.usable

\* Whatever path a system has written a sector of its partition by - BIOS, driver, crash
\* dump, hibernation file - or moved it by, both the boot loader and the driver
\* read it back decrypted: all agree on place, key and data unit.
PathsAgree ==
    \A w \in Systems : Bootable(w) =>
        \A s \in Active \ sbDamaged :
            LET evp == IF w = "hidden" THEN [start |-> ActiveStart, length |-> SystemSectors]
                       ELSE [start |-> ActiveStart, length |-> AreaLength]
                queue == IF w = "hidden" THEN QueueOf(w) ELSE [QueueOf(w) EXCEPT !.length = AreaLength]
            IN /\ BootRead(sbDisk, w, evp, s) = Plain(sbWritten[w][s])
               /\ QueueRead(sbDisk, w, queue, s) = Plain(sbWritten[w][s])

\* While a hidden system is running nothing outside its volume is written.
HiddenSystemConfined == ~sbStray

=============================================================================
