-------------------------------- MODULE MCVolumes --------------------------------
(* The components that keep the contents of volumes and of the system drive, and *)
(* the wizard that creates volumes, each in a small instance.  A behaviour of this module is a *)
(* behaviour of one of them, the one in component; they do not interact but     *)
(* through what each of their modules states of its surroundings, so they share *)
(* the variables s1, s2, ...                                                    *)
EXTENDS Integers, Sequences

CONSTANTS
  \* InPlaceEncryption
  Units, ChunkUnits, UpdateInterval, WipePasses, PartitionFaults,
  \* VolumeMounting
  DriveLetters, NoDrive, Users, System, OuterPassword, HiddenPassword, EmptyPassword, CacheSize,
  MaxMounts, MaxRequests,
  \* VolumeHeaders
  Passwords, WipePassCount, HeaderFaults,
  \* VolumeFormatting
  SectorSize, DataSectors, BufferSectors,
  \* SystemBoot
  SystemSectors, HiddenOffset, FragmentSectors, BootFaults,
  \* DriveDevices
  SystemDrive, Restored, Merged, Volume, NoExtension, MaxHolders, DeviceFaults,
  \* BiosMemoryMap
  MemoryCells, LoaderStart, LoaderEnd, MaxEntries, MapSize,
  \* VolumeWizard
  ContainerPath, PartitionPath, HiddenSystemPath

VARIABLES component, s1, s2, s3, s4, s5, s6, s7, s8, s9, s10, s11, s12

InPlace == INSTANCE InPlaceEncryption_proofs WITH
  MaxFaults <- PartitionFaults,
  place <- s1, backupHeader <- s2, primaryHeader <- s3, pending <- s4, enc <- s5,
  faults <- s6
Mounting == INSTANCE VolumeMounting_proofs WITH
  Drives <- DriveLetters, Outer <- OuterPassword, Hidden <- HiddenPassword,
  NoPassword <- EmptyPassword,
  vmDrive <- s1, vmLastId <- s2, vmRoot <- s3, vmArriving <- s4, vmAccepted <- s5,
  vmCache <- s6
Headers == INSTANCE VolumeHeaders WITH
  MaxFaults <- HeaderFaults,
  vhHost <- s1, vhSlot <- s2, vhFile <- s3, vhOp <- s4, vhFaults <- s5
Formatting == INSTANCE VolumeFormatting WITH
  vfParams <- s1, vfOp <- s2, vfDisk <- s3, vfHostKept <- s4, vfThread <- s5
Boot == INSTANCE SystemBoot_proofs WITH
  MaxFaults <- BootFaults,
  sbDrive <- s1, sbDisk <- s2, sbHeader <- s3, sbPhase <- s4, sbLoader <- s5,
  sbQueue <- s6, sbWritten <- s7, sbDamaged <- s8, sbStray <- s9, sbFaults <- s10
Cipher == INSTANCE DataUnits WITH
  UnitCells <- 4, HeaderCells <- 2, Algorithms <- {1, 4, 9, 12}, Units <- {2, 3, 4},
  HiddenOffset <- 2, LowParts <- 4,
  duInfo <- s1, duHardware <- s2, duBoot <- s3, duDisk <- s4, duContent <- s5,
  duHeader <- s6, duRead <- s7
Pool == INSTANCE RandomPool WITH
  PoolSize <- 4, MixInterval <- 2, DigestSizes <- {1, 2}, MaxInputs <- 6, MaxStarts <- 2,
  rpStarted <- s1, rpPool <- s2, rpIndex <- s3, rpRead <- s4, rpHash <- s5, rpLock <- s6,
  rpTerminate <- s7, rpPoller <- s8, rpSlow <- s9, rpWork <- s10, rpOut <- s11,
  rpCount <- s12
Keys == INSTANCE KeyFiles WITH
  Files <- {"f"}, Names <- {"x"}, Room <- 2, MaxEntries <- 2, MaxSwaps <- 2,
  kfReady <- s1, kfToken <- s2, kfSession <- s3, kfWork <- s4, kfFound <- s5,
  kfEdited <- s6, kfCall <- s7, kfPassword <- s8, kfSwaps <- s9
Devices == INSTANCE DriveDevices_proofs WITH
  System <- SystemDrive, None <- NoExtension, MaxFaults <- DeviceFaults,
  ddArgs <- s1, ddPassword <- s2, ddDevice <- s3, ddPnp <- s4, ddLock <- s5, ddBoot <- s6,
  ddMutex <- s7, ddFaults <- s8
MemoryMap == INSTANCE BiosMemoryMap WITH
  Cells <- MemoryCells,
  bmBios <- s1, bmMap <- s2, bmInserted <- s3, bmPhase <- s4, bmNext <- s5, bmSeen <- s6,
  bmComplete <- s7, bmIssued <- s8, bmVista <- s9
Wizard == INSTANCE VolumeWizard WITH
  File <- ContainerPath, Partition <- PartitionPath, HiddenPartition <- HiddenSystemPath,
  vwPage <- s1, vwMode <- s2, vwFlags <- s3, vwTarget <- s4, vwHost <- s5,
  vwThread <- s6, vwVolumes <- s7

(* What the theorems need of the sizes and the names, the bounds on faults and drives aside: *)
(* one write of headers in all fails or is cut short, GetFatParams lays out a file system   *)
(* that fits its volume, memory is counted in whole cells, and a path is neither that of     *)
(* another volume nor one of the marks for no volume.                                       *)
OneHeaderFault == HeaderFaults \in {0, 1}
FileSystemFits ==
  DataSectors \in Nat /\ BufferSectors \in Nat /\ Formatting!FsSectors \in 0..DataSectors
MemoryCounted == MemoryCells \in Nat /\ LoaderStart \in Nat /\ LoaderEnd \in Nat
PathsDiffer ==
  /\ ContainerPath \notin {"none", "failed"} /\ PartitionPath \notin {"none", "failed"}
  /\ HiddenSystemPath \notin {"none", "failed"} /\ ContainerPath \notin Wizard!Devices
  /\ PartitionPath # HiddenSystemPath
ASSUME VolumesAssumed ==
  /\ InPlace!SizesAssumed /\ Mounting!SystemApart /\ Devices!DevicesDiffer
  /\ OneHeaderFault /\ FileSystemFits
  /\ Boot!SectorsAssumed /\ MemoryCounted /\ PathsDiffer

Init ==
  \/ component = "inPlace" /\ InPlace!Init
     /\ s7 = 0 /\ s8 = 0 /\ s9 = 0 /\ s10 = 0 /\ s11 = 0 /\ s12 = 0
  \/ component = "mounting" /\ Mounting!Init
     /\ s7 = 0 /\ s8 = 0 /\ s9 = 0 /\ s10 = 0 /\ s11 = 0 /\ s12 = 0
  \/ component = "headers" /\ Headers!Init
     /\ s6 = 0 /\ s7 = 0 /\ s8 = 0 /\ s9 = 0 /\ s10 = 0 /\ s11 = 0 /\ s12 = 0
  \/ component = "formatting" /\ Formatting!Init
     /\ s6 = 0 /\ s7 = 0 /\ s8 = 0 /\ s9 = 0 /\ s10 = 0 /\ s11 = 0 /\ s12 = 0
  \/ component = "boot" /\ Boot!Init /\ s11 = 0 /\ s12 = 0
  \/ component = "cipher" /\ Cipher!Init
     /\ s8 = 0 /\ s9 = 0 /\ s10 = 0 /\ s11 = 0 /\ s12 = 0
  \/ component = "pool" /\ Pool!Init
  \/ component = "keyFiles" /\ Keys!Init
     /\ s10 = 0 /\ s11 = 0 /\ s12 = 0
  \/ component = "devices" /\ Devices!Init
     /\ s9 = 0 /\ s10 = 0 /\ s11 = 0 /\ s12 = 0
  \/ component = "memoryMap" /\ MemoryMap!Init
     /\ s10 = 0 /\ s11 = 0 /\ s12 = 0
  \/ component = "wizard" /\ Wizard!Init
     /\ s8 = 0 /\ s9 = 0 /\ s10 = 0 /\ s11 = 0 /\ s12 = 0

Next ==
  \/ component = "inPlace" /\ InPlace!Next /\ UNCHANGED <<component, s7, s8, s9, s10, s11, s12>>
  \/ component = "mounting" /\ Mounting!Next /\ UNCHANGED <<component, s7, s8, s9, s10, s11, s12>>
  \/ component = "headers" /\ Headers!Next /\ UNCHANGED <<component, s6, s7, s8, s9, s10, s11, s12>>
  \/ component = "formatting" /\ Formatting!Next /\ UNCHANGED <<component, s6, s7, s8, s9, s10, s11, s12>>
  \/ component = "boot" /\ Boot!Next /\ UNCHANGED <<component, s11, s12>>
  \/ component = "cipher" /\ Cipher!Next /\ UNCHANGED <<component, s8, s9, s10, s11, s12>>
  \/ component = "pool" /\ Pool!Next /\ UNCHANGED <<component>>
  \/ component = "keyFiles" /\ Keys!Next /\ UNCHANGED <<component, s10, s11, s12>>
  \/ component = "devices" /\ Devices!Next /\ UNCHANGED <<component, s9, s10, s11, s12>>
  \/ component = "memoryMap" /\ MemoryMap!Next /\ UNCHANGED <<component, s10, s11, s12>>
  \/ component = "wizard" /\ Wizard!Next /\ UNCHANGED <<component, s8, s9, s10, s11, s12>>

Spec == Init /\ [][Next]_<<component, s1, s2, s3, s4, s5, s6, s7, s8, s9, s10, s11, s12>>

TypeOK ==
  /\ component = "inPlace" => InPlace!TypeOK
  /\ component = "mounting" => Mounting!TypeOK
  /\ component = "headers" => Headers!TypeOK
  /\ component = "formatting" => Formatting!TypeOK
  /\ component = "boot" => Boot!TypeOK
  /\ component = "cipher" => Cipher!TypeOK
  /\ component = "pool" => Pool!TypeOK
  /\ component = "keyFiles" => Keys!TypeOK
  /\ component = "devices" => Devices!TypeOK
  /\ component = "memoryMap" => MemoryMap!TypeOK
  /\ component = "wizard" => Wizard!TypeOK

(* In-place encryption: however often it fails, crashes and is resumed, every unit of the
   partition can be read, as plaintext or with the recorded keys. *)
NothingLost ==
  component = "inPlace" => InPlace!NothingLost

(* Mounting: a volume is never released under a request; volumes within volumes are
   dismounted first; hidden volume protection stays on once asked for. Of the drives that
   start at once the one with the system is mounted, and no device goes under a request. *)
MountedServed ==
  /\ component = "mounting" =>
        Mounting!RequestsServed /\ Mounting!NestedFirst /\ Mounting!ProtectionKept
  /\ component = "devices" => Devices!RequestsHandled /\ Devices!SystemDriveFound

(* A volume can be opened: some header that the user has a password for always opens it,
   through a failed or interrupted change of its headers, and one reported as created has
   its headers and file system where mounting looks for them, under the right keys. *)
VolumesOpen ==
  /\ component = "headers" => Headers!HeaderAvailable
  /\ component = "formatting" => Formatting!VolumeUsable

(* Boot loader, drive filter and hibernation filter read every sector of the system drive
   with the same meaning, and the system keeps off the memory of the loader it reads by. *)
PathsAgree ==
  /\ component = "boot" => Boot!PathsAgree
  /\ component = "memoryMap" => MemoryMap!LoaderMemoryKept

(* The wizard transforms the target chosen on its pages, as chosen there, on whatever way
   through the pages the user got to the last one. *)
TransformAsPlanned ==
  component = "wizard" => Wizard!TransformAsPlanned

(* Encryption of data units: what one variant of the code encrypts another reads back, no
   two blocks are encrypted alike, and the key material covers its algorithms. *)
UnitsDistinct ==
  component = "cipher" => Cipher!UnitsReadBack /\ Cipher!NoBlockRepeats /\ Cipher!KeysFit

(* Secrets: an output of the random pool depends on all that was added and the pool is not
   released under its polling thread; a token call is served by the token it names, and a
   password is mixed with all of its key files or not returned. *)
SecretsSound ==
  /\ component = "pool" => Pool!OutputDependsOnAll /\ Pool!PoolAlive
  /\ component = "keyFiles" => Keys!CallsServed /\ Keys!NewPasswordWhole
===================================================================================
