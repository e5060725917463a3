SPECIFICATION Spec
CONSTANTS
  Units = 5
  ChunkUnits = 2
  UpdateInterval = 3
  WipePasses = 1
  PartitionFaults = 2
  DriveLetters = {"c", "d"}
  NoDrive = "none"
  Users = {"u"}
  System = "system"
  OuterPassword = "p"
  HiddenPassword = "q"
  EmptyPassword = "np"
  CacheSize = 2
  MaxMounts = 3
  MaxRequests = 1
  Passwords = {"p", "q", "r"}
  WipePassCount = 2
  HeaderFaults = 1
  SectorSize = 512
  DataSectors = 72
  BufferSectors = 16
  SystemSectors = 3
  HiddenOffset = 3
  FragmentSectors = 2
  BootFaults = 1
  SystemDrive = "s"
  Restored = "r"
  Merged = "m"
  Volume = "v"
  NoExtension = "none"
  MaxHolders = 1
  DeviceFaults = 1
  MemoryCells = 6
  LoaderStart = 2
  LoaderEnd = 4
  MaxEntries = 3
  MapSize = 4
  ContainerPath = "f"
  PartitionPath = "p"
  HiddenSystemPath = "h"
INVARIANTS TypeOK  MountedServed  PathsAgree TransformAsPlanned UnitsDistinct SecretsSound
CHECK_DEADLOCK FALSE
