-------------------------- MODULE SystemBoot_proofs --------------------------
(* A theorem about the paths to the system drive, for any sizes of the partition, of the
   hidden system's volume and of the loader's reads, and any number of failures: boot loader,
   drive filter and hibernation filter read every sector with the same meaning. A system runs
   with the map of its own drive; what is stored agrees with it sector by sector, while the
   system is copied or decrypted up to where the loader has come, and until then the header
   tells how far. *)
EXTENDS SystemBoot, TLAPS

SectorsAssumed ==
    /\ SystemSectors \in Nat /\ SystemSectors > 0
    /\ HiddenOffset \in Nat /\ HiddenOffset > 0
    /\ FragmentSectors \in Nat /\ FragmentSectors > 0

Running == {"bios", "windows", "dumping"}
Copying == {"copy", "copying", "copymenu"}
Decrypting == {"decrypt", "decrypted"}

Shapes ==
    /\ sbDrive \in [hidden : BOOLEAN, extra : BOOLEAN]
    /\ sbHeader \in [usable : BOOLEAN, length : 0..SystemSectors]
    /\ sbPhase \in {"none", "cloning", "wiping"}
    /\ DOMAIN sbLoader = DOMAIN NoLoader
    /\ sbLoader.pc \in {"off", "menu"} \cup Running \cup Copying \cup Decrypting
    /\ sbLoader.next \in 0..SystemSectors /\ sbLoader.fragment \in Nat /\ sbLoader.fragment > 0
    /\ DOMAIN sbDisk = DiskSectors
    /\ DOMAIN sbWritten = Systems /\ \A w \in Systems : DOMAIN sbWritten[w] = Active

(* The loader and the driver know the encrypted area of the system they run, and the phase of
   the creation of a hidden system decides what else the loader does. *)
LoaderInv ==
    /\ sbLoader.pc = "off" => sbLoader = NoLoader
    /\ sbLoader.system = "hidden" => sbLoader.pc \in Running
    /\ sbLoader.system = "normal" => sbHeader.usable
    /\ sbLoader.pc \in Running =>
          sbLoader.system \in Systems /\ (sbLoader.system = "hidden" => sbDrive.hidden)
    /\ sbLoader.pc = "bios" => sbLoader.evp = EncryptedVirtualPartition(sbLoader.system)
    /\ sbLoader.pc \in {"windows", "dumping"} => sbQueue = QueueOf(sbLoader.system)
    /\ sbLoader.pc \in Decrypting =>
          /\ sbLoader.system = "normal"
          /\ ~sbLoader.done => sbLoader.next = sbHeader.length
    /\ sbLoader.pc \in Copying => sbPhase = "cloning" /\ sbLoader.system = "none"
    /\ sbLoader.rescue => sbPhase = "none"

\* While a hidden system is created there is no header of the drive.
PhaseInv ==
    /\ sbPhase = "cloning" => sbDrive.hidden
    /\ sbPhase # "none" => ~sbHeader.usable /\ sbHeader.length = 0 /\ sbDamaged = {}
    /\ sbPhase = "none" /\ ~sbHeader.usable => sbHeader.length = SystemSectors

\* A sector of the partition of the normal system, encrypted as far as the area reaches.
NormalSector(data, s, length) ==
    IF s < ActiveStart + length THEN [data |-> data, key |-> "normal", unit |-> s] ELSE Plain(data)
\* A sector of the hidden volume.
HiddenSector(data, i) == [data |-> data, key |-> "hidden", unit |-> i + HiddenOffset]
Relative == 0..(SystemSectors - 1)

NormalInv ==
    \A s \in Active \ sbDamaged : sbDisk[s] = NormalSector(sbWritten["normal"][s], s, AreaLength)

HiddenKept == sbDrive.hidden /\ (sbPhase # "cloning" \/ sbLoader.pc \in {"menu"} \cup Running)
HiddenInv ==
    HiddenKept => \A i \in Relative :
        sbDisk[HiddenStart + i] = HiddenSector(sbWritten["hidden"][ActiveStart + i], i)

\* The sectors that have been copied.
CopyInv ==
    sbLoader.pc = "copying" => \A i \in 0..(sbLoader.next - 1) :
        sbDisk[HiddenStart + i] = HiddenSector(sbWritten["normal"][ActiveStart + i], i)

BInv == Shapes /\ LoaderInv /\ PhaseInv /\ NormalInv /\ HiddenInv /\ CopyInv

LEMMA Fields ==
    /\ {"pc", "rescue", "system", "evp", "phase", "next", "fragment", "skip", "done"}
          \subseteq DOMAIN NoLoader
    /\ NoLoader.pc = "off" /\ NoLoader.rescue = FALSE /\ NoLoader.system = "none"
    /\ NoLoader.next = 0 /\ NoLoader.fragment = FragmentSectors
  BY DEF NoLoader

\* Where the sectors of the partition and of the hidden volume lie.
LEMMA Places ==
    ASSUME SectorsAssumed
    PROVE  /\ ActiveStart = 2 /\ ActiveEnd \in Nat /\ HiddenStart \in Nat
           /\ FollowingStart = ActiveStart + SystemSectors
           /\ HiddenStart = ActiveStart + SystemSectors + HiddenOffset
           /\ Active \subseteq DiskSectors /\ Active \subseteq Nat
           /\ \A s \in Active : s - ActiveStart \in Relative
           /\ \A i \in Relative : /\ i \in Nat /\ ActiveStart + i \in Active
                                  /\ HiddenStart + i \in DiskSectors /\ HiddenStart + i \notin Active
           /\ ExtraSector \notin Active /\ ExtraSector \in DiskSectors
           /\ \A i \in Relative : HiddenStart + i # ExtraSector
  BY DEF SectorsAssumed, ActiveStart, ActiveEnd, Active, FollowingStart, HiddenStart, DiskSectors,
         Relative, ExtraSector

LEMMA EncryptPlain ==
    \A data, key, unit :
        /\ Encrypt(Plain(data), key, unit) = [data |-> data, key |-> key, unit |-> unit]
        /\ Decrypt([data |-> data, key |-> key, unit |-> unit], key, unit) = Plain(data)
  BY DEF Encrypt, Decrypt, Plain

LEMMA BootInit == ASSUME SectorsAssumed, Init PROVE BInv
<1> USE Places, Fields DEF SectorsAssumed
<1>1. sbLoader = NoLoader /\ sbDamaged = {} /\ sbDrive \in [hidden : BOOLEAN, extra : BOOLEAN]
      /\ \A w \in Systems : sbWritten[w] = [s \in Active |-> "old"]
      /\ DOMAIN sbWritten = Systems
  BY DEF Init
<1>2. /\ sbHeader \in [usable : BOOLEAN, length : 0..SystemSectors]
      /\ sbPhase \in {"none", "cloning"} /\ (sbPhase = "cloning" => sbDrive.hidden)
      /\ sbPhase = "cloning" => ~sbHeader.usable /\ sbHeader.length = 0
      /\ sbPhase = "none" => sbHeader.usable
  <2>1. SystemSectors \in Nat
    OBVIOUS
  <2>2. \/ \E n \in 0..SystemSectors : sbHeader = [usable |-> TRUE, length |-> n]
        \/ sbHeader = [usable |-> FALSE, length |-> 0]
    BY DEF Init
  <2>3. /\ sbPhase \in IF sbDrive.hidden THEN {"none", "cloning"} ELSE {"none"}
        /\ (sbPhase = "cloning") <=> ~sbHeader.usable
    BY DEF Init
  <2>4. CASE \E n \in 0..SystemSectors : sbHeader = [usable |-> TRUE, length |-> n]
    <3>1. PICK n \in 0..SystemSectors : sbHeader = [usable |-> TRUE, length |-> n]
      BY <2>4
    <3>2. sbHeader.usable /\ sbPhase = "none"
      BY <2>3, <3>1
    <3> QED
      BY <3>1, <3>2
  <2>5. CASE sbHeader = [usable |-> FALSE, length |-> 0]
    <3>1. sbPhase = "cloning" /\ ~sbHeader.usable /\ sbHeader.length = 0 /\ sbDrive.hidden
      BY <2>3, <2>5
    <3> QED
      BY <2>1, <2>5, <3>1
  <2> QED
    BY <2>2, <2>4, <2>5
<1>3. Shapes
  BY <1>1, <1>2 DEF Shapes, Init
<1>4. LoaderInv
  BY <1>1 DEF LoaderInv, Running, Copying, Decrypting
<1>5. PhaseInv
  BY <1>1, <1>2 DEF PhaseInv
<1>6. AreaLength = sbHeader.length
  BY <1>1 DEF AreaLength
<1>7. NormalInv
  <2> SUFFICES ASSUME NEW s \in Active
               PROVE  sbDisk[s] = NormalSector("old", s, sbHeader.length)
    BY <1>1, <1>6 DEF NormalInv, Systems
  <2>1. sbDisk[s] = IF s \in ActiveStart..(ActiveStart + sbHeader.length - 1)
                    THEN Encrypt(Plain("old"), "normal", s)
                    ELSE IF s \in Hidden /\ sbDrive.hidden /\ sbPhase = "none"
                    THEN Encrypt(Plain("old"), "hidden", s - FollowingStart) ELSE Plain("old")
    BY DEF Init
  <2>2. s \notin Hidden /\ s \in Nat /\ s >= ActiveStart /\ sbHeader.length \in Nat
    BY <1>2 DEF Hidden, Active, ActiveEnd, ActiveStart
  <2> QED
    BY <2>1, <2>2, EncryptPlain DEF NormalSector
<1>8. HiddenInv
  <2> SUFFICES ASSUME HiddenKept, NEW i \in Relative
               PROVE  sbDisk[HiddenStart + i] = HiddenSector("old", i)
    BY <1>1 DEF HiddenInv, Systems
  <2>1. sbDrive.hidden /\ sbPhase = "none"
    BY <1>1, <1>2 DEF HiddenKept, Running
  <2>2. /\ HiddenStart + i \notin ActiveStart..(ActiveStart + sbHeader.length - 1)
        /\ HiddenStart + i \in Hidden /\ HiddenStart + i - FollowingStart = i + HiddenOffset
    BY <1>2 DEF Hidden, Active, ActiveEnd, Relative
  <2>3. sbDisk[HiddenStart + i] = Encrypt(Plain("old"), "hidden", HiddenStart + i - FollowingStart)
    BY <2>1, <2>2 DEF Init
  <2> QED
    BY <2>2, <2>3, EncryptPlain DEF HiddenSector
<1>9. CopyInv
  BY <1>1 DEF CopyInv
<1> QED
  BY <1>3, <1>4, <1>5, <1>7, <1>8, <1>9 DEF BInv

\* Nothing is written, and the encrypted area stays.
LEMMA ContentsKept ==
    ASSUME BInv, UNCHANGED <<sbDrive, sbDisk, sbWritten, sbDamaged>>, AreaLength' = AreaLength,
           HiddenKept' => HiddenKept, sbLoader'.pc = "copying" => sbLoader'.next = 0
    PROVE  NormalInv' /\ HiddenInv' /\ CopyInv'
  BY DEF BInv, NormalInv, HiddenInv, CopyInv

\* A system that runs writes some sectors of its partition.
LEMMA NormalWrites ==
    ASSUME SectorsAssumed, BInv, sbLoader.system = "normal", sbLoader.pc \in Running,
           sbLoader'.pc \in Running, UNCHANGED <<sbDrive, sbHeader, sbPhase, sbDamaged>>,
           \A s \in Active :
              \/ /\ sbDisk'[s] = NormalSector("new", s, sbHeader.length)
                 /\ sbWritten'["normal"][s] = "new"
              \/ /\ sbDisk'[s] = sbDisk[s]
                 /\ sbWritten'["normal"][s] = sbWritten["normal"][s],
           \A i \in Relative : sbDisk'[HiddenStart + i] = sbDisk[HiddenStart + i],
           sbWritten'["hidden"] = sbWritten["hidden"]
    PROVE  NormalInv' /\ HiddenInv' /\ CopyInv'
<1>1. AreaLength' = AreaLength /\ AreaLength = sbHeader.length
  BY DEF AreaLength, Running
<1>2. NormalInv'
  BY <1>1 DEF BInv, NormalInv, NormalSector
<1>3. HiddenInv'
  BY DEF BInv, HiddenInv, HiddenKept
<1>4. CopyInv'
  BY DEF CopyInv, Running
<1> QED
  BY <1>2, <1>3, <1>4

LEMMA HiddenWrites ==
    ASSUME SectorsAssumed, BInv, sbLoader.system = "hidden", sbLoader.pc \in Running,
           sbLoader'.pc \in Running, UNCHANGED <<sbDrive, sbHeader, sbPhase, sbDamaged>>,
           \A s \in Active : sbDisk'[s] = sbDisk[s],
           \A i \in Relative :
              \/ /\ sbDisk'[HiddenStart + i] = HiddenSector("new", i)
                 /\ sbWritten'["hidden"][ActiveStart + i] = "new"
              \/ /\ sbDisk'[HiddenStart + i] = sbDisk[HiddenStart + i]
                 /\ sbWritten'["hidden"][ActiveStart + i] = sbWritten["hidden"][ActiveStart + i],
           sbWritten'["normal"] = sbWritten["normal"]
    PROVE  NormalInv' /\ HiddenInv' /\ CopyInv'
<1>1. AreaLength' = AreaLength
  BY DEF AreaLength, Running
<1>2. NormalInv'
  BY <1>1 DEF BInv, NormalInv, NormalSector
<1>3. HiddenInv'
  BY Places DEF BInv, HiddenInv, HiddenKept
<1>4. CopyInv'
  BY DEF CopyInv, Running
<1> QED
  BY <1>2, <1>3, <1>4

\* Power, the choice of a system, and the steps of the copy and the decryption between transfers.
LEMMA ControlStep ==
    ASSUME SectorsAssumed, BInv,
           \/ PowerOn \/ PowerOff \/ BootEncryptedDrive \/ MountDrive \/ StartCopy \/ LeaveBootMenu
           \/ AbortCopy \/ DecryptDrive \/ DeferDecryption \/ UpdateHeader
           \/ RestoreVolumeHeader \/ DamageHeader
    PROVE  BInv'
<1> USE Places, Fields
<1>0. Shapes /\ LoaderInv /\ PhaseInv
  BY DEF BInv
<1>d. SystemSectors \in Nat /\ FragmentSectors \in Nat /\ FragmentSectors > 0
  BY DEF SectorsAssumed
<1>1. CASE PowerOn
  <2>1. PICK rescue \in BOOLEAN :
           /\ sbLoader.pc = "off"
           /\ rescue => sbPhase = "none"
           /\ sbLoader' = [NoLoader EXCEPT
                 !.pc = IF ~rescue /\ sbPhase = "cloning" THEN "copy" ELSE "menu",
                 !.rescue = rescue, !.phase = IF rescue THEN "none" ELSE sbPhase]
           /\ UNCHANGED <<sbDrive, sbDamaged, sbHeader, sbPhase, sbQueue, sbDisk, sbWritten>>
    BY <1>1 DEF PowerOn, KeepsDisk, Static
  <2>2. /\ DOMAIN sbLoader' = DOMAIN NoLoader /\ sbLoader'.rescue = rescue
        /\ sbLoader'.pc = (IF ~rescue /\ sbPhase = "cloning" THEN "copy" ELSE "menu")
        /\ sbLoader'.system = "none" /\ sbLoader'.next = 0 /\ sbLoader'.fragment = FragmentSectors
    BY <2>1
  <2>3. Shapes'
    BY <1>0, <1>d, <2>1, <2>2 DEF Shapes, Copying
  <2>4. LoaderInv' /\ PhaseInv'
    BY <1>0, <2>1, <2>2 DEF LoaderInv, PhaseInv, Running, Copying, Decrypting, Systems
  <2>5. AreaLength' = AreaLength /\ (HiddenKept' => HiddenKept)
    BY <2>1, <2>2 DEF AreaLength, HiddenKept, Running
  <2> QED
    BY <2>1, <2>2, <2>3, <2>4, <2>5, ContentsKept DEF BInv
<1>2. CASE PowerOff
  <2>1. /\ sbLoader.pc \notin Decrypting /\ sbLoader' = NoLoader
        /\ UNCHANGED <<sbDrive, sbDamaged, sbHeader, sbPhase, sbDisk, sbWritten>>
    BY <1>2 DEF PowerOff, KeepsDisk, Static, Decrypting
  <2>2. Shapes'
    BY <1>0, <1>d, <2>1 DEF Shapes
  <2>3. LoaderInv' /\ PhaseInv'
    BY <1>0, <2>1 DEF LoaderInv, PhaseInv, Running, Copying, Decrypting, Systems
  <2>4. AreaLength' = AreaLength /\ (HiddenKept' => HiddenKept)
    BY <2>1 DEF AreaLength, HiddenKept, Running, Decrypting
  <2> QED
    BY <2>1, <2>2, <2>3, <2>4, ContentsKept DEF BInv
<1>3. CASE BootEncryptedDrive
  <2>1. PICK w \in OpenVolume(sbLoader.phase # "none", FALSE) :
           /\ sbLoader.pc = "menu"
           /\ sbLoader' = [sbLoader EXCEPT !.pc = "bios", !.system = w,
                                           !.evp = EncryptedVirtualPartition(w)]
           /\ UNCHANGED <<sbDrive, sbDamaged, sbHeader, sbPhase, sbQueue, sbDisk, sbWritten>>
    BY <1>3 DEF BootEncryptedDrive, KeepsDisk, Static
  <2>2. w \in Systems /\ (w = "normal" => sbHeader.usable) /\ (w = "hidden" => sbDrive.hidden)
    BY DEF OpenVolume, Systems
  <2> HIDE DEF EncryptedVirtualPartition
  <2>3. /\ DOMAIN sbLoader' = DOMAIN NoLoader /\ sbLoader'.pc = "bios" /\ sbLoader'.system = w
        /\ sbLoader'.evp = EncryptedVirtualPartition(w)
        /\ sbLoader'.rescue = sbLoader.rescue /\ sbLoader'.next = sbLoader.next
        /\ sbLoader'.fragment = sbLoader.fragment
    BY <1>0, <2>1 DEF Shapes
  <2>4. Shapes'
    BY <1>0, <2>1, <2>3 DEF Shapes, Running
  <2>5. EncryptedVirtualPartition(w)' = EncryptedVirtualPartition(w)
    BY <2>1 DEF EncryptedVirtualPartition
  <2>6. LoaderInv' /\ PhaseInv'
    BY <1>0, <2>1, <2>2, <2>3, <2>5 DEF LoaderInv, PhaseInv, Running, Copying, Decrypting
  <2>7. AreaLength' = AreaLength /\ (HiddenKept' => HiddenKept)
    BY <2>1, <2>3 DEF AreaLength, HiddenKept, Running
  <2> QED
    BY <2>1, <2>3, <2>4, <2>6, <2>7, ContentsKept DEF BInv
<1>4. CASE MountDrive
  <2>1. /\ sbLoader.pc = "bios" /\ sbLoader' = [sbLoader EXCEPT !.pc = "windows"]
        /\ sbQueue' = QueueOf(sbLoader.system)
        /\ UNCHANGED <<sbDrive, sbDamaged, sbHeader, sbPhase, sbDisk, sbWritten>>
    BY <1>4 DEF MountDrive, KeepsDisk, Static, Goto
  <2>2. /\ DOMAIN sbLoader' = DOMAIN NoLoader /\ sbLoader'.pc = "windows"
        /\ sbLoader'.system = sbLoader.system
        /\ sbLoader'.rescue = sbLoader.rescue /\ sbLoader'.next = sbLoader.next
        /\ sbLoader'.fragment = sbLoader.fragment
    BY <1>0, <2>1 DEF Shapes
  <2>3. Shapes'
    BY <1>0, <2>1, <2>2 DEF Shapes, Running
  <2>4. \A w : QueueOf(w)' = QueueOf(w)
    BY <2>1 DEF QueueOf
  <2>5. LoaderInv' /\ PhaseInv'
    BY <1>0, <2>1, <2>2, <2>4 DEF LoaderInv, PhaseInv, Running, Copying, Decrypting
  <2>6. AreaLength' = AreaLength /\ (HiddenKept' => HiddenKept)
    BY <2>1, <2>2 DEF AreaLength, HiddenKept, Running
  <2> QED
    BY <2>1, <2>2, <2>3, <2>5, <2>6, ContentsKept DEF BInv
<1>5. CASE StartCopy \/ LeaveBootMenu \/ AbortCopy
  <2>1. /\ sbLoader.pc \in Copying
        /\ UNCHANGED <<sbDrive, sbDamaged, sbHeader, sbPhase, sbDisk, sbWritten>>
        /\ \/ \E pc \in {"copy", "copymenu"} : sbLoader' = [sbLoader EXCEPT !.pc = pc]
           \/ sbLoader' = [sbLoader EXCEPT !.pc = "copying", !.next = 0]
    BY <1>5 DEF StartCopy, LeaveBootMenu, AbortCopy, KeepsDisk, Static, Goto, Copying
  <2>2. /\ DOMAIN sbLoader' = DOMAIN NoLoader /\ sbLoader'.pc \in Copying
        /\ sbLoader'.pc = "copying" => sbLoader'.next = 0
        /\ sbLoader'.system = sbLoader.system
        /\ sbLoader'.rescue = sbLoader.rescue /\ sbLoader'.next \in {0, sbLoader.next}
        /\ sbLoader'.fragment = sbLoader.fragment
    BY <1>0, <2>1 DEF Shapes, Copying
  <2>3. Shapes'
    BY <1>0, <1>d, <2>1, <2>2 DEF Shapes
  <2>4. LoaderInv' /\ PhaseInv'
    BY <1>0, <2>1, <2>2 DEF LoaderInv, PhaseInv, Running, Copying, Decrypting, Systems
  <2>5. AreaLength' = AreaLength /\ (HiddenKept' => HiddenKept)
    BY <2>1, <2>2 DEF AreaLength, HiddenKept, Running, Copying
  <2> QED
    BY <2>1, <2>2, <2>3, <2>4, <2>5, ContentsKept DEF BInv
<1>6. CASE DecryptDrive
  <2>1. /\ sbLoader.pc = "menu" /\ sbLoader.rescue /\ sbHeader.usable
        /\ sbLoader' = [sbLoader EXCEPT !.pc = "decrypt", !.system = "normal",
                           !.next = sbHeader.length, !.fragment = FragmentSectors,
                           !.skip = FALSE, !.done = FALSE]
        /\ UNCHANGED <<sbDrive, sbDamaged, sbHeader, sbPhase, sbDisk, sbWritten>>
    BY <1>6 DEF DecryptDrive, KeepsDisk, Static
  <2>2. /\ DOMAIN sbLoader' = DOMAIN NoLoader /\ sbLoader'.pc = "decrypt"
        /\ sbLoader'.system = "normal" /\ sbLoader'.rescue = sbLoader.rescue
        /\ sbLoader'.next = sbHeader.length /\ sbLoader'.fragment = FragmentSectors
    BY <1>0, <2>1 DEF Shapes
  <2>3. Shapes'
    BY <1>0, <1>d, <2>1, <2>2 DEF Shapes, Decrypting
  <2>4. LoaderInv' /\ PhaseInv'
    BY <1>0, <2>1, <2>2 DEF LoaderInv, PhaseInv, Running, Copying, Decrypting, Systems
  <2>5. AreaLength' = AreaLength /\ (HiddenKept' => HiddenKept)
    BY <2>1, <2>2 DEF AreaLength, HiddenKept, Running
  <2> QED
    BY <2>1, <2>2, <2>3, <2>4, <2>5, ContentsKept DEF BInv
<1>7. CASE DeferDecryption \/ UpdateHeader
  <2>1. /\ UNCHANGED <<sbDrive, sbDamaged, sbPhase, sbDisk, sbWritten>>
        /\ sbLoader.pc \in Decrypting
        /\ \/ /\ sbLoader' = [sbLoader EXCEPT !.pc = "decrypted"] /\ sbHeader' = sbHeader
           \/ /\ sbLoader' = [sbLoader EXCEPT !.pc = "menu"]
              /\ sbHeader' = IF sbLoader.done THEN [sbHeader EXCEPT !.length = sbLoader.next]
                             ELSE sbHeader
    BY <1>7 DEF DeferDecryption, UpdateHeader, KeepsDisk, Static, Goto, Decrypting
  <2>2. /\ DOMAIN sbLoader' = DOMAIN NoLoader /\ sbLoader'.pc \in {"menu", "decrypted"}
        /\ sbLoader'.system = sbLoader.system /\ sbLoader'.done = sbLoader.done
        /\ sbLoader'.rescue = sbLoader.rescue /\ sbLoader'.next = sbLoader.next
        /\ sbLoader'.fragment = sbLoader.fragment
    BY <1>0, <2>1 DEF Shapes
  <2>3. /\ sbLoader.system = "normal" /\ sbHeader.usable /\ sbPhase = "none"
        /\ AreaLength = sbLoader.next
    BY <1>0, <2>1 DEF LoaderInv, PhaseInv, AreaLength, Decrypting
  <2>4. /\ sbHeader' \in [usable : BOOLEAN, length : 0..SystemSectors]
        /\ sbHeader'.usable
        /\ sbLoader'.pc = "decrypted" => sbHeader' = sbHeader
        /\ sbLoader'.pc = "menu" => sbHeader'.length = sbLoader.next
    BY <1>0, <2>1, <2>2 DEF Shapes, LoaderInv, Decrypting
  <2>5. Shapes'
    BY <1>0, <2>1, <2>2, <2>4 DEF Shapes, Decrypting
  <2>6. LoaderInv' /\ PhaseInv'
    BY <1>0, <2>1, <2>2, <2>3, <2>4 DEF LoaderInv, PhaseInv, Running, Copying, Decrypting, Systems
  <2>7. AreaLength' = AreaLength /\ (HiddenKept' => HiddenKept)
    BY <2>1, <2>2, <2>3, <2>4 DEF AreaLength, HiddenKept, Running
  <2> QED
    BY <2>1, <2>2, <2>5, <2>6, <2>7, ContentsKept DEF BInv
<1>8. CASE RestoreVolumeHeader \/ DamageHeader
  <2>1. /\ UNCHANGED <<sbDrive, sbDamaged, sbPhase, sbLoader, sbQueue, sbDisk, sbWritten>>
        /\ \/ /\ sbLoader.pc = "menu" /\ sbLoader.rescue /\ ~sbHeader.usable
              /\ sbHeader' = [usable |-> TRUE, length |-> SystemSectors]
           \/ /\ sbLoader.pc = "off" /\ sbHeader = [usable |-> TRUE, length |-> SystemSectors]
              /\ sbHeader' = [sbHeader EXCEPT !.usable = FALSE]
    BY <1>8 DEF RestoreVolumeHeader, DamageHeader, KeepsDisk, Static
  <2>2. /\ sbHeader'.length = sbHeader.length /\ sbHeader.length = SystemSectors /\ sbPhase = "none"
        /\ sbHeader' \in [usable : BOOLEAN, length : 0..SystemSectors]
        /\ sbLoader.pc \in {"menu", "off"} /\ (sbHeader'.usable \/ sbLoader.system = "none")
    <3>1. CASE sbLoader.pc = "menu"
      <4>1. /\ sbLoader.rescue /\ ~sbHeader.usable
            /\ sbHeader' = [usable |-> TRUE, length |-> SystemSectors]
        BY <2>1, <3>1
      <4>2. sbPhase = "none" /\ sbHeader.length = SystemSectors
        BY <1>0, <4>1 DEF LoaderInv, PhaseInv
      <4> QED
        BY <1>d, <3>1, <4>1, <4>2
    <3>2. CASE sbLoader.pc = "off"
      <4>1. sbHeader = [usable |-> TRUE, length |-> SystemSectors]
            /\ sbHeader' = [usable |-> FALSE, length |-> SystemSectors]
        BY <2>1, <3>2
      <4> QED
        BY <1>0, <1>d, <3>2, <4>1 DEF LoaderInv, PhaseInv, Shapes
    <3> QED
      BY <2>1, <3>1, <3>2
  <2>3. Shapes'
    BY <1>0, <2>1, <2>2 DEF Shapes
  <2>4. LoaderInv' /\ PhaseInv'
    BY <1>0, <2>1, <2>2 DEF LoaderInv, PhaseInv, Running, Copying, Decrypting, Systems
  <2>5. AreaLength' = AreaLength /\ (HiddenKept' => HiddenKept)
    BY <2>1, <2>2 DEF AreaLength, HiddenKept
  <2> QED
    BY <2>1, <2>2, <2>3, <2>4, <2>5, ContentsKept DEF BInv
<1> QED
  BY <1>1, <1>2, <1>3, <1>4, <1>5, <1>6, <1>7, <1>8

\* The area of the driver's queue.
LEMMA QueueIs ==
    ASSUME SectorsAssumed, BInv, sbLoader.pc \in {"windows", "dumping"}
    PROVE  /\ sbLoader.system = "normal" =>
                 /\ \A s \in Active : In(s, sbQueue) <=> s < ActiveStart + sbHeader.length
                 /\ ~In(ExtraSector, sbQueue) /\ sbQueue.offset = 0 /\ sbQueue.unit = 0
                 /\ sbQueue.remapped = FALSE
           /\ sbLoader.system = "hidden" =>
                 /\ \A s \in Active : In(s, sbQueue)
                 /\ sbQueue.offset = HiddenStart - ActiveStart
                 /\ sbQueue.unit = HiddenOffset - ActiveStart /\ sbQueue.remapped = TRUE
<1> USE Places
<1>1. sbQueue = QueueOf(sbLoader.system)
  BY DEF BInv, LoaderInv
<1>2. sbHeader.length \in 0..SystemSectors /\ SystemSectors \in Nat /\ HiddenOffset \in Nat
  BY DEF BInv, Shapes, SectorsAssumed
<1>3. CASE sbLoader.system = "normal"
  <2>1. sbQueue = [start |-> ActiveStart, length |-> sbHeader.length, remapped |-> FALSE,
                   offset |-> 0, unit |-> 0]
    BY <1>1, <1>3 DEF QueueOf
  <2> QED
    BY <1>2, <1>3, <2>1 DEF In, Active, ActiveEnd, ExtraSector
<1>4. CASE sbLoader.system = "hidden"
  <2>1. sbQueue = [start |-> ActiveStart, length |-> SystemSectors, remapped |-> TRUE,
                   offset |-> FollowingStart + HiddenOffset - ActiveStart,
                   unit |-> HiddenOffset - ActiveStart]
    BY <1>1, <1>4 DEF QueueOf
  <2> QED
    BY <1>2, <1>4, <2>1 DEF In, Active, ActiveEnd
<1> QED
  BY <1>3, <1>4

\* A write of one sector through the driver, to the right place under the right unit.
LEMMA SystemWriteStep ==
    ASSUME SectorsAssumed, BInv, sbLoader.pc = "windows", NEW s \in Active \cup {ExtraSector},
           NEW location, NEW unit,
           sbLoader.system = "normal" => location = s /\ unit = s,
           sbLoader.system = "hidden" =>
              /\ s \in Active /\ location = s - ActiveStart + HiddenStart
              /\ unit = s - ActiveStart + HiddenOffset,
           SystemWrites(s, location, unit),
           sbLoader' = sbLoader \/ sbLoader' = [sbLoader EXCEPT !.pc = "dumping"],
           UNCHANGED <<sbDrive, sbHeader, sbPhase, sbQueue, sbDamaged>>
    PROVE  BInv'
<1> USE Places, Fields
<1>0. Shapes /\ LoaderInv /\ PhaseInv
  BY DEF BInv
<1>1. /\ DOMAIN sbLoader' = DOMAIN NoLoader /\ sbLoader'.pc \in {"windows", "dumping"}
      /\ sbLoader'.system = sbLoader.system /\ sbLoader'.next = sbLoader.next
      /\ sbLoader'.rescue = sbLoader.rescue /\ sbLoader'.fragment = sbLoader.fragment
  BY <1>0 DEF Shapes
<1>2. sbLoader.system \in Systems
  BY <1>0 DEF LoaderInv, Running
<1>3. Shapes'
  <2>1. DOMAIN sbDisk' = DiskSectors /\ DOMAIN sbWritten' = Systems
        /\ \A w \in Systems : DOMAIN sbWritten'[w] = Active
    BY <1>0, <1>2 DEF Shapes, SystemWrites, Stored
  <2> QED
    BY <1>0, <1>1, <2>1 DEF Shapes, Running
<1>4. \A w : QueueOf(w)' = QueueOf(w)
  BY DEF QueueOf
<1>5. LoaderInv' /\ PhaseInv'
  BY <1>0, <1>1, <1>4 DEF LoaderInv, PhaseInv, Running, Copying, Decrypting
<1>6. /\ \A x \in Active : sbWritten'[sbLoader.system][x] =
                               IF x \in {s} THEN "new" ELSE sbWritten[sbLoader.system][x]
      /\ \A w \in Systems : w # sbLoader.system => sbWritten'[w] = sbWritten[w]
  <2>1. s..(s + 1 - 1) = {s}
    BY DEF ExtraSector
  <2> QED
    BY <1>0, <1>2, <2>1 DEF Shapes, SystemWrites, Stored
<1>7. /\ \A x \in DiskSectors : x # location => sbDisk'[x] = sbDisk[x]
      /\ location \in DiskSectors => sbDisk'[location] =
            IF In(s, sbQueue) THEN [data |-> "new", key |-> sbLoader.system, unit |-> unit]
            ELSE Plain("new")
  BY <1>0, EncryptPlain DEF Shapes, SystemWrites
<1>8. CASE sbLoader.system = "normal"
  <2>0. /\ \A x \in Active : sbWritten'["normal"][x] =
                                  IF x = s THEN "new" ELSE sbWritten["normal"][x]
        /\ sbWritten'["hidden"] = sbWritten["hidden"]
    BY <1>6, <1>8 DEF Systems
  <2>1. \A x \in Active : sbDisk'[x] =
           IF x = s THEN NormalSector("new", x, sbHeader.length) ELSE sbDisk[x]
    BY <1>7, <1>8, QueueIs DEF NormalSector
  <2>2. \A i \in Relative : sbDisk'[HiddenStart + i] = sbDisk[HiddenStart + i]
    BY <1>7, <1>8
  <2>3. sbLoader.pc \in Running /\ sbLoader'.pc \in Running
    BY <1>1 DEF Running
  <2>4. NormalInv' /\ HiddenInv' /\ CopyInv'
    BY <1>8, <2>0, <2>1, <2>2, <2>3, NormalWrites
  <2> QED
    BY <1>3, <1>5, <2>4 DEF BInv
<1>9. CASE sbLoader.system = "hidden"
  <2>0. s \in Active /\ location = s - ActiveStart + HiddenStart
        /\ unit = s - ActiveStart + HiddenOffset /\ In(s, sbQueue)
    BY <1>9, QueueIs
  <2>1. \A x \in Active : sbDisk'[x] = sbDisk[x]
    BY <1>7, <2>0
  <2>2. ASSUME NEW i \in Relative
        PROVE  sbDisk'[HiddenStart + i] =
                  IF ActiveStart + i = s THEN HiddenSector("new", i) ELSE sbDisk[HiddenStart + i]
    <3>1. CASE ActiveStart + i = s
      <4>1. HiddenStart + i = location /\ unit = i + HiddenOffset /\ location \in DiskSectors
        BY <2>0, <3>1
      <4> QED
        BY <1>7, <1>9, <2>0, <3>1, <4>1 DEF HiddenSector
    <3>2. CASE ActiveStart + i # s
      <4>1. HiddenStart + i # location /\ HiddenStart + i \in DiskSectors
        BY <2>0, <3>2
      <4> QED
        BY <1>7, <3>2, <4>1
    <3> QED
      BY <3>1, <3>2
  <2>3. /\ \A x \in Active : sbWritten'["hidden"][x] =
                                  IF x = s THEN "new" ELSE sbWritten["hidden"][x]
        /\ sbWritten'["normal"] = sbWritten["normal"]
    BY <1>6, <1>9 DEF Systems
  <2>4. sbLoader.pc \in Running /\ sbLoader'.pc \in Running
    BY <1>1 DEF Running
  <2>5. \A i \in Relative : ActiveStart + i \in Active
    OBVIOUS
  <2>6. NormalInv' /\ HiddenInv' /\ CopyInv'
    BY <1>9, <2>1, <2>2, <2>3, <2>4, <2>5, HiddenWrites
  <2> QED
    BY <1>3, <1>5, <2>6 DEF BInv
<1> QED
  BY <1>2, <1>8, <1>9 DEF Systems

\* The queue, the crash dump and the hibernation file.
LEMMA DriverStep ==
    ASSUME SectorsAssumed, BInv, QueueWrite \/ DumpFilterWrite \/ HiberDriverWriteFunctionFilter
    PROVE  BInv'
<1> USE Places
<1>0. LoaderInv /\ HiddenOffset \in Nat /\ ExtraSector \in Nat
  BY DEF BInv, SectorsAssumed, ExtraSector
<1>1. CASE QueueWrite
  <2>1. PICK s \in (IF sbDrive.extra THEN {ExtraSector} ELSE {}) \cup Active :
           IsWritable(s) /\ SystemWrites(s, Location(sbQueue, s), DataUnit(sbQueue, s))
    BY <1>1 DEF QueueWrite
  <2>2. sbLoader.pc = "windows" /\ sbLoader' = sbLoader
        /\ UNCHANGED <<sbDrive, sbHeader, sbPhase, sbQueue, sbDamaged>>
    BY <1>1 DEF QueueWrite, Static
  <2>3. sbLoader.system = "normal" => Location(sbQueue, s) = s /\ DataUnit(sbQueue, s) = s
    BY <1>0, <2>2, QueueIs DEF Location, DataUnit
  <2>4. sbLoader.system = "hidden" =>
           /\ s \in Active /\ Location(sbQueue, s) = s - ActiveStart + HiddenStart
           /\ DataUnit(sbQueue, s) = s - ActiveStart + HiddenOffset
    BY <1>0, <2>1, <2>2, QueueIs DEF Location, DataUnit, IsWritable
  <2> QED
    BY <2>1, <2>2, <2>3, <2>4, SystemWriteStep
<1>2. CASE DumpFilterWrite
  <2> DEFINE location(s) == IF In(s, sbQueue) /\ sbQueue.remapped THEN s + sbQueue.offset ELSE s
             unit(s) == IF sbQueue.remapped THEN s + sbQueue.unit ELSE s
  <2>1. PICK s \in Active : SystemWrites(s, location(s), unit(s))
    BY <1>2 DEF DumpFilterWrite
  <2>2. sbLoader.pc = "windows" /\ sbLoader' = [sbLoader EXCEPT !.pc = "dumping"]
        /\ UNCHANGED <<sbDrive, sbHeader, sbPhase, sbQueue, sbDamaged>>
    BY <1>2 DEF DumpFilterWrite, Static, Goto
  <2>3. s \in Nat
    OBVIOUS
  <2>4. sbLoader.system = "normal" => location(s) = s /\ unit(s) = s
    BY <2>2, <2>3, QueueIs
  <2>5. sbLoader.system = "hidden" =>
           location(s) = s - ActiveStart + HiddenStart /\ unit(s) = s - ActiveStart + HiddenOffset
    <3> SUFFICES ASSUME sbLoader.system = "hidden"
                 PROVE  location(s) = s - ActiveStart + HiddenStart
                        /\ unit(s) = s - ActiveStart + HiddenOffset
      OBVIOUS
    <3>1. In(s, sbQueue) /\ sbQueue.offset = HiddenStart - ActiveStart
          /\ sbQueue.unit = HiddenOffset - ActiveStart /\ sbQueue.remapped = TRUE
      BY <2>2, QueueIs
    <3> QED
      BY <1>0, <2>3, <3>1
  <2> HIDE DEF location, unit
  <2> QED
    BY <2>1, <2>2, <2>4, <2>5, SystemWriteStep
<1>3. CASE HiberDriverWriteFunctionFilter
  <2> DEFINE location(s) == HiberDriverEntryFilter(ActiveStart) + (s - ActiveStart)
             unit(s) == IF sbQueue.remapped THEN s + sbQueue.unit ELSE s
  <2>1. PICK s \in Active : SystemWrites(s, location(s), unit(s))
    BY <1>3 DEF HiberDriverWriteFunctionFilter
  <2>2. sbLoader.pc = "windows" /\ sbLoader' = [sbLoader EXCEPT !.pc = "dumping"]
        /\ UNCHANGED <<sbDrive, sbHeader, sbPhase, sbQueue, sbDamaged>>
    BY <1>3 DEF HiberDriverWriteFunctionFilter, Static, Goto
  <2>3. s \in Nat
    OBVIOUS
  <2>4. sbLoader.system = "normal" => location(s) = s /\ unit(s) = s
    BY <2>2, <2>3, QueueIs DEF HiberDriverEntryFilter
  <2>5. sbLoader.system = "hidden" =>
           location(s) = s - ActiveStart + HiddenStart /\ unit(s) = s - ActiveStart + HiddenOffset
    <3> SUFFICES ASSUME sbLoader.system = "hidden"
                 PROVE  location(s) = s - ActiveStart + HiddenStart
                        /\ unit(s) = s - ActiveStart + HiddenOffset
      OBVIOUS
    <3>1. sbQueue.offset = HiddenStart - ActiveStart
          /\ sbQueue.unit = HiddenOffset - ActiveStart /\ sbQueue.remapped = TRUE
      BY <2>2, QueueIs
    <3> QED
      BY <1>0, <2>3, <3>1 DEF HiberDriverEntryFilter
  <2> HIDE DEF location, unit
  <2> QED
    BY <2>1, <2>2, <2>4, <2>5, SystemWriteStep
<1> QED
  BY <1>1, <1>2, <1>3

\* A write through the BIOS, perhaps of a part of its sectors.
LEMMA BiosStep == ASSUME SectorsAssumed, BInv, Int13Filter PROVE BInv'
<1> USE Places
<1>0. Shapes /\ LoaderInv /\ PhaseInv /\ SystemSectors \in Nat /\ HiddenOffset \in Nat
      /\ HiddenOffset > 0 /\ ExtraSector = 1
  BY DEF BInv, SectorsAssumed, ExtraSector
<1>l. sbHeader.length \in Nat
  BY <1>0 DEF Shapes
<1>1. PICK first \in (IF sbDrive.extra THEN {ExtraSector} ELSE {}) \cup Active, count \in 1..2 :
         /\ first + count - 1 <= ActiveEnd /\ (first = ExtraSector => count = 1)
         /\ \E written \in 0..count : WriteEncryptedSectors(first, written)
  BY DEF Int13Filter
<1>2. PICK written \in 0..count : WriteEncryptedSectors(first, written)
  BY <1>1
<1>3. sbLoader.pc = "bios"
      /\ UNCHANGED <<sbDrive, sbHeader, sbPhase, sbLoader, sbQueue, sbDamaged>>
  BY DEF Int13Filter, Static
<1> DEFINE W == first..(first + written - 1)
           system == sbLoader.system
<1>4. /\ first \in Nat /\ written \in Nat /\ W \subseteq Active \cup {ExtraSector}
      /\ ExtraSector \in W => W = {ExtraSector}
  <2>1. first \in Active \/ first = ExtraSector
    BY <1>1
  <2>2. CASE first = ExtraSector
    BY <1>0, <1>1, <1>2, <2>2
  <2>3. CASE first \in Active
    BY <1>0, <1>1, <1>2, <2>3 DEF Active, ActiveEnd
  <2> QED
    BY <2>1, <2>2, <2>3
<1>5. system \in Systems /\ sbLoader.evp = EncryptedVirtualPartition(system)
  BY <1>0, <1>3 DEF LoaderInv, Running
<1>6. /\ sbWritten' = [sbWritten EXCEPT ![system] =
                          [s \in Active |-> IF s \in W THEN "new" ELSE @[s]]]
      /\ sbDisk' = [t \in DiskSectors |->
                       IF \E s \in W : BootLocation(s) = t
                       THEN Written(CHOOSE s \in Active \cup {ExtraSector} : BootLocation(s) = t)
                       ELSE sbDisk[t]]
  BY <1>2 DEF WriteEncryptedSectors, Stored
<1> HIDE DEF W, system
<1>7. /\ \A x \in Active : sbWritten'[system][x] = IF x \in W THEN "new" ELSE sbWritten[system][x]
      /\ \A w \in Systems : w # system => sbWritten'[w] = sbWritten[w]
      /\ DOMAIN sbWritten' = Systems /\ \A w \in Systems : DOMAIN sbWritten'[w] = Active
      /\ DOMAIN sbDisk' = DiskSectors
  BY <1>0, <1>5, <1>6 DEF Shapes
<1>8. Shapes'
  BY <1>0, <1>3, <1>7 DEF Shapes
<1>9. EncryptedVirtualPartition(system)' = EncryptedVirtualPartition(system)
  BY <1>3 DEF EncryptedVirtualPartition, system
<1>10. LoaderInv' /\ PhaseInv'
  BY <1>0, <1>3, <1>5, <1>9 DEF LoaderInv, PhaseInv, Running, Copying, Decrypting, system
<1>11. CASE system = "normal"
  <2>1. \A s : BootLocation(s) = s /\ BootUnit(s) = s
    BY <1>11 DEF BootLocation, BootUnit, system
  <2>2. sbLoader.evp = [start |-> ActiveStart, length |-> sbHeader.length]
    BY <1>5, <1>11 DEF EncryptedVirtualPartition
  <2>3. \A t \in DiskSectors : sbDisk'[t] = IF t \in W THEN Written(t) ELSE sbDisk[t]
    BY <1>4, <1>6, <2>1
  <2>4. \A s \in Active : Written(s) = NormalSector("new", s, sbHeader.length)
    <3>1. \A s \in Active : In(s, sbLoader.evp) <=> s < ActiveStart + sbHeader.length
      BY <1>0, <1>l, <2>2 DEF In, Active
    <3> QED
      BY <1>11, <2>1, <3>1, EncryptPlain DEF Written, NormalSector, system
  <2>5. \A s \in Active : sbDisk'[s] = IF s \in W THEN NormalSector("new", s, sbHeader.length)
                                        ELSE sbDisk[s]
    BY <2>3, <2>4
  <2>6. \A i \in Relative : sbDisk'[HiddenStart + i] = sbDisk[HiddenStart + i]
    BY <1>4, <2>3
  <2>7. NormalInv' /\ HiddenInv' /\ CopyInv'
    <3>1. sbLoader.pc \in Running /\ sbLoader'.pc \in Running /\ sbLoader.system = "normal"
      BY <1>3, <1>11 DEF Running, system
    <3>2. sbWritten'["hidden"] = sbWritten["hidden"]
          /\ \A x \in Active : sbWritten'["normal"][x] =
                                    IF x \in W THEN "new" ELSE sbWritten["normal"][x]
      BY <1>7, <1>11 DEF Systems
    <3> QED
      BY <1>3, <2>5, <2>6, <3>1, <3>2, NormalWrites
  <2> QED
    BY <1>8, <1>10, <2>7 DEF BInv
<1>12. CASE system = "hidden"
  <2>1. sbLoader.evp = [start |-> ActiveStart, length |-> SystemSectors]
    BY <1>5, <1>12 DEF EncryptedVirtualPartition
  <2>2. \A s : /\ BootLocation(s) = s + HiddenStart - ActiveStart
               /\ BootUnit(s) = s - ActiveStart + HiddenOffset
    BY <1>12, <2>1 DEF BootLocation, BootUnit, system
  <2>3. \A s \in Active : Written(s) = HiddenSector("new", s - ActiveStart)
    <3>1. \A s \in Active : In(s, sbLoader.evp)
      BY <1>0, <2>1 DEF In, Active, ActiveEnd
    <3> QED
      BY <1>12, <2>2, <3>1, EncryptPlain DEF Written, HiddenSector, system
  <2>4. \A s \in W : BootLocation(s) \notin Active
    <3>1. \A s \in W : s \in Nat /\ s >= 1
      BY <1>0, <1>4
    <3> QED
      BY <1>0, <2>2, <3>1 DEF Active, ActiveEnd
  <2>5. \A s \in Active : sbDisk'[s] = sbDisk[s]
    BY <1>6, <2>4
  <2>6. ASSUME NEW i \in Relative
        PROVE  sbDisk'[HiddenStart + i] =
                  IF ActiveStart + i \in W THEN HiddenSector("new", i) ELSE sbDisk[HiddenStart + i]
    <3> DEFINE t == HiddenStart + i
               x == ActiveStart + i
    <3>1. t \in DiskSectors /\ x \in Active /\ x - ActiveStart = i
      OBVIOUS
    <3>2. \A s \in Active \cup {ExtraSector} : BootLocation(s) = t <=> s = x
      BY <1>0, <2>2
    <3> HIDE DEF t, x
    <3>3. (CHOOSE s \in Active \cup {ExtraSector} : BootLocation(s) = t) = x
      BY <3>1, <3>2
    <3>4. (\E s \in W : BootLocation(s) = t) <=> x \in W
      BY <1>4, <3>1, <3>2
    <3>5. sbDisk'[t] = IF x \in W THEN Written(x) ELSE sbDisk[t]
      BY <1>6, <3>1, <3>3, <3>4
    <3> QED
      BY <2>3, <3>1, <3>5 DEF t, x
  <2>7. NormalInv' /\ HiddenInv' /\ CopyInv'
    <3>1. sbLoader.pc \in Running /\ sbLoader'.pc \in Running /\ sbLoader.system = "hidden"
      BY <1>3, <1>12 DEF Running, system
    <3>2. sbWritten'["normal"] = sbWritten["normal"]
          /\ \A i \in Relative : sbWritten'["hidden"][ActiveStart + i] =
                  IF ActiveStart + i \in W THEN "new" ELSE sbWritten["hidden"][ActiveStart + i]
      BY <1>7, <1>12 DEF Systems
    <3> QED
      BY <1>3, <2>5, <2>6, <3>1, <3>2, HiddenWrites
  <2> QED
    BY <1>8, <1>10, <2>7 DEF BInv
<1> QED
  BY <1>5, <1>11, <1>12 DEF Systems

\* The encrypted area grows or shrinks by a sector.
LEMMA SetupStep == ASSUME SectorsAssumed, BInv, SetupBlock PROVE BInv'
<1> USE Places
<1>0. Shapes /\ LoaderInv /\ PhaseInv /\ SystemSectors \in Nat
  BY DEF BInv, SectorsAssumed
<1>1. PICK change \in {-1, 1} :
         LET s == ActiveStart + sbQueue.length + (IF change = 1 THEN 0 ELSE -1)
         IN /\ s \in Active
            /\ sbQueue' = [sbQueue EXCEPT !.length = @ + change]
            /\ sbHeader' = [sbHeader EXCEPT !.length = @ + change]
            /\ sbDisk' = [sbDisk EXCEPT ![s] = IF change = 1 THEN Encrypt(@, "normal", s)
                                               ELSE Decrypt(@, "normal", s)]
  BY DEF SetupBlock
<1>2. /\ sbLoader.pc = "windows" /\ sbLoader.system = "normal"
      /\ UNCHANGED <<sbDrive, sbPhase, sbLoader, sbWritten, sbDamaged>>
  BY DEF SetupBlock, Static
<1> DEFINE length == sbHeader.length
           s == ActiveStart + length + (IF change = 1 THEN 0 ELSE -1)
<1>3. sbQueue = [start |-> ActiveStart, length |-> length, remapped |-> FALSE,
                 offset |-> 0, unit |-> 0]
  BY <1>0, <1>2 DEF LoaderInv, QueueOf
<1>4. sbHeader.usable /\ sbPhase = "none"
  BY <1>0, <1>2 DEF LoaderInv, PhaseInv, Shapes
<1>5. /\ length \in 0..SystemSectors /\ s \in Active
      /\ sbQueue' = [start |-> ActiveStart, length |-> length + change, remapped |-> FALSE,
                     offset |-> 0, unit |-> 0]
      /\ sbHeader' = [usable |-> TRUE, length |-> length + change]
      /\ sbDisk' = [sbDisk EXCEPT ![s] = IF change = 1 THEN Encrypt(@, "normal", s)
                                         ELSE Decrypt(@, "normal", s)]
  BY <1>0, <1>1, <1>3, <1>4 DEF Shapes
<1>6. length + change \in 0..SystemSectors
  BY <1>0, <1>5 DEF Active, ActiveEnd
<1> HIDE DEF s, length
<1>7. Shapes'
  BY <1>0, <1>2, <1>5, <1>6 DEF Shapes
<1>8. LoaderInv' /\ PhaseInv'
  BY <1>0, <1>2, <1>4, <1>5
     DEF LoaderInv, PhaseInv, QueueOf, Running, Copying, Decrypting
<1>9. AreaLength = length /\ AreaLength' = length + change
  BY <1>2, <1>5 DEF AreaLength, Decrypting, length
<1>10. ASSUME NEW x \in Active \ sbDamaged
       PROVE  sbDisk'[x] = NormalSector(sbWritten["normal"][x], x, length + change)
  <2>1. sbDisk[x] = NormalSector(sbWritten["normal"][x], x, length)
    BY <1>9 DEF BInv, NormalInv
  <2>2. s = ActiveStart + length + (IF change = 1 THEN 0 ELSE -1) /\ x \in Nat /\ length \in Nat
    BY <1>5 DEF s
  <2>3. CASE x # s
    <3>1. x < ActiveStart + length <=> x < ActiveStart + (length + change)
      BY <2>2, <2>3
    <3> QED
      BY <1>0, <1>5, <2>1, <2>3, <3>1 DEF Shapes, NormalSector
  <2>4. CASE x = s /\ change = 1
    <3>1. ~(x < ActiveStart + length) /\ x < ActiveStart + (length + change)
      BY <2>2, <2>4
    <3>2. sbDisk[x] = Plain(sbWritten["normal"][x]) /\ x \in DiskSectors
      BY <2>1, <3>1 DEF NormalSector
    <3>3. sbDisk'[x] = Encrypt(sbDisk[x], "normal", x)
      BY <1>0, <1>5, <2>4, <3>2 DEF Shapes
    <3> QED
      BY <3>1, <3>2, <3>3, EncryptPlain DEF NormalSector
  <2>5. CASE x = s /\ change # 1
    <3>1. x < ActiveStart + length /\ ~(x < ActiveStart + (length + change))
      BY <2>2, <2>5
    <3>2. x \in DiskSectors /\ sbDisk[x] = [data |-> sbWritten["normal"][x], key |-> "normal", unit |-> x]
      BY <2>1, <3>1 DEF NormalSector
    <3>3. sbDisk'[x] = Decrypt(sbDisk[x], "normal", x)
      BY <1>0, <1>5, <2>5, <3>2 DEF Shapes
    <3> QED
      BY <3>1, <3>2, <3>3, EncryptPlain DEF NormalSector
  <2> QED
    BY <2>3, <2>4, <2>5
<1>11. NormalInv'
  BY <1>2, <1>9, <1>10 DEF NormalInv
<1>12. \A i \in Relative : sbDisk'[HiddenStart + i] = sbDisk[HiddenStart + i]
  BY <1>0, <1>5 DEF Shapes
<1>13. HiddenInv' /\ CopyInv'
  BY <1>2, <1>12 DEF BInv, HiddenInv, HiddenKept, CopyInv
<1> QED
  BY <1>7, <1>8, <1>11, <1>13 DEF BInv

\* The smaller of two numbers.
LEMMA MinOfTwo ==
    ASSUME NEW a \in Nat, NEW b \in Nat
    PROVE  Min({a, b}) = IF a <= b THEN a ELSE b
<1> DEFINE m == IF a <= b THEN a ELSE b
<1>1. m \in {a, b} /\ \A y \in {a, b} : m <= y
  OBVIOUS
<1>2. \A x \in {a, b} : (\A y \in {a, b} : x <= y) => x = m
  OBVIOUS
<1> QED
  BY <1>1, <1>2 DEF Min

\* The copy of a system to the hidden volume.
LEMMA CopyStep == ASSUME SectorsAssumed, BInv, CopyFragment \/ FinishCopy PROVE BInv'
<1> USE Places, Fields
<1>0. Shapes /\ LoaderInv /\ PhaseInv /\ SystemSectors \in Nat /\ FragmentSectors \in Nat
      /\ HiddenOffset \in Nat
  BY DEF BInv, SectorsAssumed
<1>1. /\ sbLoader.pc = "copying" /\ sbPhase = "cloning" /\ sbDrive.hidden
      /\ ~sbHeader.usable /\ sbHeader.length = 0 /\ sbDamaged = {} /\ sbLoader.system = "none"
      /\ ~sbLoader.rescue /\ AreaLength = 0 /\ sbLoader.next \in 0..SystemSectors
  BY <1>0 DEF CopyFragment, FinishCopy, LoaderInv, PhaseInv, Copying, AreaLength, Shapes
<1>2. \A x \in Active : sbDisk[x] = Plain(sbWritten["normal"][x])
  <2>1. \A x \in Active : ~(x < ActiveStart + 0)
    BY <1>0 DEF Active
  <2> QED
    BY <1>1, <2>1 DEF BInv, NormalInv, NormalSector
<1>3. CASE CopyFragment
  <2> DEFINE next == sbLoader.next
             count == Min({FragmentSectors, SystemSectors - next})
             Source(t) == t - HiddenStart + ActiveStart
  <2>1. next < SystemSectors
        /\ UNCHANGED <<sbDrive, sbHeader, sbPhase, sbQueue, sbWritten, sbDamaged>>
    BY <1>3 DEF CopyFragment, Static
  <2>2. count \in 0..(SystemSectors - next)
    <3>1. SystemSectors - next \in Nat
      BY <1>0, <1>1, <2>1
    <3>2. count = IF FragmentSectors <= SystemSectors - next THEN FragmentSectors
                  ELSE SystemSectors - next
      BY <1>0, <3>1, MinOfTwo
    <3> HIDE DEF count
    <3> QED
      BY <1>0, <3>1, <3>2
  <2>3. PICK written \in 0..count :
           /\ sbDisk' = [t \in DiskSectors |->
                            IF t - HiddenStart \in next..(next + written - 1)
                            THEN Encrypt(sbDisk[Source(t)], "hidden", t - HiddenStart + HiddenOffset)
                            ELSE sbDisk[t]]
           /\ IF written < count THEN sbLoader' = [sbLoader EXCEPT !.pc = "copymenu"]
              ELSE sbLoader' = [sbLoader EXCEPT !.next = @ + count]
    BY <1>3 DEF CopyFragment, Goto
  <2> HIDE DEF count
  <2>4. /\ DOMAIN sbLoader' = DOMAIN NoLoader /\ sbLoader'.pc \in {"copying", "copymenu"}
        /\ sbLoader'.system = "none" /\ ~sbLoader'.rescue
        /\ sbLoader'.fragment = sbLoader.fragment
        /\ sbLoader'.pc = "copying" => sbLoader'.next = next + count /\ written = count
        /\ sbLoader'.next \in 0..SystemSectors
    <3>1. CASE written < count
      <4>1. sbLoader' = [sbLoader EXCEPT !.pc = "copymenu"]
        BY <2>3, <3>1
      <4> QED
        BY <1>0, <1>1, <4>1 DEF Shapes
    <3>2. CASE ~(written < count)
      <4>1. sbLoader' = [sbLoader EXCEPT !.next = @ + count] /\ written = count
        BY <2>2, <2>3, <3>2
      <4>2. next + count \in 0..SystemSectors
        BY <1>0, <1>1, <2>1, <2>2
      <4> QED
        BY <1>0, <1>1, <4>1, <4>2 DEF Shapes
    <3> QED
      BY <3>1, <3>2
  <2>5. DOMAIN sbDisk' = DiskSectors
    BY <2>3
  <2>6. Shapes'
    BY <1>0, <2>1, <2>4, <2>5 DEF Shapes, Copying
  <2>7. LoaderInv' /\ PhaseInv'
    BY <1>0, <1>1, <2>1, <2>4 DEF LoaderInv, PhaseInv, Running, Copying, Decrypting
  <2>8. \A x \in Active : sbDisk'[x] = sbDisk[x]
    <3>1. \A x \in Active : x - HiddenStart < 0
      BY <1>0 DEF Active, ActiveEnd
    <3> QED
      BY <1>1, <2>3, <3>1
  <2>9. NormalInv'
    BY <1>1, <1>2, <2>1, <2>4, <2>8 DEF NormalInv, NormalSector, AreaLength
  <2>10. HiddenInv'
    BY <1>1, <2>1, <2>4 DEF HiddenInv, HiddenKept, Running
  <2>11. CopyInv'
    <3> SUFFICES ASSUME sbLoader'.pc = "copying", NEW i \in 0..(sbLoader'.next - 1)
                 PROVE  sbDisk'[HiddenStart + i] = HiddenSector(sbWritten["normal"][ActiveStart + i], i)
      BY <2>1 DEF CopyInv
    <3>1. i \in Relative /\ i \in 0..(next + count - 1) /\ written = count /\ count \in Nat
      BY <1>0, <1>1, <2>1, <2>2, <2>4 DEF Relative
    <3>2. HiddenStart + i \in DiskSectors /\ HiddenStart + i - HiddenStart = i
      BY <3>1
    <3>3. CASE i < next
      <4>1. i \notin next..(next + written - 1)
        BY <1>1, <3>1, <3>3
      <4>2. sbDisk'[HiddenStart + i] = sbDisk[HiddenStart + i]
        BY <2>3, <3>2, <4>1
      <4>3. i \in 0..(next - 1)
        BY <1>1, <3>1, <3>3
      <4> QED
        BY <1>1, <4>2, <4>3 DEF BInv, CopyInv
    <3>4. CASE ~(i < next)
      <4>1. i \in next..(next + written - 1) /\ Source(HiddenStart + i) = ActiveStart + i
        BY <1>1, <3>1, <3>4
      <4>2. sbDisk'[HiddenStart + i] = Encrypt(sbDisk[ActiveStart + i], "hidden", i + HiddenOffset)
        BY <2>3, <3>2, <4>1
      <4>3. ActiveStart + i \in Active
        BY <3>1
      <4>4. sbDisk[ActiveStart + i] = Plain(sbWritten["normal"][ActiveStart + i])
        BY <1>2, <4>3
      <4> QED
        BY <4>2, <4>4, EncryptPlain DEF HiddenSector
    <3> QED
      BY <3>3, <3>4
  <2> QED
    BY <2>6, <2>7, <2>9, <2>10, <2>11 DEF BInv
<1>4. CASE FinishCopy
  <2>1. /\ sbLoader.next = SystemSectors
        /\ sbLoader' = [sbLoader EXCEPT !.pc = "menu", !.phase = "wiping"]
        /\ sbPhase' \in {"wiping", "cloning"}
        /\ sbWritten' = [sbWritten EXCEPT !["hidden"] = sbWritten["normal"]]
        /\ UNCHANGED <<sbDrive, sbHeader, sbQueue, sbDisk, sbDamaged>>
    BY <1>1, <1>4 DEF FinishCopy, Static
  <2>2. /\ DOMAIN sbLoader' = DOMAIN NoLoader /\ sbLoader'.pc = "menu"
        /\ sbLoader'.system = "none" /\ ~sbLoader'.rescue
        /\ sbLoader'.fragment = sbLoader.fragment /\ sbLoader'.next = sbLoader.next
    BY <1>0, <1>1, <2>1 DEF Shapes
  <2>3. /\ DOMAIN sbWritten' = Systems /\ sbWritten'["hidden"] = sbWritten["normal"]
        /\ sbWritten'["normal"] = sbWritten["normal"]
        /\ \A w \in Systems : DOMAIN sbWritten'[w] = Active
    BY <1>0, <2>1 DEF Shapes, Systems
  <2>4. Shapes'
    BY <1>0, <2>1, <2>2, <2>3 DEF Shapes
  <2>5. LoaderInv' /\ PhaseInv'
    BY <1>0, <1>1, <2>1, <2>2 DEF LoaderInv, PhaseInv, Running, Copying, Decrypting
  <2>6. NormalInv'
    BY <1>1, <1>2, <2>1, <2>2, <2>3 DEF NormalInv, NormalSector, AreaLength
  <2>7. HiddenInv'
    BY <1>1, <2>1, <2>3 DEF BInv, CopyInv, HiddenInv, Relative
  <2>8. CopyInv'
    BY <2>2 DEF CopyInv
  <2> QED
    BY <2>4, <2>5, <2>6, <2>7, <2>8 DEF BInv
<1> QED
  BY <1>3, <1>4

\* A fragment is decrypted, or as much of it as can be written.
LEMMA DecryptStep == ASSUME SectorsAssumed, BInv, DecryptFragment \/ FailFragment PROVE BInv'
<1> USE Places, Fields
<1>0. Shapes /\ LoaderInv /\ PhaseInv /\ SystemSectors \in Nat
  BY DEF BInv, SectorsAssumed
<1> DEFINE next == sbLoader.next
           end == ActiveStart + next
<1>1. /\ sbLoader.pc = "decrypt" /\ next > 0 /\ sbLoader.system = "normal" /\ sbHeader.usable
      /\ sbPhase = "none" /\ AreaLength = next /\ next \in 0..SystemSectors
      /\ UNCHANGED <<sbDrive, sbHeader, sbPhase, sbQueue, sbWritten>>
  BY <1>0 DEF DecryptFragment, FailFragment, LoaderInv, PhaseInv, Decrypting, AreaLength, Shapes
<1>2. Fragment \in 1..next /\ FragmentStart = end - Fragment
  <2>1. sbLoader.fragment \in Nat /\ sbLoader.fragment > 0
    BY <1>0 DEF Shapes
  <2>2. Fragment = IF sbLoader.fragment <= next THEN sbLoader.fragment ELSE next
    BY <1>1, <2>1, MinOfTwo DEF Fragment
  <2> QED
    BY <1>1, <2>1, <2>2 DEF FragmentStart
<1>3. \E written \in 0..Fragment :
         /\ sbDisk' = Decrypted(FragmentStart, written)
         /\ \/ Progress /\ written = Fragment /\ sbDamaged' = sbDamaged
            \/ /\ sbDamaged' = sbDamaged \cup (FragmentStart..(FragmentStart + Fragment - 1))
               /\ \/ Progress
                  \/ sbLoader' = [sbLoader EXCEPT !.skip = TRUE, !.fragment = 1]
                  \/ sbLoader' = [sbLoader EXCEPT !.pc = "decrypted"]
  <2>1. CASE DecryptFragment
    BY <1>1, <1>2, <2>1 DEF DecryptFragment
  <2>2. CASE FailFragment
    BY <1>1, <1>2, <2>2 DEF FailFragment, Goto
  <2> QED
    BY <2>1, <2>2
<1>4. PICK written \in 0..Fragment :
         /\ sbDisk' = Decrypted(FragmentStart, written)
         /\ \/ Progress /\ written = Fragment /\ sbDamaged' = sbDamaged
            \/ /\ sbDamaged' = sbDamaged \cup (FragmentStart..(FragmentStart + Fragment - 1))
               /\ \/ Progress
                  \/ sbLoader' = [sbLoader EXCEPT !.skip = TRUE, !.fragment = 1]
                  \/ sbLoader' = [sbLoader EXCEPT !.pc = "decrypted"]
  BY <1>3
<1>5. /\ DOMAIN sbLoader' = DOMAIN NoLoader /\ sbLoader'.pc \in Decrypting
      /\ sbLoader'.system = "normal" /\ sbLoader'.rescue = sbLoader.rescue
      /\ sbLoader'.fragment \in Nat /\ sbLoader'.fragment > 0
      /\ \/ sbLoader'.next = next - Fragment /\ sbLoader'.done
         \/ sbLoader'.next = next /\ sbLoader'.done = sbLoader.done /\ ~Progress
  <2>1. CASE Progress
    BY <1>0, <1>1, <1>2, <2>1 DEF Progress, Shapes, Decrypting
  <2>2. CASE ~Progress
    <3>1. \/ sbLoader' = [sbLoader EXCEPT !.skip = TRUE, !.fragment = 1]
          \/ sbLoader' = [sbLoader EXCEPT !.pc = "decrypted"]
      BY <1>4, <2>2
    <3> HIDE DEF next
    <3>2. CASE sbLoader' = [sbLoader EXCEPT !.skip = TRUE, !.fragment = 1]
      BY <1>0, <1>1, <2>2, <3>2 DEF Shapes, Decrypting, next
    <3>3. CASE sbLoader' = [sbLoader EXCEPT !.pc = "decrypted"]
      BY <1>0, <1>1, <2>2, <3>3 DEF Shapes, Decrypting, next
    <3> QED
      BY <3>1, <3>2, <3>3
  <2> QED
    BY <2>1, <2>2
<1>6. /\ DOMAIN sbDisk' = DiskSectors
      /\ \A x \in DiskSectors :
            sbDisk'[x] = IF x \in FragmentStart..(FragmentStart + written - 1)
                         THEN Decrypt(sbDisk[x], "normal", x) ELSE sbDisk[x]
  BY <1>4 DEF Decrypted
<1>7. sbLoader'.next \in 0..SystemSectors
  BY <1>0, <1>1, <1>2, <1>5
<1>8. Shapes'
  BY <1>0, <1>1, <1>5, <1>6, <1>7 DEF Shapes
<1>9. LoaderInv' /\ PhaseInv'
  BY <1>0, <1>1, <1>5 DEF LoaderInv, PhaseInv, Running, Copying, Decrypting
<1>10. AreaLength' = sbLoader'.next
  BY <1>5 DEF AreaLength, Decrypting
<1>11. ASSUME NEW x \in Active \ sbDamaged'
       PROVE  sbDisk'[x] = NormalSector(sbWritten["normal"][x], x, sbLoader'.next)
  <2>1. x \in Active \ sbDamaged /\ x \in Nat
    BY <1>4
  <2>2. sbDisk[x] = NormalSector(sbWritten["normal"][x], x, next)
    BY <1>1, <2>1 DEF BInv, NormalInv
  <2>3. CASE x \in FragmentStart..(FragmentStart + Fragment - 1)
    <3>1. Progress /\ written = Fragment
      BY <1>4, <2>3
    <3>2. x < ActiveStart + next /\ ~(x < ActiveStart + (next - Fragment))
      BY <1>1, <1>2, <2>1, <2>3
    <3>3. sbDisk[x] = [data |-> sbWritten["normal"][x], key |-> "normal", unit |-> x]
      BY <2>2, <3>2 DEF NormalSector
    <3>4. sbDisk'[x] = Plain(sbWritten["normal"][x])
      BY <1>6, <2>1, <2>3, <3>1, <3>3, EncryptPlain
    <3> QED
      BY <1>5, <3>1, <3>2, <3>4 DEF NormalSector
  <2>4. CASE x \notin FragmentStart..(FragmentStart + Fragment - 1)
    <3>1. x \notin FragmentStart..(FragmentStart + written - 1)
      BY <1>1, <1>2, <2>1, <2>4
    <3>2. sbDisk'[x] = sbDisk[x]
      BY <1>6, <2>1, <3>1
    <3>3. x < ActiveStart + next <=> x < ActiveStart + (next - Fragment)
      BY <1>1, <1>2, <2>1, <2>4
    <3> QED
      BY <1>5, <2>2, <3>2, <3>3 DEF NormalSector
  <2> QED
    BY <2>3, <2>4
<1>12. NormalInv'
  BY <1>1, <1>10, <1>11 DEF NormalInv
<1>13. \A i \in Relative : sbDisk'[HiddenStart + i] = sbDisk[HiddenStart + i]
  <2>1. \A i \in Relative : HiddenStart + i \notin FragmentStart..(FragmentStart + written - 1)
    BY <1>0, <1>1, <1>2 DEF SectorsAssumed
  <2> QED
    BY <1>6, <2>1
<1>14. HiddenInv' /\ CopyInv'
  BY <1>1, <1>5, <1>13 DEF BInv, HiddenInv, HiddenKept, CopyInv, Decrypting
<1> QED
  BY <1>8, <1>9, <1>12, <1>14 DEF BInv

LEMMA BootStep == ASSUME SectorsAssumed PROVE BInv /\ [Next]_sbVars => BInv'
<1> SUFFICES ASSUME BInv, [Next]_sbVars PROVE BInv'
  OBVIOUS
<1>1. CASE Next
  BY <1>1, ControlStep, DriverStep, BiosStep, SetupStep, CopyStep, DecryptStep DEF Next
<1>2. CASE UNCHANGED sbVars
  <2>1. /\ AreaLength' = AreaLength /\ HiddenKept' = HiddenKept
        /\ \A w : QueueOf(w)' = QueueOf(w)
        /\ \A w : EncryptedVirtualPartition(w)' = EncryptedVirtualPartition(w)
    BY <1>2 DEF sbVars, AreaLength, HiddenKept, QueueOf, EncryptedVirtualPartition
  <2>2. Shapes' /\ LoaderInv' /\ PhaseInv'
    BY <1>2, <2>1 DEF sbVars, BInv, Shapes, LoaderInv, PhaseInv
  <2>3. NormalInv' /\ HiddenInv' /\ CopyInv'
    BY <1>2, <2>1 DEF sbVars, BInv, NormalInv, HiddenInv, CopyInv
  <2> QED
    BY <2>2, <2>3 DEF BInv
<1> QED
  BY <1>1, <1>2

\* The boot loader and the driver read what is at these places, under these keys and units.
LEMMA BootAgrees == ASSUME SectorsAssumed, BInv PROVE PathsAgree
<1> USE Places
<1>0. Shapes /\ SystemSectors \in Nat /\ HiddenOffset \in Nat
  BY DEF BInv, SectorsAssumed
<1>1. AreaLength \in Nat
  BY <1>0 DEF Shapes, AreaLength
<1> DEFINE evp(w) == IF w = "hidden" THEN [start |-> ActiveStart, length |-> SystemSectors]
                     ELSE [start |-> ActiveStart, length |-> AreaLength]
           queue(w) == IF w = "hidden" THEN QueueOf(w)
                       ELSE [QueueOf(w) EXCEPT !.length = AreaLength]
<1>2. ASSUME NEW s \in Active \ sbDamaged, Bootable("normal")
      PROVE  /\ BootRead(sbDisk, "normal", evp("normal"), s) = Plain(sbWritten["normal"][s])
             /\ QueueRead(sbDisk, "normal", queue("normal"), s) = Plain(sbWritten["normal"][s])
  <2>1. sbDisk[s] = NormalSector(sbWritten["normal"][s], s, AreaLength) /\ s \in Nat
    BY DEF BInv, NormalInv
  <2>2. /\ evp("normal") = [start |-> ActiveStart, length |-> AreaLength]
        /\ queue("normal") = [start |-> ActiveStart, length |-> AreaLength, remapped |-> FALSE,
                              offset |-> 0, unit |-> 0]
    BY DEF QueueOf
  <2> HIDE DEF evp, queue
  <2>3. /\ In(s, evp("normal")) <=> s < ActiveStart + AreaLength
        /\ In(s, queue("normal")) <=> s < ActiveStart + AreaLength
    BY <1>1, <2>1, <2>2 DEF In, Active
  <2>4. Location(queue("normal"), s) = s /\ DataUnit(queue("normal"), s) = s
    BY <2>1, <2>2 DEF Location, DataUnit
  <2> QED
    BY <2>1, <2>3, <2>4, EncryptPlain DEF BootRead, QueueRead, NormalSector
<1>3. ASSUME NEW s \in Active, Bootable("hidden")
      PROVE  /\ BootRead(sbDisk, "hidden", evp("hidden"), s) = Plain(sbWritten["hidden"][s])
             /\ QueueRead(sbDisk, "hidden", queue("hidden"), s) = Plain(sbWritten["hidden"][s])
  <2>1. HiddenKept
    BY <1>3 DEF Bootable, HiddenKept, BInv, LoaderInv
  <2> DEFINE i == s - ActiveStart
  <2>2. i \in Relative /\ ActiveStart + i = s /\ HiddenStart + i = i + HiddenStart
        /\ i + HiddenOffset = s - ActiveStart + HiddenOffset
    BY <1>0
  <2>3. sbDisk[HiddenStart + i] = HiddenSector(sbWritten["hidden"][s], i)
    BY <2>1, <2>2 DEF BInv, HiddenInv
  <2>4. /\ evp("hidden") = [start |-> ActiveStart, length |-> SystemSectors]
        /\ queue("hidden") = [start |-> ActiveStart, length |-> SystemSectors, remapped |-> TRUE,
                              offset |-> FollowingStart + HiddenOffset - ActiveStart,
                              unit |-> HiddenOffset - ActiveStart]
    BY DEF QueueOf
  <2> HIDE DEF evp, queue
  <2>5. In(s, evp("hidden")) /\ In(s, queue("hidden"))
    BY <1>0, <2>4 DEF In, Active, ActiveEnd
  <2>6. /\ Location(queue("hidden"), s) = HiddenStart + i
        /\ DataUnit(queue("hidden"), s) = i + HiddenOffset
        /\ s - evp("hidden").start + HiddenStart = HiddenStart + i
        /\ s - evp("hidden").start + HiddenOffset = i + HiddenOffset
    BY <1>0, <2>4, <2>5 DEF Location, DataUnit
  <2> HIDE DEF i
  <2> QED
    BY <2>3, <2>5, <2>6, EncryptPlain DEF BootRead, QueueRead, HiddenSector
<1> QED
  BY <1>2, <1>3 DEF PathsAgree, Systems

(* Whatever path a system has written a sector of its partition by, or been moved, encrypted or
   decrypted by, the boot loader and the driver read it back: they agree on place, key and data
   unit (ReadWriteSectors, MountDrive, DumpFilterWrite, HiberDriverWriteFunctionFilter,
   CopySystemPartitionToHiddenVolume, DecryptDrive). *)
THEOREM AllPathsAgree ==
    ASSUME SectorsAssumed
    PROVE  Init /\ [][Next]_sbVars => []PathsAgree
<1>1. BInv => PathsAgree
  BY BootAgrees
<1>2. Init => BInv
  BY BootInit
<1> QED
  BY <1>1, <1>2, BootStep, PTL
=============================================================================
