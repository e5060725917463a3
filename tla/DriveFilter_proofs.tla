-------------------------- MODULE DriveFilter_proofs --------------------------
(* Theorems about the setup of the system drive and the wiping of the decoy
   system, for any partition, block size and number of wipe passes, and any
   number of failures and crashes; and, at the end, one about the loading of the
   driver that the filter is a part of. *)
EXTENDS DriveFilter, FiniteSetTheorems, TLAPS

-----------------------------------------------------------------------------
(* The keys. Two flags are read by one thread and written by another: the root
   mutex orders the uses of the keys and their closing, unless the thread that
   holds it waits for the setup thread; the status SetupInProgress orders the
   reopening of the header and its saving. *)

\* The records have their fields.
Shapes ==
    /\ DOMAIN drive = DOMAIN Unmounted
    /\ DOMAIN setup = DOMAIN NoThread
    /\ DOMAIN wipe = DOMAIN NoWipe
    /\ DOMAIN status = DOMAIN Reset
    /\ DOMAIN control = DOMAIN Idle

MutexInv ==
    /\ control.pc # "idle" <=> rootMutex = "control"
    /\ setup.abort => control.pc = "join" /\ control.request \in {"encrypt", "decrypt", "abort"}
    /\ setup.pc = "dismount" /\ ~setup.abort => rootMutex = "setup"

KeysInv ==
    /\ control.pc = "use" => drive.mounted
    /\ control.request = "reopen" => ~status.SetupInProgress
    /\ setup.pc \notin {"none", "done"} => status.SetupInProgress
    /\ setup.pc \notin {"none", "done", "start", "ret"} => drive.headerKeys

KInv == Shapes /\ MutexInv /\ KeysInv

LEMMA KeysInit == Init => KInv
  BY DEF Init, KInv, Shapes, MutexInv, KeysInv, Unmounted, NoThread, NoWipe, Reset, Idle

LEMMA KeysSetupThread == KInv /\ SetupThreadProc => KInv'
<1> SUFFICES ASSUME KInv, SetupThreadProc PROVE KInv'
  OBVIOUS
<1> USE DEF KInv, Shapes, MutexInv, KeysInv, Unmounted, NoThread, NoWipe, Reset, Idle,
            SetupGo, SetupFrame, Quiet
<1>1. CASE SetupStart
  BY <1>1 DEF SetupStart
<1>2. CASE SetupHold
  BY <1>2 DEF SetupHold
<1>3. CASE SetupMode
  BY ZenonT(60), <1>3 DEF SetupMode
<1>4. CASE SetupLoop
  BY ZenonT(60), <1>4 DEF SetupLoop
<1>5. CASE SetupRead
  BY ZenonT(60), <1>5 DEF SetupRead
<1>6. CASE SetupWipePass
  BY <1>6 DEF SetupWipePass
<1>7. CASE SetupWriteBegin
  BY <1>7 DEF SetupWriteBegin
<1>8. CASE SetupWriteEnd
  BY <1>8 DEF SetupWriteEnd
<1>9. CASE SetupUndo
  BY <1>9 DEF SetupUndo
<1>10. CASE SetupAdvance
  BY <1>10 DEF SetupAdvance
<1>11. CASE SetupSave
  BY <1>11 DEF SetupSave, SaveDriveVolumeHeader, FailedSave
<1>12. CASE SetupEnd
  BY <1>12 DEF SetupEnd
<1>13. CASE SetupDecrypted
  BY <1>13 DEF SetupDecrypted
<1>14. CASE SetupSaveLast
  BY <1>14 DEF SetupSaveLast, SaveDriveVolumeHeader, FailedSave
<1>15. CASE SetupPoll
  BY <1>15 DEF SetupPoll
<1>16. CASE SetupDismount
  BY <1>16 DEF SetupDismount
<1>17. CASE SetupReturn
  BY <1>17 DEF SetupReturn
<1> QED
  BY <1>1, <1>2, <1>3, <1>4, <1>5, <1>6, <1>7, <1>8, <1>9, <1>10, <1>11, <1>12, <1>13,
     <1>14, <1>15, <1>16, <1>17 DEF SetupThreadProc

LEMMA KeysWipeThread == KInv /\ DecoySystemWipeThreadProc => KInv'
<1> SUFFICES ASSUME KInv, DecoySystemWipeThreadProc PROVE KInv'
  OBVIOUS
<1> USE DEF KInv, Shapes, MutexInv, KeysInv, NoWipe, Reset, WipeGo, WipeFrame
<1>1. CASE WipeStart
  BY <1>1 DEF WipeStart
<1>2. CASE WipeLoop
  BY <1>2 DEF WipeLoop
<1>3. CASE WipeHold
  BY <1>3 DEF WipeHold
<1>4. CASE WipeWrite
  BY <1>4 DEF WipeWrite
<1>5. CASE WipeReport
  BY <1>5 DEF WipeReport
<1>6. CASE WipeEnd
  BY <1>6 DEF WipeEnd
<1>7. CASE WipeReturn
  BY <1>7 DEF WipeReturn
<1> QED
  BY <1>1, <1>2, <1>3, <1>4, <1>5, <1>6, <1>7 DEF DecoySystemWipeThreadProc

LEMMA KeysDeviceControl == KInv /\ (ControlBegin \/ DeviceControl) => KInv'
<1> SUFFICES ASSUME KInv, ControlBegin \/ DeviceControl PROVE KInv'
  OBVIOUS
<1> USE DEF KInv, Shapes, MutexInv, KeysInv, Unmounted, NoThread, NoWipe, Reset, Idle,
            ControlFrame, Finish
<1>1. CASE ControlBegin
  BY <1>1 DEF ControlBegin
<1>2. CASE ControlRefuse
  BY <1>2 DEF ControlRefuse
<1>3. CASE ControlAbort
  BY <1>3 DEF ControlAbort
<1>4. CASE ControlJoin
  BY <1>4 DEF ControlJoin
<1>5. CASE StartBootEncryptionSetup
  BY <1>5 DEF StartBootEncryptionSetup
<1>6. CASE StartDecoySystemWipe
  BY <1>6 DEF StartDecoySystemWipe
<1>7. CASE ControlCheck
  BY <1>7 DEF ControlCheck
<1>8. CASE ControlUse
  BY <1>8 DEF ControlUse
<1> QED
  BY <1>1, <1>2, <1>3, <1>4, <1>5, <1>6, <1>7, <1>8 DEF DeviceControl

LEMMA KeysStep == KInv /\ [Next]_vars => KInv'
<1> SUFFICES ASSUME KInv, [Next]_vars PROVE KInv'
  OBVIOUS
<1>1. CASE MountDrive
  BY <1>1 DEF MountDrive, KInv, Shapes, MutexInv, KeysInv, Unmounted
<1>2. CASE Crash
  BY <1>2 DEF Crash, KInv, Shapes, MutexInv, KeysInv, Unmounted, NoThread, NoWipe, Reset, Idle
<1>3. CASE UNCHANGED vars
  BY <1>3 DEF vars, KInv, Shapes, MutexInv, KeysInv
<1> QED
  BY <1>1, <1>2, <1>3, KeysSetupThread, KeysWipeThread, KeysDeviceControl DEF Next

(* A request of the device control, and the saving of the header, use keys that are open,
   although the setup thread closes the first when all is decrypted and a failed reopening of
   the header the second (SetupThreadProc, ReopenBootVolumeHeader). *)
THEOREM KeysOpen == Spec => []KeysOpenWhenUsed
<1>1. KInv => KeysOpenWhenUsed
  BY DEF KInv, KeysInv, KeysOpenWhenUsed
<1> QED
  BY KeysInit, KeysStep, <1>1, PTL DEF Spec

-----------------------------------------------------------------------------
(* The wipe. Below its offset all passes are made, above it none, and over the block between
   them one less than the pass under way. Only a hidden system is wiped for, whose drive
   nothing is set up on meanwhile, so that the ends of the area stay where they are. *)
Position(s) == s * SectorBytes

LEMMA PartitionFacts ==
    /\ ConfStart \in Nat /\ ConfEnd \in Int /\ ConfStart <= ConfEnd + 1
    /\ \A s \in Sectors : Position(s) \in Nat
<1> DEFINE first == Min(Sectors)
           last == Max(Sectors)
<1>1. PICK a \in Sectors, b \in Sectors : Sectors = a..b
  BY SetupAssumption DEF SetupAssumption
<1>2. a \in Nat /\ b \in Nat /\ Sectors \subseteq Nat /\ SectorBytes \in Nat
  BY <1>1, SetupAssumption DEF SetupAssumption
<1>3. first \in Sectors /\ \A s \in Sectors : first <= s
  BY <1>1, <1>2 DEF Min
<1>4. last \in Sectors /\ \A s \in Sectors : last >= s
  BY SMTT(30), <1>1, <1>2 DEF Max
<1> HIDE DEF first, last
<1>5. first \in Nat /\ last \in Nat /\ first <= last + 1
  <2>1. first \in Nat /\ last \in Nat /\ first <= last
    BY <1>2, <1>3, <1>4
  <2> QED
    BY <2>1
<1>6. PICK d \in Nat : last + 1 = first + d
  <2>1. last + 1 - first \in Nat
    BY <1>5
  <2> QED
    BY <2>1, <1>5
<1>7. SectorBytes * (last + 1) = SectorBytes * first + SectorBytes * d
  <2>1. \A x, y, z \in Int : x * (y + z) = x * y + x * z
    OBVIOUS
  <2> QED
    BY <2>1, <1>2, <1>5, <1>6
<1>8. /\ SectorBytes * first \in Nat /\ SectorBytes * d \in Nat
      /\ \A s \in Sectors : s * SectorBytes \in Nat
  BY <1>2, <1>5
<1> QED
  BY <1>7, <1>8, <1>5 DEF ConfStart, ConfEnd, first, last, Position

\* The smaller of two numbers.
LEMMA MinOfTwo ==
    ASSUME NEW m \in Int, NEW n \in Int
    PROVE  /\ Min({m, n}) \in Int
           /\ Min({m, n}) = m \/ Min({m, n}) = n
           /\ Min({m, n}) <= m /\ Min({m, n}) <= n
<1>1. \E x \in {m, n} : \A y \in {m, n} : x <= y
  OBVIOUS
<1> QED
  BY <1>1 DEF Min

Wiping == wipe.pc \in {"loop", "hold", "write", "report"}
Block == IF wipe.pc = "loop" THEN {} ELSE WipeSectors

WipeTypes ==
    /\ passes \in [Sectors -> Nat] /\ status.WipedAreaEnd \in Int
    /\ wipe.offset \in Int /\ wipe.size \in Nat /\ wipe.pass \in Nat

AreaFixed ==
    /\ drive.hidden => setup.pc = "none"
    /\ drive.hidden /\ drive.mounted => drive.confStart = ConfStart /\ drive.confEnd = ConfEnd
    /\ wipe.pc \notin {"none", "done"} => drive.hidden /\ drive.mounted

PassesMade ==
    /\ wipe.pc = "start" =>
          status.WipedAreaEnd = ConfStart /\ \A s \in Sectors : passes[s] = 0
    /\ Wiping =>
          /\ wipe.offset <= ConfEnd + 1
          /\ status.WipedAreaEnd = ConfStart \/ status.WipedAreaEnd < wipe.offset
          /\ \A s \in Sectors :
                /\ ConfStart <= Position(s) /\ Position(s) < wipe.offset => passes[s] = WipePasses
                /\ wipe.offset <= Position(s) /\ s \notin Block => passes[s] = 0
    /\ wipe.pc \in {"hold", "write", "report"} => wipe.offset + wipe.size <= ConfEnd + 1
    /\ wipe.pc \in {"hold", "write"} => \A s \in WipeSectors : passes[s] = wipe.pass - 1
    /\ wipe.pc = "report" => \A s \in WipeSectors : passes[s] = WipePasses

ReportedInv ==
    status.WipedAreaEnd > ConfStart =>
        \A s \in Sectors :
            ConfStart <= Position(s) /\ Position(s) <= status.WipedAreaEnd => passes[s] = WipePasses

WInv == WipeTypes /\ AreaFixed /\ PassesMade /\ ReportedInv

LEMMA WipeInit == Init => WInv
<1> SUFFICES ASSUME Init PROVE WInv
  OBVIOUS
<1>1. WipeTypes /\ AreaFixed
  BY DEF Init, WipeTypes, AreaFixed, Unmounted, NoThread, NoWipe, Reset
<1>2. PassesMade
  BY DEF Init, PassesMade, Wiping, NoWipe
<1>3. ReportedInv
  BY PartitionFacts DEF Init, ReportedInv, Reset
<1> QED
  BY <1>1, <1>2, <1>3 DEF WInv

\* The setup thread exists on the drive of a system that is not hidden.
LEMMA WipeSetupThread == KInv /\ WInv /\ SetupThreadProc => WInv'
<1> SUFFICES ASSUME KInv, WInv, SetupThreadProc PROVE WInv'
  OBVIOUS
<1> USE DEF KInv, Shapes, Unmounted, NoThread, Reset, SetupGo, SetupFrame, Quiet
<1> DEFINE Other == /\ setup.pc # "none" /\ UNCHANGED <<passes, wipe>>
                    /\ drive'.hidden = drive.hidden
                    /\ status'.WipedAreaEnd = status.WipedAreaEnd
<1>1. CASE SetupStart \/ SetupHold \/ SetupMode \/ SetupLoop
  <2>1. Other
    BY <1>1 DEF SetupStart, SetupHold, SetupMode, SetupLoop
  <2> QED
    BY <2>1 DEF WInv, WipeTypes, AreaFixed, PassesMade, ReportedInv, Wiping
<1>2. CASE SetupRead \/ SetupWipePass \/ SetupWriteBegin \/ SetupWriteEnd \/ SetupUndo
  <2>1. Other
    BY <1>2 DEF SetupRead, SetupWipePass, SetupWriteBegin, SetupWriteEnd, SetupUndo
  <2> QED
    BY <2>1 DEF WInv, WipeTypes, AreaFixed, PassesMade, ReportedInv, Wiping
<1>3. CASE SetupAdvance \/ SetupSave \/ SetupEnd \/ SetupDecrypted \/ SetupSaveLast
  <2>1. Other
    BY <1>3 DEF SetupAdvance, SetupSave, SetupEnd, SetupDecrypted, SetupSaveLast,
                SaveDriveVolumeHeader, FailedSave
  <2> QED
    BY <2>1 DEF WInv, WipeTypes, AreaFixed, PassesMade, ReportedInv, Wiping
<1>4. CASE SetupPoll \/ SetupDismount \/ SetupReturn
  <2>1. Other
    BY <1>4 DEF SetupPoll, SetupDismount, SetupReturn
  <2> QED
    BY <2>1 DEF WInv, WipeTypes, AreaFixed, PassesMade, ReportedInv, Wiping
<1> QED
  BY <1>1, <1>2, <1>3, <1>4 DEF SetupThreadProc

LEMMA SectorsOfBlock ==
    ASSUME NEW offset, NEW size
    PROVE  SectorsOf(offset, size) =
               {s \in Sectors : offset <= Position(s) /\ Position(s) < offset + size}
  BY DEF SectorsOf, Position

LEMMA WipeWipeThread == KInv /\ WInv /\ DecoySystemWipeThreadProc => WInv'
<1> SUFFICES ASSUME KInv, WInv, DecoySystemWipeThreadProc PROVE WInv'
  OBVIOUS
<1>0. /\ DOMAIN wipe = {"pc", "abort", "offset", "size", "pass"}
      /\ DOMAIN status = {"SetupInProgress", "SetupResult", "WipeInProgress", "WipedAreaEnd"}
  BY DEF KInv, Shapes, NoWipe, Reset
<1>d. \A s \in Sectors : Position(s) \in Nat
  BY PartitionFacts
<1> USE <1>0, <1>d DEF WInv, WipeTypes, AreaFixed, WipeGo, WipeFrame
<1>1. CASE WipeStart
  <2>1. wipe.pc = "start" /\ UNCHANGED <<drive, setup, passes, status>>
    BY <1>1 DEF WipeStart
  <2>2. CASE wipe' = [wipe EXCEPT !.pc = "loop", !.offset = drive.confStart]
    <3>1. wipe'.pc = "loop" /\ wipe'.offset = ConfStart /\ wipe'.size = wipe.size
          /\ wipe'.pass = wipe.pass
      BY <2>1, <2>2
    <3>2. PassesMade'
      BY <2>1, <3>1, PartitionFacts DEF PassesMade, Wiping, Block
    <3> QED
      BY <2>1, <3>1, <3>2, PartitionFacts DEF ReportedInv
  <2>3. CASE wipe' = [wipe EXCEPT !.pc = "ret"]
    BY <2>1, <2>3 DEF PassesMade, Wiping, ReportedInv
  <2> QED
    BY <1>1, <2>2, <2>3 DEF WipeStart
<1>2. CASE WipeLoop
  <2> DEFINE size == Min({wipe.size, drive.confEnd + 1 - wipe.offset})
  <2>1. wipe.pc = "loop" /\ UNCHANGED <<drive, setup, passes, status>>
    BY <1>2 DEF WipeLoop
  <2>2. CASE wipe' = [wipe EXCEPT !.pc = "end"]
    BY <2>1, <2>2 DEF PassesMade, Wiping, ReportedInv
  <2>3. CASE size # 0 /\ wipe' = [wipe EXCEPT !.size = size, !.pass = 1, !.pc = "hold"]
    <3>1. drive.confEnd = ConfEnd /\ wipe.offset <= ConfEnd + 1
      BY <2>1 DEF PassesMade, Wiping
    <3>2. size \in Nat /\ wipe.offset + size <= ConfEnd + 1
      <4>1. /\ wipe.size \in Int /\ ConfEnd + 1 - wipe.offset \in Nat
            /\ size = Min({wipe.size, ConfEnd + 1 - wipe.offset})
        BY <3>1, PartitionFacts
      <4>2. size \in Nat /\ size <= ConfEnd + 1 - wipe.offset
        <5> HIDE DEF size
        <5>1. PICK m \in Int, n \in Int : /\ m = wipe.size /\ n = ConfEnd + 1 - wipe.offset
                                         /\ m >= 0 /\ n >= 0
          BY <4>1
        <5>2. Min({m, n}) \in Int /\ (Min({m, n}) = m \/ Min({m, n}) = n) /\ Min({m, n}) <= n
          BY MinOfTwo, Zenon
        <5>3. size = Min({m, n})
          BY <4>1, <5>1
        <5> QED
          BY <5>1, <5>2, <5>3
      <4> HIDE DEF size
      <4> QED
        BY <4>2, PartitionFacts
    <3> HIDE DEF size
    <3>3. wipe'.pc = "hold" /\ wipe'.offset = wipe.offset /\ wipe'.size = size /\ wipe'.pass = 1
      BY <2>3
    <3>4. WipeSectors' = SectorsOf(wipe.offset, size)
      BY <3>3 DEF WipeSectors, SectorsOf
    <3>5. PassesMade'
      BY <2>1, <3>2, <3>3, <3>4, SectorsOfBlock DEF PassesMade, Wiping, Block
    <3> QED
      BY <2>1, <3>2, <3>3, <3>5 DEF ReportedInv
  <2> QED
    BY <1>2, <2>2, <2>3 DEF WipeLoop
<1>3. CASE WipeHold
  <2>1. wipe.pc = "hold" /\ UNCHANGED <<drive, setup, passes, status>>
    BY <1>3 DEF WipeHold
  <2>2. CASE wipe' = [wipe EXCEPT !.pc = "write"]
    BY <2>1, <2>2 DEF PassesMade, Wiping, Block, WipeSectors, SectorsOf, ReportedInv
  <2>3. CASE wipe' = [wipe EXCEPT !.pc = "end"]
    BY <2>1, <2>3 DEF PassesMade, Wiping, ReportedInv
  <2> QED
    BY <1>3, <2>2, <2>3 DEF WipeHold
<1>4. CASE WipeWrite
  <2>1. wipe.pc = "write" /\ UNCHANGED <<drive, setup, status>>
    BY <1>4 DEF WipeWrite
  <2>2. CASE UNCHANGED passes /\ wipe' = [wipe EXCEPT !.pc = "end"]
    BY <2>1, <2>2 DEF PassesMade, Wiping, ReportedInv
  <2>3. CASE /\ passes' = [s \in Sectors |->
                    passes[s] + IF s \in WipeSectors /\ passes[s] = wipe.pass - 1 THEN 1 ELSE 0]
             /\ wipe' = [wipe EXCEPT !.pass = @ + 1,
                             !.pc = IF wipe.pass = WipePasses THEN "report" ELSE "hold"]
    <3>1. /\ wipe'.offset = wipe.offset /\ wipe'.size = wipe.size /\ wipe'.pass = wipe.pass + 1
          /\ wipe'.pc = IF wipe.pass = WipePasses THEN "report" ELSE "hold"
      BY <2>3
    <3>2. WipeSectors' = WipeSectors
      BY <3>1 DEF WipeSectors, SectorsOf
    <3>3. /\ passes' \in [Sectors -> Nat]
          /\ \A s \in WipeSectors : passes'[s] = wipe.pass
          /\ \A s \in Sectors \ WipeSectors : passes'[s] = passes[s]
      <4>1. WipeSectors \subseteq Sectors
        BY DEF WipeSectors, SectorsOf
      <4> QED
        BY <2>1, <2>3, <4>1 DEF PassesMade
    <3>4. \A s \in WipeSectors : wipe.offset <= Position(s)
      BY SectorsOfBlock DEF WipeSectors
    <3>5. PassesMade'
      BY <2>1, <3>1, <3>2, <3>3, <3>4 DEF PassesMade, Wiping, Block
    <3>6. ReportedInv'
      <4>1. \A s \in WipeSectors : status.WipedAreaEnd = ConfStart \/ status.WipedAreaEnd < Position(s)
        <5>1. WipeSectors \subseteq Sectors
          BY DEF WipeSectors, SectorsOf
        <5> QED
          BY <2>1, <3>4, <5>1 DEF PassesMade, Wiping
      <4> QED
        BY <2>1, <3>3, <4>1, PartitionFacts DEF ReportedInv
    <3> QED
      BY <2>1, <3>1, <3>3, <3>5, <3>6
  <2> QED
    BY <1>4, <2>2, <2>3 DEF WipeWrite
<1>5. CASE WipeReport
  <2>1. /\ wipe.pc = "report" /\ UNCHANGED <<drive, setup, passes>>
        /\ wipe'.offset = wipe.offset + wipe.size /\ wipe'.size = wipe.size
        /\ wipe'.pc = "loop" /\ wipe'.pass = wipe.pass
        /\ status'.WipedAreaEnd = wipe.offset + wipe.size - 1
    BY <1>5 DEF WipeReport
  <2>2. \A s \in Sectors : ConfStart <= Position(s) /\ Position(s) < wipe'.offset =>
            passes[s] = WipePasses
    BY <2>1, SectorsOfBlock, PartitionFacts DEF PassesMade, Wiping, WipeSectors
  <2>3. \A s \in Sectors : wipe'.offset <= Position(s) => passes[s] = 0
    BY <2>1, SectorsOfBlock DEF PassesMade, Wiping, Block, WipeSectors
  <2>4. PassesMade'
    BY <2>1, <2>2, <2>3 DEF PassesMade, Wiping, Block
  <2>5. ReportedInv'
    BY <2>1, <2>2 DEF ReportedInv
  <2> QED
    BY <2>1, <2>4, <2>5
<1>6. CASE WipeEnd
  BY <1>6 DEF WipeEnd, PassesMade, Wiping, ReportedInv
<1>7. CASE WipeReturn
  BY <1>7 DEF WipeReturn, NoWipe, PassesMade, Wiping, ReportedInv
<1> QED
  BY <1>1, <1>2, <1>3, <1>4, <1>5, <1>6, <1>7 DEF DecoySystemWipeThreadProc

LEMMA WipeDeviceControl == KInv /\ WInv /\ (ControlBegin \/ DeviceControl) => WInv'
<1> SUFFICES ASSUME KInv, WInv, ControlBegin \/ DeviceControl PROVE WInv'
  OBVIOUS
<1> USE DEF KInv, Shapes, Unmounted, NoThread, NoWipe, Reset, Idle, ControlFrame, Finish
<1>1. CASE ControlBegin \/ ControlRefuse \/ ControlCheck
  BY <1>1 DEF ControlBegin, ControlRefuse, ControlCheck,
              WInv, WipeTypes, AreaFixed, PassesMade, ReportedInv, Wiping, Block, WipeSectors,
              SectorsOf
<1>2. CASE ControlAbort
  BY <1>2 DEF ControlAbort, WInv, WipeTypes, AreaFixed, PassesMade, ReportedInv, Wiping, Block,
              WipeSectors, SectorsOf
<1>3. CASE ControlJoin
  BY <1>3 DEF ControlJoin, WInv, WipeTypes, AreaFixed, PassesMade, ReportedInv, Wiping, Block,
              WipeSectors, SectorsOf
<1>4. CASE StartBootEncryptionSetup
  BY <1>4 DEF StartBootEncryptionSetup, CannotStart, WInv, WipeTypes, AreaFixed, PassesMade,
              ReportedInv, Wiping, Block, WipeSectors, SectorsOf
<1>5. CASE StartDecoySystemWipe
  <2>1. /\ drive.mounted /\ drive.hidden /\ UNCHANGED <<drive, setup>>
        /\ passes' = [s \in Sectors |-> 0] /\ status'.WipedAreaEnd = ConfStart
        /\ wipe'.pc \in {"none", "start"} /\ wipe'.offset \in Int
        /\ wipe'.size \in Nat /\ wipe'.pass \in Nat
    <3>1. /\ drive.mounted /\ drive.hidden /\ wipe.pc = "none"
          /\ drive.confStart = ConfStart
      BY <1>5 DEF StartDecoySystemWipe, CannotStart, WInv, AreaFixed
    <3>2. UNCHANGED <<drive, setup>> /\ passes' = [s \in Sectors |-> 0]
      BY <1>5 DEF StartDecoySystemWipe
    <3>3. status'.WipedAreaEnd = ConfStart
      BY <1>5, <3>1 DEF StartDecoySystemWipe
    <3>4. /\ wipe'.pc \in {"none", "start"} /\ wipe'.offset \in Int
          /\ wipe'.size \in Nat /\ wipe'.pass \in Nat
      <4>1. BlockSize \in Nat
        BY SetupAssumption DEF SetupAssumption
      <4>2. CASE wipe' = wipe
        BY <3>1, <4>2 DEF WInv, WipeTypes
      <4>3. CASE wipe' = [NoWipe EXCEPT !.pc = "start", !.size = BlockSize]
        BY <4>1, <4>3
      <4> QED
        BY <1>5, <4>2, <4>3 DEF StartDecoySystemWipe
    <3> QED
      BY <3>1, <3>2, <3>3, <3>4
  <2>2. WipeTypes'
    BY <2>1, PartitionFacts DEF WipeTypes
  <2>3. AreaFixed'
    BY <2>1 DEF WInv, AreaFixed
  <2>4. PassesMade'
    BY <2>1 DEF PassesMade, Wiping
  <2>5. ReportedInv'
    BY <2>1, PartitionFacts DEF ReportedInv
  <2> QED
    BY <2>2, <2>3, <2>4, <2>5 DEF WInv
<1>6. CASE ControlUse
  BY <1>6 DEF ControlUse, WInv, WipeTypes, AreaFixed, PassesMade, ReportedInv, Wiping, Block,
              WipeSectors, SectorsOf
<1> QED
  BY <1>1, <1>2, <1>3, <1>4, <1>5, <1>6 DEF DeviceControl

LEMMA WipeStep == KInv /\ WInv /\ [Next]_vars => WInv'
<1> SUFFICES ASSUME KInv, WInv, [Next]_vars PROVE WInv'
  OBVIOUS
<1>1. CASE MountDrive
  <2>1. /\ ~drive.mounted /\ UNCHANGED <<passes, wipe, status, setup>>
        /\ drive'.hidden = drive.hidden /\ drive'.mounted /\ drive'.confStart = ConfStart
        /\ drive'.confEnd = ConfEnd
    BY <1>1 DEF MountDrive, KInv, Shapes, Unmounted
  <2>2. wipe.pc \in {"none", "done"}
    BY <2>1 DEF WInv, AreaFixed
  <2> QED
    BY <2>1, <2>2 DEF WInv, WipeTypes, AreaFixed, PassesMade, ReportedInv, Wiping
<1>2. CASE Crash
  BY <1>2, PartitionFacts DEF Crash, KInv, Shapes, Unmounted, NoThread, NoWipe, Reset, WInv,
         WipeTypes, AreaFixed, PassesMade, ReportedInv, Wiping
<1>3. CASE UNCHANGED vars
  BY <1>3 DEF vars, WInv, WipeTypes, AreaFixed, PassesMade, ReportedInv, Wiping, Block,
              WipeSectors, SectorsOf
<1> QED
  BY <1>1, <1>2, <1>3, WipeSetupThread, WipeWipeThread, WipeDeviceControl DEF Next

(* What the wizard takes for wiped has been overwritten as often as was asked for, however the
   wipe was aborted, failed or was started again (DecoySystemWipeThreadProc). *)
THEOREM WipeComplete == Spec => []WipeReported
<1>1. WInv => WipeReported
  <2> SUFFICES ASSUME WInv, status.WipedAreaEnd > ConfStart,
                      NEW s \in SectorsOf(ConfStart, status.WipedAreaEnd + 1 - ConfStart)
               PROVE  passes[s] = WipePasses
    BY DEF WipeReported
  <2>1. s \in Sectors /\ ConfStart <= Position(s)
        /\ Position(s) < ConfStart + (status.WipedAreaEnd + 1 - ConfStart)
    BY SectorsOfBlock
  <2>2. Position(s) <= status.WipedAreaEnd
    BY <2>1, PartitionFacts DEF WInv, WipeTypes
  <2> QED
    BY <2>1, <2>2 DEF WInv, ReportedInv
<1> QED
  BY KeysInit, KeysStep, WipeInit, WipeStep, <1>1, PTL DEF Spec
-----------------------------------------------------------------------------
(* The setup. The area the driver uses and the area the header records differ by what has been
   handled since the header was last saved, and the block under way comes on top of that. This
   holds where saving the header does not fail (HeadersSaved): the periodic save drops its
   status (SetupSave), and what the header then lacks has no bound. *)
HeadersSaved == "header" \notin FaultyOperations

\* The end of the area in use, and of the one in the header.
Reached == IF drive.start = -1 \/ drive.end = -1 THEN ConfStart ELSE drive.end + 1
Recorded == ConfStart + header.length

Aligned(position) == position % SectorBytes = 0
Encrypting == setup.mode = "encryption"

Buffered == {"wipe", "write", "writing", "undo"}
Handling == Buffered \cup {"read", "advance"}
InBlock == Handling \cup {"hold"}
Between == {"loop", "save"}
Looping == InBlock \cup Between

\* Where the area and the block under way are.
AreaPlaced ==
    /\ drive.start \in {-1, ConfStart} /\ drive.end \in Int
    /\ drive.start = -1 => drive.end = -1
    /\ Reached \in ConfStart..ConfEnd + 1 /\ Aligned(Reached)
    /\ header \in [present : BOOLEAN, length : Nat] /\ Recorded <= ConfEnd + 1 /\ Aligned(Recorded)
    /\ drive.mounted =>
          \/ drive.confStart = ConfStart /\ drive.confEnd = ConfEnd
          \/ /\ drive.confEnd = -1 /\ drive.start = -1 /\ ~Encrypting
             /\ setup.headerUpdateRequired /\ setup.pc \in {"saveLast", "poll", "dismount"}
    /\ setup.pc \in {"poll", "dismount"} => drive.confEnd = -1
    /\ setup.pc \notin {"none", "ret", "done"} => drive.mounted

BlockPlaced ==
    /\ setup.mode \in {"encryption", "decryption"}
    /\ setup.offset \in Int /\ setup.size \in Nat /\ Aligned(setup.size) /\ setup.bytes \in Nat
    /\ setup.headerUpdateRequired \in BOOLEAN
    /\ setup.size <= BlockSize
    /\ setup.pc \in {"start", "holdFirst", "mode"} =>
          setup.size = BlockSize /\ setup.bytes = 0
    /\ setup.headerUpdateRequired =>
          setup.pc \in Looping \cup {"abort", "err", "holdLast", "saveLast", "poll", "dismount", "ret"}
    /\ setup.pc \in Looping => drive.start = ConfStart
    /\ setup.pc \in Between => setup.offset = Reached
    /\ setup.pc \in InBlock =>
          /\ setup.size > 0
          /\ IF Encrypting
             THEN setup.offset = Reached /\ setup.offset + setup.size <= ConfEnd + 1
             ELSE setup.offset + setup.size = Reached /\ ConfStart <= setup.offset
    /\ setup.pc \in Handling => held

PlaceInv == AreaPlaced /\ BlockPlaced

\* Whole blocks have been handled since the last save, but for the last block of all, which
\* may be short.
LastBlock ==
    IF Encrypting
      THEN setup.offset + (IF setup.pc \in InBlock THEN setup.size ELSE 0) = ConfEnd + 1
      ELSE setup.offset = ConfStart
BytesInv ==
    /\ setup.pc \in Looping =>
          \/ /\ setup.size = BlockSize /\ setup.bytes % BlockSize = 0
             /\ setup.pc # "save" => setup.bytes < HeaderThreshold
          \/ LastBlock
    /\ setup.pc \in InBlock => setup.bytes + setup.size <= Lag
    /\ setup.pc \in Looping \cup {"abort", "err"} =>
          /\ setup.bytes <= Lag
          /\ Reached = IF Encrypting THEN Recorded + setup.bytes ELSE Recorded - setup.bytes

\* What the header lacks, and when it lacks nothing.
RecordInv ==
    /\ header.present \/ header.length = 0
    /\ drive.mounted =>
          \/ header.present
          \/ /\ ~Encrypting /\ Reached = ConfStart
             /\ setup.pc \in {"loop", "abort", "holdLast", "saveLast", "poll", "dismount"}
    /\ drive.mounted /\ (~setup.headerUpdateRequired \/ setup.pc \in {"poll", "dismount", "ret"}) =>
          Recorded = Reached
    /\ Encrypting \/ setup.pc \notin Looping \cup {"abort", "err", "holdLast"} =>
          drive.end = -1 \/ drive.end > ConfStart
    /\ setup.headerUpdateRequired /\ Encrypting => Reached > ConfStart
    /\ setup.pc = "save" => setup.headerUpdateRequired
    /\ setup.pc = "holdLast" => ~Encrypting /\ Reached = ConfStart
    /\ setup.pc = "saveLast" /\ ~Encrypting => Reached > ConfStart \/ drive.confEnd = -1
    /\ setup.pc \in {"holdLast", "saveLast"} =>
          IF Encrypting THEN Recorded <= Reached /\ Reached <= Recorded + Lag
                        ELSE Reached <= Recorded /\ Recorded <= Reached + Lag

\* The sectors that are not as the area says; of those of a block under way, the ones that
\* will not be when it is written.
Area == IF drive.mounted THEN Reached ELSE Recorded
Wanted(s) ==
    IF setup.pc \in Buffered \cup {"advance"} /\ s \in BlockSectors
      THEN IF Encrypting THEN 1 ELSE 0
      ELSE IF Position(s) < Area THEN 1 ELSE 0
Content(s) == IF setup.pc \in Buffered /\ s \in BlockSectors THEN setup.buffer[s] ELSE sector[s]
Bad == {s \in Sectors : Content(s) # Wanted(s)}

\* A failed write is charged for when undoing it fails.
Charged == IF setup.pc = "undo" THEN failures - 1 ELSE failures
Allowed(c, f) == c * Lag + (f \div 2) * BlockSize

DamageInv ==
    /\ failures \in Nat /\ crashes \in Nat
    /\ setup.pc = "undo" => failures > 0
    /\ sector \in [Sectors -> Int]
    /\ setup.pc \in Buffered => setup.buffer \in [BlockSectors -> Int]
    /\ SectorBytes * Cardinality(Bad) <= Allowed(crashes, Charged)

SetupSound == PlaceInv /\ BytesInv /\ RecordInv /\ DamageInv
LossInv == ~drive.hidden => SetupSound

-----------------------------------------------------------------------------
\* Multiples of a number, without division.
LEMMA Multiples ==
    ASSUME NEW n \in Nat, n > 0, NEW x \in Int
    PROVE  /\ x % n = 0 => \E k \in Int : x = n * k
           /\ \A k \in Int : x = n * k => x % n = 0
<1>1. x = n * (x \div n) + (x % n) /\ x \div n \in Int /\ x % n \in 0..n - 1
  OBVIOUS
<1>2. ASSUME NEW k \in Int, x = n * k PROVE x % n = 0
  <2> DEFINE d == k - (x \div n)
             r == x % n
  <2>1. d \in Int /\ r \in 0..n - 1
    BY <1>1
  <2>2. n * k = n * (x \div n) + n * d
    <3>1. \A a, b \in Int : n * a = n * b + n * (a - b)
      OBVIOUS
    <3> QED
      BY <3>1, <1>1
  <2>3. n * d = r
    <3>1. n * d \in Int /\ n * k \in Int /\ n * (x \div n) \in Int
      BY <1>1, <2>1
    <3> HIDE DEF d
    <3> QED
      BY <1>1, <1>2, <2>2, <3>1
  <2> HIDE DEF d, r
  <2>4. d = 0 \/ d >= 1 \/ d <= -1
    BY <2>1
  <2>5. d >= 1 => n * d >= n
    BY <2>1
  <2>6. d <= -1 => n * d <= -n
    BY <2>1
  <2>7. r = 0
    BY <2>1, <2>3, <2>4, <2>5, <2>6
  <2> QED
    BY <2>7 DEF r
<1> QED
  BY <1>1, <1>2

LEMMA SizeFacts ==
    /\ SectorBytes \in Nat /\ SectorBytes > 1
    /\ BlockSize \in Nat /\ BlockSize > 0 /\ Aligned(BlockSize)
    /\ HeaderThreshold \in Nat /\ HeaderThreshold > 0
  BY SetupAssumption DEF SetupAssumption, Aligned

LEMMA AlignedMultiple ==
    ASSUME NEW x \in Int
    PROVE  /\ Aligned(x) => \E k \in Int : x = SectorBytes * k
           /\ \A k \in Int : x = SectorBytes * k => Aligned(x)
<1>1. SectorBytes \in Nat /\ SectorBytes > 0
  BY SizeFacts
<1>2. Aligned(x) <=> x % SectorBytes = 0
  BY DEF Aligned
<1> QED
  BY <1>1, <1>2, Multiples, Zenon

\* Two aligned positions differ by a sector at least.
LEMMA AlignedFacts ==
    /\ Aligned(0) /\ Aligned(ConfStart) /\ Aligned(ConfEnd + 1)
    /\ \A x, y \in Int : Aligned(x) /\ Aligned(y) =>
          Aligned(x + y) /\ Aligned(x - y) /\ (x < y => x + 1 < y)
<1>1. ASSUME NEW x \in Int, NEW y \in Int, Aligned(x), Aligned(y)
      PROVE  Aligned(x + y) /\ Aligned(x - y)
  <2>1. PICK a \in Int : x = SectorBytes * a
    BY <1>1, AlignedMultiple
  <2>2. PICK b \in Int : y = SectorBytes * b
    BY <1>1, AlignedMultiple
  <2>3. x + y = SectorBytes * (a + b) /\ x - y = SectorBytes * (a - b)
    BY <2>1, <2>2, SizeFacts
  <2>4. a + b \in Int /\ a - b \in Int /\ x + y \in Int /\ x - y \in Int
    OBVIOUS
  <2> QED
    BY <2>3, <2>4, AlignedMultiple
<1>2. ASSUME NEW x \in Int, NEW y \in Int, Aligned(x), Aligned(y), x < y PROVE x + 1 < y
  <2>1. PICK a \in Int : x = SectorBytes * a
    BY <1>2, AlignedMultiple
  <2>2. PICK b \in Int : y = SectorBytes * b
    BY <1>2, AlignedMultiple
  <2>3. a < b
    BY <2>1, <2>2, <1>2, SizeFacts
  <2>4. PICK d \in Nat : b = a + 1 + d
    <3>1. b - a - 1 \in Nat
      BY <2>3
    <3> QED
      BY <3>1
  <2>5. SectorBytes * b = SectorBytes * a + SectorBytes + SectorBytes * d
    <3>1. \A u, v, w \in Int : u * (v + 1 + w) = u * v + u + u * w
      OBVIOUS
    <3> QED
      BY <3>1, <2>4, SizeFacts
  <2>6. SectorBytes * d \in Nat
    BY SizeFacts
  <2> QED
    BY <2>1, <2>2, <2>5, <2>6, SizeFacts
<1>3. Aligned(0)
  BY SizeFacts, AlignedMultiple
<1>4. PICK a, b \in Nat : ConfStart = SectorBytes * a /\ ConfEnd = SectorBytes * b - 1
  <2>1. PICK f \in Sectors, l \in Sectors : Sectors = f..l /\ f \in Nat /\ l \in Nat
    BY SetupAssumption DEF SetupAssumption
  <2>2. Min(Sectors) \in Sectors
    BY <2>1 DEF Min
  <2>3. Max(Sectors) \in Sectors
    BY SMTT(30), <2>1 DEF Max
  <2>4. Min(Sectors) \in Nat /\ Max(Sectors) + 1 \in Nat
    BY <2>1, <2>2, <2>3
  <2> QED
    BY <2>4 DEF ConfStart, ConfEnd
<1>5. SectorBytes * a \in Int /\ SectorBytes * b \in Int
  BY SizeFacts
<1>6. Aligned(ConfStart) /\ Aligned(ConfEnd + 1)
  <2>1. ConfStart \in Int /\ ConfEnd + 1 \in Int /\ ConfEnd + 1 = SectorBytes * b
    BY <1>4, <1>5
  <2> QED
    BY <2>1, <1>4, AlignedMultiple
<1> QED
  BY <1>1, <1>2, <1>3, <1>6

\* Each sector is inside the partition.
LEMMA SectorsInside ==
    /\ \A s \in Sectors : Position(s) \in Nat /\ ConfStart <= Position(s) /\ Position(s) <= ConfEnd
    /\ ConfStart < ConfEnd
<1>1. PICK f \in Sectors, l \in Sectors : Sectors = f..l /\ f \in Nat /\ l \in Nat
  BY SetupAssumption DEF SetupAssumption
<1>2. Min(Sectors) \in Sectors /\ \A s \in Sectors : Min(Sectors) <= s
  BY <1>1 DEF Min
<1>3. Max(Sectors) \in Sectors /\ \A s \in Sectors : s <= Max(Sectors)
  <2>1. l \in Sectors /\ \A s \in Sectors : l >= s
    BY <1>1
  <2>2. Max(Sectors) \in Sectors /\ \A s \in Sectors : Max(Sectors) >= s
    BY <2>1, Zenon DEF Max
  <2> QED
    BY <2>2, <1>1
<1>4. \A x, y \in Nat : x <= y =>
          SectorBytes * x <= SectorBytes * y /\ SectorBytes * (y + 1) = SectorBytes * y + SectorBytes
  <2> SUFFICES ASSUME NEW x \in Nat, NEW y \in Nat, x <= y
               PROVE  /\ SectorBytes * x <= SectorBytes * y
                      /\ SectorBytes * (y + 1) = SectorBytes * y + SectorBytes
    OBVIOUS
  <2>1. PICK d \in Nat : y = x + d
    <3>1. y - x \in Nat
      OBVIOUS
    <3> QED
      BY <3>1
  <2>2. SectorBytes * y = SectorBytes * x + SectorBytes * d /\ SectorBytes * d \in Nat
    BY <2>1, SizeFacts
  <2>3. SectorBytes * x \in Nat
    BY SizeFacts
  <2>4. \A u, v \in Int : u * (v + 1) = u * v + u
    OBVIOUS
  <2> QED
    BY <2>2, <2>3, <2>4, SizeFacts
<1>5. \A s \in Sectors : Position(s) = SectorBytes * s /\ s \in Nat
  BY <1>1, SizeFacts DEF Position
<1>6. PICK lo, hi \in Nat : lo = Min(Sectors) /\ hi = Max(Sectors) /\ lo <= hi
                           /\ \A s \in Sectors : lo <= s /\ s <= hi
  BY <1>1, <1>2, <1>3
<1>7. ConfStart = SectorBytes * lo /\ ConfEnd = SectorBytes * hi + SectorBytes - 1
  <2>1. SectorBytes * (hi + 1) = SectorBytes * hi + SectorBytes
    BY <1>4, <1>6
  <2>2. ConfStart = SectorBytes * lo /\ ConfEnd = SectorBytes * (hi + 1) - 1
    BY <1>6 DEF ConfStart, ConfEnd
  <2>3. SectorBytes * hi \in Nat /\ SectorBytes * (hi + 1) \in Nat
    BY <1>6, SizeFacts
  <2> QED
    BY <2>1, <2>2, <2>3, SizeFacts
<1>8. \A x \in Nat : SectorBytes * x \in Nat
  BY SizeFacts
<1>9. ConfStart < ConfEnd
  BY <1>4, <1>6, <1>7, <1>8, SizeFacts
<1>10. ASSUME NEW s \in Sectors
       PROVE Position(s) \in Nat /\ ConfStart <= Position(s) /\ Position(s) <= ConfEnd
  <2>1. SectorBytes * lo <= SectorBytes * s /\ SectorBytes * s <= SectorBytes * hi
    BY <1>4, <1>5, <1>6
  <2> QED
    BY <2>1, <1>5, <1>6, <1>7, <1>8, SizeFacts
<1> QED
  BY <1>9, <1>10

\* Whole blocks that stay below the threshold leave room for another one.
LEMMA LagFacts ==
    /\ Lag \in Nat /\ BlockSize <= Lag /\ Aligned(Lag) /\ 0 % BlockSize = 0
    /\ \A x \in Nat : x % BlockSize = 0 => (x + BlockSize) % BlockSize = 0
    /\ \A x \in Nat : x % BlockSize = 0 /\ x < HeaderThreshold => x + BlockSize <= Lag
<1> DEFINE t == HeaderThreshold + BlockSize - 1
           q == t \div BlockSize
           r == t % BlockSize
<1>1. t \in Nat /\ t = BlockSize * q + r /\ q \in Int /\ r \in 0..BlockSize - 1
  BY SizeFacts
<1>2. Lag = BlockSize * q
  <2>1. Lag = q * BlockSize
    BY DEF Lag
  <2> HIDE DEF q
  <2> QED
    BY <2>1, <1>1, SizeFacts
<1> HIDE DEF q, r
<1>3. BlockSize * q \in Int /\ BlockSize * q >= HeaderThreshold
  BY <1>1, SizeFacts
<1>4. ASSUME NEW x \in Nat, x % BlockSize = 0, x < HeaderThreshold PROVE x + BlockSize <= Lag
  <2>1. PICK k \in Int : x = BlockSize * k
    BY <1>4, SizeFacts, Multiples
  <2>2. k < q
    BY <1>1, <1>3, <1>4, <2>1, SizeFacts
  <2>3. PICK d \in Nat : q = k + 1 + d
    <3>1. q - k - 1 \in Nat
      BY <2>2, <1>1
    <3> QED
      BY <3>1, <1>1
  <2>4. BlockSize * q = BlockSize * k + BlockSize + BlockSize * d /\ BlockSize * d \in Nat
    <3>1. \A u, v, w \in Int : u * (v + 1 + w) = u * v + u + u * w
      OBVIOUS
    <3> QED
      BY <3>1, <2>3, SizeFacts
  <2>5. BlockSize * k \in Int
    BY SizeFacts
  <2> QED
    BY <1>2, <2>1, <2>4, <2>5, SizeFacts
<1>5. 0 % BlockSize = 0 /\ BlockSize % BlockSize = 0
  BY SizeFacts, Multiples
<1>6. ASSUME NEW x \in Nat, x % BlockSize = 0 PROVE (x + BlockSize) % BlockSize = 0
  <2>1. PICK k \in Int : x = BlockSize * k
    BY <1>6, SizeFacts, Multiples
  <2>2. x + BlockSize = BlockSize * (k + 1) /\ k + 1 \in Int /\ x + BlockSize \in Int
    BY <2>1, SizeFacts
  <2> QED
    BY <2>2, SizeFacts, Multiples
<1>7. 0 + BlockSize <= Lag
  BY <1>4, <1>5, SizeFacts
<1>8. Aligned(Lag)
  <2>1. PICK k \in Int : BlockSize = SectorBytes * k
    BY SizeFacts, AlignedMultiple
  <2>2. \A u, v, w \in Int : (u * v) * w = u * (v * w)
    OBVIOUS
  <2>3. BlockSize * q = SectorBytes * (k * q) /\ k * q \in Int
    BY <2>1, <2>2, <1>1, SizeFacts
  <2> QED
    BY <2>3, <1>2, <1>3, AlignedMultiple
<1> QED
  BY <1>2, <1>3, <1>4, <1>5, <1>6, <1>7, <1>8, SizeFacts

\* How many sectors begin in a stretch of the disk.
LEMMA StretchSize ==
    ASSUME NEW p \in Int, NEW n \in Nat, Aligned(n)
    PROVE  LET S == {s \in Sectors : p <= Position(s) /\ Position(s) < p + n}
           IN  IsFiniteSet(S) /\ SectorBytes * Cardinality(S) <= n
<1> DEFINE S == {s \in Sectors : p <= Position(s) /\ Position(s) < p + n}
           f == p \div SectorBytes
           r == p % SectorBytes
           first == IF r = 0 THEN f ELSE f + 1
<1>1. PICK k \in Int : n = SectorBytes * k
  BY AlignedMultiple
<1>2. k \in Nat
  <2>1. k < 0 => SectorBytes * k < 0
    BY SizeFacts
  <2> QED
    BY <1>1, <2>1
<1>3. p = SectorBytes * f + r /\ f \in Int /\ r \in 0..SectorBytes - 1
  BY SizeFacts
<1> HIDE DEF f, r
<1>4. ASSUME NEW s \in S PROVE s \in first..first + k - 1
  <2>1. s \in Nat /\ Position(s) = SectorBytes * s /\ p <= Position(s) /\ Position(s) < p + n
    BY SetupAssumption, SizeFacts DEF SetupAssumption, Position
  <2> DEFINE d == s - f
             e == s - f - k
  <2>2. \A u, v, w, x \in Int : u * v = u * w + u * (v - w) /\ u * v = u * w + u * x + u * (v - w - x)
    OBVIOUS
  <2>3. SectorBytes * s = SectorBytes * f + SectorBytes * d
        /\ SectorBytes * s = SectorBytes * f + SectorBytes * k + SectorBytes * e
        /\ d \in Int /\ e \in Int
    BY <2>1, <2>2, <1>2, <1>3, SizeFacts
  <2>4. SectorBytes * f \in Int /\ SectorBytes * k \in Int /\ SectorBytes * d \in Int
        /\ SectorBytes * e \in Int
    BY <2>3, <1>2, <1>3, SizeFacts
  <2>5. (d < 0 => SectorBytes * d <= -SectorBytes) /\ (d = 0 => SectorBytes * d = 0)
        /\ (e >= 1 => SectorBytes * e >= SectorBytes) /\ (e = 0 => SectorBytes * e = 0)
    <3> HIDE DEF d, e
    <3> QED
      BY <2>3, SizeFacts
  <2>6. r <= SectorBytes * d /\ SectorBytes * e < r
    <3> HIDE DEF d, e
    <3> QED
      BY <2>1, <2>3, <2>4, <1>1, <1>3, SizeFacts
  <2>7. d >= 0 /\ (r # 0 => d >= 1) /\ e <= 0 /\ (r = 0 => e < 0)
    <3> HIDE DEF d, e
    <3> QED
      BY <2>3, <2>4, <2>5, <2>6, <1>3, SizeFacts
  <2> QED
    BY <2>7, <2>1, <1>2, <1>3
<1>5. first \in Int /\ first + k - 1 \in Int
  BY <1>2, <1>3
<1> HIDE DEF first
<1>6. IsFiniteSet(first..first + k - 1) /\ Cardinality(first..first + k - 1) = k
  BY <1>2, <1>5, FS_Interval
<1>7. S \subseteq first..first + k - 1
  BY <1>4
<1> HIDE DEF S
<1>8. IsFiniteSet(S) /\ Cardinality(S) <= k /\ Cardinality(S) \in Nat
  BY <1>6, <1>7, FS_Subset, FS_CardinalityType
<1>9. PICK d \in Nat : k = Cardinality(S) + d
  <2>1. k - Cardinality(S) \in Nat
    BY <1>2, <1>8
  <2> QED
    BY <2>1, <1>2, <1>8
<1>10. SectorBytes * k = SectorBytes * Cardinality(S) + SectorBytes * d /\ SectorBytes * d \in Nat
       /\ SectorBytes * Cardinality(S) \in Nat
  BY <1>8, <1>9, SizeFacts
<1>11. SectorBytes * Cardinality(S) <= n
  BY <1>1, <1>10
<1> QED
  BY <1>8, <1>11 DEF S

\* One set of sectors exceeds another by what lies in a stretch.
LEMMA StretchAdds ==
    ASSUME NEW A \in SUBSET Sectors, NEW B \in SUBSET Sectors,
           NEW p \in Int, NEW n \in Nat, Aligned(n),
           \A s \in A : s \in B \/ (p <= Position(s) /\ Position(s) < p + n)
    PROVE  SectorBytes * Cardinality(A) <= SectorBytes * Cardinality(B) + n
<1> DEFINE S == {s \in Sectors : p <= Position(s) /\ Position(s) < p + n}
<1>1. IsFiniteSet(S) /\ SectorBytes * Cardinality(S) <= n
  BY StretchSize
<1>2. IsFiniteSet(Sectors)
  BY SetupAssumption, FS_Interval DEF SetupAssumption
<1>3. IsFiniteSet(B)
  BY <1>2, FS_Subset
<1>4. A \subseteq B \cup S
  OBVIOUS
<1> HIDE DEF S
<1>5. IsFiniteSet(B \cup S) /\ Cardinality(B \cup S) = Cardinality(B) + Cardinality(S) - Cardinality(B \cap S)
  BY <1>1, <1>3, FS_Union
<1>6. Cardinality(A) <= Cardinality(B \cup S)
  BY <1>4, <1>5, FS_Subset
<1>7. Cardinality(B \cap S) \in Nat /\ Cardinality(A) \in Nat /\ Cardinality(B) \in Nat
      /\ Cardinality(S) \in Nat
  BY <1>1, <1>2, <1>3, FS_Subset, FS_CardinalityType
<1>8. PICK a, b, c \in Nat : a = Cardinality(A) /\ b = Cardinality(B) /\ c = Cardinality(S)
                            /\ a <= b + c
  BY <1>5, <1>6, <1>7
<1>9. PICK d \in Nat : b + c = a + d
  <2>1. b + c - a \in Nat
    BY <1>8
  <2> QED
    BY <2>1
<1>10. SectorBytes * b + SectorBytes * c = SectorBytes * a + SectorBytes * d
  <2>1. SectorBytes * (b + c) = SectorBytes * (a + d)
    BY <1>9
  <2> QED
    BY <2>1, SizeFacts
<1>11. SectorBytes * a \in Nat /\ SectorBytes * b \in Nat /\ SectorBytes * c \in Nat
       /\ SectorBytes * d \in Nat
  BY SizeFacts
<1> QED
  BY <1>1, <1>8, <1>10, <1>11

LEMMA Numbers ==
    /\ ConfStart \in Nat /\ ConfEnd \in Nat /\ ConfStart < ConfEnd
    /\ Lag \in Nat /\ BlockSize \in Nat /\ BlockSize > 0 /\ BlockSize <= Lag
    /\ HeaderThreshold \in Nat /\ HeaderThreshold > 0
  BY PartitionFacts, SectorsInside, SizeFacts, LagFacts

\* Each power failure is allowed a stretch, and each second failure a block.
LEMMA AllowedFacts ==
    ASSUME NEW c \in Nat, NEW f \in Nat
    PROVE  /\ Allowed(c, f) \in Nat /\ Allowed(c, f) <= Allowed(c, f + 1)
           /\ Allowed(c, f + 2) = Allowed(c, f) + BlockSize
           /\ Allowed(c + 1, f) = Allowed(c, f) + Lag
<1> DEFINE h == f \div 2
<1>1. /\ h \in Nat /\ (f + 1) \div 2 \in {h, h + 1} /\ (f + 2) \div 2 = h + 1
  OBVIOUS
<1> HIDE DEF h
<1>2. /\ h * BlockSize \in Nat /\ (h + 1) * BlockSize = h * BlockSize + BlockSize
      /\ c * Lag \in Nat /\ (c + 1) * Lag = c * Lag + Lag
  BY <1>1, Numbers
<1>3. /\ Allowed(c, f) = c * Lag + h * BlockSize
      /\ Allowed(c, f + 2) = c * Lag + (h + 1) * BlockSize
      /\ Allowed(c + 1, f) = (c + 1) * Lag + h * BlockSize
      /\ Allowed(c, f + 1) \in {c * Lag + h * BlockSize, c * Lag + (h + 1) * BlockSize}
  BY <1>1 DEF Allowed, h
<1> QED
  BY <1>2, <1>3, Numbers

LEMMA Fewer ==
    ASSUME NEW A \in SUBSET Sectors, NEW B \in SUBSET Sectors, A \subseteq B
    PROVE  SectorBytes * Cardinality(A) <= SectorBytes * Cardinality(B)
<1>1. SectorBytes * Cardinality(A) <= SectorBytes * Cardinality(B) + 0
  <2>1. 0 \in Nat /\ 0 \in Int /\ Aligned(0)
    BY AlignedFacts
  <2> QED
    BY <2>1, StretchAdds
<1>2. IsFiniteSet(Sectors)
  BY SetupAssumption, FS_Interval DEF SetupAssumption
<1>3. Cardinality(B) \in Nat
  BY <1>2, FS_Subset, FS_CardinalityType
<1>4. SectorBytes * Cardinality(B) \in Nat
  BY <1>3, SizeFacts
<1> QED
  BY <1>1, <1>4

\* The damage, as a number.
LEMMA BadNumber ==
    ASSUME NEW A \in SUBSET Sectors
    PROVE  SectorBytes * Cardinality(A) \in Nat
<1>1. IsFiniteSet(Sectors)
  BY SetupAssumption, FS_Interval DEF SetupAssumption
<1>2. Cardinality(A) \in Nat
  BY <1>1, FS_Subset, FS_CardinalityType
<1> QED
  BY <1>2, SizeFacts

\* No new damage: the bound holds on.
LEMMA DamageFewer ==
    ASSUME DamageInv, crashes' = crashes, failures' \in Nat, Bad' \subseteq Bad,
           setup'.pc = "undo" => failures' > 0,
           Charged \in Nat, Charged' = Charged \/ Charged' = Charged + 1,
           sector' \in [Sectors -> Int],
           setup'.pc \in Buffered => setup'.buffer \in [BlockSectors' -> Int]
    PROVE  DamageInv'
<1>1. Bad \in SUBSET Sectors /\ Bad' \in SUBSET Sectors
  BY DEF Bad
<1>2. SectorBytes * Cardinality(Bad') <= SectorBytes * Cardinality(Bad)
  BY <1>1, Fewer
<1>3. SectorBytes * Cardinality(Bad') \in Nat /\ SectorBytes * Cardinality(Bad) \in Nat
  BY <1>1, BadNumber
<1>4. crashes \in Nat /\ SectorBytes * Cardinality(Bad) <= Allowed(crashes, Charged)
  BY DEF DamageInv
<1>5. Allowed(crashes, Charged) \in Nat /\ Allowed(crashes, Charged + 1) \in Nat
      /\ Allowed(crashes, Charged) <= Allowed(crashes, Charged + 1)
  <2>1. PICK c \in Nat, f \in Nat : c = crashes /\ f = Charged
    BY <1>4
  <2>2. f + 1 \in Nat
    OBVIOUS
  <2>3. Allowed(c, f) \in Nat /\ Allowed(c, f) <= Allowed(c, f + 1) /\ Allowed(c, f + 1) \in Nat
    BY <2>2, AllowedFacts
  <2> QED
    BY <2>1, <2>3
<1>6. SectorBytes * Cardinality(Bad') <= Allowed(crashes', Charged')
  BY <1>2, <1>3, <1>4, <1>5
<1> QED
  BY <1>4, <1>6 DEF DamageInv

\* Steps that handle no block.
LEMMA DamageOutside ==
    ASSUME DamageInv, crashes' = crashes, failures' = failures \/ failures' = failures + 1,
           setup.pc \notin Buffered \cup {"advance"}, setup'.pc \notin Buffered \cup {"advance"},
           Area' = Area, sector' = sector
    PROVE  DamageInv'
<1>1. \A s \in Sectors : Content(s)' = Content(s) /\ Wanted(s)' = Wanted(s)
  BY DEF Content, Wanted, Buffered
<1>2. Bad' \subseteq Bad
  BY <1>1 DEF Bad
<1>3. Charged = failures /\ Charged' = failures' /\ failures \in Nat
  BY DEF Charged, Buffered, DamageInv
<1>4. sector' \in [Sectors -> Int] /\ failures' \in Nat /\ setup'.pc # "undo"
  BY <1>3 DEF DamageInv, Buffered
<1> QED
  BY <1>2, <1>3, <1>4, DamageFewer

\* Steps that write on the block whose new contents are in the buffer.
LEMMA DamageInside ==
    ASSUME DamageInv, crashes' = crashes, setup.pc \in Buffered \ {"undo"}, setup'.pc \in Buffered,
           failures' = IF setup'.pc = "undo" THEN failures + 1 ELSE failures,
           Area' = Area, setup'.buffer = setup.buffer, setup'.mode = setup.mode,
           BlockSectors' = BlockSectors, sector' \in [Sectors -> Int],
           \A s \in Sectors \ BlockSectors : sector'[s] = sector[s]
    PROVE  DamageInv'
<1>1. \A s \in Sectors : Content(s)' = Content(s)
  BY DEF Content
<1>2. \A s \in Sectors : Wanted(s)' = Wanted(s)
  BY DEF Wanted, Encrypting
<1>3. Bad' \subseteq Bad
  BY <1>1, <1>2 DEF Bad
<1>4. Charged = failures /\ Charged' = failures /\ failures \in Nat
  BY DEF Charged, DamageInv
<1>5. failures' \in Nat /\ (setup'.pc = "undo" => failures' > 0)
      /\ setup'.buffer \in [BlockSectors' -> Int]
  BY <1>4 DEF DamageInv
<1> QED
  BY <1>3, <1>4, <1>5, DamageFewer

-----------------------------------------------------------------------------
\* An area is empty for the code exactly if nothing is reached, as positions are aligned.
LEMMA EmptyArea ==
    ASSUME AreaPlaced
    PROVE  AreaIsEmpty <=> Reached = ConfStart
<1>1. Reached \in Int /\ ConfStart \in Int /\ Aligned(Reached) /\ Aligned(ConfStart)
      /\ ConfStart <= Reached
  BY Numbers, AlignedFacts DEF AreaPlaced
<1>2. Reached # ConfStart + 1
  <2>1. ConfStart < Reached => ConfStart + 1 < Reached
    BY <1>1, AlignedFacts
  <2> QED
    BY <1>1, <2>1
<1> QED
  BY <1>1, <1>2, Numbers DEF AreaPlaced, AreaIsEmpty, Reached

LEMMA LossInit == Init => LossInv
<1> SUFFICES ASSUME Init, ~drive.hidden PROVE SetupSound
  BY DEF LossInv
<1>1. /\ ~drive.mounted /\ drive.start = -1 /\ drive.end = -1
      /\ header.present /\ header.length = 0 /\ header \in [present : BOOLEAN, length : Nat]
      /\ setup = NoThread /\ failures = 0 /\ crashes = 0 /\ sector = [s \in Sectors |-> 0]
  <2>1. PICK system \in Systems :
            /\ drive = [Unmounted EXCEPT !.hidden = system = "hidden"]
            /\ header = [present |-> TRUE,
                         length |-> IF system = "hidden" THEN ConfEnd + 1 - ConfStart ELSE 0]
    BY DEF Init
  <2>2. drive.hidden <=> system = "hidden"
    BY <2>1, Zenon DEF Unmounted
  <2>3. header.present /\ header.length = 0 /\ header \in [present : BOOLEAN, length : Nat]
    BY <2>1, <2>2
  <2>4. ~drive.mounted /\ drive.start = -1 /\ drive.end = -1
    BY <2>1 DEF Unmounted
  <2> QED
    BY <2>3, <2>4 DEF Init
<1>2. Reached = ConfStart /\ Recorded = ConfStart /\ Area = ConfStart
  BY <1>1, Numbers DEF Reached, Recorded, Area
<1>3. PlaceInv
  <2>1. Aligned(ConfStart) /\ Aligned(0)
    BY AlignedFacts
  <2>2. AreaPlaced
    BY <1>1, <1>2, <2>1, Numbers DEF AreaPlaced, NoThread
  <2>3. BlockPlaced
    BY <1>1, <2>1, Numbers
       DEF BlockPlaced, NoThread, Looping, InBlock, Between, Handling, Buffered
  <2> QED
    BY <2>2, <2>3 DEF PlaceInv
<1>4. BytesInv /\ RecordInv
  BY <1>1, <1>2, Numbers
     DEF BytesInv, RecordInv, NoThread, Encrypting, Looping, InBlock, Between, Handling, Buffered
<1>5. DamageInv
  <2>1. \A s \in Sectors : Content(s) = 0 /\ Wanted(s) = 0
    BY <1>1, <1>2, SectorsInside, Numbers DEF Content, Wanted, NoThread, Buffered
  <2>2. Bad = {}
    BY <2>1 DEF Bad
  <2>3. Charged = 0
    BY <1>1 DEF Charged, NoThread
  <2>4. SectorBytes * Cardinality(Bad) = 0
    BY <2>2, FS_EmptySet, SizeFacts
  <2>5. Allowed(0, 0) \in Nat
    BY AllowedFacts
  <2> QED
    BY <1>1, <2>3, <2>4, <2>5 DEF DamageInv, NoThread, Buffered
<1> QED
  BY <1>3, <1>4, <1>5 DEF SetupSound

-----------------------------------------------------------------------------
(* The steps of the setup thread: those that leave the area, the header and the block alone,
   those that handle a block, and those that move the area or save the header. *)
BlockSame ==
    /\ setup'.mode = setup.mode /\ setup'.size = setup.size /\ setup'.offset = setup.offset
    /\ setup'.bytes = setup.bytes /\ setup'.headerUpdateRequired = setup.headerUpdateRequired

\* Start, waiting for the queue, a failed read, closing of the keys.
LEMMA LossWait ==
    KInv /\ SetupSound /\ (SetupStart \/ SetupHold \/ SetupPoll) => SetupSound'
<1> SUFFICES ASSUME KInv, SetupSound, SetupStart \/ SetupHold \/ SetupPoll PROVE SetupSound'
  OBVIOUS
<1> USE DEF Looping, InBlock, Between, Handling, Buffered
<1>1. /\ UNCHANGED <<drive, header, sector, failures, crashes>> /\ BlockSame
      /\ \/ setup.pc = "start" /\ setup'.pc \in {"holdFirst", "ret"} /\ held' = held
         \/ setup.pc = "holdFirst" /\ setup'.pc \in {"mode", "abort"}
         \/ setup.pc = "hold" /\ setup'.pc = "read" /\ held'
         \/ setup.pc = "hold" /\ setup'.pc = "abort"
         \/ setup.pc = "poll" /\ setup'.pc = "dismount" /\ held' = held
  BY DEF SetupStart, SetupHold, SetupPoll, SetupFrame, Quiet, SetupGo, KInv, Shapes, NoThread,
         BlockSame
<1>2. AreaPlaced /\ BlockPlaced /\ BytesInv /\ RecordInv /\ DamageInv
  BY DEF SetupSound, PlaceInv
<1>3. Reached' = Reached /\ Recorded' = Recorded /\ Area' = Area /\ Encrypting' = Encrypting
  BY <1>1 DEF Reached, Recorded, Area, Encrypting, BlockSame
<1>4. AreaPlaced'
  BY <1>1, <1>2, <1>3 DEF AreaPlaced, BlockSame
<1>5. BlockPlaced'
  BY <1>1, <1>2, <1>3 DEF BlockPlaced, BlockSame
<1>6. BytesInv'
  <2>1. CASE setup'.pc = "read"
    BY <2>1, <1>1, <1>2, <1>3 DEF BytesInv, LastBlock, BlockSame
  <2>2. CASE setup'.pc = "abort"
    <3>1. CASE setup.pc = "hold"
      BY <2>2, <3>1, <1>1, <1>2, <1>3 DEF BytesInv, BlockSame
    <3>2. CASE setup.pc = "holdFirst"
      <4>1. setup.bytes = 0 /\ Reached = Recorded /\ Reached \in Int
        BY <3>2, <1>2, Numbers DEF BlockPlaced, RecordInv, AreaPlaced
      <4> QED
        BY <4>1, <2>2, <1>1, <1>3, Numbers DEF BytesInv, BlockSame
    <3> QED
      BY <2>2, <3>1, <3>2, <1>1
  <2> QED
    BY <2>1, <2>2, <1>1 DEF BytesInv
<1>7. RecordInv'
  BY <1>1, <1>2, <1>3 DEF RecordInv, BlockPlaced, BlockSame
<1>8. DamageInv'
  BY <1>1, <1>2, <1>3, DamageOutside
<1> QED
  BY <1>4, <1>5, <1>6, <1>7, <1>8 DEF SetupSound, PlaceInv

LEMMA LossMode == KInv /\ SetupSound /\ SetupMode => SetupSound'
<1> SUFFICES ASSUME KInv, SetupSound, SetupMode PROVE SetupSound'
  OBVIOUS
<1> USE DEF Looping, InBlock, Between, Handling, Buffered
<1>2. AreaPlaced /\ BlockPlaced /\ BytesInv /\ RecordInv /\ DamageInv
  BY DEF SetupSound, PlaceInv
<1>3. /\ setup.pc = "mode" /\ drive.mounted
      /\ drive.confStart = ConfStart /\ drive.confEnd = ConfEnd
      /\ setup.size = BlockSize /\ setup.bytes = 0 /\ ~setup.headerUpdateRequired
  BY <1>2 DEF SetupMode, AreaPlaced, BlockPlaced
<1>4. /\ UNCHANGED <<header, sector, failures, crashes>>
      /\ setup'.mode = setup.mode /\ setup'.size = setup.size
      /\ setup'.bytes = setup.bytes /\ setup'.headerUpdateRequired = setup.headerUpdateRequired
  BY DEF SetupMode, SetupFrame, Quiet, SetupGo, KInv, Shapes, NoThread
<1>5. \/ /\ Encrypting /\ Reached = ConfStart
         /\ drive'.start = ConfStart /\ drive'.end = -1
         /\ setup'.pc = "loop" /\ setup'.offset = ConfStart
      \/ drive' = drive /\ setup'.pc \in {"abort", "err"} /\ setup'.offset = setup.offset
      \/ drive' = drive /\ drive.start = ConfStart /\ drive.end # -1 /\ setup'.pc = "loop"
         /\ setup'.offset = Reached
  BY <1>2, <1>3, Numbers
     DEF SetupMode, SetupGo, KInv, Shapes, NoThread, Unmounted, AreaPlaced, Reached, Encrypting
<1>6. /\ drive'.mounted = drive.mounted /\ drive'.confStart = drive.confStart
      /\ drive'.confEnd = drive.confEnd
  BY DEF SetupMode, KInv, Shapes, Unmounted
<1>7. /\ Reached' = Reached /\ Recorded' = Recorded /\ Area' = Area /\ Encrypting' = Encrypting
  BY <1>4, <1>5, <1>6, Numbers DEF Reached, Recorded, Area, Encrypting
<1>8. AreaPlaced'
  BY <1>2, <1>3, <1>4, <1>5, <1>6, <1>7 DEF AreaPlaced
<1>9. BlockPlaced'
  <2>1. Reached \in Int /\ ConfStart \in Int
    BY <1>2, Numbers DEF AreaPlaced
  <2> QED
    BY <1>2, <1>3, <1>4, <1>5, <1>7, <2>1 DEF BlockPlaced
<1>10. BytesInv'
  <2>1. Reached = Recorded
    BY <1>2, <1>3 DEF RecordInv
  <2> QED
    BY <1>3, <1>4, <1>5, <1>7, <1>2, <2>1, Numbers, LagFacts DEF BytesInv, LastBlock, AreaPlaced
<1>11. RecordInv'
  BY <1>2, <1>3, <1>4, <1>5, <1>6, <1>7 DEF RecordInv, Encrypting
<1>12. DamageInv'
  BY <1>2, <1>3, <1>4, <1>5, <1>7, DamageOutside
<1> QED
  BY <1>8, <1>9, <1>10, <1>11, <1>12 DEF SetupSound, PlaceInv

\* The next block is a whole one or the last.
LEMMA LossLoop == KInv /\ SetupSound /\ SetupLoop => SetupSound'
<1> SUFFICES ASSUME KInv, SetupSound, SetupLoop PROVE SetupSound'
  OBVIOUS
<1> USE DEF Looping, InBlock, Between, Handling, Buffered
<1>2. AreaPlaced /\ BlockPlaced /\ BytesInv /\ RecordInv /\ DamageInv
  BY DEF SetupSound, PlaceInv
<1>3. /\ setup.pc = "loop" /\ drive.mounted /\ drive.start = ConfStart
      /\ drive.confEnd = ConfEnd /\ setup.offset = Reached
  BY <1>2 DEF SetupLoop, AreaPlaced, BlockPlaced
<1>4. /\ UNCHANGED <<drive, header, sector, failures, crashes, held>>
      /\ setup'.mode = setup.mode /\ setup'.bytes = setup.bytes
      /\ setup'.headerUpdateRequired = setup.headerUpdateRequired
  BY ZenonT(30) DEF SetupLoop, SetupFrame, Quiet, SetupGo, KInv, Shapes, NoThread
<1>5. /\ Reached' = Reached /\ Recorded' = Recorded /\ Area' = Area /\ Encrypting' = Encrypting
  BY <1>4 DEF Reached, Recorded, Area, Encrypting
<1> DEFINE room == IF Encrypting THEN ConfEnd + 1 - Reached ELSE Reached - ConfStart
           size == Min({setup.size, room})
           offset == IF Encrypting THEN setup.offset ELSE setup.offset - size
<1>6. room \in Nat /\ Aligned(room)
  <2>1. ConfEnd + 1 \in Int /\ ConfStart \in Int /\ Reached \in ConfStart..ConfEnd + 1 /\ Reached \in Int
        /\ Aligned(ConfStart) /\ Aligned(ConfEnd + 1) /\ Aligned(Reached)
    BY <1>2, Numbers, AlignedFacts DEF AreaPlaced
  <2>2. \A x, y \in Int : Aligned(x) /\ Aligned(y) => Aligned(x - y)
    BY AlignedFacts
  <2>3. Aligned((ConfEnd + 1) - Reached) /\ Aligned(Reached - ConfStart)
    BY <2>1, <2>2
  <2> QED
    BY <2>1, <2>3, Numbers
<1>7. size \in Nat /\ Aligned(size) /\ size <= setup.size /\ size <= room
      /\ (size = setup.size \/ size = room)
  <2>1. setup.size \in Nat /\ Aligned(setup.size)
    BY <1>2 DEF BlockPlaced
  <2> HIDE DEF room
  <2>2. PICK m \in Nat, n \in Nat : m = setup.size /\ n = room
    BY <2>1, <1>6
  <2>3. /\ Min({m, n}) \in Int /\ (Min({m, n}) = m \/ Min({m, n}) = n)
        /\ Min({m, n}) <= m /\ Min({m, n}) <= n
    <3>1. m \in Int /\ n \in Int
      OBVIOUS
    <3> QED
      BY <3>1, MinOfTwo
  <2>4. size = Min({m, n})
    BY <2>2
  <2> HIDE DEF size
  <2> QED
    BY <2>1, <2>2, <2>3, <2>4, <1>6
<1>8. \/ /\ setup'.pc = "abort" /\ setup'.size \in {size, setup.size}
         /\ setup'.offset \in {offset, setup.offset}
      \/ /\ setup'.pc = "hold" /\ setup'.size = size /\ setup'.offset = offset /\ size # 0
  <2>1. NextBlock(setup, drive) = [offset |-> offset, size |-> size]
    BY <1>3 DEF NextBlock, Encrypting
  <2> HIDE DEF room, size, offset
  <2>2. CASE setup.abort
    BY <2>2 DEF SetupLoop, SetupGo, KInv, Shapes, NoThread
  <2>3. CASE ~setup.abort
    <3>1. setup' = [setup EXCEPT !.offset = offset, !.size = size,
                        !.pc = IF size = 0 THEN "abort" ELSE "hold"]
      BY <2>1, <2>3 DEF SetupLoop
    <3> QED
      BY <3>1 DEF KInv, Shapes, NoThread
  <2> QED
    BY <2>2, <2>3
<1>10. AreaPlaced'
  BY <1>2, <1>3, <1>4, <1>5, <1>8, Numbers DEF AreaPlaced
<1>11. setup'.pc = "hold" =>
         /\ size > 0 /\ offset \in Int
         /\ IF Encrypting THEN offset = Reached /\ offset + size <= ConfEnd + 1
                          ELSE offset + size = Reached /\ ConfStart <= offset
         /\ size = setup.size \/ (IF Encrypting THEN offset + size = ConfEnd + 1 ELSE offset = ConfStart)
  <2>1. Reached \in Int /\ ConfEnd \in Int /\ ConfStart \in Int
    BY <1>2, Numbers DEF AreaPlaced
  <2>2. offset = IF Encrypting THEN Reached ELSE Reached - size
    BY <1>3
  <2>3. room = IF Encrypting THEN ConfEnd + 1 - Reached ELSE Reached - ConfStart
    OBVIOUS
  <2> HIDE DEF room, size, offset
  <2> QED
    BY <2>1, <2>2, <2>3, <1>7, <1>8
<1>9. offset \in Int
  <2>1. Reached \in Int
    BY <1>2, Numbers DEF AreaPlaced
  <2>2. size \in Int
    BY <1>7
  <2> HIDE DEF size
  <2> QED
    BY <2>1, <2>2, <1>3
<1> HIDE DEF room, size, offset
<1>12. BlockPlaced'
  <2>1. size \in Nat /\ Aligned(size) /\ size <= BlockSize
    BY <1>2, <1>7, Numbers DEF BlockPlaced
  <2> QED
    BY <2>1, <1>9, <1>2, <1>3, <1>4, <1>5, <1>8, <1>11 DEF BlockPlaced, Encrypting
<1>13. BytesInv'
  <2>1. CASE setup'.pc = "abort"
    BY <2>1, <1>2, <1>3, <1>4, <1>5 DEF BytesInv
  <2>2. CASE setup'.pc = "hold"
    <3>1. setup'.size = size /\ setup'.offset = offset
      BY <1>8, <2>2
    <3>2. CASE setup.size = BlockSize /\ setup.bytes % BlockSize = 0 /\ setup.bytes < HeaderThreshold
      <4>1. setup.bytes + BlockSize <= Lag
        BY <3>2, <1>2, LagFacts DEF BlockPlaced
      <4>2. setup.bytes + size <= Lag
        BY <4>1, <3>2, <1>7, <1>2, Numbers DEF BlockPlaced
      <4> QED
        BY <1>2, <1>3, <1>4, <1>5, <2>2, <3>1, <3>2, <4>2, <1>11 DEF BytesInv, LastBlock, Encrypting
    <3>3. CASE LastBlock
      <4>1. IF Encrypting THEN Reached = ConfEnd + 1 ELSE Reached = ConfStart
        BY <1>3, <3>3, <1>2, Numbers DEF LastBlock, AreaPlaced
      <4> QED
        BY <4>1, <1>11, <2>2, <3>1, <1>7, <1>8, Numbers
    <3> QED
      BY <1>2, <1>3, <3>2, <3>3 DEF BytesInv
  <2> QED
    BY <1>8, <2>1, <2>2
<1>14. RecordInv'
  <2>1. setup'.pc = "hold" => header.present
    BY <1>2, <1>3, <1>7, <1>11, Numbers DEF RecordInv, AreaPlaced
  <2> QED
    BY <2>1, <1>2, <1>3, <1>4, <1>5, <1>8 DEF RecordInv, Encrypting
<1>15. DamageInv'
  BY <1>2, <1>3, <1>4, <1>5, <1>8, DamageOutside
<1> QED
  BY <1>10, <1>12, <1>13, <1>14, <1>15 DEF SetupSound, PlaceInv

-----------------------------------------------------------------------------
(* Handling a block. Where it is stays; what is written on it is in the buffer. *)
LEMMA BlockStays ==
    ASSUME SetupSound, UNCHANGED <<drive, header, held>>, BlockSame,
           setup.pc \in Handling, setup'.pc \in Handling \cup {"err"}
    PROVE  /\ PlaceInv' /\ BytesInv' /\ RecordInv'
           /\ Area' = Area /\ Encrypting' = Encrypting /\ BlockSectors' = BlockSectors
<1> USE DEF Looping, InBlock, Between, Handling, Buffered
<1>1. AreaPlaced /\ BlockPlaced /\ BytesInv /\ RecordInv
  BY DEF SetupSound, PlaceInv
<1>2. Reached' = Reached /\ Recorded' = Recorded /\ Area' = Area /\ Encrypting' = Encrypting
  BY DEF Reached, Recorded, Area, Encrypting, BlockSame
<1>3. BlockSectors' = BlockSectors
  BY DEF BlockSectors, SectorsOf, BlockSame
<1>4. AreaPlaced'
  BY <1>1, <1>2 DEF AreaPlaced, BlockSame
<1>5. BlockPlaced'
  BY <1>1, <1>2 DEF BlockPlaced, BlockSame
<1>6. BytesInv'
  <2>1. LastBlock => setup'.pc = "err" \/ LastBlock'
    BY <1>2 DEF LastBlock, BlockSame
  <2> QED
    BY <1>1, <1>2, <2>1 DEF BytesInv, BlockSame
<1>7. RecordInv'
  BY <1>1, <1>2 DEF RecordInv, BlockSame
<1> QED
  BY <1>2, <1>3, <1>4, <1>5, <1>6, <1>7 DEF PlaceInv

\* A block lies beyond the area that is encrypted further, and in the one that is decrypted.
LEMMA BlockOutside ==
    ASSUME SetupSound, setup.pc \in InBlock, NEW s \in BlockSectors
    PROVE  s \in Sectors /\ (Position(s) < Area <=> ~Encrypting)
<1> USE DEF Looping, InBlock, Between, Handling, Buffered
<1>1. AreaPlaced /\ BlockPlaced
  BY DEF SetupSound, PlaceInv
<1>2. Area = Reached /\ Reached \in Int
  BY <1>1, Numbers DEF AreaPlaced, Area
<1>3. s \in Sectors /\ setup.offset <= Position(s) /\ Position(s) < setup.offset + setup.size
  BY SectorsOfBlock DEF BlockSectors
<1>4. Position(s) \in Nat
  BY <1>3, SectorsInside
<1> QED
  BY <1>1, <1>2, <1>3, <1>4 DEF BlockPlaced

LEMMA Transformed ==
    ASSUME NEW S, NEW f \in [S -> Int], NEW n \in Int
    PROVE  /\ Transform(f, n) \in [S -> Int]
           /\ \A s \in S : Transform(f, n)[s] = IF f[s] = Lost THEN Lost ELSE f[s] + n
<1>1. Transform(f, n) = [s \in S |-> Add(f[s], n)]
  BY DEF Transform
<1>2. \A s \in S : f[s] \in Int /\ Add(f[s], n) = (IF f[s] = Lost THEN Lost ELSE f[s] + n)
  BY DEF Add
<1>3. \A s \in S : Add(f[s], n) \in Int
  BY <1>2 DEF Lost
<1> QED
  BY <1>1, <1>2, <1>3

LEMMA LossRead == KInv /\ SetupSound /\ SetupRead => SetupSound'
<1> SUFFICES ASSUME KInv, SetupSound, SetupRead PROVE SetupSound'
  OBVIOUS
<1> DEFINE old == [s \in BlockSectors |-> sector[s]]
<1>1. /\ UNCHANGED <<drive, header, held, sector, crashes>> /\ BlockSame /\ setup.pc = "read"
      /\ setup'.mode = setup.mode
  BY DEF SetupRead, SetupFrame, SetupGo, KInv, Shapes, NoThread, BlockSame
<1>2. \/ setup'.pc \in {"wipe", "write"} /\ setup'.buffer = Transform(old, Direction)
      \/ setup'.pc = "err"
  BY ZenonT(30) DEF SetupRead, SetupGo, KInv, Shapes, NoThread
<1>3. failures' = failures \/ failures' = failures + 1
  BY DEF SetupRead, Succeed, Fail
<1>4. DamageInv
  BY DEF SetupSound
<1>5. /\ PlaceInv' /\ BytesInv' /\ RecordInv'
      /\ Area' = Area /\ Encrypting' = Encrypting /\ BlockSectors' = BlockSectors
  BY <1>1, <1>2, BlockStays DEF Handling, Buffered
<1>6. CASE setup'.pc = "err"
  <2>1. DamageInv'
    BY <1>1, <1>3, <1>4, <1>5, <1>6, DamageOutside DEF Buffered
  <2> QED
    BY <1>5, <2>1 DEF SetupSound
<1>7. CASE setup'.pc \in {"wipe", "write"} /\ setup'.buffer = Transform(old, Direction)
  <2>1. /\ old \in [BlockSectors -> Int] /\ Direction \in Int
        /\ \A s \in BlockSectors : old[s] = sector[s]
    <3>1. BlockSectors \subseteq Sectors
      BY DEF BlockSectors, SectorsOf
    <3> QED
      BY <1>4, <3>1 DEF DamageInv, Direction
  <2>2. /\ setup'.buffer \in [BlockSectors -> Int]
        /\ \A s \in BlockSectors :
              setup'.buffer[s] = IF sector[s] = Lost THEN Lost ELSE sector[s] + Direction
    <3> HIDE DEF old
    <3>1. /\ Transform(old, Direction) \in [BlockSectors -> Int]
          /\ \A s \in BlockSectors : Transform(old, Direction)[s] =
                                      IF old[s] = Lost THEN Lost ELSE old[s] + Direction
      BY <2>1, Transformed
    <3> QED
      BY <1>7, <2>1, <3>1
  <2>3. ASSUME NEW s \in Sectors, Content(s) = Wanted(s) PROVE Content(s)' = Wanted(s)'
    <3>1. CASE s \in BlockSectors
      <4>1. Content(s) = sector[s] /\ Wanted(s) = IF Encrypting THEN 0 ELSE 1
        BY <1>1, <3>1, BlockOutside DEF Content, Wanted, Buffered, InBlock, Handling
      <4>2. Content(s)' = setup'.buffer[s] /\ Wanted(s)' = IF Encrypting THEN 1 ELSE 0
        BY <1>5, <1>7, <3>1 DEF Content, Wanted, Buffered
      <4>3. sector[s] # Lost /\ setup'.buffer[s] = IF Encrypting THEN 1 ELSE 0
        <5>1. setup'.buffer[s] = IF sector[s] = Lost THEN Lost ELSE sector[s] + Direction
          BY <2>2, <3>1
        <5>2. sector[s] = IF Encrypting THEN 0 ELSE 1
          BY <2>3, <4>1
        <5>3. Direction = IF Encrypting THEN 1 ELSE -1
          BY DEF Direction, Encrypting
        <5> QED
          BY <5>1, <5>2, <5>3 DEF Lost
      <4> QED
        BY <4>2, <4>3
    <3>2. CASE s \notin BlockSectors
      BY <1>1, <1>5, <2>3, <3>2 DEF Content, Wanted
    <3> QED
      BY <3>1, <3>2
  <2>4. Bad' \subseteq Bad
    BY <2>3 DEF Bad
  <2>5. failures \in Nat /\ sector \in [Sectors -> Int]
    BY <1>4 DEF DamageInv
  <2>6. Charged = failures /\ Charged' = failures' /\ failures' \in Nat
    BY <1>1, <1>3, <1>7, <2>5 DEF Charged
  <2>7. DamageInv'
    BY <1>1, <1>3, <1>4, <1>5, <1>7, <2>2, <2>4, <2>5, <2>6, DamageFewer
  <2> QED
    BY <1>5, <2>7 DEF SetupSound
<1> QED
  BY <1>2, <1>6, <1>7

\* A wipe pass, or part of it, and the write of the block.
LEMMA LossWrite ==
    KInv /\ SetupSound /\ (SetupWipePass \/ SetupWriteBegin \/ SetupWriteEnd) => SetupSound'
<1> SUFFICES ASSUME KInv, SetupSound, SetupWipePass \/ SetupWriteBegin \/ SetupWriteEnd
             PROVE  SetupSound'
  OBVIOUS
<1>1. /\ UNCHANGED <<drive, header, held, crashes>> /\ BlockSame
      /\ setup'.buffer = setup.buffer /\ setup.pc \in {"wipe", "write", "writing"}
      /\ setup'.pc \in Buffered \/ (setup.pc = "writing" /\ setup'.pc = "advance")
  BY DEF SetupWipePass, SetupWriteBegin, SetupWriteEnd, SetupFrame, SetupGo, KInv, Shapes,
         NoThread, BlockSame, Buffered
<1>2. DamageInv /\ BlockSectors \subseteq Sectors
  BY DEF SetupSound, BlockSectors, SectorsOf
<1>3. /\ PlaceInv' /\ BytesInv' /\ RecordInv'
      /\ Area' = Area /\ Encrypting' = Encrypting /\ BlockSectors' = BlockSectors
  BY <1>1, BlockStays DEF Handling, Buffered
<1>4. /\ failures' = IF setup'.pc = "undo" THEN failures + 1 ELSE failures
      /\ setup'.pc = "advance" => WriteSome(setup.buffer, BlockSectors)
  BY DEF SetupWipePass, SetupWriteBegin, SetupWriteEnd, Fail, Succeed, SetupGo, KInv, Shapes,
         NoThread
<1>5. \/ sector' = sector
      \/ \E part \in SUBSET BlockSectors : WriteSome(Overwritten, part) \/ WriteSome(setup.buffer, part)
  BY DEF SetupWipePass, SetupWriteBegin, SetupWriteEnd
<1>6. sector' \in [Sectors -> Int] /\ \A s \in Sectors \ BlockSectors : sector'[s] = sector[s]
  <2>1. sector \in [Sectors -> Int] /\ setup.buffer \in [BlockSectors -> Int]
    BY <1>1, <1>2 DEF DamageInv, Buffered
  <2>2. Overwritten \in [BlockSectors -> Int]
    BY DEF Overwritten, Lost
  <2>3. CASE sector' = sector
    BY <2>1, <2>3
  <2>4. ASSUME NEW part \in SUBSET BlockSectors, NEW f \in [BlockSectors -> Int],
               WriteSome(f, part)
        PROVE  sector' \in [Sectors -> Int] /\ \A s \in Sectors \ BlockSectors : sector'[s] = sector[s]
    BY <1>2, <2>1, <2>4 DEF WriteSome
  <2> QED
    BY <1>5, <2>1, <2>2, <2>3, <2>4
<1>7. CASE setup'.pc \in Buffered
  <2>1. DamageInv'
    <3>1. setup.pc \in Buffered \ {"undo"} /\ setup'.mode = setup.mode
      BY <1>1 DEF Buffered, BlockSame
    <3> QED
      BY <1>1, <1>2, <1>3, <1>4, <1>6, <1>7, <3>1, DamageInside
  <2> QED
    BY <1>3, <2>1 DEF SetupSound
<1>8. CASE setup'.pc = "advance"
  <2>1. \A s \in BlockSectors : sector'[s] = setup.buffer[s]
    BY <1>2, <1>4, <1>8 DEF WriteSome
  <2>2. \A s \in Sectors : Content(s)' = Content(s) /\ Wanted(s)' = Wanted(s)
    BY <1>1, <1>3, <1>6, <1>8, <2>1 DEF Content, Wanted, Buffered
  <2>3. Bad' \subseteq Bad
    BY <2>2 DEF Bad
  <2>4. Charged = failures /\ Charged' = failures' /\ failures' = failures /\ failures \in Nat
    BY <1>1, <1>2, <1>4, <1>8 DEF Charged, DamageInv
  <2>5. DamageInv'
    BY <1>1, <1>2, <1>6, <1>8, <2>3, <2>4, DamageFewer DEF Buffered
  <2> QED
    BY <1>3, <2>5 DEF SetupSound
<1> QED
  BY <1>1, <1>7, <1>8

\* The old contents are written once more; if that fails too, the block is lost.
LEMMA LossUndo == KInv /\ SetupSound /\ SetupUndo => SetupSound'
<1> SUFFICES ASSUME KInv, SetupSound, SetupUndo PROVE SetupSound'
  OBVIOUS
<1> DEFINE old == Transform(setup.buffer, -Direction)
<1>1. /\ UNCHANGED <<drive, header, held, crashes>> /\ BlockSame
      /\ setup.pc = "undo" /\ setup'.pc = "err"
      /\ \/ WriteSome(old, BlockSectors) /\ failures' = failures
         \/ failures' = failures + 1 /\ \E part \in SUBSET BlockSectors : WriteSome(old, part)
  BY DEF SetupUndo, SetupFrame, SetupGo, KInv, Shapes, NoThread, BlockSame, Fail, Succeed
<1>2. DamageInv /\ BlockSectors \subseteq Sectors
  BY DEF SetupSound, BlockSectors, SectorsOf
<1>3. /\ PlaceInv' /\ BytesInv' /\ RecordInv'
      /\ Area' = Area /\ Encrypting' = Encrypting /\ BlockSectors' = BlockSectors
  BY <1>1, BlockStays DEF Handling, Buffered
<1>4. /\ sector \in [Sectors -> Int] /\ setup.buffer \in [BlockSectors -> Int]
      /\ failures \in Nat /\ crashes \in Nat /\ failures > 0
      /\ SectorBytes * Cardinality(Bad) <= Allowed(crashes, failures - 1)
  BY <1>1, <1>2 DEF DamageInv, Buffered, Charged
<1>5. /\ old \in [BlockSectors -> Int]
      /\ \A s \in BlockSectors :
            old[s] = IF setup.buffer[s] = Lost THEN Lost ELSE setup.buffer[s] + (-Direction)
  <2>1. -Direction \in Int
    BY DEF Direction
  <2> QED
    BY <1>4, <2>1, Transformed
<1> HIDE DEF old
<1>6. sector' \in [Sectors -> Int] /\ \A s \in Sectors \ BlockSectors : sector'[s] = sector[s]
  <2>1. ASSUME NEW part \in SUBSET BlockSectors, WriteSome(old, part)
        PROVE  sector' \in [Sectors -> Int] /\ \A s \in Sectors \ BlockSectors : sector'[s] = sector[s]
    BY <1>2, <1>4, <1>5, <2>1 DEF WriteSome
  <2> QED
    BY <1>1, <2>1
<1>7. \A s \in Sectors \ BlockSectors : Content(s)' = Content(s) /\ Wanted(s)' = Wanted(s)
  BY <1>1, <1>3, <1>6 DEF Content, Wanted, Buffered
<1>8. Charged' = failures' /\ failures' \in Nat
  BY <1>1, <1>4 DEF Charged
<1>9. Bad \in SUBSET Sectors /\ Bad' \in SUBSET Sectors
  BY DEF Bad
<1>10. CASE WriteSome(old, BlockSectors) /\ failures' = failures
  <2>1. ASSUME NEW s \in BlockSectors, Content(s) = Wanted(s) PROVE Content(s)' = Wanted(s)'
    <3>1. Content(s) = setup.buffer[s] /\ Wanted(s) = IF Encrypting THEN 1 ELSE 0
      BY <1>1 DEF Content, Wanted, Buffered
    <3>2. sector'[s] = old[s]
      BY <1>2, <1>10 DEF WriteSome
    <3>3. old[s] = IF Encrypting THEN 0 ELSE 1
      <4>1. old[s] = IF setup.buffer[s] = Lost THEN Lost ELSE setup.buffer[s] + (-Direction)
        BY <1>5
      <4>2. setup.buffer[s] = IF Encrypting THEN 1 ELSE 0
        BY <2>1, <3>1
      <4>3. Direction = IF Encrypting THEN 1 ELSE -1
        BY DEF Direction, Encrypting
      <4> QED
        BY <4>1, <4>2, <4>3 DEF Lost
    <3>4. s \in Sectors /\ (Position(s) < Area <=> ~Encrypting)
      BY <1>1, BlockOutside DEF InBlock, Handling, Buffered
    <3>5. Content(s)' = sector'[s] /\ Wanted(s)' = IF Position(s) < Area THEN 1 ELSE 0
      BY <1>1, <1>3 DEF Content, Wanted, Buffered
    <3> QED
      BY <3>2, <3>3, <3>4, <3>5
  <2>2. Bad' \subseteq Bad
    BY <1>2, <1>7, <2>1 DEF Bad
  <2>3. Charged = failures - 1 /\ Charged \in Nat /\ Charged' = Charged + 1
    BY <1>1, <1>4, <1>8, <1>10 DEF Charged
  <2>4. DamageInv'
    BY <1>1, <1>2, <1>6, <1>8, <2>2, <2>3, DamageFewer DEF Buffered
  <2> QED
    BY <1>3, <2>4 DEF SetupSound
<1>11. CASE failures' = failures + 1
  <2>1. \A s \in Bad' : \/ s \in Bad
                        \/ setup.offset <= Position(s) /\ Position(s) < setup.offset + BlockSize
    <3> SUFFICES ASSUME NEW s \in Bad', s \notin Bad
                 PROVE  setup.offset <= Position(s) /\ Position(s) < setup.offset + BlockSize
      OBVIOUS
    <3>1. s \in BlockSectors
      BY <1>7, <1>9 DEF Bad
    <3>2. setup.offset <= Position(s) /\ Position(s) < setup.offset + setup.size
      BY <3>1, SectorsOfBlock DEF BlockSectors
    <3>3. setup.size <= BlockSize /\ setup.offset \in Int /\ setup.size \in Nat
      BY <1>1 DEF SetupSound, PlaceInv, BlockPlaced
    <3> QED
      BY <3>1, <3>2, <3>3, <1>2, SectorsInside, Numbers
  <2>2. SectorBytes * Cardinality(Bad') <= SectorBytes * Cardinality(Bad) + BlockSize
    <3>1. setup.offset \in Int /\ BlockSize \in Nat /\ Aligned(BlockSize)
      BY SizeFacts DEF SetupSound, PlaceInv, BlockPlaced
    <3> QED
      BY <1>9, <2>1, <3>1, StretchAdds
  <2>3. PICK c \in Nat, f \in Nat : c = crashes /\ failures = f + 1
    <3>1. failures - 1 \in Nat
      BY <1>4
    <3> QED
      BY <1>4, <3>1
  <2>4. Allowed(c, f) \in Nat /\ Allowed(c, f + 2) = Allowed(c, f) + BlockSize
    BY AllowedFacts
  <2>5. failures - 1 = f /\ failures' = f + 2
    BY <1>11, <2>3
  <2>6. SectorBytes * Cardinality(Bad') <= Allowed(crashes', Charged')
    BY <1>1, <1>4, <1>8, <1>9, <2>2, <2>3, <2>4, <2>5, BadNumber, Numbers
  <2>7. DamageInv'
    BY <1>1, <1>4, <1>6, <1>8, <2>6 DEF DamageInv, Buffered
  <2> QED
    BY <1>3, <2>7 DEF SetupSound
<1> QED
  BY <1>1, <1>10, <1>11

-----------------------------------------------------------------------------
(* The area moves by a block; the header is saved; the thread ends. *)
LEMMA LossAdvance == KInv /\ SetupSound /\ SetupAdvance => SetupSound'
<1> SUFFICES ASSUME KInv, SetupSound, SetupAdvance PROVE SetupSound'
  OBVIOUS
<1> USE DEF Looping, InBlock, Between, Handling, Buffered
<1> DEFINE next == IF Encrypting THEN setup.offset + setup.size ELSE setup.offset
<1>1. AreaPlaced /\ BlockPlaced /\ BytesInv /\ RecordInv /\ DamageInv
  BY DEF SetupSound, PlaceInv
<1>2. /\ setup.pc = "advance" /\ drive.mounted /\ drive.start = ConfStart
      /\ drive.confStart = ConfStart /\ drive.confEnd = ConfEnd /\ header.present
      /\ setup.size > 0 /\ setup.bytes + setup.size <= Lag
  BY <1>1 DEF SetupAdvance, AreaPlaced, BlockPlaced, BytesInv, RecordInv
<1>3. /\ UNCHANGED <<header, sector, failures, crashes>>
      /\ drive'.start = drive.start /\ drive'.mounted = drive.mounted
      /\ drive'.confStart = drive.confStart /\ drive'.confEnd = drive.confEnd
      /\ drive'.end = next - 1
      /\ setup'.mode = setup.mode /\ setup'.size = setup.size /\ setup'.offset = next
      /\ setup'.headerUpdateRequired /\ setup'.headerUpdateRequired \in BOOLEAN
      /\ setup'.bytes = setup.bytes + setup.size
      /\ setup'.pc = IF setup.bytes + setup.size >= HeaderThreshold THEN "save" ELSE "loop"
  BY DEF SetupAdvance, SetupFrame, Quiet, Encrypting, KInv, Shapes, NoThread, Unmounted
<1>4. /\ Reached \in ConfStart..ConfEnd + 1 /\ Reached \in Int /\ Aligned(Reached)
      /\ setup.offset \in Int /\ setup.size \in Nat /\ setup.bytes \in Nat /\ Aligned(setup.size)
      /\ IF Encrypting THEN setup.offset = Reached /\ setup.offset + setup.size <= ConfEnd + 1
                       ELSE setup.offset + setup.size = Reached /\ ConfStart <= setup.offset
  BY <1>1, <1>2, Numbers DEF AreaPlaced, BlockPlaced
<1>5. /\ next \in ConfStart..ConfEnd + 1 /\ next \in Int
      /\ next = IF Encrypting THEN Reached + setup.size ELSE Reached - setup.size
  BY <1>2, <1>4, Numbers
<1>6. Aligned(next) /\ (next > ConfStart => next > ConfStart + 1)
  <2>1. Aligned(Reached + setup.size) /\ Aligned(Reached - setup.size)
    <3>1. \A x, y \in Int : Aligned(x) /\ Aligned(y) => Aligned(x + y) /\ Aligned(x - y)
      BY AlignedFacts
    <3>2. setup.size \in Int
      BY <1>4
    <3> QED
      BY <1>4, <3>1, <3>2
  <2>2. Aligned(next)
    BY <1>5, <2>1
  <2>3. \A x, y \in Int : Aligned(x) /\ Aligned(y) => (x < y => x + 1 < y)
    BY AlignedFacts
  <2>4. ConfStart \in Int /\ Aligned(ConfStart)
    BY Numbers, AlignedFacts
  <2> HIDE DEF next
  <2> QED
    BY <1>5, <2>2, <2>3, <2>4
<1> HIDE DEF next
<1>7. Reached' = next /\ Recorded' = Recorded /\ Encrypting' = Encrypting /\ Area' = next /\ Area = Reached
  BY <1>2, <1>3, <1>5, Numbers DEF Reached, Recorded, Encrypting, Area
<1>8. AreaPlaced'
  BY <1>1, <1>2, <1>3, <1>5, <1>6, <1>7, Numbers DEF AreaPlaced
<1>9. BlockPlaced'
  BY <1>1, <1>2, <1>3, <1>4, <1>5, <1>7 DEF BlockPlaced
<1>10. BytesInv'
  <2>1. setup'.bytes <= Lag
        /\ Reached' = IF Encrypting THEN Recorded + setup'.bytes ELSE Recorded - setup'.bytes
    <3>1. Reached = IF Encrypting THEN Recorded + setup.bytes ELSE Recorded - setup.bytes
      BY <1>1, <1>2 DEF BytesInv
    <3>2. Recorded \in Int
      BY <1>1, Numbers DEF AreaPlaced, Recorded
    <3> QED
      BY <1>2, <1>3, <1>4, <1>5, <1>7, <3>1, <3>2, Numbers
  <2>2. CASE setup.size = BlockSize /\ setup.bytes % BlockSize = 0
    <3>1. setup'.bytes % BlockSize = 0
      BY <1>3, <1>4, <2>2, LagFacts
    <3>2. setup'.pc # "save" => setup'.bytes < HeaderThreshold
      BY <1>3, <1>4, Numbers
    <3> QED
      BY <1>3, <1>7, <2>1, <2>2, <3>1, <3>2 DEF BytesInv
  <2>3. CASE LastBlock
    <3>1. LastBlock'
      BY <1>2, <1>3, <1>4, <1>5, <1>7, <2>3, Numbers DEF LastBlock
    <3> QED
      BY <1>3, <1>7, <2>1, <3>1 DEF BytesInv
  <2> QED
    BY <1>1, <1>2, <2>2, <2>3 DEF BytesInv
<1>11. RecordInv'
  <2>1. Encrypting => next > ConfStart /\ next - 1 > ConfStart
    BY <1>2, <1>4, <1>5, <1>6, Numbers
  <2> QED
    BY <1>1, <1>2, <1>3, <1>7, <2>1 DEF RecordInv, Encrypting
<1>12. DamageInv'
  <2>1. ASSUME NEW s \in Sectors PROVE Content(s)' = Content(s) /\ Wanted(s)' = Wanted(s)
    <3>1. Content(s)' = sector[s] /\ Content(s) = sector[s]
      BY <1>2, <1>3 DEF Content
    <3>2. Wanted(s)' = IF Position(s) < next THEN 1 ELSE 0
      BY <1>3, <1>7 DEF Wanted
    <3>3. Position(s) \in Nat
      BY SectorsInside
    <3>4. CASE s \in BlockSectors
      <4>1. setup.offset <= Position(s) /\ Position(s) < setup.offset + setup.size
        BY <3>4, SectorsOfBlock DEF BlockSectors
      <4>2. Wanted(s) = IF Encrypting THEN 1 ELSE 0
        BY <1>2, <3>4 DEF Wanted
      <4>3. Position(s) < next <=> Encrypting
        BY <1>4, <1>5, <3>3, <4>1, Numbers DEF next
      <4> QED
        BY <3>1, <3>2, <4>2, <4>3
    <3>5. CASE s \notin BlockSectors
      <4>1. ~(setup.offset <= Position(s) /\ Position(s) < setup.offset + setup.size)
        BY <3>5, SectorsOfBlock DEF BlockSectors
      <4>2. Wanted(s) = IF Position(s) < Reached THEN 1 ELSE 0
        BY <1>2, <1>7, <3>5 DEF Wanted
      <4>3. Position(s) < next <=> Position(s) < Reached
        BY <1>4, <1>5, <3>3, <4>1, Numbers
      <4> QED
        BY <3>1, <3>2, <4>2, <4>3
    <3> QED
      BY <3>4, <3>5
  <2>2. Bad' \subseteq Bad
    BY <2>1 DEF Bad
  <2>3. Charged = failures /\ Charged' = failures /\ failures \in Nat /\ failures' \in Nat
        /\ sector' \in [Sectors -> Int]
    BY <1>1, <1>2, <1>3 DEF Charged, DamageInv
  <2> QED
    BY <1>1, <1>3, <2>2, <2>3, DamageFewer
<1> QED
  BY <1>8, <1>9, <1>10, <1>11, <1>12 DEF SetupSound, PlaceInv

\* What saving the header writes.
LEMMA WhatIsSaved ==
    ASSUME AreaPlaced, Encrypting => Reached > ConfStart,
           setup.mode \in {"encryption", "decryption"}
    PROVE  /\ SavedHeader \in [present : BOOLEAN, length : Nat]
           /\ ConfStart + SavedHeader.length = Reached
           /\ SavedHeader.present <=> header.present /\ Reached > ConfStart
<1>1. /\ header \in [present : BOOLEAN, length : Nat]
      /\ Reached \in Int /\ Reached >= ConfStart /\ ConfStart \in Nat
  BY Numbers DEF AreaPlaced
<1>2. CASE AreaIsEmpty
  <2>1. Reached = ConfStart /\ ~Encrypting
    BY <1>1, <1>2, EmptyArea
  <2>2. SavedHeader = [present |-> FALSE, length |-> 0]
    BY <1>2, <2>1 DEF SavedHeader, Encrypting
  <2> QED
    BY <1>1, <2>1, <2>2
<1>3. CASE ~AreaIsEmpty
  <2>1. Reached > ConfStart
    BY <1>1, <1>3, EmptyArea
  <2>2. /\ drive.start = ConfStart /\ drive.end \in Int /\ Reached = drive.end + 1
    BY <1>3 DEF AreaIsEmpty, AreaPlaced, Reached
  <2>3. SavedHeader = [header EXCEPT !.length = drive.end + 1 - drive.start]
    BY <1>3 DEF SavedHeader
  <2>4. drive.end + 1 - drive.start \in Nat /\ drive.end + 1 - drive.start = Reached - ConfStart
    BY <1>1, <2>1, <2>2
  <2> QED
    BY <1>1, <2>1, <2>3, <2>4
<1> QED
  BY <1>2, <1>3

DriveSame ==
    /\ drive'.mounted = drive.mounted /\ drive'.start = drive.start /\ drive'.end = drive.end
    /\ drive'.confStart = drive.confStart /\ drive'.confEnd = drive.confEnd

LEMMA LossSave == KInv /\ SetupSound /\ HeadersSaved /\ SetupSave => SetupSound'
<1> SUFFICES ASSUME KInv, SetupSound, HeadersSaved, SetupSave PROVE SetupSound'
  OBVIOUS
<1> USE DEF Looping, InBlock, Between, Handling, Buffered
<1>1. AreaPlaced /\ BlockPlaced /\ BytesInv /\ RecordInv /\ DamageInv
  BY DEF SetupSound, PlaceInv
<1>2. /\ setup.pc = "save" /\ drive.mounted /\ header.present /\ setup.headerUpdateRequired
      /\ drive.confStart = ConfStart /\ drive.confEnd = ConfEnd /\ drive.start = ConfStart
      /\ Encrypting => Reached > ConfStart
  BY <1>1 DEF SetupSave, AreaPlaced, BlockPlaced, RecordInv
<1>3. /\ DriveSame /\ header' = SavedHeader /\ UNCHANGED <<sector, failures, crashes>>
      /\ setup'.mode = setup.mode /\ setup'.size = setup.size /\ setup'.offset = setup.offset
      /\ ~setup'.headerUpdateRequired /\ setup'.headerUpdateRequired \in BOOLEAN
      /\ setup'.bytes = 0 /\ setup'.pc = "loop"
  BY DEF SetupSave, SaveDriveVolumeHeader, FailedSave, Fail, HeadersSaved, SetupFrame, Succeed,
         KInv, Shapes, NoThread, Unmounted, DriveSame
<1>4. /\ header' \in [present : BOOLEAN, length : Nat]
      /\ ConfStart + header'.length = Reached
      /\ header'.present <=> header.present /\ Reached > ConfStart
  BY <1>1, <1>2, <1>3, WhatIsSaved DEF BlockPlaced
<1>5. Reached' = Reached /\ Recorded' = Reached /\ Encrypting' = Encrypting /\ Area' = Area
  BY <1>2, <1>3, <1>4 DEF Reached, Recorded, Encrypting, Area, DriveSame
<1>6. AreaPlaced'
  BY <1>1, <1>2, <1>3, <1>4, <1>5, Numbers DEF AreaPlaced, DriveSame
<1>7. BlockPlaced'
  BY <1>1, <1>2, <1>3, <1>5 DEF BlockPlaced, DriveSame
<1>8. BytesInv'
  <2>1. LastBlock => LastBlock'
    BY <1>2, <1>3, <1>5 DEF LastBlock
  <2>2. Reached \in Int
    BY <1>1, Numbers DEF AreaPlaced
  <2> QED
    BY <1>1, <1>2, <1>3, <1>5, <2>1, <2>2, LagFacts, Numbers DEF BytesInv
<1>9. RecordInv'
  <2>1. Reached \in Int /\ Reached >= ConfStart
    BY <1>1, Numbers DEF AreaPlaced
  <2>2. header'.present \/ (header'.length = 0 /\ Reached = ConfStart)
    BY <1>2, <1>4, <2>1, Numbers
  <2>3. ~header'.present => ~Encrypting /\ Reached = ConfStart
    BY <1>2, <2>1, <2>2, Numbers
  <2> QED
    BY <1>1, <1>2, <1>3, <1>5, <2>2, <2>3 DEF RecordInv, DriveSame
<1>10. DamageInv'
  BY <1>1, <1>2, <1>3, <1>5, DamageOutside
<1> QED
  BY <1>6, <1>7, <1>8, <1>9, <1>10 DEF SetupSound, PlaceInv

LEMMA LossEnd == KInv /\ SetupSound /\ SetupEnd => SetupSound'
<1> SUFFICES ASSUME KInv, SetupSound, SetupEnd PROVE SetupSound'
  OBVIOUS
<1> USE DEF Looping, InBlock, Between, Handling, Buffered
<1>1. AreaPlaced /\ BlockPlaced /\ BytesInv /\ RecordInv /\ DamageInv
  BY DEF SetupSound, PlaceInv
<1>2. /\ setup.pc \in {"abort", "err"} /\ drive.mounted
      /\ drive.confStart = ConfStart /\ drive.confEnd = ConfEnd
  BY <1>1 DEF SetupEnd, AreaPlaced
<1> DEFINE start == IF drive.end = -1 THEN -1 ELSE drive.start
<1>3. /\ UNCHANGED <<header, sector, failures, crashes>>
      /\ drive'.mounted = drive.mounted /\ drive'.start = start /\ drive'.end = drive.end
      /\ drive'.confStart = drive.confStart /\ drive'.confEnd = drive.confEnd
      /\ setup'.mode = setup.mode /\ setup'.size = 0 /\ setup'.offset = 0 /\ setup'.bytes = 0
      /\ setup'.headerUpdateRequired = setup.headerUpdateRequired
      /\ setup'.pc = IF ~Encrypting /\ start >= drive.end THEN "holdLast" ELSE "saveLast"
  <2>1. Encrypting <=> setup.mode # "decryption"
    BY <1>1 DEF BlockPlaced, Encrypting
  <2> QED
    BY <2>1 DEF SetupEnd, SetupFrame, Quiet, KInv, Shapes, NoThread, Unmounted
<1>4. Reached' = Reached /\ Recorded' = Recorded /\ Encrypting' = Encrypting /\ Area' = Area
  BY <1>2, <1>3 DEF Reached, Recorded, Encrypting, Area
<1>5. /\ start \in {-1, ConfStart} /\ (start = -1 <=> drive.end = -1)
      /\ start >= drive.end <=> Reached = ConfStart
  <2>1. start \in {-1, ConfStart} /\ (start = -1 <=> drive.end = -1) /\ drive.end \in Int
    BY <1>1, Numbers DEF AreaPlaced
  <2>2. drive.end = -1 => Reached = ConfStart
    BY DEF Reached
  <2>3. drive.end # -1 => (AreaIsEmpty <=> start >= drive.end)
    BY <2>1, Numbers DEF AreaIsEmpty
  <2> QED
    BY <1>1, <2>1, <2>2, <2>3, EmptyArea
<1> HIDE DEF start
<1>6. AreaPlaced'
  BY <1>1, <1>2, <1>3, <1>4, <1>5 DEF AreaPlaced
<1>7. BlockPlaced'
  BY <1>1, <1>2, <1>3, <1>4, AlignedFacts, Numbers DEF BlockPlaced
<1>8. BytesInv'
  BY <1>3 DEF BytesInv
<1>9. RecordInv'
  <2>1. Reached \in Int /\ Recorded \in Int /\ Reached >= ConfStart /\ setup.bytes \in Nat
        /\ setup.bytes <= Lag
        /\ Reached = IF Encrypting THEN Recorded + setup.bytes ELSE Recorded - setup.bytes
    BY <1>1, <1>2, Numbers DEF AreaPlaced, BlockPlaced, BytesInv, Recorded
  <2>2. IF Encrypting THEN Recorded <= Reached /\ Reached <= Recorded + Lag
                      ELSE Reached <= Recorded /\ Recorded <= Reached + Lag
    BY <2>1, Numbers
  <2>3. ~Encrypting /\ Reached # ConfStart => drive.end > ConfStart /\ Reached > ConfStart
    <3>1. Reached # ConfStart => drive.end \in Int /\ drive.end > start /\ start = ConfStart
      BY <1>1, <1>5, <2>1, Numbers DEF AreaPlaced
    <3> QED
      BY <2>1, <3>1, Numbers
  <2> QED
    BY <1>1, <1>2, <1>3, <1>4, <1>5, <2>1, <2>2, <2>3 DEF RecordInv
<1>10. DamageInv'
  BY <1>1, <1>2, <1>3, <1>4, DamageOutside
<1> QED
  BY <1>6, <1>7, <1>8, <1>9, <1>10 DEF SetupSound, PlaceInv

LEMMA LossDecrypted == KInv /\ SetupSound /\ SetupDecrypted => SetupSound'
<1> SUFFICES ASSUME KInv, SetupSound, SetupDecrypted PROVE SetupSound'
  OBVIOUS
<1> USE DEF Looping, InBlock, Between, Handling, Buffered
<1>1. AreaPlaced /\ BlockPlaced /\ BytesInv /\ RecordInv /\ DamageInv
  BY DEF SetupSound, PlaceInv
<1>2. setup.pc = "holdLast" /\ drive.mounted /\ ~Encrypting /\ Reached = ConfStart
  BY <1>1 DEF SetupDecrypted, AreaPlaced, RecordInv
<1>3. /\ UNCHANGED <<header, sector, failures, crashes>>
      /\ drive'.mounted = drive.mounted /\ drive'.start = -1 /\ drive'.end = -1
      /\ drive'.confEnd = -1
      /\ setup'.mode = setup.mode /\ setup'.size = setup.size /\ setup'.offset = setup.offset
      /\ setup'.bytes = setup.bytes /\ setup'.headerUpdateRequired
      /\ setup'.headerUpdateRequired \in BOOLEAN /\ setup'.pc = "saveLast"
  BY DEF SetupDecrypted, SetupFrame, Quiet, KInv, Shapes, NoThread, Unmounted
<1>4. Reached' = Reached /\ Recorded' = Recorded /\ Encrypting' = Encrypting /\ Area' = Area
  BY <1>2, <1>3 DEF Reached, Recorded, Encrypting, Area
<1>5. AreaPlaced'
  BY <1>1, <1>2, <1>3, <1>4 DEF AreaPlaced
<1>6. BlockPlaced'
  BY <1>1, <1>2, <1>3, <1>4 DEF BlockPlaced
<1>7. BytesInv'
  BY <1>3 DEF BytesInv
<1>8. RecordInv'
  BY <1>1, <1>2, <1>3, <1>4 DEF RecordInv
<1>9. DamageInv'
  BY <1>1, <1>2, <1>3, <1>4, DamageOutside
<1> QED
  BY <1>5, <1>6, <1>7, <1>8, <1>9 DEF SetupSound, PlaceInv

LEMMA LossSaveLast == KInv /\ SetupSound /\ HeadersSaved /\ SetupSaveLast => SetupSound'
<1> SUFFICES ASSUME KInv, SetupSound, HeadersSaved, SetupSaveLast PROVE SetupSound'
  OBVIOUS
<1> USE DEF Looping, InBlock, Between, Handling, Buffered
<1>1. AreaPlaced /\ BlockPlaced /\ BytesInv /\ RecordInv /\ DamageInv
  BY DEF SetupSound, PlaceInv
<1>2. /\ setup.pc = "saveLast" /\ drive.mounted
      /\ Encrypting /\ setup.headerUpdateRequired => Reached > ConfStart
      /\ drive.confEnd = -1 => setup.headerUpdateRequired /\ ~Encrypting /\ drive.start = -1
      /\ drive.confEnd # -1 => drive.confStart = ConfStart /\ drive.confEnd = ConfEnd
  BY <1>1, Numbers DEF SetupSaveLast, AreaPlaced, RecordInv
<1>3. /\ DriveSame /\ UNCHANGED <<sector, failures, crashes>> /\ BlockSame
      /\ IF setup.headerUpdateRequired THEN header' = SavedHeader ELSE header' = header
      /\ setup'.pc = IF ~Encrypting /\ drive.confEnd = -1 THEN "poll" ELSE "ret"
  <2>1. Encrypting <=> setup.mode # "decryption"
    BY <1>1 DEF BlockPlaced, Encrypting
  <2>2. /\ DriveSame /\ UNCHANGED <<sector, failures, crashes>> /\ BlockSame
        /\ IF setup.headerUpdateRequired THEN header' = SavedHeader ELSE header' = header
    BY DEF SetupSaveLast, SaveDriveVolumeHeader, FailedSave, Fail, HeadersSaved, SetupFrame,
           Succeed, SetupGo, KInv, Shapes, NoThread, Unmounted, DriveSame, BlockSame
  <2>3. setup'.pc = IF setup.mode = "decryption" /\ drive.confEnd = -1 /\ drive.mounted
                    THEN "poll" ELSE "ret"
    BY DEF SetupSaveLast, SetupGo, KInv, Shapes, NoThread
  <2> QED
    BY <1>2, <2>1, <2>2, <2>3
<1>4. /\ header' \in [present : BOOLEAN, length : Nat]
      /\ ConfStart + header'.length = Reached
      /\ header'.present \/ Reached = ConfStart
      /\ Reached > ConfStart => header'.present = header.present
  <2>1. Reached \in Int /\ Reached >= ConfStart /\ header \in [present : BOOLEAN, length : Nat]
    BY <1>1, Numbers DEF AreaPlaced
  <2>2. CASE setup.headerUpdateRequired
    <3>1. Reached > ConfStart => header.present
      BY <1>1, <1>2, Numbers DEF RecordInv
    <3>2. /\ SavedHeader \in [present : BOOLEAN, length : Nat]
          /\ ConfStart + SavedHeader.length = Reached
          /\ SavedHeader.present <=> header.present /\ Reached > ConfStart
      BY <1>1, <1>2, <2>2, WhatIsSaved DEF BlockPlaced
    <3> QED
      BY <1>3, <2>1, <2>2, <3>1, <3>2, Numbers
  <2>3. CASE ~setup.headerUpdateRequired
    <3>1. Recorded = Reached /\ (header.present \/ Reached = ConfStart)
      BY <1>1, <1>2, <2>3 DEF RecordInv
    <3> QED
      BY <1>3, <2>1, <2>3, <3>1 DEF Recorded
  <2> QED
    BY <2>2, <2>3
<1>5. Reached' = Reached /\ Recorded' = Reached /\ Encrypting' = Encrypting /\ Area' = Area
  BY <1>2, <1>3, <1>4 DEF Reached, Recorded, Encrypting, Area, DriveSame, BlockSame
<1>6. AreaPlaced'
  BY <1>1, <1>2, <1>3, <1>4, <1>5, Numbers DEF AreaPlaced, DriveSame, BlockSame
<1>7. BlockPlaced'
  BY <1>1, <1>2, <1>3, <1>5 DEF BlockPlaced, DriveSame, BlockSame
<1>8. BytesInv'
  BY <1>3 DEF BytesInv
<1>9. RecordInv'
  <2>1. Reached \in Int /\ Reached >= ConfStart /\ header'.length \in Nat
    BY <1>1, <1>4, Numbers DEF AreaPlaced
  <2>2. header'.present \/ header'.length = 0
    BY <1>4, <2>1, Numbers
  <2>3. header'.present \/ (~Encrypting /\ Reached = ConfStart /\ setup'.pc = "poll")
    <3>1. CASE setup.headerUpdateRequired /\ Encrypting
      BY <1>2, <1>4, <2>1, <3>1, Numbers
    <3>2. CASE ~setup.headerUpdateRequired
      <4>1. header' = header /\ drive.confEnd # -1
        BY <1>2, <1>3, <3>2
      <4>2. header.present \/ (~Encrypting /\ Reached = ConfStart)
        BY <1>1, <1>2 DEF RecordInv
      <4>3. ~Encrypting => Reached > ConfStart
        BY <1>1, <1>2, <4>1 DEF RecordInv
      <4> QED
        BY <2>1, <4>1, <4>2, <4>3, Numbers
    <3>3. CASE ~Encrypting
      <4>1. Reached > ConfStart \/ drive.confEnd = -1
        BY <1>1, <1>2, <3>3 DEF RecordInv
      <4> QED
        BY <1>3, <1>4, <2>1, <3>3, <4>1, Numbers
    <3> QED
      BY <3>1, <3>2, <3>3
  <2> QED
    BY <1>1, <1>2, <1>3, <1>5, <2>2, <2>3 DEF RecordInv, DriveSame, BlockSame
<1>10. DamageInv'
  BY <1>1, <1>2, <1>3, <1>5, DamageOutside
<1> QED
  BY <1>6, <1>7, <1>8, <1>9, <1>10 DEF SetupSound, PlaceInv

LEMMA LossReturn == KInv /\ SetupSound /\ (SetupDismount \/ SetupReturn) => SetupSound'
<1> SUFFICES ASSUME KInv, SetupSound, SetupDismount \/ SetupReturn PROVE SetupSound'
  OBVIOUS
<1> USE DEF Looping, InBlock, Between, Handling, Buffered
<1>1. AreaPlaced /\ BlockPlaced /\ BytesInv /\ RecordInv /\ DamageInv
  BY DEF SetupSound, PlaceInv
<1>2. /\ UNCHANGED <<header, sector, failures, crashes>>
      /\ drive'.start = drive.start /\ drive'.end = drive.end
      /\ drive'.confStart = drive.confStart /\ drive'.confEnd = drive.confEnd
  BY DEF SetupDismount, SetupReturn, SetupFrame, Quiet, KInv, Shapes, Unmounted
<1>3. Reached' = Reached /\ Recorded' = Recorded
  BY <1>2 DEF Reached, Recorded
<1>4. CASE SetupDismount
  <2>1. /\ setup.pc = "dismount" /\ setup'.pc = "ret" /\ BlockSame
        /\ drive.mounted /\ ~drive'.mounted /\ Reached = Recorded
    BY <1>1, <1>4 DEF SetupDismount, SetupGo, KInv, Shapes, NoThread, Unmounted, BlockSame,
                      AreaPlaced, RecordInv
  <2>2. Encrypting' = Encrypting /\ Area' = Area
    BY <1>3, <2>1 DEF Encrypting, Area, BlockSame
  <2>3. AreaPlaced'
    BY <1>1, <1>2, <1>3, <2>1 DEF AreaPlaced
  <2>4. BlockPlaced'
    BY <1>1, <1>2, <1>3, <2>1, <2>2 DEF BlockPlaced, BlockSame
  <2>5. BytesInv'
    BY <2>1 DEF BytesInv
  <2>6. RecordInv'
    BY <1>1, <1>2, <1>3, <2>1, <2>2 DEF RecordInv, BlockSame
  <2>7. DamageInv'
    BY <1>1, <1>2, <2>1, <2>2, DamageOutside
  <2> QED
    BY <2>3, <2>4, <2>5, <2>6, <2>7 DEF SetupSound, PlaceInv
<1>5. CASE SetupReturn
  <2>1. /\ setup.pc = "ret" /\ drive'.mounted = drive.mounted
        /\ setup' = [NoThread EXCEPT !.pc = "done"]
    BY <1>5 DEF SetupReturn, Quiet
  <2>2. /\ setup'.pc = "done" /\ setup'.mode = "encryption" /\ setup'.size = 0 /\ setup'.offset = 0
        /\ setup'.bytes = 0 /\ ~setup'.headerUpdateRequired /\ setup'.headerUpdateRequired \in BOOLEAN
    BY <2>1 DEF NoThread
  <2>3. Encrypting' /\ Area' = Area
    BY <1>3, <2>1, <2>2 DEF Encrypting, Area
  <2>4. AreaPlaced'
    BY <1>1, <1>2, <1>3, <2>1, <2>2 DEF AreaPlaced
  <2>5. BlockPlaced'
    <3>1. Aligned(0)
      BY AlignedFacts
    <3> QED
      BY <2>2, <3>1, Numbers DEF BlockPlaced
  <2>6. BytesInv'
    BY <2>2 DEF BytesInv
  <2>7. RecordInv'
    BY <1>1, <1>2, <1>3, <2>1, <2>2, <2>3 DEF RecordInv
  <2>8. DamageInv'
    BY <1>1, <1>2, <2>1, <2>2, <2>3, DamageOutside
  <2> QED
    BY <2>4, <2>5, <2>6, <2>7, <2>8 DEF SetupSound, PlaceInv
<1> QED
  BY <1>4, <1>5

-----------------------------------------------------------------------------
LEMMA LossSetupThread == KInv /\ SetupSound /\ HeadersSaved /\ SetupThreadProc => SetupSound'
  BY LossWait, LossMode, LossLoop, LossRead, LossWrite, LossUndo, LossAdvance, LossSave, LossEnd,
     LossDecrypted, LossSaveLast, LossReturn DEF SetupThreadProc

\* A power failure costs what the header lacks and the block under way.
LEMMA LossCrash == KInv /\ SetupSound /\ Crash => SetupSound'
<1> SUFFICES ASSUME KInv, SetupSound, Crash PROVE SetupSound'
  OBVIOUS
<1> USE DEF Looping, InBlock, Between, Handling, Buffered
<1>1. AreaPlaced /\ BlockPlaced /\ BytesInv /\ RecordInv /\ DamageInv
  BY DEF SetupSound, PlaceInv
<1>2. /\ drive.mounted /\ UNCHANGED <<sector, header, failures>> /\ crashes' = crashes + 1
      /\ ~drive'.mounted /\ drive'.start = -1 /\ drive'.end = -1
      /\ setup' = NoThread
  BY DEF Crash, Unmounted
<1>3. /\ setup'.pc = "none" /\ setup'.mode = "encryption" /\ setup'.size = 0 /\ setup'.offset = 0
      /\ setup'.bytes = 0 /\ ~setup'.headerUpdateRequired
      /\ setup'.headerUpdateRequired \in BOOLEAN
  BY <1>2 DEF NoThread
<1>4. Reached' = ConfStart /\ Recorded' = Recorded /\ Area' = Recorded /\ Encrypting'
  BY <1>2, <1>3 DEF Reached, Recorded, Area, Encrypting
<1>5. Aligned(0) /\ Aligned(ConfStart)
  BY AlignedFacts
<1>6. AreaPlaced'
  BY <1>1, <1>2, <1>3, <1>4, <1>5, Numbers DEF AreaPlaced
<1>7. BlockPlaced'
  BY <1>3, <1>5, Numbers DEF BlockPlaced
<1>8. BytesInv'
  BY <1>3 DEF BytesInv
<1>9. RecordInv'
  BY <1>1, <1>2, <1>3 DEF RecordInv
<1>10. /\ Reached \in Int /\ Recorded \in Int /\ Area = Reached /\ Lag \in Nat
       /\ setup.offset \in Int /\ setup.size \in Nat /\ setup.bytes \in Nat
  BY <1>1, <1>2, Numbers DEF AreaPlaced, BlockPlaced, Recorded, Area
<1> DEFINE inside == setup.pc \in Buffered \cup {"advance"}
           low == IF Encrypting THEN Recorded
                  ELSE IF inside THEN setup.offset ELSE Reached
<1>11. low \in Int
  BY <1>10
<1>12. /\ IF Encrypting THEN Recorded <= Reached /\ Reached <= Recorded + Lag
                        ELSE Reached <= Recorded /\ Recorded <= Reached + Lag
       /\ inside => IF Encrypting
                    THEN setup.offset = Reached /\ Reached + setup.size <= Recorded + Lag
                    ELSE setup.offset + setup.size = Reached /\ Recorded <= setup.offset + Lag
  <2>1. CASE setup.pc \in Looping \cup {"abort", "err"}
    <3>1. setup.bytes <= Lag
          /\ Reached = IF Encrypting THEN Recorded + setup.bytes ELSE Recorded - setup.bytes
      BY <1>1, <2>1 DEF BytesInv
    <3>2. inside => /\ setup.bytes + setup.size <= Lag
                    /\ IF Encrypting THEN setup.offset = Reached
                                     ELSE setup.offset + setup.size = Reached
      BY <1>1 DEF BytesInv, BlockPlaced
    <3> HIDE DEF inside
    <3> QED
      BY <1>10, <3>1, <3>2
  <2>2. CASE setup.pc \in {"holdLast", "saveLast"}
    BY <1>1, <2>2 DEF RecordInv
  <2>3. CASE setup.pc \notin Looping \cup {"abort", "err", "holdLast", "saveLast"}
    <3>1. Recorded = Reached
      <4>1. setup.headerUpdateRequired => setup.pc \in {"poll", "dismount", "ret"}
        BY <1>1, <2>3 DEF BlockPlaced, RecordInv
      <4> QED
        BY <1>1, <1>2, <4>1 DEF RecordInv
    <3> QED
      BY <1>10, <2>3, <3>1
  <2> QED
    BY <2>1, <2>2, <2>3
<1>13. ASSUME NEW s \in Bad', s \notin Bad PROVE low <= Position(s) /\ Position(s) < low + Lag
  <2>1. s \in Sectors /\ Content(s)' # Wanted(s)' /\ Content(s) = Wanted(s)
    BY <1>13 DEF Bad
  <2>2. Content(s)' = sector[s] /\ Wanted(s)' = IF Position(s) < Recorded THEN 1 ELSE 0
    BY <1>2, <1>3, <1>4 DEF Content, Wanted
  <2>3. Position(s) \in Nat
    BY <2>1, SectorsInside
  <2>4. CASE inside /\ s \in BlockSectors
    <3>1. setup.offset <= Position(s) /\ Position(s) < setup.offset + setup.size
      BY <2>4, SectorsOfBlock DEF BlockSectors
    <3>2. IF Encrypting
          THEN /\ setup.offset = Reached /\ Reached + setup.size <= Recorded + Lag
               /\ Recorded <= Reached
          ELSE /\ setup.offset + setup.size = Reached /\ Recorded <= setup.offset + Lag
               /\ Reached <= Recorded
      BY <1>12, <2>4
    <3>3. low = IF Encrypting THEN Recorded ELSE setup.offset
      BY <2>4
    <3> HIDE DEF low, inside
    <3> QED
      BY <1>10, <2>3, <3>1, <3>2, <3>3
  <2>5. CASE ~(inside /\ s \in BlockSectors)
    <3>1. Content(s) = sector[s] /\ Wanted(s) = IF Position(s) < Reached THEN 1 ELSE 0
      BY <1>10, <2>5 DEF Content, Wanted
    <3>2. ~(Position(s) < Reached <=> Position(s) < Recorded)
      BY <2>1, <2>2, <3>1
    <3>3. low = Recorded \/ (~Encrypting /\ (low = Reached \/ (low = setup.offset /\ inside)))
      OBVIOUS
    <3>4. IF Encrypting THEN low = Recorded ELSE low <= Reached /\ Recorded <= low + Lag
      BY <1>10, <1>12
    <3> HIDE DEF low, inside
    <3> QED
      BY <1>10, <1>11, <1>12, <2>3, <3>2, <3>4
  <2> QED
    BY <2>4, <2>5
<1>14. Bad \in SUBSET Sectors /\ Bad' \in SUBSET Sectors
  BY DEF Bad
<1>15. SectorBytes * Cardinality(Bad') <= SectorBytes * Cardinality(Bad) + Lag
  <2>1. \A s \in Bad' : s \in Bad \/ (low <= Position(s) /\ Position(s) < low + Lag)
    BY <1>13
  <2>2. Lag \in Nat /\ Aligned(Lag)
    BY LagFacts
  <2> HIDE DEF low
  <2> QED
    BY <1>11, <1>14, <2>1, <2>2, StretchAdds
<1>16. DamageInv'
  <2>1. /\ failures \in Nat /\ crashes \in Nat /\ sector \in [Sectors -> Int]
        /\ SectorBytes * Cardinality(Bad) <= Allowed(crashes, Charged)
        /\ Charged \in Nat /\ (failures = Charged \/ failures = Charged + 1)
    BY <1>1 DEF DamageInv, Charged
  <2>2. PICK c \in Nat, f \in Nat, g \in Nat : c = crashes /\ f = Charged /\ g = failures
                                             /\ (g = f \/ g = f + 1)
    BY <2>1
  <2>3. /\ Allowed(c, f) \in Nat /\ Allowed(c, g) \in Nat /\ Allowed(c, f) <= Allowed(c, g)
        /\ Allowed(c + 1, g) = Allowed(c, g) + Lag
    <3>1. Allowed(c, f) <= Allowed(c, f + 1) /\ Allowed(c, f) \in Nat
      BY AllowedFacts
    <3>2. Allowed(c, g) \in Nat /\ Allowed(c + 1, g) = Allowed(c, g) + Lag
      BY AllowedFacts
    <3> QED
      BY <2>2, <3>1, <3>2
  <2>4. Charged' = g /\ crashes' = c + 1
    BY <1>2, <1>3, <2>2 DEF Charged
  <2>5. SectorBytes * Cardinality(Bad') <= Allowed(crashes', Charged')
    BY <1>10, <1>14, <1>15, <2>1, <2>2, <2>3, <2>4, BadNumber
  <2> QED
    BY <1>2, <1>3, <2>1, <2>5 DEF DamageInv
<1> QED
  BY <1>6, <1>7, <1>8, <1>9, <1>16 DEF SetupSound, PlaceInv

LEMMA LossMount == KInv /\ SetupSound /\ MountDrive => SetupSound'
<1> SUFFICES ASSUME KInv, SetupSound, MountDrive PROVE SetupSound'
  OBVIOUS
<1> USE DEF Looping, InBlock, Between, Handling, Buffered
<1>1. AreaPlaced /\ BlockPlaced /\ BytesInv /\ RecordInv /\ DamageInv
  BY DEF SetupSound, PlaceInv
<1>2. /\ ~drive.mounted /\ header.present /\ setup.pc = "none"
      /\ UNCHANGED <<sector, header, setup, held, failures, crashes>>
      /\ drive'.mounted /\ drive'.confStart = ConfStart /\ drive'.confEnd = ConfEnd
      /\ drive'.start = (IF header.length = 0 THEN -1 ELSE ConfStart)
      /\ drive'.end = (IF header.length = 0 THEN -1 ELSE ConfStart + header.length - 1)
  BY DEF MountDrive, AreaEnd, KInv, Shapes, Unmounted
<1>3. header.length \in Nat /\ Aligned(Recorded) /\ Recorded = ConfStart + header.length
      /\ Recorded <= ConfEnd + 1
  BY <1>1 DEF AreaPlaced, Recorded
<1>4. /\ Reached' = Recorded /\ Recorded' = Recorded /\ Area' = Recorded /\ Area = Recorded
      /\ Encrypting' = Encrypting
  BY <1>2, <1>3, Numbers DEF Reached, Recorded, Area, Encrypting
<1>5. AreaPlaced'
  BY <1>1, <1>2, <1>3, <1>4, Numbers DEF AreaPlaced
<1>6. BlockPlaced'
  BY <1>1, <1>2, <1>4 DEF BlockPlaced
<1>7. BytesInv'
  BY <1>2 DEF BytesInv
<1>8. RecordInv'
  <2>1. drive'.end = -1 \/ drive'.end > ConfStart
    <3>1. \A x, y \in Int : Aligned(x) /\ Aligned(y) => (x < y => x + 1 < y)
      BY AlignedFacts
    <3>2. Recorded \in Int /\ ConfStart \in Int /\ Aligned(ConfStart)
      <4>1. Aligned(ConfStart)
        BY AlignedFacts
      <4> QED
        BY <1>3, <4>1, Numbers
    <3>3. ConfStart < Recorded => ConfStart + 1 < Recorded
      BY <1>3, <3>1, <3>2
    <3> QED
      BY <1>2, <1>3, <3>3, Numbers
  <2>2. ~setup.headerUpdateRequired
    BY <1>1, <1>2 DEF BlockPlaced
  <2> QED
    BY <1>1, <1>2, <1>4, <2>1, <2>2 DEF RecordInv
<1>9. DamageInv'
  BY <1>1, <1>2, <1>4, DamageOutside
<1> QED
  BY <1>5, <1>6, <1>7, <1>8, <1>9 DEF SetupSound, PlaceInv

\* Whoever else acts leaves the area, the header and the block alone.
LEMMA LossUntouched ==
    ASSUME SetupSound, UNCHANGED <<header, sector, failures, crashes, held>>, DriveSame, BlockSame,
           setup'.pc = setup.pc, setup'.buffer = setup.buffer
    PROVE  SetupSound'
<1> USE DEF Looping, InBlock, Between, Handling, Buffered
<1>1. AreaPlaced /\ BlockPlaced /\ BytesInv /\ RecordInv /\ DamageInv
  BY DEF SetupSound, PlaceInv
<1>2. Reached' = Reached /\ Recorded' = Recorded /\ Encrypting' = Encrypting /\ Area' = Area
  BY DEF Reached, Recorded, Encrypting, Area, DriveSame, BlockSame
<1>3. AreaPlaced'
  BY <1>1, <1>2 DEF AreaPlaced, DriveSame, BlockSame
<1>4. BlockPlaced'
  BY <1>1, <1>2 DEF BlockPlaced, DriveSame, BlockSame
<1>5. BytesInv'
  BY <1>1, <1>2 DEF BytesInv, LastBlock, BlockSame
<1>6. RecordInv'
  BY <1>1, <1>2 DEF RecordInv, DriveSame, BlockSame
<1>7. DamageInv'
  <2>1. BlockSectors' = BlockSectors
    BY DEF BlockSectors, SectorsOf, BlockSame
  <2>2. \A s \in Sectors : Content(s)' = Content(s) /\ Wanted(s)' = Wanted(s)
    BY <1>2, <2>1 DEF Content, Wanted
  <2>3. Bad' = Bad
    BY <2>2 DEF Bad
  <2>4. Charged' = Charged
    BY DEF Charged
  <2> QED
    BY <1>1, <2>1, <2>3, <2>4 DEF DamageInv
<1> QED
  BY <1>3, <1>4, <1>5, <1>6, <1>7 DEF SetupSound, PlaceInv

\* A thread that is joined, and a new one.
LEMMA LossThread ==
    ASSUME SetupSound, UNCHANGED <<drive, header, sector, failures, crashes, held>>,
           \/ setup.pc = "done" /\ setup' = NoThread
           \/ /\ setup.pc = "none" /\ drive.mounted
              /\ \E mode \in {"encryption", "decryption"} :
                    setup' = [NoThread EXCEPT !.pc = "start", !.size = BlockSize, !.mode = mode]
    PROVE  SetupSound'
<1> USE DEF Looping, InBlock, Between, Handling, Buffered
<1>1. AreaPlaced /\ BlockPlaced /\ BytesInv /\ RecordInv /\ DamageInv
  BY DEF SetupSound, PlaceInv
<1>2. /\ setup'.mode \in {"encryption", "decryption"} /\ setup'.size \in {0, BlockSize}
      /\ setup'.offset = 0 /\ setup'.bytes = 0 /\ ~setup'.headerUpdateRequired
      /\ setup'.headerUpdateRequired \in BOOLEAN
      /\ \/ setup'.pc = "none" /\ setup.pc = "done"
         \/ setup'.pc = "start" /\ setup.pc = "none" /\ drive.mounted /\ setup'.size = BlockSize
  <2>1. CASE setup.pc = "done" /\ setup' = NoThread
    BY <2>1 DEF NoThread
  <2>2. CASE /\ setup.pc = "none" /\ drive.mounted
             /\ \E mode \in {"encryption", "decryption"} :
                   setup' = [NoThread EXCEPT !.pc = "start", !.size = BlockSize, !.mode = mode]
    BY <2>2 DEF NoThread
  <2> QED
    BY <2>1, <2>2
<1>3. Reached' = Reached /\ Recorded' = Recorded /\ Area' = Area
  BY DEF Reached, Recorded, Area
<1>4. Aligned(0) /\ Aligned(BlockSize) /\ BlockSize \in Nat
  BY AlignedFacts, SizeFacts
<1>5. AreaPlaced'
  BY <1>1, <1>2, <1>3 DEF AreaPlaced
<1>6. BlockPlaced'
  BY <1>2, <1>4, Numbers DEF BlockPlaced
<1>7. BytesInv'
  BY <1>2 DEF BytesInv
<1>8. RecordInv'
  <2>1. ~setup.headerUpdateRequired
    BY <1>1, <1>2 DEF BlockPlaced
  <2> QED
    BY <1>1, <1>2, <1>3, <2>1 DEF RecordInv
<1>9. DamageInv'
  BY <1>1, <1>2, <1>3, DamageOutside
<1> QED
  BY <1>5, <1>6, <1>7, <1>8, <1>9 DEF SetupSound, PlaceInv

LEMMA LossControl ==
    KInv /\ ~drive.hidden /\ SetupSound /\ (ControlBegin \/ DeviceControl) => SetupSound'
<1> SUFFICES ASSUME KInv, ~drive.hidden, SetupSound, ControlBegin \/ DeviceControl PROVE SetupSound'
  OBVIOUS
<1> USE DEF KInv, Shapes, NoThread, Unmounted, ControlFrame, DriveSame, BlockSame
<1>1. CASE ControlBegin \/ ControlRefuse \/ ControlCheck
  BY <1>1, LossUntouched DEF ControlBegin, ControlRefuse, ControlCheck
<1>2. CASE ControlAbort
  <2>1. UNCHANGED <<header, sector, failures, crashes, held, drive>>
    BY <1>2 DEF ControlAbort
  <2>2. BlockSame /\ setup'.pc = setup.pc /\ setup'.buffer = setup.buffer
    BY <1>2 DEF ControlAbort
  <2> QED
    BY <2>1, <2>2, LossUntouched
<1>3. CASE ControlJoin
  <2>1. UNCHANGED <<header, sector, failures, crashes, held, drive>>
    BY <1>3 DEF ControlJoin
  <2>2. CASE setup.pc = "done" /\ setup' = NoThread
    BY <2>1, <2>2, LossThread
  <2>3. CASE setup' = setup
    BY <2>1, <2>3, LossUntouched
  <2> QED
    BY <1>3, <2>2, <2>3 DEF ControlJoin
<1>4. CASE StartBootEncryptionSetup
  <2>1. /\ UNCHANGED <<header, sector, failures, crashes, held, drive>>
        /\ setup.pc = "none" /\ drive.mounted
    BY <1>4 DEF StartBootEncryptionSetup, CannotStart
  <2>2. ModeOf[control.request] \in {"encryption", "decryption"}
    BY <1>4 DEF StartBootEncryptionSetup, ModeOf
  <2>3. CASE setup' = [NoThread EXCEPT !.pc = "start", !.size = BlockSize,
                           !.mode = ModeOf[control.request]]
    BY <2>1, <2>2, <2>3, LossThread
  <2>4. CASE setup' = setup
    BY <2>1, <2>4, LossUntouched
  <2> QED
    BY <1>4, <2>3, <2>4 DEF StartBootEncryptionSetup
<1>5. ~StartDecoySystemWipe
  BY DEF StartDecoySystemWipe, CannotStart
<1>6. CASE ControlUse
  BY <1>6, LossUntouched DEF ControlUse
<1> QED
  BY <1>1, <1>2, <1>3, <1>4, <1>5, <1>6 DEF DeviceControl

\* The drive of a hidden system stays one.
LEMMA HiddenStays == KInv /\ [Next]_vars => drive'.hidden = drive.hidden
<1> SUFFICES ASSUME KInv, [Next]_vars PROVE drive'.hidden = drive.hidden
  OBVIOUS
<1> USE DEF KInv, Shapes, Unmounted
<1>1. CASE MountDrive \/ Crash \/ UNCHANGED vars
  BY <1>1 DEF MountDrive, Crash, vars
<1>2. CASE SetupThreadProc
  <2>1. CASE SetupStart \/ SetupHold \/ SetupMode \/ SetupLoop \/ SetupRead \/ SetupWipePass
    BY <2>1 DEF SetupStart, SetupHold, SetupMode, SetupLoop, SetupRead, SetupWipePass
  <2>2. CASE SetupWriteBegin \/ SetupWriteEnd \/ SetupUndo \/ SetupAdvance \/ SetupSave \/ SetupEnd
    BY <2>2 DEF SetupWriteBegin, SetupWriteEnd, SetupUndo, SetupAdvance, SetupSave, SetupEnd,
                SaveDriveVolumeHeader, FailedSave
  <2>3. CASE SetupDecrypted \/ SetupSaveLast \/ SetupPoll \/ SetupDismount \/ SetupReturn
    BY <2>3 DEF SetupDecrypted, SetupSaveLast, SetupPoll, SetupDismount, SetupReturn,
                SaveDriveVolumeHeader, FailedSave
  <2> QED
    BY <1>2, <2>1, <2>2, <2>3 DEF SetupThreadProc
<1>3. CASE DecoySystemWipeThreadProc
  BY <1>3 DEF DecoySystemWipeThreadProc, WipeStart, WipeLoop, WipeHold, WipeWrite, WipeReport,
              WipeEnd, WipeReturn, WipeFrame
<1>4. CASE ControlBegin \/ DeviceControl
  BY <1>4 DEF ControlBegin, DeviceControl, ControlRefuse, ControlAbort, ControlJoin,
              StartBootEncryptionSetup, StartDecoySystemWipe, ControlCheck, ControlUse, ControlFrame
<1> QED
  BY <1>1, <1>2, <1>3, <1>4 DEF Next

LEMMA LossStep == KInv /\ WInv /\ LossInv /\ HeadersSaved /\ [Next]_vars => LossInv'
<1> SUFFICES ASSUME KInv, WInv, LossInv, HeadersSaved, [Next]_vars, ~drive'.hidden
             PROVE  SetupSound'
  BY DEF LossInv
<1>1. ~drive.hidden /\ SetupSound
  BY HiddenStays DEF LossInv
<1>2. ~DecoySystemWipeThreadProc
  BY <1>1 DEF WInv, AreaFixed, DecoySystemWipeThreadProc, WipeStart, WipeLoop, WipeHold, WipeWrite,
              WipeReport, WipeEnd, WipeReturn
<1>3. CASE UNCHANGED vars
  BY <1>1, <1>3, LossUntouched DEF vars, DriveSame, BlockSame
<1> QED
  BY <1>1, <1>2, <1>3, LossSetupThread, LossCrash, LossMount, LossControl DEF Next

\* The area as the set of its sectors.
LEMMA AreaIsSectors ==
    ASSUME SetupSound
    PROVE  \A s \in Sectors : s \in CurrentArea <=> Position(s) < Area
<1> SUFFICES ASSUME NEW s \in Sectors PROVE s \in CurrentArea <=> Position(s) < Area
  OBVIOUS
<1>1. AreaPlaced /\ RecordInv
  BY DEF SetupSound, PlaceInv
<1>2. Position(s) \in Nat /\ ConfStart <= Position(s) /\ ConfStart \in Nat
  BY SectorsInside, Numbers
<1>3. CASE drive.mounted
  <2>1. CurrentArea = AreaSectors(drive.start, drive.end) /\ Area = Reached
    BY <1>3 DEF CurrentArea, Area
  <2>2. CASE drive.start = -1 \/ drive.end = -1
    BY <1>2, <2>1, <2>2 DEF AreaSectors, Reached
  <2>3. CASE ~(drive.start = -1 \/ drive.end = -1)
    <3>1. drive.start = ConfStart /\ drive.end \in Int /\ Reached = drive.end + 1
      BY <1>1, <2>3 DEF AreaPlaced, Reached
    <3>2. s \in CurrentArea <=> /\ ConfStart <= Position(s)
                                /\ Position(s) < ConfStart + (drive.end + 1 - ConfStart)
      BY <2>1, <2>3, <3>1, SectorsOfBlock DEF AreaSectors
    <3> QED
      BY <1>2, <2>1, <3>1, <3>2
  <2> QED
    BY <2>2, <2>3
<1>4. CASE ~drive.mounted
  <2>1. /\ CurrentArea = IF header.present THEN AreaSectors(ConfStart, AreaEnd(header.length)) ELSE {}
        /\ Area = ConfStart + header.length
    BY <1>4 DEF CurrentArea, Area, Recorded
  <2>2. header.length \in Nat
    BY <1>1 DEF AreaPlaced
  <2>3. CASE header.length = 0
    BY <1>2, <2>1, <2>3 DEF AreaSectors, AreaEnd
  <2>4. CASE header.length > 0
    <3>1. header.present /\ AreaEnd(header.length) = ConfStart + header.length - 1
      BY <1>1, <2>2, <2>4 DEF RecordInv, AreaEnd
    <3>2. ConfStart # -1 /\ ConfStart + header.length - 1 # -1
      BY <1>2, <2>2, <2>4
    <3>3. CurrentArea = SectorsOf(ConfStart, (ConfStart + header.length - 1) + 1 - ConfStart)
      BY <2>1, <3>1, <3>2 DEF AreaSectors
    <3>4. s \in CurrentArea <=> /\ ConfStart <= Position(s)
              /\ Position(s) < ConfStart + ((ConfStart + header.length - 1) + 1 - ConfStart)
      BY <3>3, SectorsOfBlock
    <3> QED
      BY <1>2, <2>1, <2>2, <3>4
  <2> QED
    BY <2>2, <2>3, <2>4
<1> QED
  BY <1>3, <1>4

(* What is lost, for any size of the partition and the blocks and any number of faults: a
   power failure costs no more than the blocks handled since the header was last saved and the
   one under way; failing reads and writes cost a block only if the write that undoes a failed
   one fails as well (SetupThreadProc). *)
THEOREM DamageBounded ==
    ASSUME HeadersSaved
    PROVE  Spec => []LossBounded
<1>1. LossInv => LossBounded
  <2> SUFFICES ASSUME SetupSound, ~drive.hidden, ~held
               PROVE  SectorBytes * Cardinality(Damaged) <=
                          crashes * Lag + (failures \div 2) * BlockSize
    BY DEF LossInv, LossBounded
  <2>1. setup.pc \notin Buffered \cup {"advance"}
    BY DEF SetupSound, PlaceInv, BlockPlaced, Handling
  <2>2. \A s \in Sectors : Content(s) = sector[s] /\ Wanted(s) = IF s \in CurrentArea THEN 1 ELSE 0
    BY <2>1, AreaIsSectors DEF Content, Wanted
  <2>3. Bad = Damaged
    BY <2>2 DEF Bad, Damaged
  <2>4. Charged = failures
    BY <2>1 DEF Charged, Buffered
  <2> QED
    BY <2>3, <2>4 DEF SetupSound, DamageInv, Allowed
<1>2. Init => KInv /\ WInv /\ LossInv
  BY KeysInit, WipeInit, LossInit
<1>3. KInv /\ WInv /\ LossInv /\ [Next]_vars => (KInv /\ WInv /\ LossInv)'
  BY KeysStep, WipeStep, LossStep
<1> QED
  BY <1>1, <1>2, <1>3, PTL DEF Spec

(* When the setup thread has ended, or has not been started, the header of a mounted system
   drive is there and records the area that the driver uses, also after postponements, failed
   blocks and power failures: encryption and decryption can be resumed after a restart. *)
THEOREM HeaderUpToDate ==
    ASSUME HeadersSaved
    PROVE  Spec => []HeaderCurrent
<1>1. LossInv => HeaderCurrent
  <2> SUFFICES ASSUME SetupSound, setup.pc \in {"none", "ret", "done"}, drive.mounted
               PROVE  header.present /\ drive.end = AreaEnd(header.length)
    BY DEF LossInv, HeaderCurrent
  <2>1. AreaPlaced /\ BlockPlaced /\ RecordInv
    BY DEF SetupSound, PlaceInv
  <2>2. header.present /\ Recorded = Reached /\ (drive.end = -1 \/ drive.end > ConfStart)
    BY <2>1 DEF RecordInv, BlockPlaced, Looping, InBlock, Between, Handling, Buffered
  <2>3. header.length \in Nat /\ drive.end \in Int /\ (drive.start = -1 => drive.end = -1)
    BY <2>1 DEF AreaPlaced
  <2> QED
    BY <2>2, <2>3, Numbers DEF Recorded, Reached, AreaEnd
<1>2. Init => KInv /\ WInv /\ LossInv
  BY KeysInit, WipeInit, LossInit
<1>3. KInv /\ WInv /\ LossInv /\ [Next]_vars => (KInv /\ WInv /\ LossInv)'
  BY KeysStep, WipeStep, LossStep
<1> QED
  BY <1>1, <1>2, <1>3, PTL DEF Spec

-----------------------------------------------------------------------------
(* The driver in the system. An instance of the application that finds none loads it, and
   the last one unloads it: for any number of instances, versions and starts. *)
CONSTANTS Instances, Versions, MaxStarts
VARIABLES dsDriver, dsService, dsMounted, dsMutex, dsInstance, dsConfig, dsStarts

Service == INSTANCE DriverService

\* Places where an instance has the driver open.
Attached == {"version", "attached", "unload", "count", "unloadToExchange", "countToExchange"}

ServiceShapes ==
    /\ DOMAIN dsDriver = DOMAIN Service!Stopped
    /\ DOMAIN dsInstance = Instances
    /\ \A i \in Instances : DOMAIN dsInstance[i] = DOMAIN Service!Ended

(* A driver is exchanged by removing its service and creating another: both wait until the
   driver has stopped, and it does not stop while someone has it open. *)
HandleInv ==
    /\ dsService = "none" => dsDriver.state = "stopped"
    /\ \A i \in Instances :
          /\ dsInstance[i].handle => dsDriver.state # "stopped"
          /\ dsInstance[i].pc \in Attached => dsInstance[i].handle
          /\ dsInstance[i].pc = "attached" => dsDriver.version = dsInstance[i].version

ServiceInv == ServiceShapes /\ HandleInv

\* The fields of a driver and of an instance.
LEMMA ServiceFields ==
    /\ "state" \in DOMAIN Service!Stopped /\ "version" \in DOMAIN Service!Stopped
    /\ "portable" \in DOMAIN Service!Stopped /\ "noUnload" \in DOMAIN Service!Stopped
    /\ Service!Stopped.state = "stopped"
    /\ "pc" \in DOMAIN Service!Ended /\ "version" \in DOMAIN Service!Ended
    /\ "handle" \in DOMAIN Service!Ended
    /\ "portable" \in DOMAIN Service!Ended /\ "retries" \in DOMAIN Service!Ended
    /\ Service!Ended.pc = "ended" /\ Service!Ended.handle = FALSE
  BY DEF Service!Stopped, Service!Ended

LEMMA ServiceInit == Service!Init => ServiceInv
<1> SUFFICES ASSUME Service!Init PROVE ServiceInv
  OBVIOUS
<1>1. DOMAIN dsDriver = DOMAIN Service!Stopped /\ (dsService = "none" => dsDriver.state = "stopped")
  BY ServiceFields DEF Service!Init
<1>2. DOMAIN dsInstance = Instances /\ \A i \in Instances : dsInstance[i] = Service!Ended
  BY DEF Service!Init
<1> QED
  BY <1>1, <1>2, ServiceFields DEF ServiceInv, ServiceShapes, HandleInv, Attached

\* What instance i does is sound if it leaves the others the driver they have open.
LEMMA InstanceStep ==
    ASSUME ServiceInv, NEW i \in Instances, NEW value, Service!Become(i, value),
           DOMAIN value = DOMAIN Service!Ended, DOMAIN dsDriver' = DOMAIN Service!Stopped,
           dsService' = "none" => dsDriver'.state = "stopped",
           \/ dsDriver'.state # "stopped" /\ dsDriver'.version = dsDriver.version
           \/ \A j \in Instances : j # i => ~dsInstance[j].handle,
           value.handle => dsDriver'.state # "stopped",
           value.pc \in Attached => value.handle,
           value.pc = "attached" => dsDriver'.version = value.version
    PROVE  ServiceInv'
<1>1. /\ DOMAIN dsInstance' = Instances
      /\ \A j \in Instances : dsInstance'[j] = IF j = i THEN value ELSE dsInstance[j]
  BY DEF ServiceInv, ServiceShapes, Service!Become
<1>2. ServiceShapes'
  BY <1>1 DEF ServiceInv, ServiceShapes
<1>3. \A j \in Instances :
          /\ dsInstance'[j].handle => dsDriver'.state # "stopped"
          /\ dsInstance'[j].pc \in Attached => dsInstance'[j].handle
          /\ dsInstance'[j].pc = "attached" => dsDriver'.version = dsInstance'[j].version
  <2> TAKE j \in Instances
  <2>1. CASE j = i
    BY <1>1, <2>1
  <2>2. CASE j # i
    BY <1>1, <2>2 DEF ServiceInv, HandleInv, Attached
  <2> QED
    BY <2>1, <2>2
<1> QED
  BY <1>2, <1>3 DEF ServiceInv, HandleInv

\* An instance that goes somewhere where it need not have the driver open.
LEMMA InstanceGoes ==
    ASSUME ServiceInv, NEW i \in Instances, NEW pc, UNCHANGED <<dsDriver, dsService>>,
           Service!Goto(i, pc), pc \notin Attached \/ dsInstance[i].handle, pc # "attached"
    PROVE  ServiceInv'
<1> DEFINE value == [dsInstance[i] EXCEPT !.pc = pc]
<1>1. /\ DOMAIN value = DOMAIN Service!Ended /\ value.pc = pc /\ value.handle = dsInstance[i].handle
  BY ServiceFields DEF ServiceInv, ServiceShapes
<1>2. dsDriver.state # "stopped" \/ \A j \in Instances : ~dsInstance[j].handle
  BY DEF ServiceInv, HandleInv
<1>3. Service!Become(i, value)
  BY DEF Service!Goto
<1> HIDE DEF value
<1> QED
  BY <1>1, <1>2, <1>3, InstanceStep DEF ServiceInv, ServiceShapes, HandleInv

\* The last handle is closed: the driver may stop then, and only then.
LEMMA HandleClosed ==
    ASSUME ServiceInv, NEW i \in Instances, NEW value, Service!Become(i, value), Service!Close(i),
           DOMAIN value = DOMAIN Service!Ended, ~value.handle, value.pc \notin Attached
    PROVE  ServiceInv'
<1>1. dsDriver' = dsDriver \/ (dsDriver' = Service!Stopped /\ Service!Holders \subseteq {i})
  BY DEF Service!Close
<1>2. dsService' = "none" => dsDriver'.state = "stopped"
  BY <1>1, ServiceFields DEF Service!Close, ServiceInv, HandleInv
<1>3. \/ dsDriver'.state # "stopped" /\ dsDriver'.version = dsDriver.version
      \/ \A j \in Instances : j # i => ~dsInstance[j].handle
  BY <1>1 DEF Service!Holders, ServiceInv, HandleInv
<1>4. DOMAIN dsDriver' = DOMAIN Service!Stopped
  BY <1>1 DEF ServiceInv, ServiceShapes
<1> QED
  BY <1>2, <1>3, <1>4, InstanceStep DEF Attached

LEMMA InstanceEnds == ASSUME ServiceInv, NEW i \in Instances, Service!End(i) PROVE ServiceInv'
  BY HandleClosed, ServiceFields DEF Service!End, Attached

LEMMA ServiceStep == ServiceInv /\ [Service!Next]_(Service!dsVars) => ServiceInv'
<1> SUFFICES ASSUME ServiceInv, Service!Next PROVE ServiceInv'
  <2>1. ServiceInv /\ UNCHANGED Service!dsVars => ServiceInv'
    BY DEF ServiceInv, ServiceShapes, HandleInv, Service!dsVars
  <2> QED
    BY <2>1
<1>0. PICK i \in Instances :
        \/ Service!Start(i) \/ Service!OpenDriver(i)
        \/ Service!CreateDriverSetupMutex(i) \/ Service!AwaitDriverSetupMutex(i)
        \/ Service!ReinstallDriver(i) \/ Service!RemoveStaleService(i)
        \/ Service!CreateAndStartService(i) \/ Service!ReopenDriver(i)
        \/ Service!CheckVersion(i) \/ Service!Fail(i) \/ Service!Cleanup(i)
        \/ Service!TestForVolumes(i) \/ Service!TestForApplications(i)
        \/ Service!StopService(i) \/ Service!Mount(i) \/ Service!Dismount(i)
  BY DEF Service!Next
\* Others keep the driver that they have open, or nobody has one open.
<1>a. dsDriver.state # "stopped" \/ \A j \in Instances : ~dsInstance[j].handle
  BY DEF ServiceInv, HandleInv
<1>b. DOMAIN dsInstance[i] = DOMAIN Service!Ended
  BY DEF ServiceInv, ServiceShapes
<1>c. \A pc : LET value == [dsInstance[i] EXCEPT !.pc = pc, !.handle = TRUE]
              IN DOMAIN value = DOMAIN Service!Ended /\ value.pc = pc /\ value.handle
  BY <1>b, ServiceFields
<1>1. CASE Service!Start(i)
  <2>1. PICK v \in Versions : Service!Become(i, [Service!Ended EXCEPT !.pc = "open", !.version = v])
    BY <1>1 DEF Service!Start
  <2> DEFINE value == [Service!Ended EXCEPT !.pc = "open", !.version = v]
  <2>2. DOMAIN value = DOMAIN Service!Ended /\ value.pc = "open" /\ ~value.handle
    BY ServiceFields
  <2> HIDE DEF value
  <2>3. Service!Become(i, value)
    BY <2>1 DEF value
  <2> QED
    BY <1>1, <1>a, <2>2, <2>3, InstanceStep
       DEF Service!Start, ServiceInv, ServiceShapes, HandleInv, Attached
<1>2. CASE Service!OpenDriver(i)
  <2> DEFINE value == [dsInstance[i] EXCEPT !.pc = "version", !.handle = TRUE]
  <2>1. CASE dsDriver.state = "running" /\ Service!Become(i, value)
    <3>1. DOMAIN value = DOMAIN Service!Ended /\ value.pc = "version" /\ value.handle
      BY <1>c
    <3> HIDE DEF value
    <3> QED
      BY <1>2, <2>1, <3>1, InstanceStep DEF Service!OpenDriver, ServiceInv, ServiceShapes, HandleInv
  <2>2. CASE Service!Goto(i, "mutex")
    BY <1>2, <2>2, InstanceGoes DEF Service!OpenDriver, Attached
  <2> QED
    BY <1>2, <2>1, <2>2 DEF Service!OpenDriver
<1>3. CASE Service!CreateDriverSetupMutex(i) \/ Service!AwaitDriverSetupMutex(i)
  BY <1>3, InstanceGoes DEF Service!CreateDriverSetupMutex, Service!AwaitDriverSetupMutex, Attached
<1>4. CASE Service!ReinstallDriver(i)
  <2> DEFINE value == [dsInstance[i] EXCEPT !.pc = "version", !.handle = TRUE]
             failed == [dsInstance[i] EXCEPT !.pc = "failed"]
  <2>1. CASE Service!Goto(i, "failed") /\ UNCHANGED <<dsDriver, dsService>>
    BY <2>1, InstanceGoes DEF Attached
  <2>2. CASE /\ dsService' = "installed"
             /\ dsDriver' = IF dsDriver.state # "stopped" THEN dsDriver
                     ELSE [Service!Stopped EXCEPT !.state = "running",
                                                  !.version = dsInstance[i].version]
             /\ IF dsDriver'.state = "running" THEN Service!Become(i, value)
                ELSE Service!Become(i, failed)
    <3>1. /\ DOMAIN dsDriver' = DOMAIN Service!Stopped
          /\ dsDriver'.state # "stopped"
          /\ dsDriver'.version = dsDriver.version \/ \A j \in Instances : ~dsInstance[j].handle
      BY <1>a, <2>2, ServiceFields DEF ServiceInv, ServiceShapes
    <3>2. DOMAIN value = DOMAIN Service!Ended /\ value.pc = "version" /\ value.handle
      BY <1>c
    <3>3. DOMAIN failed = DOMAIN Service!Ended /\ failed.pc = "failed"
      BY <1>b, ServiceFields
    <3> HIDE DEF value, failed
    <3> QED
      BY <2>2, <3>1, <3>2, <3>3, InstanceStep DEF Attached
  <2> QED
    BY <1>4, <2>1, <2>2 DEF Service!ReinstallDriver, Service!Goto
<1>5. CASE Service!RemoveStaleService(i)
  <2> DEFINE value == [dsInstance[i] EXCEPT !.pc = "create"]
  <2>1. /\ DOMAIN value = DOMAIN Service!Ended /\ value.pc = "create"
        /\ value.handle = dsInstance[i].handle
    BY <1>b, ServiceFields
  <2>2. Service!Become(i, value) /\ UNCHANGED dsDriver
        /\ (dsService' = "none" => dsDriver.state = "stopped")
    BY <1>5 DEF Service!RemoveStaleService, Service!Goto, ServiceInv, HandleInv
  <2> HIDE DEF value
  <2> QED
    BY <1>a, <2>1, <2>2, InstanceStep DEF ServiceInv, ServiceShapes, HandleInv, Attached
<1>6. CASE Service!CreateAndStartService(i)
  <2> DEFINE value == [dsInstance[i] EXCEPT !.pc = "reopen", !.portable = TRUE]
  <2>1. CASE Service!Goto(i, "failed") /\ UNCHANGED <<dsDriver, dsService>>
    BY <2>1, InstanceGoes DEF Attached
  <2>2. CASE /\ dsService = "none" /\ dsService' = "marked" /\ Service!Become(i, value)
             /\ dsDriver' = [Service!Stopped EXCEPT !.state = "running",
                                                    !.version = dsInstance[i].version]
    <3>1. DOMAIN value = DOMAIN Service!Ended /\ value.pc = "reopen"
      BY <1>b, ServiceFields
    <3>2. DOMAIN dsDriver' = DOMAIN Service!Stopped /\ dsDriver'.state = "running"
      BY <2>2, ServiceFields
    <3>3. \A j \in Instances : ~dsInstance[j].handle
      BY <2>2 DEF ServiceInv, HandleInv
    <3> HIDE DEF value
    <3> QED
      BY <2>2, <3>1, <3>2, <3>3, InstanceStep DEF Attached
  <2> QED
    BY <1>6, <2>1, <2>2 DEF Service!CreateAndStartService
<1>7. CASE Service!ReopenDriver(i)
  <2> DEFINE value == [dsInstance[i] EXCEPT !.pc = "version", !.handle = TRUE]
  <2>1. CASE Service!Goto(i, "failed") /\ UNCHANGED dsDriver
    BY <1>7, <2>1, InstanceGoes DEF Service!ReopenDriver, Attached
  <2>2. CASE /\ dsDriver.state = "running" /\ Service!Become(i, value) /\ UNCHANGED dsService
             /\ dsDriver' = [dsDriver EXCEPT !.portable = TRUE]
    <3>1. DOMAIN value = DOMAIN Service!Ended /\ value.pc = "version" /\ value.handle
      BY <1>c
    <3>2. /\ DOMAIN dsDriver' = DOMAIN Service!Stopped /\ dsDriver'.state = "running"
          /\ dsDriver'.version = dsDriver.version
      BY <2>2, ServiceFields DEF ServiceInv, ServiceShapes
    <3> HIDE DEF value
    <3> QED
      BY <2>2, <3>1, <3>2, InstanceStep DEF ServiceInv, HandleInv
  <2> QED
    BY <1>7, <2>1, <2>2 DEF Service!ReopenDriver
<1>8. CASE Service!CheckVersion(i)
  <2>1. dsInstance[i].handle
    BY <1>8 DEF Service!CheckVersion, Service!At, ServiceInv, HandleInv, Attached
  <2>2. CASE Service!Compatible(i) /\ Service!Goto(i, "attached")
    <3> DEFINE value == [dsInstance[i] EXCEPT !.pc = "attached"]
    <3>1. /\ DOMAIN value = DOMAIN Service!Ended /\ value.pc = "attached" /\ value.handle
          /\ value.version = dsDriver.version
      BY <1>b, <2>1, <2>2, ServiceFields DEF Service!Compatible
    <3>2. Service!Become(i, value)
      BY <2>2 DEF Service!Goto
    <3> HIDE DEF value
    <3> QED
      BY <1>8, <2>1, <3>1, <3>2, InstanceStep
         DEF Service!CheckVersion, ServiceInv, ServiceShapes, HandleInv
  <2>3. CASE Service!Become(i, [dsInstance[i] EXCEPT !.pc = "unloadToExchange", !.portable = TRUE])
    <3> DEFINE value == [dsInstance[i] EXCEPT !.pc = "unloadToExchange", !.portable = TRUE]
    <3>1. DOMAIN value = DOMAIN Service!Ended /\ value.pc = "unloadToExchange" /\ value.handle
      BY <1>b, <2>1, ServiceFields
    <3>2. Service!Become(i, value)
      BY <2>3
    <3> HIDE DEF value
    <3> QED
      BY <1>8, <2>1, <3>1, <3>2, InstanceStep
         DEF Service!CheckVersion, ServiceInv, ServiceShapes, HandleInv
  <2>4. CASE Service!Goto(i, "failed")
    BY <1>8, <2>4, InstanceGoes DEF Service!CheckVersion, Attached
  <2> QED
    BY <1>8, <2>2, <2>3, <2>4 DEF Service!CheckVersion
<1>9. CASE Service!Fail(i)
  BY <1>9, InstanceEnds DEF Service!Fail
<1>10. CASE Service!Cleanup(i)
  <2>1. dsInstance[i].handle
    BY <1>10 DEF Service!Cleanup, Service!At, ServiceInv, HandleInv, Attached
  <2> QED
    BY <1>10, <2>1, InstanceEnds, InstanceGoes DEF Service!Cleanup
<1>11. CASE Service!TestForVolumes(i)
  <2>1. dsInstance[i].handle
    BY <1>11 DEF Service!TestForVolumes, ServiceInv, HandleInv, Attached
  <2> QED
    BY <1>11, <2>1, InstanceGoes DEF Service!TestForVolumes, Service!Step
<1>12. CASE Service!TestForApplications(i)
  <2> DEFINE value == [dsInstance[i] EXCEPT !.handle = FALSE,
                           !.pc = IF Service!Exchanges(i) THEN "stopToExchange" ELSE "stop"]
  <2>1. CASE Service!Goto(i, "failed") /\ UNCHANGED <<dsDriver, dsService>>
    BY <2>1, InstanceGoes DEF Attached
  <2>2. CASE Service!Become(i, value) /\ Service!Close(i)
    <3>1. DOMAIN value = DOMAIN Service!Ended /\ ~value.handle /\ value.pc \notin Attached
      BY <1>b, ServiceFields DEF Attached
    <3> HIDE DEF value
    <3> QED
      BY <2>2, <3>1, HandleClosed
  <2> QED
    BY <1>12, <2>1, <2>2 DEF Service!TestForApplications
<1>13. CASE Service!StopService(i)
  <2> DEFINE value == [dsInstance[i] EXCEPT !.pc = "reload", !.retries = @ + 1]
  <2>1. /\ DOMAIN value = DOMAIN Service!Ended /\ value.pc = "reload"
        /\ value.handle = dsInstance[i].handle
    BY <1>b, ServiceFields
  <2>2. /\ \/ /\ dsDriver' = Service!Stopped
              /\ dsDriver.state = "stopped" \/ Service!Holders = {}
           \/ /\ dsDriver.state # "stopped"
              /\ dsDriver' = [dsDriver EXCEPT !.state = "stopping"]
        /\ dsService' = "none" => dsDriver'.state = "stopped"
    <3>1. dsDriver' = IF dsDriver.state = "stopped" \/ (Service!Holders = {} /\ ~dsMounted)
                      THEN Service!Stopped
                      ELSE [dsDriver EXCEPT !.state = "stopping"]
      BY <1>13 DEF Service!StopService
    <3>2. dsService' = IF dsDriver'.state = "stopped" /\ dsService = "marked" THEN "none"
                       ELSE dsService
      BY <1>13 DEF Service!StopService
    <3> QED
      BY <3>1, <3>2, ServiceFields DEF ServiceInv, ServiceShapes, HandleInv
  <2>3. \/ /\ dsDriver'.state = "stopped" /\ DOMAIN dsDriver' = DOMAIN Service!Stopped
           /\ \A j \in Instances : ~dsInstance[j].handle
        \/ /\ dsDriver'.state = "stopping" /\ DOMAIN dsDriver' = DOMAIN Service!Stopped
           /\ dsDriver'.version = dsDriver.version
    BY <1>a, <2>2, ServiceFields DEF Service!Holders, ServiceInv, ServiceShapes
  <2>4. Service!Become(i, value) \/ Service!Become(i, Service!Ended)
    BY <1>13 DEF Service!StopService
  <2> HIDE DEF value
  <2> QED
    BY <2>1, <2>2, <2>3, <2>4, ServiceFields, InstanceStep DEF Attached
<1>14. CASE Service!Mount(i) \/ Service!Dismount(i)
  <2>1. /\ UNCHANGED <<dsService, dsInstance>> /\ DOMAIN dsDriver' = DOMAIN dsDriver
        /\ dsDriver'.state = dsDriver.state /\ dsDriver'.version = dsDriver.version
    BY <1>14, ServiceFields DEF Service!Mount, Service!Dismount, ServiceInv, ServiceShapes
  <2> QED
    BY <2>1 DEF ServiceInv, ServiceShapes, HandleInv
<1> QED
  BY <1>0, <1>1, <1>2, <1>3, <1>4, <1>5, <1>6, <1>7, <1>8, <1>9, <1>10, <1>11, <1>12, <1>13, <1>14

(* An instance works with a driver of its own version only, whatever instances of other
   versions load, exchange and stop meanwhile (DriverAttach, DriverLoad, DriverUnload). *)
THEOREM AttachedToOwnVersion == Service!Spec => []Service!AttachedVersion
<1>1. ServiceInv => Service!AttachedVersion
  BY DEF ServiceInv, HandleInv, Service!AttachedVersion, Service!At, Attached
<1> QED
  BY ServiceInit, ServiceStep, <1>1, PTL DEF Service!Spec
=============================================================================
