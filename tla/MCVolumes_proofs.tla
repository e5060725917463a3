-------------------------- MODULE MCVolumes_proofs --------------------------
(* Theorems about all of the components of MCVolumes, for all sizes and names. A behaviour of
   MCVolumes is one of a component, for good, so that what is proved of the component in its
   own module holds of it; the headers, the formatting, the memory map and the wizard, whose
   modules have no such companion, are proved about here. *)
EXTENDS MCVolumes, SequenceTheorems, TLAPS

vars == <<component, s1, s2, s3, s4, s5, s6, s7, s8, s9, s10, s11, s12>>

LEMMA ComponentStays == [Next]_vars => component' = component
  BY DEF Next, vars

LEMMA SumSteps == Spec => Init /\ [][Next]_vars
  BY DEF Spec, vars

LEMMA PartitionLasts ==
    ASSUME InPlace!SizesAssumed
    PROVE  Spec => [](component = "inPlace" => InPlace!NothingLost)
<1>1. Init /\ component = "inPlace" => InPlace!Init
  BY DEF Init
<1>2. [Next]_vars /\ component = "inPlace" => [InPlace!Next]_(InPlace!inPlaceVars)
  BY DEF Next, vars, InPlace!inPlaceVars
<1>3. InPlace!Init /\ [][InPlace!Next]_(InPlace!inPlaceVars) => []InPlace!NothingLost
  BY InPlace!PartitionKept
<1>4. /\ component = "inPlace" /\ [Next]_vars => (component = "inPlace")'
      /\ ~(component = "inPlace") /\ [Next]_vars => ~(component = "inPlace")'
  BY ComponentStays
<1> QED
  BY <1>1, <1>2, <1>3, <1>4, SumSteps, PTL

(* However often in-place encryption fails, crashes and is resumed, no unit of the partition
   is lost (InPlaceEncryption, whatever the sizes of the partition and of its chunks). *)
THEOREM PartitionsKept == Spec => []NothingLost
<1>1. Spec => [](component = "inPlace" => InPlace!NothingLost)
  BY VolumesAssumed, PartitionLasts
<1>2. (component = "inPlace" => InPlace!NothingLost) => NothingLost
  BY DEF NothingLost
<1> QED
  BY <1>1, <1>2, PTL

-----------------------------------------------------------------------------
LEMMA RequestsAnswered ==
    ASSUME Mounting!SystemApart
    PROVE  Spec => [](component = "mounting" =>
                          Mounting!RequestsServed /\ Mounting!NestedFirst /\ Mounting!ProtectionKept)
<1>1. Init /\ component = "mounting" => Mounting!Init
  BY DEF Init
<1>2. [Next]_vars /\ component = "mounting" => [Mounting!Next]_(Mounting!vmVars)
  BY DEF Next, vars, Mounting!vmVars
<1>3. Mounting!Init /\ [][Mounting!Next]_(Mounting!vmVars)
      => [](Mounting!RequestsServed /\ Mounting!NestedFirst /\ Mounting!ProtectionKept)
  <2>1. Mounting!Spec => []Mounting!RequestsServed
    BY Mounting!AllServed
  <2>2. Mounting!Spec => []Mounting!NestedFirst
    BY Mounting!NestedGoFirst
  <2>3. Mounting!Spec => []Mounting!ProtectionKept
    BY Mounting!AlwaysProtected
  <2> QED
    BY <2>1, <2>2, <2>3, PTL DEF Mounting!Spec
<1>4. /\ component = "mounting" /\ [Next]_vars => (component = "mounting")'
      /\ ~(component = "mounting") /\ [Next]_vars => ~(component = "mounting")'
  BY ComponentStays
<1> QED
  BY <1>1, <1>2, <1>3, <1>4, SumSteps, PTL

LEMMA DrivesAnswered ==
    ASSUME Devices!DevicesDiffer
    PROVE  Spec => [](component = "devices" =>
                          Devices!RequestsHandled /\ Devices!SystemDriveFound)
<1>1. Init /\ component = "devices" => Devices!Init
  BY DEF Init
<1>2. [Next]_vars /\ component = "devices" => [Devices!Next]_(Devices!ddVars)
  BY DEF Next, vars, Devices!ddVars
<1>3. Devices!Init /\ [][Devices!Next]_(Devices!ddVars)
      => [](Devices!RequestsHandled /\ Devices!SystemDriveFound)
  <2>1. Devices!Spec => []Devices!RequestsHandled
    <3>1. NoExtension \notin Devices!Devices
      BY DEF Devices!DevicesDiffer
    <3> QED
      BY <3>1, Devices!DevicesHandled
  <2>2. Devices!Spec => []Devices!SystemDriveFound
    BY Devices!OneSystemDrive
  <2> QED
    BY <2>1, <2>2, PTL DEF Devices!Spec
<1>4. /\ component = "devices" /\ [Next]_vars => (component = "devices")'
      /\ ~(component = "devices") /\ [Next]_vars => ~(component = "devices")'
  BY ComponentStays
<1> QED
  BY <1>1, <1>2, <1>3, <1>4, SumSteps, PTL

(* No volume and no device is released under a request, volumes within volumes are dismounted
   first, hidden volume protection stays on, and the drive with the system is mounted
   (VolumeMounting and DriveDevices, for any drives, users and devices). *)
THEOREM MountingServes == Spec => []MountedServed
<1>1. Spec => [](component = "mounting" =>
                    Mounting!RequestsServed /\ Mounting!NestedFirst /\ Mounting!ProtectionKept)
  BY VolumesAssumed, RequestsAnswered
<1>2. Spec => [](component = "devices" => Devices!RequestsHandled /\ Devices!SystemDriveFound)
  BY VolumesAssumed, DrivesAnswered
<1>3. /\ (component = "mounting" =>
            Mounting!RequestsServed /\ Mounting!NestedFirst /\ Mounting!ProtectionKept)
      /\ (component = "devices" => Devices!RequestsHandled /\ Devices!SystemDriveFound)
      => MountedServed
  BY DEF MountedServed
<1> QED
  BY <1>1, <1>2, <1>3, PTL

-----------------------------------------------------------------------------
(* The memory map. Entry by entry the loader's copy tells of the BIOS's map all but the
   loader's area, and the system is given the copy in order. *)
bmBios == s1
bmMap == s2
bmInserted == s3
bmPhase == s4
bmNext == s5
bmSeen == s6
bmComplete == s7
bmIssued == s8
bmVista == s9
USE DEF bmBios, bmMap, bmInserted, bmPhase, bmNext, bmSeen, bmComplete, bmIssued, bmVista

MapEntries == [type : {MemoryMap!Free, MemoryMap!Reserved}, first : Nat, end : Nat]
FreeIn(map) == MemoryMap!OfType(map, MemoryMap!Free)
ReservedIn(map) == MemoryMap!OfType(map, MemoryMap!Reserved)

\* A map tells what the BIOS's tells, and that the loader's area is reserved.
Tells(map, bios) ==
    /\ FreeIn(map) = FreeIn(bios) \ MemoryMap!Loader
    /\ MemoryMap!Loader \cap FreeIn(bios) \subseteq ReservedIn(map)
    /\ ReservedIn(map) \subseteq ReservedIn(bios) \cup MemoryMap!Loader
    /\ \A i \in DOMAIN bios : bios[i].type = MemoryMap!Reserved =>
          \E j \in DOMAIN map : map[j] = bios[i]

MapInv ==
    /\ bmBios \in Seq(MapEntries) /\ bmMap \in Seq(MapEntries)
    /\ bmPhase \in {"read", "overflow", "filter", "uninstalled"}
    /\ bmPhase # "overflow" =>
          /\ Tells(bmMap, bmBios)
          /\ bmInserted => MemoryMap!Loader \subseteq ReservedIn(bmMap)

SeenInv ==
    /\ bmNext \in Nat /\ bmIssued \in Nat /\ bmComplete \in BOOLEAN
    /\ bmPhase \in {"read", "overflow"} => bmNext = 0 /\ bmIssued = 0 /\ ~bmComplete
    /\ bmPhase = "filter" =>
          /\ bmNext = 0 \/ bmNext < Len(bmMap)
          /\ bmNext > 0 /\ ~bmComplete => bmSeen = SubSeq(bmMap, 1, bmNext)
          /\ bmComplete => bmNext = 0 /\ bmSeen = bmMap
          /\ bmVista \/ bmIssued <= 2
    /\ bmPhase = "uninstalled" =>
          /\ ~bmVista /\ bmIssued >= 3
          /\ bmComplete /\ bmIssued = 3 => bmSeen = bmMap

MMInv == MapInv /\ SeenInv

\* The cells of one type in a map that is put together of two, or has one entry.
LEMMA OfTypeOf ==
    ASSUME NEW map, NEW type, NEW c
    PROVE  c \in MemoryMap!OfType(map, type) <=>
              \E i \in DOMAIN map : map[i].type = type /\ c \in MemoryMap!CellsOf(map[i])
  BY DEF MemoryMap!OfType

LEMMA OfTypeJoined ==
    ASSUME NEW m \in Seq(MapEntries), NEW n \in Seq(MapEntries), NEW type
    PROVE  MemoryMap!OfType(m \o n, type) =
              MemoryMap!OfType(m, type) \cup MemoryMap!OfType(n, type)
<1>1. /\ DOMAIN m = 1..Len(m) /\ DOMAIN n = 1..Len(n) /\ Len(m) \in Nat /\ Len(n) \in Nat
      /\ m \o n \in Seq(MapEntries) /\ Len(m \o n) = Len(m) + Len(n)
      /\ DOMAIN (m \o n) = 1..(Len(m) + Len(n))
      /\ \A i \in 1..(Len(m) + Len(n)) : (m \o n)[i] = IF i <= Len(m) THEN m[i] ELSE n[i - Len(m)]
  BY ConcatProperties, LenProperties
<1>2. ASSUME NEW c
      PROVE  c \in MemoryMap!OfType(m \o n, type) <=>
                c \in MemoryMap!OfType(m, type) \cup MemoryMap!OfType(n, type)
  <2> DEFINE has(e) == e.type = type /\ c \in MemoryMap!CellsOf(e)
  <2>1. ASSUME NEW i \in 1..(Len(m) + Len(n)), has((m \o n)[i])
        PROVE  (\E j \in 1..Len(m) : has(m[j])) \/ (\E j \in 1..Len(n) : has(n[j]))
    <3>1. CASE i <= Len(m)
      BY <1>1, <2>1, <3>1
    <3>2. CASE ~(i <= Len(m))
      <4>1. i - Len(m) \in 1..Len(n) /\ (m \o n)[i] = n[i - Len(m)]
        BY <1>1, <3>2
      <4> QED
        BY <2>1, <4>1
    <3> QED
      BY <3>1, <3>2
  <2>2. ASSUME NEW j \in 1..Len(m), has(m[j]) PROVE \E i \in 1..(Len(m) + Len(n)) : has((m \o n)[i])
    <3>1. j \in 1..(Len(m) + Len(n)) /\ (m \o n)[j] = m[j]
      BY <1>1
    <3> QED
      BY <2>2, <3>1
  <2>3. ASSUME NEW j \in 1..Len(n), has(n[j]) PROVE \E i \in 1..(Len(m) + Len(n)) : has((m \o n)[i])
    <3>1. /\ j + Len(m) \in 1..(Len(m) + Len(n)) /\ ~(j + Len(m) <= Len(m))
          /\ (j + Len(m)) - Len(m) = j
      BY <1>1
    <3>2. (m \o n)[j + Len(m)] = n[j]
      BY <1>1, <3>1
    <3> QED
      BY <2>3, <3>1, <3>2
  <2>4. /\ c \in MemoryMap!OfType(m \o n, type) <=> \E i \in 1..(Len(m) + Len(n)) : has((m \o n)[i])
        /\ c \in MemoryMap!OfType(m, type) <=> \E j \in 1..Len(m) : has(m[j])
        /\ c \in MemoryMap!OfType(n, type) <=> \E j \in 1..Len(n) : has(n[j])
    BY <1>1, OfTypeOf
  <2> HIDE DEF has
  <2> QED
    BY <2>1, <2>2, <2>3, <2>4
<1> QED
  BY <1>2

LEMMA CellsJoined ==
    ASSUME NEW m \in Seq(MapEntries), NEW n \in Seq(MapEntries)
    PROVE  /\ m \o n \in Seq(MapEntries)
           /\ FreeIn(m \o n) = FreeIn(m) \cup FreeIn(n)
           /\ ReservedIn(m \o n) = ReservedIn(m) \cup ReservedIn(n)
<1>1. m \o n \in Seq(MapEntries)
  BY ConcatProperties
<1>2. FreeIn(m \o n) = FreeIn(m) \cup FreeIn(n)
  BY OfTypeJoined DEF FreeIn
<1>3. ReservedIn(m \o n) = ReservedIn(m) \cup ReservedIn(n)
  BY OfTypeJoined DEF ReservedIn
<1> QED
  BY <1>1, <1>2, <1>3

LEMMA OfTypeSingle ==
    ASSUME NEW e \in MapEntries, NEW type
    PROVE  /\ <<e>> \in Seq(MapEntries)
           /\ MemoryMap!OfType(<<e>>, type) = IF e.type = type THEN MemoryMap!CellsOf(e) ELSE {}
<1>1. DOMAIN <<e>> = {1} /\ <<e>>[1] = e /\ <<e>> \in Seq(MapEntries)
  OBVIOUS
<1>2. ASSUME NEW c
      PROVE  c \in MemoryMap!OfType(<<e>>, type) <=>
                e.type = type /\ c \in MemoryMap!CellsOf(e)
  BY <1>1, OfTypeOf
<1>3. CASE e.type = type
  <2>1. MemoryMap!OfType(<<e>>, type) = MemoryMap!CellsOf(e)
    BY <1>2, <1>3
  <2> QED
    BY <1>1, <1>3, <2>1
<1>4. CASE e.type # type
  <2>1. MemoryMap!OfType(<<e>>, type) = {}
    BY <1>2, <1>4
  <2> QED
    BY <1>1, <1>4, <2>1
<1> QED
  BY <1>3, <1>4

LEMMA OfTypeEmpty ==
    ASSUME NEW type
    PROVE  << >> \in Seq(MapEntries) /\ MemoryMap!OfType(<< >>, type) = {}
<1>1. DOMAIN << >> = {}
  OBVIOUS
<1> QED
  BY <1>1, OfTypeOf

\* What is added to the copy for one entry of the BIOS's map.
Adds(e, new, inserts) ==
    /\ new \in Seq(MapEntries)
    /\ FreeIn(new) = (IF e.type = MemoryMap!Free THEN MemoryMap!CellsOf(e) ELSE {})
                         \ MemoryMap!Loader
    /\ ReservedIn(new) =
          (IF e.type = MemoryMap!Reserved THEN MemoryMap!CellsOf(e) ELSE {})
          \cup (IF inserts /\ ~bmInserted THEN MemoryMap!Loader ELSE {})
    /\ e.type = MemoryMap!Reserved => \E j \in DOMAIN new : new[j] = e
    /\ e.type = MemoryMap!Free /\ MemoryMap!CellsOf(e) \cap MemoryMap!Loader # {} => inserts

LEMMA LoaderEntry ==
    ASSUME MemoryCounted
    PROVE  /\ MemoryMap!CreateBootLoaderMemoryMapEntry \in Seq(MapEntries)
           /\ FreeIn(MemoryMap!CreateBootLoaderMemoryMapEntry) = {}
           /\ ReservedIn(MemoryMap!CreateBootLoaderMemoryMapEntry) =
                 IF bmInserted THEN {} ELSE MemoryMap!Loader
<1> DEFINE entry == MemoryMap!Entry(MemoryMap!Reserved, LoaderStart, LoaderEnd)
<1>1. /\ entry \in MapEntries /\ entry.type = MemoryMap!Reserved
      /\ MemoryMap!CellsOf(entry) = MemoryMap!Loader
  BY DEF MemoryCounted, MapEntries, MemoryMap!Entry, MemoryMap!CellsOf, MemoryMap!Loader
<1>2. MemoryMap!Free # MemoryMap!Reserved
  BY DEF MemoryMap!Free, MemoryMap!Reserved
<1> HIDE DEF entry
<1>3. MemoryMap!CreateBootLoaderMemoryMapEntry = IF bmInserted THEN << >> ELSE <<entry>>
  BY DEF MemoryMap!CreateBootLoaderMemoryMapEntry, entry
<1> QED
  BY <1>1, <1>2, <1>3, OfTypeSingle, OfTypeEmpty DEF FreeIn, ReservedIn

LEMMA SplitAdds ==
    ASSUME MemoryCounted, NEW e \in MapEntries, e.type = MemoryMap!Free,
           MemoryMap!RegionsIntersect(e)
    PROVE  Adds(e, MemoryMap!Split(e), TRUE)
<1> DEFINE before == IF e.first < LoaderStart
                     THEN <<MemoryMap!Entry(MemoryMap!Free, e.first, LoaderStart)>> ELSE << >>
           own == MemoryMap!CreateBootLoaderMemoryMapEntry
           after == IF LoaderEnd < e.end
                    THEN <<MemoryMap!Entry(MemoryMap!Free, LoaderEnd, e.end)>> ELSE << >>
<1>0. /\ e.first \in Nat /\ e.end \in Nat /\ LoaderStart \in Nat /\ LoaderEnd \in Nat
      /\ e.first < LoaderEnd /\ LoaderStart < e.end /\ MemoryMap!Free # MemoryMap!Reserved
  BY DEF MapEntries, MemoryCounted, MemoryMap!RegionsIntersect, MemoryMap!Free, MemoryMap!Reserved
<1>1. ASSUME NEW first \in Nat, NEW end \in Nat
      PROVE  LET entry == MemoryMap!Entry(MemoryMap!Free, first, end) IN
             /\ <<entry>> \in Seq(MapEntries) /\ FreeIn(<<entry>>) = first..(end - 1)
             /\ ReservedIn(<<entry>>) = {}
  <2> DEFINE entry == MemoryMap!Entry(MemoryMap!Free, first, end)
  <2>1. /\ entry \in MapEntries /\ entry.type = MemoryMap!Free
        /\ MemoryMap!CellsOf(entry) = first..(end - 1)
    BY DEF MapEntries, MemoryMap!Entry, MemoryMap!CellsOf
  <2> HIDE DEF entry
  <2>2. /\ <<entry>> \in Seq(MapEntries) /\ FreeIn(<<entry>>) = first..(end - 1)
        /\ ReservedIn(<<entry>>) = {}
    BY <1>0, <2>1, OfTypeSingle DEF FreeIn, ReservedIn
  <2> QED
    BY <2>2 DEF entry
<1>2. /\ before \in Seq(MapEntries) /\ ReservedIn(before) = {}
      /\ FreeIn(before) = IF e.first < LoaderStart THEN e.first..(LoaderStart - 1) ELSE {}
  BY <1>0, <1>1, OfTypeEmpty DEF FreeIn, ReservedIn
<1>3. /\ after \in Seq(MapEntries) /\ ReservedIn(after) = {}
      /\ FreeIn(after) = IF LoaderEnd < e.end THEN LoaderEnd..(e.end - 1) ELSE {}
  BY <1>0, <1>1, OfTypeEmpty DEF FreeIn, ReservedIn
<1>4. /\ own \in Seq(MapEntries) /\ FreeIn(own) = {}
      /\ ReservedIn(own) = IF bmInserted THEN {} ELSE MemoryMap!Loader
  BY LoaderEntry
<1>5. MemoryMap!Split(e) = (before \o own) \o after
  BY DEF MemoryMap!Split
<1> HIDE DEF before, own, after
<1>6. /\ before \o own \in Seq(MapEntries) /\ FreeIn(before \o own) = FreeIn(before)
      /\ ReservedIn(before \o own) = ReservedIn(own)
  <2>1. /\ before \o own \in Seq(MapEntries)
        /\ FreeIn(before \o own) = FreeIn(before) \cup FreeIn(own)
        /\ ReservedIn(before \o own) = ReservedIn(before) \cup ReservedIn(own)
    BY <1>2, <1>4, CellsJoined
  <2> QED
    BY <1>2, <1>4, <2>1
<1>7. /\ MemoryMap!Split(e) \in Seq(MapEntries)
      /\ FreeIn(MemoryMap!Split(e)) = FreeIn(before) \cup FreeIn(after)
      /\ ReservedIn(MemoryMap!Split(e)) = ReservedIn(own)
  <2>1. /\ (before \o own) \o after \in Seq(MapEntries)
        /\ FreeIn((before \o own) \o after) = FreeIn(before \o own) \cup FreeIn(after)
        /\ ReservedIn((before \o own) \o after) = ReservedIn(before \o own) \cup ReservedIn(after)
    BY <1>3, <1>6, CellsJoined
  <2> QED
    BY <1>3, <1>5, <1>6, <2>1
<1>8. FreeIn(before) \cup FreeIn(after) = MemoryMap!CellsOf(e) \ MemoryMap!Loader
  BY <1>0, <1>2, <1>3 DEF MemoryMap!CellsOf, MemoryMap!Loader
<1> QED
  BY <1>0, <1>4, <1>7, <1>8 DEF Adds

LEMMA CopiedAdds ==
    ASSUME MemoryCounted, NEW e \in MapEntries,
           ~(e.type = MemoryMap!Free /\ MemoryMap!RegionsIntersect(e))
    PROVE  Adds(e, MemoryMap!Copied(e), e.first > LoaderStart)
<1> DEFINE inserts == e.first > LoaderStart
           own == IF inserts THEN MemoryMap!CreateBootLoaderMemoryMapEntry ELSE << >>
<1>1. /\ own \in Seq(MapEntries) /\ FreeIn(own) = {}
      /\ ReservedIn(own) = IF inserts /\ ~bmInserted THEN MemoryMap!Loader ELSE {}
  BY LoaderEntry, OfTypeEmpty DEF FreeIn, ReservedIn
<1>2. MemoryMap!Copied(e) = own \o <<e>>
  BY DEF MemoryMap!Copied
<1> HIDE DEF own
<1>3. /\ <<e>> \in Seq(MapEntries)
      /\ FreeIn(<<e>>) = IF e.type = MemoryMap!Free THEN MemoryMap!CellsOf(e) ELSE {}
      /\ ReservedIn(<<e>>) = IF e.type = MemoryMap!Reserved THEN MemoryMap!CellsOf(e) ELSE {}
  BY OfTypeSingle DEF FreeIn, ReservedIn
<1>4. /\ MemoryMap!Copied(e) \in Seq(MapEntries)
      /\ FreeIn(MemoryMap!Copied(e)) = FreeIn(own) \cup FreeIn(<<e>>)
      /\ ReservedIn(MemoryMap!Copied(e)) = ReservedIn(own) \cup ReservedIn(<<e>>)
  BY <1>1, <1>2, <1>3, CellsJoined
<1>5. \E j \in DOMAIN MemoryMap!Copied(e) : MemoryMap!Copied(e)[j] = e
  <2>1. /\ Len(own) \in Nat /\ Len(<<e>>) = 1 /\ <<e>>[1] = e
        /\ Len(own \o <<e>>) = Len(own) + 1
        /\ DOMAIN (own \o <<e>>) = 1..(Len(own) + 1)
        /\ \A i \in 1..(Len(own) + 1) :
              (own \o <<e>>)[i] = IF i <= Len(own) THEN own[i] ELSE <<e>>[i - Len(own)]
    BY <1>1, <1>3, ConcatProperties, LenProperties
  <2>2. /\ Len(own) + 1 \in 1..(Len(own) + 1) /\ (Len(own) + 1) - Len(own) = 1
        /\ ~(Len(own) + 1 <= Len(own))
    BY <2>1
  <2>3. (own \o <<e>>)[Len(own) + 1] = e
    BY <2>1, <2>2
  <2> QED
    BY <1>2, <2>1, <2>2, <2>3
<1>6. e.type = MemoryMap!Free => MemoryMap!CellsOf(e) \cap MemoryMap!Loader = {}
  BY DEF MapEntries, MemoryCounted, MemoryMap!RegionsIntersect, MemoryMap!CellsOf,
         MemoryMap!Loader
<1> QED
  BY <1>1, <1>3, <1>4, <1>5, <1>6 DEF Adds

\* An entry is read.
LEMMA MapGrows ==
    ASSUME MMInv, bmPhase = "read", NEW e \in MapEntries, NEW new, NEW inserts \in BOOLEAN,
           NEW room \in BOOLEAN, Adds(e, new, inserts), MemoryMap!Places(e, new, inserts, room)
    PROVE  MMInv'
<1>1. /\ bmBios' = Append(bmBios, e) /\ bmBios \in Seq(MapEntries) /\ bmMap \in Seq(MapEntries)
      /\ UNCHANGED <<bmNext, bmSeen, bmComplete, bmIssued, bmVista>>
  BY DEF MemoryMap!Places, MMInv, MapInv
<1>2. /\ bmBios' \in Seq(MapEntries) /\ bmBios' = bmBios \o <<e>>
      /\ DOMAIN bmBios' = 1..(Len(bmBios) + 1) /\ DOMAIN bmBios = 1..Len(bmBios)
      /\ Len(bmBios) \in Nat /\ bmBios'[Len(bmBios) + 1] = e
      /\ \A i \in 1..Len(bmBios) : bmBios'[i] = bmBios[i]
  BY <1>1, AppendProperties, LenProperties, AppendIsConcat
<1>3. CASE room
  <2>1. /\ bmMap' = bmMap \o new /\ bmPhase' = "read" /\ bmInserted' = (bmInserted \/ inserts)
        /\ new \in Seq(MapEntries)
    BY <1>3 DEF MemoryMap!Places, Adds
  <2>2. /\ bmMap' \in Seq(MapEntries) /\ FreeIn(bmMap') = FreeIn(bmMap) \cup FreeIn(new)
        /\ ReservedIn(bmMap') = ReservedIn(bmMap) \cup ReservedIn(new)
    BY <1>1, <2>1, CellsJoined
  <2>3. /\ FreeIn(bmBios') = FreeIn(bmBios)
                 \cup (IF e.type = MemoryMap!Free THEN MemoryMap!CellsOf(e) ELSE {})
        /\ ReservedIn(bmBios') = ReservedIn(bmBios)
                 \cup (IF e.type = MemoryMap!Reserved THEN MemoryMap!CellsOf(e) ELSE {})
    <3>1. /\ <<e>> \in Seq(MapEntries)
          /\ FreeIn(<<e>>) = IF e.type = MemoryMap!Free THEN MemoryMap!CellsOf(e) ELSE {}
          /\ ReservedIn(<<e>>) = IF e.type = MemoryMap!Reserved THEN MemoryMap!CellsOf(e) ELSE {}
      BY OfTypeSingle DEF FreeIn, ReservedIn
    <3>2. /\ FreeIn(bmBios \o <<e>>) = FreeIn(bmBios) \cup FreeIn(<<e>>)
          /\ ReservedIn(bmBios \o <<e>>) = ReservedIn(bmBios) \cup ReservedIn(<<e>>)
      BY <1>1, <3>1, CellsJoined
    <3> QED
      BY <1>1, <1>2, <3>1, <3>2
  <2>4. Tells(bmMap, bmBios) /\ (bmInserted => MemoryMap!Loader \subseteq ReservedIn(bmMap))
    BY DEF MMInv, MapInv
  <2>5. /\ FreeIn(bmMap') = FreeIn(bmBios') \ MemoryMap!Loader
        /\ MemoryMap!Loader \cap FreeIn(bmBios') \subseteq ReservedIn(bmMap')
        /\ ReservedIn(bmMap') \subseteq ReservedIn(bmBios') \cup MemoryMap!Loader
        /\ bmInserted' => MemoryMap!Loader \subseteq ReservedIn(bmMap')
    BY <2>1, <2>2, <2>3, <2>4 DEF Tells, Adds
  <2>6. ASSUME NEW i \in DOMAIN bmBios', bmBios'[i].type = MemoryMap!Reserved
        PROVE  \E j \in DOMAIN bmMap' : bmMap'[j] = bmBios'[i]
    <3>1. /\ DOMAIN bmMap = 1..Len(bmMap) /\ Len(bmMap) \in Nat
          /\ DOMAIN new = 1..Len(new) /\ Len(new) \in Nat
          /\ DOMAIN bmMap' = 1..(Len(bmMap) + Len(new))
          /\ \A j \in 1..(Len(bmMap) + Len(new)) :
                bmMap'[j] = IF j <= Len(bmMap) THEN bmMap[j] ELSE new[j - Len(bmMap)]
      BY <1>1, <2>1, <2>2, ConcatProperties, LenProperties
    <3>2. CASE i \in 1..Len(bmBios)
      <4>1. PICK j \in 1..Len(bmMap) : bmMap[j] = bmBios[i]
        BY <1>2, <2>4, <2>6, <3>1, <3>2 DEF Tells
      <4>2. j \in 1..(Len(bmMap) + Len(new)) /\ bmMap'[j] = bmMap[j]
        BY <3>1
      <4> QED
        BY <1>2, <3>1, <3>2, <4>1, <4>2
    <3>3. CASE i = Len(bmBios) + 1
      <4>1. PICK j \in 1..Len(new) : new[j] = e
        BY <1>2, <2>6, <3>1, <3>3 DEF Adds
      <4>2. /\ j + Len(bmMap) \in 1..(Len(bmMap) + Len(new))
            /\ ~(j + Len(bmMap) <= Len(bmMap)) /\ (j + Len(bmMap)) - Len(bmMap) = j
        BY <3>1
      <4>3. bmMap'[j + Len(bmMap)] = e
        BY <3>1, <4>1, <4>2
      <4> QED
        BY <1>2, <3>1, <3>3, <4>2, <4>3
    <3> QED
      BY <1>2, <3>2, <3>3
  <2>7. Tells(bmMap', bmBios')
    BY <2>5, <2>6 DEF Tells
  <2>8. MapInv'
    BY <1>2, <2>1, <2>2, <2>5, <2>7 DEF MapInv, Tells
  <2>9. SeenInv'
    BY <1>1, <2>1 DEF MMInv, SeenInv
  <2> QED
    BY <2>8, <2>9 DEF MMInv
<1>4. CASE ~room
  <2>1. bmPhase' = "overflow" /\ UNCHANGED <<bmMap, bmInserted>>
    BY <1>4 DEF MemoryMap!Places
  <2>2. MapInv' /\ SeenInv'
    BY <1>1, <1>2, <2>1 DEF MMInv, MapInv, SeenInv
  <2> QED
    BY <2>2 DEF MMInv
<1> QED
  BY <1>3, <1>4

\* An entry is answered.
LEMMA MapAnswered == ASSUME MMInv, MemoryMap!Int15Filter PROVE MMInv'
<1>1. /\ bmPhase \in {"filter", "uninstalled"}
      /\ UNCHANGED <<bmBios, bmMap, bmInserted, bmVista>>
  BY DEF MemoryMap!Int15Filter
<1> DEFINE map == IF bmPhase = "filter" THEN bmMap ELSE bmBios
           ends == bmNext + 1 >= Len(map)
           asked == IF bmComplete \/ bmNext = 0 THEN << >> ELSE bmSeen
<1>2. /\ bmSeen' = (IF bmNext < Len(map) THEN Append(asked, map[bmNext + 1]) ELSE asked)
      /\ bmNext' = (IF ends THEN 0 ELSE bmNext + 1) /\ bmComplete' = ends
      /\ bmIssued' = (IF ends /\ bmIssued < 4 THEN bmIssued + 1 ELSE bmIssued)
      /\ bmPhase' = IF bmPhase = "filter" /\ ends /\ ~bmVista /\ bmIssued + 1 >= 3
                    THEN "uninstalled" ELSE bmPhase
  BY DEF MemoryMap!Int15Filter, MemoryMap!Answers, MemoryMap!Asked, MemoryMap!GoesAfter
<1>3. /\ bmMap \in Seq(MapEntries) /\ bmBios \in Seq(MapEntries) /\ Len(bmMap) \in Nat
      /\ Len(bmBios) \in Nat /\ bmNext \in Nat /\ bmIssued \in Nat
  BY LenProperties DEF MMInv, MapInv, SeenInv
<1>4. MapInv'
  BY <1>1, <1>2 DEF MMInv, MapInv, Tells
<1>5. CASE bmPhase = "filter"
  <2>1. map = bmMap /\ (bmNext = 0 \/ bmNext < Len(bmMap)) /\ (bmVista \/ bmIssued <= 2)
    BY <1>5 DEF MMInv, SeenInv
  <2>2. asked = SubSeq(bmMap, 1, bmNext)
    <3>1. CASE bmNext = 0
      BY <3>1, SubSeqEmpty
    <3>2. CASE bmNext > 0
      BY <1>5, <3>2 DEF MMInv, SeenInv
    <3> QED
      BY <1>3, <3>1, <3>2
  <2> HIDE DEF asked
  <2>3. CASE bmNext < Len(bmMap)
    <3>1. bmNext + 1 \in 1..Len(bmMap) /\ 1 \in 1..Len(bmMap)
      BY <1>3, <2>3
    <3>2. SubSeq(bmMap, 1, bmNext + 1) = Append(SubSeq(bmMap, 1, bmNext), bmMap[bmNext + 1])
      <4> DEFINE s == SubSeq(bmMap, 1, bmNext)
                 n == bmNext
      <4>1. \A i \in 1..(n + 1) : bmMap[i] \in MapEntries
        BY <1>3, <3>1, ElementOfSeq
      <4>2. /\ s \in Seq(MapEntries) /\ Len(s) = n /\ \A i \in 1..n : s[i] = bmMap[i]
        BY <1>3, <4>1, SubSeqProperties
      <4>3. /\ SubSeq(bmMap, 1, n + 1) \in Seq(MapEntries) /\ Len(SubSeq(bmMap, 1, n + 1)) = n + 1
            /\ \A i \in 1..(n + 1) : SubSeq(bmMap, 1, n + 1)[i] = bmMap[i]
        BY <1>3, <4>1, SubSeqProperties
      <4> HIDE DEF s
      <4>4. /\ Append(s, bmMap[n + 1]) \in Seq(MapEntries) /\ Len(Append(s, bmMap[n + 1])) = n + 1
            /\ \A i \in 1..n : Append(s, bmMap[n + 1])[i] = s[i]
            /\ Append(s, bmMap[n + 1])[n + 1] = bmMap[n + 1]
        BY <1>3, <4>1, <4>2, AppendProperties
      <4>5. \A i \in 1..(n + 1) : Append(s, bmMap[n + 1])[i] = SubSeq(bmMap, 1, n + 1)[i]
        BY <1>3, <4>2, <4>3, <4>4
      <4> QED
        BY <4>3, <4>4, <4>5, SeqEqual DEF s
    <3>3. bmSeen' = SubSeq(bmMap, 1, bmNext + 1)
      BY <1>2, <2>1, <2>2, <2>3, <3>2
    <3>4. ends <=> bmNext + 1 = Len(bmMap)
      BY <1>3, <2>1, <3>1
    <3>5. ends => bmSeen' = bmMap
      BY <1>3, <3>3, <3>4, SubSeqFull
    <3> HIDE DEF map
    <3>6. bmIssued' \in Nat /\ bmNext' \in Nat /\ bmComplete' \in BOOLEAN
      BY <1>2, <1>3
    <3>7. CASE ends
      <4>1. /\ bmNext' = 0 /\ bmComplete' /\ bmSeen' = bmMap /\ bmMap' = bmMap
            /\ bmIssued' = IF bmIssued < 4 THEN bmIssued + 1 ELSE bmIssued
            /\ bmPhase' = IF ~bmVista /\ bmIssued + 1 >= 3 THEN "uninstalled" ELSE "filter"
            /\ bmVista' = bmVista
        BY <1>1, <1>2, <1>5, <3>5, <3>7
      <4>2. SeenInv'
        BY <1>3, <2>1, <3>6, <4>1 DEF SeenInv
      <4> QED
        BY <1>4, <4>2 DEF MMInv
    <3>8. CASE ~ends
      <4>1. /\ bmNext' = bmNext + 1 /\ bmNext + 1 < Len(bmMap) /\ ~bmComplete'
            /\ bmIssued' = bmIssued /\ bmPhase' = "filter" /\ bmVista' = bmVista
            /\ bmSeen' = SubSeq(bmMap, 1, bmNext + 1) /\ bmMap' = bmMap
        <5>1. bmNext + 1 < Len(bmMap)
          BY <1>3, <3>1, <3>4, <3>8
        <5>2. bmNext' = bmNext + 1 /\ ~bmComplete' /\ bmIssued' = bmIssued
          <6> HIDE DEF ends
          <6> QED
            BY <1>2, <3>8
        <5>3. bmPhase' = "filter"
          BY <1>2, <1>5, <3>8
        <5> QED
          BY <1>1, <3>3, <5>1, <5>2, <5>3
      <4>2. SeenInv'
        BY <1>3, <2>1, <3>6, <4>1 DEF SeenInv
      <4> QED
        BY <1>4, <4>2 DEF MMInv
    <3> QED
      BY <3>7, <3>8
  <2>4. CASE ~(bmNext < Len(bmMap))
    <3>1. bmNext = 0 /\ Len(bmMap) = 0 /\ ends
      BY <1>3, <2>1, <2>4
    <3>2. bmMap = << >> /\ asked = << >>
      BY <1>3, <2>2, <3>1, EmptySeq, SubSeqEmpty
    <3>3. bmSeen' = bmMap
      BY <1>2, <2>1, <2>4, <3>2
    <3> HIDE DEF map
    <3> QED
      BY <1>1, <1>2, <1>3, <1>4, <1>5, <2>1, <3>1, <3>3 DEF MMInv, SeenInv
  <2> QED
    BY <2>3, <2>4
<1>6. CASE bmPhase = "uninstalled"
  <2>1. ~bmVista /\ bmIssued >= 3
    BY <1>6 DEF MMInv, SeenInv
  <2>2. bmPhase' = "uninstalled" /\ bmVista' = bmVista
    BY <1>1, <1>2, <1>6
  <2> HIDE DEF map
  <2>3. bmIssued' \in Nat /\ bmIssued' >= 3 /\ bmNext' \in Nat
    BY <1>2, <1>3, <2>1
  <2>4. bmComplete' \in BOOLEAN /\ (bmComplete' => bmIssued' # 3)
    <3>1. ends \in BOOLEAN
      OBVIOUS
    <3> HIDE DEF ends
    <3> QED
      BY <1>2, <1>3, <2>1, <3>1
  <2>5. SeenInv'
    BY <2>1, <2>2, <2>3, <2>4 DEF SeenInv
  <2> QED
    BY <1>4, <2>5 DEF MMInv
<1> QED
  BY <1>1, <1>5, <1>6

LEMMA MapInit == ASSUME MemoryMap!Init PROVE MMInv
<1>1. << >> \in Seq(MapEntries) /\ \A type : MemoryMap!OfType(<< >>, type) = {}
  BY OfTypeEmpty
<1>2. DOMAIN << >> = {}
  OBVIOUS
<1>3. Tells(<< >>, << >>)
  BY <1>1, <1>2 DEF Tells, FreeIn, ReservedIn
<1> QED
  BY <1>1, <1>3 DEF MemoryMap!Init, MMInv, MapInv, SeenInv

LEMMA MapStep == ASSUME MemoryCounted PROVE MMInv /\ [MemoryMap!Next]_(MemoryMap!bmVars) => MMInv'
<1> SUFFICES ASSUME MMInv, [MemoryMap!Next]_(MemoryMap!bmVars) PROVE MMInv'
  OBVIOUS
<1>1. CASE MemoryMap!CreateNewBiosMemoryMap
  <2>1. PICK e \in MemoryMap!Entries :
           IF e.type = MemoryMap!Free /\ MemoryMap!RegionsIntersect(e)
           THEN MemoryMap!Places(e, MemoryMap!Split(e), TRUE,
                                 Len(bmMap) + Len(MemoryMap!Split(e)) <= MapSize)
           ELSE MemoryMap!Places(e, MemoryMap!Copied(e), e.first > LoaderStart,
                                 Len(bmMap) < MapSize)
    BY <1>1 DEF MemoryMap!CreateNewBiosMemoryMap
  <2>2. e \in MapEntries /\ bmPhase = "read"
    BY <1>1 DEF MemoryMap!CreateNewBiosMemoryMap, MemoryMap!Entries, MapEntries, MemoryCounted
  <2>3. CASE e.type = MemoryMap!Free /\ MemoryMap!RegionsIntersect(e)
    <3> DEFINE new == MemoryMap!Split(e)
               room == Len(bmMap) + Len(new) <= MapSize
    <3>1. Adds(e, new, TRUE)
      BY <2>2, <2>3, SplitAdds
    <3>2. MemoryMap!Places(e, new, TRUE, room)
      BY <2>1, <2>3
    <3>3. room \in BOOLEAN
      OBVIOUS
    <3> HIDE DEF new, room
    <3> QED
      BY <2>2, <3>1, <3>2, <3>3, MapGrows
  <2>4. CASE ~(e.type = MemoryMap!Free /\ MemoryMap!RegionsIntersect(e))
    <3> DEFINE new == MemoryMap!Copied(e)
               inserts == e.first > LoaderStart
               room == Len(bmMap) < MapSize
    <3>1. Adds(e, new, inserts)
      BY <2>2, <2>4, CopiedAdds
    <3>2. MemoryMap!Places(e, new, inserts, room)
      BY <2>1, <2>4
    <3>3. inserts \in BOOLEAN /\ room \in BOOLEAN
      OBVIOUS
    <3> HIDE DEF new, inserts, room
    <3> QED
      BY <2>2, <3>1, <3>2, <3>3, MapGrows
  <2> QED
    BY <2>3, <2>4
<1>2. CASE MemoryMap!InstallInterruptFilters
  BY <1>2 DEF MemoryMap!InstallInterruptFilters, MMInv, MapInv, SeenInv, Tells
<1>3. CASE MemoryMap!Int15Filter
  BY <1>3, MapAnswered
<1>4. CASE UNCHANGED MemoryMap!bmVars
  BY <1>4 DEF MemoryMap!bmVars, MMInv, MapInv, SeenInv, Tells
<1> QED
  BY <1>1, <1>2, <1>3, <1>4 DEF MemoryMap!Next

LEMMA MapKept == ASSUME MMInv PROVE MemoryMap!LoaderMemoryKept
<1> SUFFICES ASSUME bmComplete, bmVista \/ bmIssued <= 3
             PROVE  /\ FreeIn(bmSeen) = FreeIn(bmBios) \ MemoryMap!Loader
                    /\ MemoryMap!Loader \cap FreeIn(bmBios) \subseteq ReservedIn(bmSeen)
                    /\ ReservedIn(bmSeen) \subseteq ReservedIn(bmBios) \cup MemoryMap!Loader
                    /\ \A i \in DOMAIN bmBios : bmBios[i].type = MemoryMap!Reserved =>
                          \E j \in DOMAIN bmSeen : bmSeen[j] = bmBios[i]
  BY DEF MemoryMap!LoaderMemoryKept, FreeIn, ReservedIn
<1>1. bmSeen = bmMap /\ bmPhase # "overflow"
  BY DEF MMInv, MapInv, SeenInv
<1> QED
  BY <1>1 DEF MMInv, MapInv, Tells

LEMMA LoaderMemory ==
    ASSUME MemoryCounted
    PROVE  MemoryMap!Init /\ [][MemoryMap!Next]_(MemoryMap!bmVars) => []MemoryMap!LoaderMemoryKept
  BY MapInit, MapStep, MapKept, PTL

LEMMA SectorsAgree ==
    ASSUME Boot!SectorsAssumed
    PROVE  Spec => [](component = "boot" => Boot!PathsAgree)
<1>1. Init /\ component = "boot" => Boot!Init
  BY DEF Init
<1>2. [Next]_vars /\ component = "boot" => [Boot!Next]_(Boot!sbVars)
  BY DEF Next, vars, Boot!sbVars
<1>3. Boot!Init /\ [][Boot!Next]_(Boot!sbVars) => []Boot!PathsAgree
  BY Boot!AllPathsAgree
<1>4. /\ component = "boot" /\ [Next]_vars => (component = "boot")'
      /\ ~(component = "boot") /\ [Next]_vars => ~(component = "boot")'
  BY ComponentStays
<1> QED
  BY <1>1, <1>2, <1>3, <1>4, SumSteps, PTL

LEMMA SystemKeepsOff ==
    ASSUME MemoryCounted
    PROVE  Spec => [](component = "memoryMap" => MemoryMap!LoaderMemoryKept)
<1>1. Init /\ component = "memoryMap" => MemoryMap!Init
  BY DEF Init
<1>2. [Next]_vars /\ component = "memoryMap" => [MemoryMap!Next]_(MemoryMap!bmVars)
  BY DEF Next, vars, MemoryMap!bmVars
<1>3. MemoryMap!Init /\ [][MemoryMap!Next]_(MemoryMap!bmVars) => []MemoryMap!LoaderMemoryKept
  BY LoaderMemory
<1>4. /\ component = "memoryMap" /\ [Next]_vars => (component = "memoryMap")'
      /\ ~(component = "memoryMap") /\ [Next]_vars => ~(component = "memoryMap")'
  BY ComponentStays
<1> QED
  BY <1>1, <1>2, <1>3, <1>4, SumSteps, PTL

(* Every path to the system drive reads every sector of it with the same meaning, and the
   system is told to keep off the memory of the loader (SystemBoot and BiosMemoryMap, for any
   sizes of the drive, of its system and of the memory). *)
THEOREM SystemReadsAgree == Spec => []PathsAgree
<1>1. Spec => [](component = "boot" => Boot!PathsAgree)
  BY VolumesAssumed, SectorsAgree
<1>2. Spec => [](component = "memoryMap" => MemoryMap!LoaderMemoryKept)
  BY VolumesAssumed, SystemKeepsOff
<1>3. /\ (component = "boot" => Boot!PathsAgree)
      /\ (component = "memoryMap" => MemoryMap!LoaderMemoryKept)
      => PathsAgree
  BY DEF PathsAgree
<1> QED
  BY <1>1, <1>2, <1>3, PTL

-----------------------------------------------------------------------------
(* The headers of a volume. Of the two header areas one is always whole. *)
vhHost == s1
vhSlot == s2
vhFile == s3
vhOp == s4
vhFaults == s5
USE DEF vhHost, vhSlot, vhFile, vhOp, vhFaults

HeaderShapes ==
    /\ DOMAIN vhSlot = Headers!Areas /\ \A a \in Headers!Areas : DOMAIN vhSlot[a] = Headers!Volumes
    /\ DOMAIN vhFile = Headers!Volumes
    /\ DOMAIN vhOp = DOMAIN Headers!Idle /\ vhOp.area \in Headers!Areas
    /\ vhOp.volume \in Headers!Volumes \cup {"none"}
    /\ vhFaults \in Nat
    /\ vhHost.inPlace => ~vhHost.hidden

HeaderPresent(a, v) == vhSlot[a][v].volume = v

(* Without a fault both headers of each volume are valid, between any two writes; and the only
   fault loses the slots of one area, at the end of its operation. *)
RedundantInv ==
    ~vhHost.legacy =>
        \A v \in Headers!Volumes : v = "outer" \/ vhHost.hidden =>
            /\ \E a \in Headers!Areas : HeaderPresent(a, v)
            /\ vhFaults = 0 => \A a \in Headers!Areas : HeaderPresent(a, v)

HeaderFillInv == vhOp.pc = "fill" => vhHost.inPlace

HeadersInv == HeaderShapes /\ RedundantInv /\ HeaderFillInv

LEMMA HeadersInit == Headers!Init => HeadersInv
<1> SUFFICES ASSUME Headers!Init PROVE HeadersInv
  OBVIOUS
<1>1. PICK outer, hidden \in Passwords :
         LET group == [v \in Headers!Volumes |->
                IF v = "outer" THEN Headers!Header(v, outer)
                ELSE IF vhHost.hidden THEN Headers!Header(v, hidden) ELSE Headers!Random]
         IN vhSlot = [a \in Headers!Areas |->
                         IF a = "backup" /\ vhHost.legacy THEN Headers!NoBackup ELSE group]
  BY DEF Headers!Init
<1>2. HeaderShapes
  BY <1>1 DEF Headers!Init, HeaderShapes, Headers!Idle, Headers!NoBackup, Headers!Areas
<1>3. RedundantInv
  BY <1>1 DEF RedundantInv, HeaderPresent, Headers!Areas, Headers!Volumes, Headers!Header
<1>4. HeaderFillInv
  BY DEF Headers!Init, HeaderFillInv, Headers!Idle
<1> QED
  BY <1>2, <1>3, <1>4 DEF HeadersInv

\* A header is written to one slot, as a valid one.
LEMMA HeaderWritten ==
    ASSUME HeadersInv, Headers!WriteHeader, vhHost' = vhHost
    PROVE  /\ DOMAIN vhSlot' = Headers!Areas
           /\ \A a \in Headers!Areas : DOMAIN vhSlot'[a] = Headers!Volumes
           /\ RedundantInv'
<1>1. \A a \in Headers!Areas, v \in Headers!Volumes : HeaderPresent(a, v) => HeaderPresent(a, v)'
  BY DEF HeadersInv, HeaderShapes, Headers!WriteHeader, HeaderPresent, Headers!Header
<1>2. DOMAIN vhSlot' = Headers!Areas /\ \A a \in Headers!Areas : DOMAIN vhSlot'[a] = Headers!Volumes
  BY DEF HeadersInv, HeaderShapes, Headers!WriteHeader
<1>3. RedundantInv'
  BY <1>1 DEF HeadersInv, RedundantInv, Headers!WriteHeader
<1> QED
  BY <1>2, <1>3

\* The only fault finds both areas whole, and spares one.
LEMMA FaultSpares ==
    ASSUME OneHeaderFault, HeadersInv, NEW slots, Headers!WriteFault(slots),
           vhHost' = vhHost,
           vhFile' = vhFile
    PROVE  HeadersInv'
<1>1. PICK lost \in {{}, slots} :
         vhSlot' = [vhSlot EXCEPT ![vhOp.area] =
                        [v \in Headers!Volumes |-> IF v \in lost THEN Headers!Random ELSE @[v]]]
  BY DEF Headers!WriteFault
<1>2. \A a \in Headers!Areas, v \in Headers!Volumes : a # vhOp.area => vhSlot'[a][v] = vhSlot[a][v]
  BY <1>1 DEF HeadersInv, HeaderShapes
<1>3. vhFaults = 0 /\ vhFaults' = 1
  BY DEF OneHeaderFault, Headers!WriteFault, HeadersInv, HeaderShapes
<1>4. HeaderShapes'
  <2>1. /\ DOMAIN vhSlot' = Headers!Areas
        /\ \A a \in Headers!Areas : DOMAIN vhSlot'[a] = Headers!Volumes
    BY <1>1 DEF HeadersInv, HeaderShapes
  <2> QED
    BY <2>1, <1>3 DEF HeadersInv, HeaderShapes, Headers!WriteFault, Headers!Idle, Headers!Areas
<1>5. RedundantInv'
  <2>1. \E a \in Headers!Areas : a # vhOp.area
    BY DEF Headers!Areas
  <2> QED
    BY <2>1, <1>2, <1>3 DEF HeadersInv, RedundantInv, HeaderPresent
<1>6. HeaderFillInv'
  BY DEF Headers!WriteFault, HeaderFillInv, Headers!Idle
<1> QED
  BY <1>4, <1>5, <1>6 DEF HeadersInv

LEMMA HeadersStep ==
    ASSUME OneHeaderFault
    PROVE  HeadersInv /\ [Headers!Next]_(Headers!vhVars) => HeadersInv'
<1> SUFFICES ASSUME HeadersInv, [Headers!Next]_(Headers!vhVars) PROVE HeadersInv'
  OBVIOUS
<1> USE DEF Headers!Begin
<1>1. CASE \E p, q \in Passwords : Headers!ChangePwd(p, q)
  <2>1. PICK p, q \in Passwords, v \in Headers!Volumes :
           vhOp' = [Headers!Idle EXCEPT !.pc = "change", !.volume = v, !.password = q]
    BY <1>1 DEF Headers!ChangePwd, Headers!OpenVolume, Headers!FirstOpened
  <2>2. UNCHANGED <<vhHost, vhSlot, vhFile, vhFaults>>
    BY <1>1 DEF Headers!ChangePwd
  <2> QED
    BY <2>1, <2>2 DEF HeadersInv, HeaderShapes, RedundantInv, HeaderPresent, HeaderFillInv,
                      Headers!Idle, Headers!Areas
<1>2. CASE \E p, q \in Passwords, both \in BOOLEAN : Headers!BackupVolumeHeader(p, both, q)
  <2>1. UNCHANGED <<vhHost, vhSlot, vhOp, vhFaults>> /\ DOMAIN vhFile' = Headers!Volumes
    BY <1>2 DEF Headers!BackupVolumeHeader, Headers!NoBackup
  <2> QED
    BY <2>1 DEF HeadersInv, HeaderShapes, RedundantInv, HeaderPresent, HeaderFillInv
<1>3. CASE \E p \in Passwords : Headers!RestoreInternalBackup(p) \/ Headers!RestoreExternalBackup(p)
  <2>1. PICK pc \in {"internal", "external"}, v \in Headers!Volumes, p \in Passwords :
           vhOp' = [Headers!Idle EXCEPT !.pc = pc, !.volume = v, !.password = p]
    BY <1>3 DEF Headers!RestoreInternalBackup, Headers!RestoreExternalBackup, Headers!OpenVolume,
                Headers!FirstOpened
  <2>2. UNCHANGED <<vhHost, vhSlot, vhFile, vhFaults>>
    BY <1>3 DEF Headers!RestoreInternalBackup, Headers!RestoreExternalBackup
  <2> QED
    BY <2>1, <2>2 DEF HeadersInv, HeaderShapes, RedundantInv, HeaderPresent, HeaderFillInv,
                      Headers!Idle, Headers!Areas
<1>4. CASE Headers!RewriteHeader
  <2>1. CASE Headers!WriteFault({vhOp.volume})
    BY <2>1, <1>4, FaultSpares DEF Headers!RewriteHeader
  <2>2. CASE /\ Headers!WriteHeader
             /\ vhOp' = IF Headers!FillsReservedAreas THEN [vhOp EXCEPT !.pc = "fill"]
                        ELSE Headers!NextPass(vhOp)
    <3>1. UNCHANGED <<vhHost, vhFile, vhFaults>>
      BY <1>4, <2>2 DEF Headers!RewriteHeader, Headers!WriteHeader
    <3>2. /\ DOMAIN vhOp' = DOMAIN Headers!Idle /\ vhOp'.area \in Headers!Areas
          /\ vhOp'.volume \in Headers!Volumes \cup {"none"}
          /\ (vhOp'.pc = "fill" => vhHost.inPlace)
      BY <2>2 DEF HeadersInv, HeaderShapes, Headers!FillsReservedAreas, Headers!NextPass,
                  Headers!Idle, Headers!Areas
    <3> QED
      BY <2>2, <3>1, <3>2, HeaderWritten DEF HeadersInv, HeaderShapes, HeaderFillInv
  <2> QED
    BY <1>4, <2>1, <2>2 DEF Headers!RewriteHeader
<1>5. CASE Headers!WriteRandomDataToReservedHeaderAreas
  <2>1. CASE Headers!WriteFault(Headers!Volumes)
    BY <2>1, <1>5, FaultSpares DEF Headers!WriteRandomDataToReservedHeaderAreas
  <2>2. CASE /\ vhSlot' = [vhSlot EXCEPT ![vhOp.area]["hidden"] = Headers!Random]
             /\ vhOp' = Headers!NextPass(vhOp) /\ UNCHANGED vhFaults
    <3>1. UNCHANGED <<vhHost, vhFile, vhFaults>>
      BY <1>5, <2>2 DEF Headers!WriteRandomDataToReservedHeaderAreas
    <3>2. ~vhHost.hidden
      BY <1>5 DEF HeadersInv, HeaderFillInv, HeaderShapes,
                  Headers!WriteRandomDataToReservedHeaderAreas
    <3>3. /\ DOMAIN vhSlot' = Headers!Areas
          /\ \A a \in Headers!Areas : DOMAIN vhSlot'[a] = Headers!Volumes
          /\ \A a \in Headers!Areas : vhSlot'[a]["outer"] = vhSlot[a]["outer"]
      BY <2>2 DEF HeadersInv, HeaderShapes
    <3>4. RedundantInv'
      BY <3>1, <3>2, <3>3 DEF HeadersInv, RedundantInv, HeaderPresent
    <3>5. HeaderShapes' /\ HeaderFillInv'
      BY <2>2, <3>1, <3>3 DEF HeadersInv, HeaderShapes, HeaderFillInv, Headers!NextPass,
                              Headers!Idle, Headers!Areas
    <3> QED
      BY <3>4, <3>5 DEF HeadersInv
  <2> QED
    BY <1>5, <2>1, <2>2 DEF Headers!WriteRandomDataToReservedHeaderAreas
<1>6. CASE Headers!RestoreHeader
  <2>1. CASE Headers!WriteFault({vhOp.volume})
    BY <2>1, <1>6, FaultSpares DEF Headers!RestoreHeader
  <2>2. CASE /\ Headers!WriteHeader
             /\ vhOp' = IF vhOp.pc = "external" /\ vhOp.area = "primary" /\ ~vhHost.legacy
                        THEN [vhOp EXCEPT !.area = "backup"] ELSE Headers!Idle
    <3>1. UNCHANGED <<vhHost, vhFile, vhFaults>>
      BY <1>6, <2>2 DEF Headers!RestoreHeader, Headers!WriteHeader
    <3>2. /\ DOMAIN vhOp' = DOMAIN Headers!Idle /\ vhOp'.area \in Headers!Areas
          /\ vhOp'.volume \in Headers!Volumes \cup {"none"} /\ vhOp'.pc # "fill"
      BY <1>6, <2>2 DEF HeadersInv, HeaderShapes, Headers!RestoreHeader, Headers!Idle,
                        Headers!Areas
    <3> QED
      BY <2>2, <3>1, <3>2, HeaderWritten DEF HeadersInv, HeaderShapes, HeaderFillInv
  <2> QED
    BY <1>6, <2>1, <2>2 DEF Headers!RestoreHeader
<1>7. CASE UNCHANGED Headers!vhVars
  BY <1>7 DEF Headers!vhVars, HeadersInv, HeaderShapes, RedundantInv, HeaderPresent, HeaderFillInv
<1> QED
  BY <1>1, <1>2, <1>3, <1>4, <1>5, <1>6, <1>7 DEF Headers!Next
(* If an operation on the headers is interrupted by a failed write or a crash at most once, a
   header of each volume of the host remains, whatever is changed, backed up and restored
   (ChangePwd, BackupVolumeHeader and RestoreVolumeHeader). *)
THEOREM HeaderRemains ==
    ASSUME OneHeaderFault
    PROVE  Headers!Spec => []Headers!HeaderAvailable
<1>1. HeadersInv => Headers!HeaderAvailable
  BY DEF HeadersInv, RedundantInv, Headers!HeaderAvailable, HeaderPresent
<1> QED
  BY HeadersInit, HeadersStep, <1>1, PTL DEF Headers!Spec

-----------------------------------------------------------------------------
(* The formatting of a volume. A sector of the file system that has left the buffer has been
   written, or is with the write thread, or the write has failed; so that when the thread has
   been stopped the file system is on the disk. *)
vfParams == s1
vfOp == s2
vfDisk == s3
vfHostKept == s4
vfThread == s5
USE DEF vfParams, vfOp, vfDisk, vfHostKept, vfThread

FsContent == Formatting!Content("fs", "master")
FileSectors == 0..(Formatting!FsSectors - 1)
Contents == [data : {"old", "fs", "zero"}, key : {"none", "master", "temporary"}]
Filling == {"fat", "temporaryKey", "fill", "stop"}
Before == {"open", "header", "format"}

FormatShapes ==
    /\ vfParams \in [device : BOOLEAN, hidden : BOOLEAN, quick : BOOLEAN, retry : BOOLEAN,
                     fileSystem : {"none", "fat", "ntfs"}]
    /\ DOMAIN vfOp = {"pc", "key", "next", "buf", "ok", "lost"}
    /\ vfOp.key \in {"master", "temporary"} /\ vfOp.next \in Nat
    /\ vfOp.buf \in Seq({"fs", "zero"}) /\ vfOp.ok \in BOOLEAN /\ vfOp.lost \in BOOLEAN
    /\ DOMAIN vfDisk = {"primary", "backup", "sector"}
    /\ vfDisk.primary \in BOOLEAN /\ vfDisk.backup \in BOOLEAN
    /\ vfDisk.sector \in [Formatting!Sectors -> Contents]
    /\ DOMAIN vfThread = {"running", "full", "failed", "first", "request"}
    /\ vfThread.running \in BOOLEAN /\ vfThread.full \in BOOLEAN /\ vfThread.failed \in BOOLEAN
    /\ vfThread.first \in Nat /\ vfThread.request \in Seq(Contents)

Closing == vfOp.pc = "close" /\ vfOp.ok

(* An error leads to the end, through the stop of the thread, with the operation marked. *)
OperationInv ==
    /\ vfOp.pc \notin {"stop", "close", "failed"} => vfOp.ok
    /\ vfOp.pc \in Before \cup {"fat", "temporaryKey", "reserved", "ntfs"}
          \/ Closing => vfOp.key = "master"
    /\ vfOp.pc = "fat" => vfOp.next + Len(vfOp.buf) <= Formatting!FsSectors
    /\ vfOp.pc = "temporaryKey" => vfOp.next <= DataSectors /\ vfOp.buf = << >>
    /\ vfOp.pc = "fill" => vfOp.next + Len(vfOp.buf) <= DataSectors

(* Without an error the headers stay once they are written, also on a retry. *)
HeadersStay ==
    /\ \/ vfDisk.primary
       \/ (vfOp.pc \in {"open", "header"} /\ ~vfParams.retry)
       \/ vfOp.pc = "failed" \/ (vfOp.pc = "close" /\ ~vfOp.ok)
    /\ vfOp.pc \in {"reserved", "ntfs", "done"} \/ Closing =>
          vfDisk.backup

(* What the thread has been asked to write to the file system's sectors is the file system. *)
ThreadInv ==
    /\ vfOp.pc \notin Filling => vfThread = Formatting!NoThread
    /\ vfThread.failed => ~vfThread.full
    /\ vfThread.full /\ vfParams.fileSystem = "fat" =>
          \A i \in DOMAIN vfThread.request :
              vfThread.first + i - 1 < Formatting!FsSectors => vfThread.request[i] = FsContent

Written(s) == vfDisk.sector[s] = FsContent
Requested(s) == vfThread.full /\ s - vfThread.first + 1 \in DOMAIN vfThread.request
Placed(s) == Written(s) \/ Requested(s) \/ vfThread.failed \/ vfOp.lost

(* A sector of the file system that has left the buffer is on the disk or with the thread, or
   a write has failed. *)
FatInv ==
    vfParams.fileSystem = "fat" =>
        /\ vfOp.pc = "fat" =>
              /\ \A i \in DOMAIN vfOp.buf : vfOp.buf[i] = "fs"
              /\ \A s \in FileSectors : s < vfOp.next => Placed(s)
        /\ vfOp.pc \in {"temporaryKey", "fill"} => vfOp.next >= Formatting!FsSectors
        /\ vfOp.pc \in {"temporaryKey", "fill"} \/ (vfOp.pc = "stop" /\ vfOp.ok) =>
              \A s \in FileSectors : Placed(s)
        /\ vfOp.pc \in {"backup", "reserved", "done"} \/ Closing =>
              \A s \in FileSectors : Written(s) \/ vfOp.lost

NtfsInv ==
    vfParams.fileSystem = "ntfs" /\ vfOp.pc = "done" => \A s \in FileSectors : Written(s)

FormatInv ==
    /\ FormatShapes /\ OperationInv /\ HeadersStay /\ ThreadInv /\ FatInv /\ NtfsInv /\ vfHostKept

LEMMA FormattingInit == Formatting!Init => FormatInv
<1> SUFFICES ASSUME Formatting!Init PROVE FormatInv
  OBVIOUS
<1>1. << >> \in Seq({"fs", "zero"}) /\ << >> \in Seq(Contents) /\ Len(<< >>) = 0
  OBVIOUS
<1>2. Formatting!NewDisk.sector \in [Formatting!Sectors -> Contents]
  BY DEF Formatting!NewDisk, Formatting!Old, Contents
<1>3. FormatShapes
  BY <1>1, <1>2 DEF Formatting!Init, FormatShapes, Formatting!NewDisk, Formatting!NoThread, Before
<1> QED
  BY <1>3 DEF Formatting!Init, FormatInv, OperationInv, Closing, HeadersStay, ThreadInv, FatInv,
              NtfsInv, Before, Filling,
              Formatting!NoThread

\* Sectors are written.
LEMMA Overwrites ==
    ASSUME FileSystemFits, FormatShapes, NEW first \in Nat, NEW contents \in Seq(Contents),
           vfDisk' = Formatting!WriteAt(vfDisk, first, contents)
    PROVE  /\ DOMAIN vfDisk' = DOMAIN vfDisk /\ vfDisk'.sector \in [Formatting!Sectors -> Contents]
           /\ vfDisk'.primary = vfDisk.primary /\ vfDisk'.backup = vfDisk.backup
           /\ \A s \in Formatting!Sectors : vfDisk'.sector[s] =
                 IF s - first + 1 \in DOMAIN contents THEN contents[s - first + 1]
                 ELSE vfDisk.sector[s]
<1> DEFINE after == [s \in Formatting!Sectors |-> IF s - first + 1 \in DOMAIN contents
                                      THEN contents[s - first + 1] ELSE vfDisk.sector[s]]
<1>1. vfDisk' = [vfDisk EXCEPT !.sector = after]
  BY DEF Formatting!WriteAt
<1>2. \A i \in DOMAIN contents : contents[i] \in Contents
  BY ElementOfSeq, LenProperties
<1>3. after \in [Formatting!Sectors -> Contents]
  BY <1>2 DEF FormatShapes
<1>4. \A s \in Formatting!Sectors : after[s] = IF s - first + 1 \in DOMAIN contents
                                   THEN contents[s - first + 1] ELSE vfDisk.sector[s]
  OBVIOUS
<1> HIDE DEF after
<1> QED
  BY <1>1, <1>3, <1>4 DEF FormatShapes

\* The file system's sectors are among the volume's.
LEMMA SectorsIn ==
    ASSUME FileSystemFits
    PROVE  Formatting!FsSectors \in Nat /\ FileSectors \subseteq Formatting!Sectors
  BY DEF FileSystemFits, FileSectors, Formatting!Sectors

\* What the others need of the disk and of errors.
LEMMA NewDiskShape ==
    /\ DOMAIN Formatting!NewDisk = {"primary", "backup", "sector"}
    /\ Formatting!NewDisk.sector \in [Formatting!Sectors -> Contents]
    /\ Formatting!NewDisk.primary = FALSE /\ Formatting!NewDisk.backup = FALSE
  BY DEF Formatting!NewDisk, Formatting!Old, Contents

\* Where nothing is asked of the file system.
LEMMA Elsewhere ==
    ASSUME \/ vfOp'.pc \in Before \cup {"ntfs", "failed"}
           \/ vfOp'.pc \in {"stop", "close"} /\ vfOp'.ok = FALSE
    PROVE  FatInv' /\ NtfsInv'
  BY DEF FatInv, NtfsInv, Closing, Before

LEMMA Aborts ==
    ASSUME FormatInv, vfOp.pc \in Filling, Formatting!Abort, UNCHANGED <<vfParams, vfHostKept>>
    PROVE  FormatInv'
<1>1. /\ DOMAIN vfOp' = DOMAIN vfOp /\ vfOp'.pc = "stop" /\ vfOp'.ok = FALSE
      /\ vfOp'.key = vfOp.key /\ vfOp'.next = vfOp.next /\ vfOp'.buf = vfOp.buf
      /\ vfOp'.lost = vfOp.lost /\ vfDisk' = vfDisk /\ vfThread' = vfThread
  BY DEF Formatting!Abort, Formatting!GotoError, FormatInv, FormatShapes
<1>2. FormatShapes' /\ OperationInv' /\ HeadersStay' /\ ThreadInv'
  BY <1>1 DEF FormatInv, FormatShapes, OperationInv, Closing, HeadersStay, ThreadInv, Filling,
              Before
<1> QED
  BY <1>1, <1>2, Elsewhere DEF FormatInv

\* More is put into the buffer, up to the end.
LEMMA MinOfTwo ==
    ASSUME NEW a \in Int, NEW b \in Int
    PROVE  /\ Formatting!Min({a, b}) \in {a, b}
           /\ Formatting!Min({a, b}) <= a /\ Formatting!Min({a, b}) <= b
<1>1. \E x \in {a, b} : \A y \in {a, b} : x <= y
  OBVIOUS
<1> QED
  BY <1>1 DEF Formatting!Min

LEMMA SeqJoined ==
    ASSUME NEW S, NEW m \in Seq(S), NEW n \in Seq(S)
    PROVE  /\ m \o n \in Seq(S) /\ Len(m \o n) = Len(m) + Len(n) /\ Len(m) \in Nat
           /\ DOMAIN (m \o n) = 1..(Len(m) + Len(n))
           /\ \A i \in 1..(Len(m) + Len(n)) :
                 (m \o n)[i] = IF i <= Len(m) THEN m[i] ELSE n[i - Len(m)]
  BY ConcatProperties, LenProperties

LEMMA Appends ==
    ASSUME FileSystemFits, FormatInv, NEW data \in {"fs", "zero"}, NEW end \in Nat,
           vfOp.pc \in {"fat", "fill"}, Len(vfOp.buf) < BufferSectors,
           vfOp.next + Len(vfOp.buf) <= end,
           Formatting!AppendSectors(data, end)
    PROVE  \E new \in Seq({"fs", "zero"}) :
              /\ vfOp' = [vfOp EXCEPT !.buf = new] /\ vfOp.next + Len(new) <= end
              /\ \A i \in DOMAIN new : new[i] = IF i <= Len(vfOp.buf) THEN vfOp.buf[i] ELSE data
<1> DEFINE buf == vfOp.buf
           room == BufferSectors - Len(buf)
           left == end - vfOp.next - Len(buf)
           n == Formatting!Min({room, left})
           more == [i \in 1..n |-> data]
           new == buf \o more
<1>1. vfOp.next \in Nat /\ buf \in Seq({"fs", "zero"}) /\ Len(buf) \in Nat
  BY LenProperties DEF FormatInv, FormatShapes
<1>2. room \in Int /\ left \in Int /\ 0 <= room /\ 0 <= left
  BY <1>1 DEF FileSystemFits
<1>3. n \in {room, left} /\ n <= left
  <2> HIDE DEF room, left
  <2> QED
    BY <1>2, MinOfTwo
<1>4. n \in Nat
  <2> HIDE DEF room, left, n
  <2> QED
    BY <1>2, <1>3
<1>5. vfOp' = [vfOp EXCEPT !.buf = new]
  BY DEF Formatting!AppendSectors
<1>6. n \in Nat /\ vfOp.next + Len(buf) + n <= end
  <2> HIDE DEF n
  <2> QED
    BY <1>1, <1>3, <1>4
<1> HIDE DEF n
<1>7. more \in Seq({"fs", "zero"}) /\ Len(more) = n /\ \A i \in 1..n : more[i] = data
  BY <1>6
<1> HIDE DEF buf, more
<1>8. /\ new \in Seq({"fs", "zero"}) /\ Len(new) = Len(buf) + n /\ DOMAIN new = 1..(Len(buf) + n)
      /\ \A i \in 1..(Len(buf) + n) :
            new[i] = IF i <= Len(buf) THEN buf[i] ELSE more[i - Len(buf)]
  BY <1>1, <1>7, SeqJoined
<1> HIDE DEF new
<1>9. \A i \in DOMAIN new : new[i] = IF i <= Len(buf) THEN buf[i] ELSE data
  <2> TAKE i \in DOMAIN new
  <2>1. CASE i <= Len(buf)
    BY <1>8, <2>1
  <2>2. CASE ~(i <= Len(buf))
    <3>1. i - Len(buf) \in 1..n /\ i \in 1..(Len(buf) + n)
      BY <1>1, <1>6, <1>8, <2>2
    <3> QED
      BY <1>7, <1>8, <2>2, <3>1
  <2> QED
    BY <2>1, <2>2
<1>10. vfOp.next + Len(new) <= end
  BY <1>1, <1>6, <1>8
<1> QED
  BY <1>5, <1>8, <1>9, <1>10 DEF buf

\* The buffer goes to the disk or to the thread.
LEMMA Flushes ==
    ASSUME FileSystemFits, FormatInv, vfOp.pc \in {"fat", "fill"},
           Formatting!FlushFormatWriteBuffer,
           UNCHANGED <<vfParams, vfHostKept>>
    PROVE  FormatInv'
<1> DEFINE sent == Formatting!Encrypted
           first == vfOp.next
<1>1. /\ Len(vfOp.buf) \in Nat /\ first \in Nat /\ vfOp.buf \in Seq({"fs", "zero"})
      /\ DOMAIN vfOp.buf = 1..Len(vfOp.buf) /\ Formatting!FsSectors \in Nat
      /\ FileSectors \subseteq Formatting!Sectors
      /\ DataSectors \in Nat
  BY LenProperties, SectorsIn DEF FormatInv, FormatShapes, FileSystemFits
<1>2. /\ sent \in Seq(Contents) /\ Len(sent) = Len(vfOp.buf) /\ DOMAIN sent = DOMAIN vfOp.buf
      /\ \A i \in DOMAIN sent : sent[i] = Formatting!Content(vfOp.buf[i], vfOp.key)
  <2>1. \A i \in 1..Len(vfOp.buf) : Formatting!Content(vfOp.buf[i], vfOp.key) \in Contents
    BY <1>1, ElementOfSeq DEF FormatInv, FormatShapes, Formatting!Content, Contents
  <2>2. sent = [i \in 1..Len(vfOp.buf) |-> Formatting!Content(vfOp.buf[i], vfOp.key)]
    BY <1>1 DEF Formatting!Encrypted
  <2> HIDE DEF sent
  <2> QED
    BY <1>1, <2>1, <2>2
<1>3. vfParams.fileSystem = "fat" =>
        \A i \in DOMAIN sent : first + i - 1 < Formatting!FsSectors => sent[i] = FsContent
  <2> HIDE DEF sent
  <2>1. CASE vfOp.pc = "fat"
    <3>1. vfParams.fileSystem = "fat" => \A i \in DOMAIN vfOp.buf : vfOp.buf[i] = "fs"
      BY <2>1 DEF FormatInv, FatInv
    <3>2. vfOp.key = "master"
      BY <2>1 DEF FormatInv, OperationInv
    <3> QED
      BY <1>2, <3>1, <3>2 DEF FsContent
  <2>2. CASE vfOp.pc = "fill"
    <3>1. vfParams.fileSystem = "fat" => first >= Formatting!FsSectors
      BY <2>2 DEF FormatInv, FatInv
    <3>2. \A i \in DOMAIN sent : i \in Nat /\ i >= 1
      BY <1>1, <1>2
    <3> QED
      BY <1>1, <3>1, <3>2
  <2> QED
    BY <2>1, <2>2
<1> HIDE DEF sent
<1>4. \A s \in FileSectors : s < first + Len(vfOp.buf) => s < first \/ s - first + 1 \in DOMAIN sent
  BY <1>1, <1>2 DEF FileSectors
<1>5. CASE Formatting!Abort
  BY <1>5, Aborts DEF Filling
<1>6. CASE /\ ~vfThread.running
           /\ vfDisk' = Formatting!WriteAt(vfDisk, vfOp.next, Formatting!Encrypted)
           /\ Formatting!Flushed /\ UNCHANGED vfThread
  <2>1. /\ DOMAIN vfDisk' = DOMAIN vfDisk /\ vfDisk'.sector \in [Formatting!Sectors -> Contents]
        /\ vfDisk'.primary = vfDisk.primary /\ vfDisk'.backup = vfDisk.backup
        /\ \A s \in Formatting!Sectors : vfDisk'.sector[s] =
              IF s - first + 1 \in DOMAIN sent THEN sent[s - first + 1] ELSE vfDisk.sector[s]
    BY <1>1, <1>2, <1>6, Overwrites DEF sent, FormatInv
  <2>2. vfParams.fileSystem = "fat" =>
          \A s \in FileSectors : (s - first + 1 \in DOMAIN sent \/ Written(s)) => Written(s)'
    BY <1>1, <1>2, <1>3, <2>1 DEF Written, FileSectors
  <2>3. /\ vfOp'.pc = vfOp.pc /\ vfOp'.next = first + Len(vfOp.buf) /\ vfOp'.buf = << >>
        /\ vfOp'.ok = vfOp.ok /\ vfOp'.key = vfOp.key /\ vfOp'.lost = vfOp.lost
        /\ FormatShapes' /\ vfThread' = vfThread /\ vfParams' = vfParams /\ vfHostKept'
    BY <1>1, <1>6, <2>1 DEF Formatting!Flushed, FormatInv, FormatShapes
  <2>4. OperationInv' /\ HeadersStay' /\ ThreadInv' /\ NtfsInv'
    BY <1>1, <2>1, <2>3 DEF FormatInv, OperationInv, Closing, HeadersStay, ThreadInv, NtfsInv,
                            Filling, Before
  <2>5. FatInv'
    BY <1>1, <1>4, <2>2, <2>3 DEF FormatInv, FatInv, Closing, Placed, Requested, FileSectors
  <2> QED
    BY <2>3, <2>4, <2>5 DEF FormatInv
<1>7. CASE /\ vfThread.running /\ ~vfThread.full /\ ~vfThread.failed
           /\ vfThread' = [vfThread EXCEPT !.full = TRUE, !.first = vfOp.next,
                                         !.request = Formatting!Encrypted]
           /\ Formatting!Flushed /\ UNCHANGED vfDisk
  <2>1. /\ vfOp'.pc = vfOp.pc /\ vfOp'.next = first + Len(vfOp.buf) /\ vfOp'.buf = << >>
        /\ vfOp'.ok = vfOp.ok /\ vfOp'.key = vfOp.key /\ vfOp'.lost = vfOp.lost
        /\ vfDisk' = vfDisk /\ vfParams' = vfParams /\ vfHostKept'
        /\ vfThread'.full = TRUE /\ vfThread'.first = first /\ vfThread'.request = sent
        /\ vfThread'.failed = vfThread.failed
    BY <1>7 DEF Formatting!Flushed, FormatInv, FormatShapes, sent
  <2>2. FormatShapes'
    <3>1. /\ DOMAIN vfOp' = DOMAIN vfOp /\ DOMAIN vfThread' = DOMAIN vfThread
          /\ vfThread'.running = vfThread.running
      BY <1>7 DEF Formatting!Flushed, FormatInv, FormatShapes
    <3>2. /\ vfOp'.buf \in Seq({"fs", "zero"}) /\ vfOp'.next \in Nat
          /\ vfThread'.request \in Seq(Contents)
      BY <1>1, <1>2, <2>1
    <3> QED
      BY <1>1, <2>1, <3>1, <3>2 DEF FormatInv, FormatShapes
  <2>3. OperationInv' /\ HeadersStay' /\ ThreadInv' /\ NtfsInv'
    <3>1. vfOp.pc \in Filling /\ vfThread'.failed = FALSE
      BY <1>7, <2>1 DEF Filling, FormatInv, FormatShapes
    <3>2. OperationInv' /\ HeadersStay' /\ NtfsInv'
      BY <1>1, <2>1 DEF FormatInv, OperationInv, Closing, HeadersStay, NtfsInv, Before
    <3>3. ThreadInv'
      BY <1>3, <2>1, <3>1 DEF ThreadInv
    <3> QED
      BY <3>2, <3>3
  <2>4. \A s \in FileSectors : (Placed(s) \/ s - first + 1 \in DOMAIN sent) => Placed(s)'
    BY <1>7, <2>1 DEF Placed, Requested, Written
  <2>5. FatInv'
    BY <1>1, <1>4, <2>1, <2>4 DEF FormatInv, FatInv, Closing, FileSectors
  <2> QED
    BY <2>1, <2>2, <2>3, <2>5 DEF FormatInv
<1> QED
  BY <1>5, <1>6, <1>7 DEF Formatting!FlushFormatWriteBuffer

LEMMA FormattingStep ==
    ASSUME FileSystemFits
    PROVE  FormatInv /\ [Formatting!Next]_(Formatting!vfVars) => FormatInv'
<1> SUFFICES ASSUME FormatInv, [Formatting!Next]_(Formatting!vfVars) PROVE FormatInv'
  OBVIOUS
<1>0. << >> \in Seq({"fs", "zero"}) /\ << >> \in Seq(Contents) /\ Len(<< >>) = 0
  OBVIOUS
<1>1. CASE Formatting!OpenDevice
  <2>1. /\ DOMAIN vfOp' = DOMAIN vfOp /\ vfOp.pc = "open"
        /\ \/ vfOp'.pc = "header" /\ vfOp'.ok = vfOp.ok
           \/ vfOp'.pc = "close" /\ vfOp'.ok = FALSE
        /\ vfOp'.key = vfOp.key /\ vfOp'.next = vfOp.next /\ vfOp'.buf = vfOp.buf
        /\ vfOp'.lost = vfOp.lost /\ vfParams' = vfParams /\ vfThread' = vfThread
        /\ DOMAIN vfDisk' = DOMAIN vfDisk /\ vfDisk'.sector = vfDisk.sector
        /\ vfDisk'.backup = vfDisk.backup /\ vfDisk'.primary \in BOOLEAN
        /\ vfParams.retry => vfDisk'.primary = vfDisk.primary
        /\ vfHostKept'
    BY <1>1 DEF Formatting!OpenDevice, Formatting!Go, Formatting!GotoError,
                Formatting!KeepsContents, FormatInv, FormatShapes
  <2>2. FormatShapes' /\ OperationInv' /\ HeadersStay' /\ ThreadInv'
    BY <2>1 DEF FormatInv, FormatShapes, OperationInv, Closing, HeadersStay, ThreadInv, Filling,
                Before
  <2> QED
    <3>1. \/ vfOp'.pc \in Before \cup {"ntfs", "failed"}
          \/ vfOp'.pc \in {"stop", "close"} /\ vfOp'.ok = FALSE
      BY <2>1 DEF Before
    <3>2. FatInv' /\ NtfsInv'
      BY <3>1, Elsewhere
    <3> QED
      BY <2>1, <2>2, <3>2 DEF FormatInv
<1>2. CASE Formatting!WriteVolumeHeader
  <2>1. /\ DOMAIN vfOp' = DOMAIN vfOp /\ vfOp.pc = "header"
        /\ \/ vfOp'.pc = "format" /\ vfOp'.ok = vfOp.ok /\ (vfDisk'.primary \/ vfParams.retry)
           \/ vfOp'.pc = "close" /\ vfOp'.ok = FALSE
        /\ vfOp'.key = vfOp.key /\ vfOp'.next = vfOp.next /\ vfOp'.buf = vfOp.buf
        /\ vfOp'.lost = vfOp.lost /\ vfThread' = vfThread
        /\ DOMAIN vfDisk' = DOMAIN vfDisk /\ vfDisk'.sector = vfDisk.sector
        /\ vfDisk'.backup = vfDisk.backup /\ vfDisk'.primary \in BOOLEAN
        /\ vfParams.retry => vfDisk'.primary = vfDisk.primary
        /\ vfHostKept'
    BY <1>2 DEF Formatting!WriteVolumeHeader, Formatting!Go, Formatting!GotoError, FormatInv,
                FormatShapes
  <2>2. /\ vfParams'.retry = vfParams.retry /\ vfParams'.fileSystem = vfParams.fileSystem
        /\ vfParams' \in [device : BOOLEAN, hidden : BOOLEAN, quick : BOOLEAN, retry : BOOLEAN,
                          fileSystem : {"none", "fat", "ntfs"}]
    BY <1>2 DEF Formatting!WriteVolumeHeader, FormatInv, FormatShapes
  <2>3. FormatShapes' /\ OperationInv' /\ HeadersStay' /\ ThreadInv'
    BY <2>1, <2>2 DEF FormatInv, FormatShapes, OperationInv, Closing, HeadersStay, ThreadInv,
                      Filling, Before
  <2> QED
    <3>1. \/ vfOp'.pc \in Before \cup {"ntfs", "failed"}
          \/ vfOp'.pc \in {"stop", "close"} /\ vfOp'.ok = FALSE
      BY <2>1 DEF Before
    <3>2. FatInv' /\ NtfsInv'
      BY <3>1, Elsewhere
    <3> QED
      BY <2>1, <2>3, <3>2 DEF FormatInv
<1>3. CASE Formatting!StartFormatWriteThread
  <2>1. /\ vfParams' = vfParams /\ vfDisk' = vfDisk /\ vfHostKept' /\ vfOp.pc = "format"
        /\ vfThread = Formatting!NoThread /\ vfOp.ok /\ vfOp.key = "master" /\ vfDisk.primary
    BY <1>3 DEF Formatting!StartFormatWriteThread, FormatInv, OperationInv, HeadersStay,
                ThreadInv, Filling, Before
  <2>2. CASE Formatting!GotoError("close") /\ UNCHANGED vfThread
    <3>1. /\ DOMAIN vfOp' = DOMAIN vfOp /\ vfOp'.pc = "close" /\ vfOp'.ok = FALSE
          /\ vfOp'.key = vfOp.key /\ vfOp'.next = vfOp.next /\ vfOp'.buf = vfOp.buf
          /\ vfOp'.lost = vfOp.lost
      BY <2>2 DEF Formatting!GotoError, FormatInv, FormatShapes
    <3>2. FormatShapes' /\ OperationInv' /\ HeadersStay' /\ ThreadInv'
      BY <2>1, <2>2, <3>1 DEF FormatInv, FormatShapes, OperationInv, Closing, HeadersStay,
                              ThreadInv, Filling, Before
    <3> QED
      BY <2>1, <3>1, <3>2, Elsewhere DEF FormatInv
  <2>3. CASE /\ vfThread' = [Formatting!NoThread EXCEPT !.running = vfParams.device]
             /\ vfOp' = [vfOp EXCEPT !.next = 0, !.buf = << >>,
                            !.pc = IF vfParams.fileSystem = "fat" THEN "fat"
                                   ELSE IF vfParams.quick THEN "stop" ELSE "temporaryKey"]
    <3>1. /\ DOMAIN vfOp' = DOMAIN vfOp /\ vfOp'.ok /\ vfOp'.key = "master" /\ vfOp'.next = 0
          /\ vfOp'.buf = << >> /\ vfOp'.lost = vfOp.lost /\ vfOp'.ok = vfOp.ok
          /\ \/ vfOp'.pc = "fat"
             \/ vfParams.fileSystem # "fat" /\ vfOp'.pc \in {"stop", "temporaryKey"}
      BY <2>1, <2>3 DEF FormatInv, FormatShapes
    <3>2. /\ DOMAIN vfThread' = DOMAIN vfThread /\ vfThread'.running \in BOOLEAN
          /\ vfThread'.full = FALSE /\ vfThread'.failed = FALSE /\ vfThread'.first = 0
          /\ vfThread'.request = << >>
      BY <2>1, <2>3 DEF FormatInv, FormatShapes, Formatting!NoThread
    <3>3. FormatShapes'
      <4>1. vfOp'.buf \in Seq({"fs", "zero"}) /\ vfThread'.request \in Seq(Contents)
        BY <1>0, <3>1, <3>2
      <4>2. FormatShapes
        BY DEF FormatInv
      <4>3. /\ DOMAIN vfOp' = {"pc", "key", "next", "buf", "ok", "lost"}
            /\ vfOp'.key \in {"master", "temporary"} /\ vfOp'.next \in Nat
            /\ vfOp'.ok \in BOOLEAN /\ vfOp'.lost \in BOOLEAN
        BY <3>1, <4>2 DEF FormatShapes
      <4>4. /\ DOMAIN vfThread' = {"running", "full", "failed", "first", "request"}
            /\ vfThread'.running \in BOOLEAN /\ vfThread'.full \in BOOLEAN
            /\ vfThread'.failed \in BOOLEAN /\ vfThread'.first \in Nat
        BY <3>2, <4>2, 0 \in Nat DEF FormatShapes
      <4> QED
        BY <2>1, <4>1, <4>2, <4>3, <4>4 DEF FormatShapes
    <3>4. OperationInv' /\ HeadersStay' /\ ThreadInv' /\ NtfsInv'
      BY <1>0, <2>1, <3>1, <3>2, SectorsIn
         DEF FormatInv, OperationInv, Closing, HeadersStay, ThreadInv, NtfsInv, Filling, Before,
             FileSystemFits
    <3>5. \A s \in FileSectors : ~(s < 0)
      BY SectorsIn DEF FileSectors
    <3>6. FatInv'
      BY <1>0, <2>1, <3>1, <3>2, <3>5 DEF FatInv, Closing
    <3> QED
      BY <2>1, <3>3, <3>4, <3>6 DEF FormatInv
  <2> QED
    BY <1>3, <2>2, <2>3 DEF Formatting!StartFormatWriteThread
<1>4. CASE Formatting!UseTemporaryKey
  <2>1. /\ DOMAIN vfOp' = DOMAIN vfOp /\ vfOp.pc = "temporaryKey" /\ vfOp.buf = << >>
        /\ \/ vfOp'.pc = "fill" /\ vfOp'.ok = vfOp.ok /\ vfOp'.key = "temporary"
           \/ vfOp'.pc = "stop" /\ vfOp'.ok = FALSE /\ vfOp'.key = vfOp.key
        /\ vfOp'.next = vfOp.next /\ vfOp'.buf = << >> /\ vfOp'.lost = vfOp.lost
        /\ vfParams' = vfParams /\ vfThread' = vfThread /\ vfDisk' = vfDisk /\ vfHostKept'
    BY <1>4 DEF Formatting!UseTemporaryKey, Formatting!GotoError, FormatInv, FormatShapes,
                OperationInv
  <2>2. FormatShapes'
    BY <2>1 DEF FormatInv, FormatShapes
  <2>3. OperationInv' /\ HeadersStay' /\ ThreadInv' /\ NtfsInv'
    BY <1>0, <2>1 DEF FormatInv, FormatShapes, OperationInv, Closing, HeadersStay, ThreadInv,
                      NtfsInv, Filling, Before
  <2>4. FatInv'
    BY <2>1 DEF FormatInv, FatInv, Closing, Placed, Requested, Written
  <2> QED
    BY <2>1, <2>2, <2>3, <2>4 DEF FormatInv
<1>5. CASE Formatting!WriteHeaderBackup
  <2>1. /\ DOMAIN vfOp' = DOMAIN vfOp /\ vfOp.pc = "backup" /\ vfOp.ok
        /\ \/ /\ vfOp'.pc \in {"close", "reserved"} /\ vfOp'.ok = vfOp.ok /\ vfOp'.key = "master"
              /\ vfDisk'.backup
           \/ vfOp'.pc = "close" /\ vfOp'.ok = FALSE /\ vfOp'.key = vfOp.key
        /\ vfOp'.next = vfOp.next /\ vfOp'.buf = vfOp.buf /\ vfOp'.lost = vfOp.lost
        /\ DOMAIN vfDisk' = DOMAIN vfDisk /\ vfDisk'.sector = vfDisk.sector
        /\ vfDisk'.backup \in BOOLEAN /\ vfDisk'.primary = vfDisk.primary
        /\ vfParams' = vfParams /\ vfThread' = vfThread /\ vfHostKept'
    BY <1>5 DEF Formatting!WriteHeaderBackup, Formatting!GotoError, FormatInv, FormatShapes,
                OperationInv
  <2>2. FormatShapes'
    BY <2>1 DEF FormatInv, FormatShapes
  <2>3. OperationInv' /\ HeadersStay' /\ ThreadInv' /\ NtfsInv'
    BY <2>1 DEF FormatInv, OperationInv, Closing, HeadersStay, ThreadInv, NtfsInv, Filling, Before
  <2>4. FatInv'
    BY <2>1 DEF FormatInv, FatInv, Closing, Written
  <2> QED
    BY <2>1, <2>2, <2>3, <2>4 DEF FormatInv
<1>6. CASE Formatting!FillReservedAreas
  <2>1. /\ DOMAIN vfOp' = DOMAIN vfOp /\ vfOp.pc = "reserved" /\ vfOp'.pc = "close"
        /\ vfOp'.ok = vfOp.ok \/ vfOp'.ok = FALSE
        /\ vfOp'.key = vfOp.key
        /\ vfOp'.next = vfOp.next /\ vfOp'.buf = vfOp.buf /\ vfOp'.lost = vfOp.lost
        /\ vfDisk' = vfDisk /\ vfParams' = vfParams /\ vfThread' = vfThread /\ vfHostKept'
    BY <1>6 DEF Formatting!FillReservedAreas, Formatting!Go, Formatting!GotoError, FormatInv,
                FormatShapes
  <2>2. FormatShapes'
    BY <2>1 DEF FormatInv, FormatShapes
  <2>3. OperationInv' /\ HeadersStay' /\ ThreadInv' /\ NtfsInv'
    BY <2>1 DEF FormatInv, OperationInv, Closing, HeadersStay, ThreadInv, NtfsInv, Filling, Before
  <2>4. FatInv'
    BY <2>1 DEF FormatInv, FatInv, Closing, Written
  <2> QED
    BY <2>1, <2>2, <2>3, <2>4 DEF FormatInv
<1>7. CASE Formatting!StopFormatWriteThread
  <2>1. /\ FormatShapes' /\ vfThread' = Formatting!NoThread /\ vfDisk' = vfDisk
        /\ vfParams' = vfParams /\ vfHostKept'
    BY <1>0, <1>7 DEF Formatting!StopFormatWriteThread, Formatting!NoThread, FormatInv,
                      FormatShapes, Before, Filling
  <2>2. /\ vfOp'.pc = (IF vfOp.ok THEN "backup" ELSE "close") /\ vfOp'.ok = vfOp.ok
        /\ vfOp'.lost = (vfOp.lost \/ vfThread.failed)
        /\ vfOp.pc = "stop" /\ ~vfThread.full
    BY <1>7 DEF Formatting!StopFormatWriteThread, FormatInv, FormatShapes
  <2>3. OperationInv' /\ HeadersStay' /\ ThreadInv' /\ NtfsInv'
    BY <2>1, <2>2 DEF FormatInv, OperationInv, Closing, HeadersStay, ThreadInv, NtfsInv, Filling,
                      Before, Formatting!NoThread
  <2>4. \A s \in FileSectors : Placed(s) => Written(s)' \/ vfOp'.lost
    BY <2>1, <2>2 DEF Placed, Requested, Written
  <2>5. FatInv'
    BY <2>1, <2>2, <2>4 DEF FormatInv, FatInv, Closing
  <2> QED
    BY <2>1, <2>3, <2>5 DEF FormatInv
<1>8. CASE Formatting!CreateVolumeFile
  <2>1. /\ DOMAIN vfOp' = DOMAIN vfOp /\ vfOp.pc = "open"
        /\ \/ vfOp'.pc = "header" /\ vfOp'.ok = vfOp.ok
           \/ vfOp'.pc = "close" /\ vfOp'.ok = FALSE
        /\ vfOp'.key = vfOp.key /\ vfOp'.next = vfOp.next /\ vfOp'.buf = vfOp.buf
        /\ vfOp'.lost = vfOp.lost /\ vfParams' = vfParams /\ vfThread' = vfThread
    BY <1>8 DEF Formatting!CreateVolumeFile, Formatting!Go, Formatting!GotoError, FormatInv,
                FormatShapes
  <2>2. /\ vfDisk' = vfDisk \/ (vfDisk' = Formatting!NewDisk /\ ~vfParams.retry)
        /\ vfHostKept'
    <3>1. CASE Formatting!KeepsContents
      <4>1. UNCHANGED <<vfDisk, vfHostKept>>
        BY <1>8, <3>1 DEF Formatting!CreateVolumeFile
      <4>2. vfHostKept
        BY DEF FormatInv
      <4> QED
        BY <4>1, <4>2
    <3>2. CASE ~Formatting!KeepsContents
      BY <1>8, <3>2 DEF Formatting!CreateVolumeFile, Formatting!KeepsContents
    <3> QED
      BY <3>1, <3>2
  <2>3. /\ DOMAIN vfDisk' = DOMAIN vfDisk /\ vfDisk'.sector \in [Formatting!Sectors -> Contents]
        /\ vfDisk'.backup \in BOOLEAN /\ vfDisk'.primary \in BOOLEAN
        /\ vfParams.retry => vfDisk'.primary = vfDisk.primary
    BY <2>2, NewDiskShape DEF FormatInv, FormatShapes
  <2>4. FormatShapes' /\ OperationInv' /\ HeadersStay' /\ ThreadInv'
    BY <2>1, <2>3 DEF FormatInv, FormatShapes, OperationInv, Closing, HeadersStay, ThreadInv,
                      Filling, Before
  <2> QED
    <3>1. \/ vfOp'.pc \in Before \cup {"ntfs", "failed"}
          \/ vfOp'.pc \in {"stop", "close"} /\ vfOp'.ok = FALSE
      BY <2>1 DEF Before
    <3>2. FatInv' /\ NtfsInv'
      BY <3>1, Elsewhere
    <3> QED
      BY <2>2, <2>4, <3>2 DEF FormatInv
<1>9. CASE Formatting!CloseVolume
  <2>1. /\ DOMAIN vfOp' = DOMAIN vfOp /\ vfOp.pc = "close"
        /\ \/ vfOp'.pc = "failed"
           \/ vfOp'.pc = "ntfs" /\ vfOp.ok
           \/ vfOp'.pc = "done" /\ vfOp.ok /\ vfParams.fileSystem # "ntfs"
        /\ vfOp'.ok = vfOp.ok /\ vfOp'.key = vfOp.key /\ vfOp'.next = vfOp.next
        /\ vfOp'.buf = vfOp.buf /\ vfOp'.lost = vfOp.lost
        /\ vfParams' = vfParams /\ vfThread' = vfThread
    BY <1>9 DEF Formatting!CloseVolume, Formatting!Go, FormatInv, FormatShapes
  <2>2. /\ vfDisk' = vfDisk \/ (vfDisk' = Formatting!NewDisk /\ ~vfOp.ok)
        /\ vfHostKept'
    <3>1. CASE Formatting!Truncates
      BY <1>9, <3>1 DEF Formatting!CloseVolume, Formatting!Truncates
    <3>2. CASE ~Formatting!Truncates
      <4>1. UNCHANGED <<vfDisk, vfHostKept>>
        BY <1>9, <3>2 DEF Formatting!CloseVolume
      <4>2. vfHostKept
        BY DEF FormatInv
      <4> QED
        BY <4>1, <4>2
    <3> QED
      BY <3>1, <3>2
  <2>3. ~vfOp.ok => vfOp'.pc = "failed"
    BY <1>9 DEF Formatting!CloseVolume, Formatting!Go, FormatInv, FormatShapes
  <2>4. FormatShapes'
    BY <2>1, <2>2, NewDiskShape DEF FormatInv, FormatShapes
  <2>5. OperationInv' /\ HeadersStay' /\ ThreadInv' /\ NtfsInv'
    BY <2>1, <2>2, <2>3 DEF FormatInv, OperationInv, Closing, HeadersStay, ThreadInv, NtfsInv,
                            Filling, Before
  <2>6. FatInv'
    BY <2>1, <2>2, <2>3 DEF FormatInv, FatInv, Closing, Written
  <2> QED
    BY <2>2, <2>4, <2>5, <2>6 DEF FormatInv
<1>10. CASE Formatting!FormatNtfs
  <2>1. CASE Formatting!Go("failed") /\ UNCHANGED <<vfParams, vfDisk>>
    <3> QED
      <4>1. FormatShapes'
        BY <1>10, <2>1 DEF Formatting!FormatNtfs, Formatting!Go, FormatInv, FormatShapes
      <4>2. OperationInv'
        BY <1>10, <2>1 DEF Formatting!FormatNtfs, Formatting!Go, FormatInv, FormatShapes,
                           OperationInv, Closing, Filling, Before
      <4>3. HeadersStay'
        BY <1>10, <2>1 DEF Formatting!FormatNtfs, Formatting!Go, FormatInv, FormatShapes,
                           OperationInv, HeadersStay, Closing, Filling, Before
      <4>4. ThreadInv'
        BY <1>10, <2>1 DEF Formatting!FormatNtfs, Formatting!Go, FormatInv, FormatShapes,
                           ThreadInv, Filling, Before
      <4>5. FatInv'
        BY <1>10, <2>1 DEF Formatting!FormatNtfs, Formatting!Go, FormatInv, FormatShapes,
                           OperationInv, FatInv, ThreadInv, Closing, Written, Requested, Placed,
                           Filling, Before
      <4>6. (NtfsInv /\ vfHostKept)'
        BY <1>10, <2>1 DEF Formatting!FormatNtfs, Formatting!Go, FormatInv, FormatShapes,
                           NtfsInv, Written
      <4> QED
        BY <4>1, <4>2, <4>3, <4>4, <4>5, <4>6 DEF FormatInv
  <2>2. CASE /\ vfParams' = [vfParams EXCEPT !.fileSystem = "fat", !.retry = TRUE, !.quick = TRUE]
             /\ Formatting!Go("open") /\ UNCHANGED vfDisk
    <3> QED
      <4>1. FormatShapes'
        BY <1>10, <2>2 DEF Formatting!FormatNtfs, Formatting!Go, Formatting!NoThread, FormatInv,
                           FormatShapes
      <4>2. OperationInv'
        BY <1>10, <2>2 DEF Formatting!FormatNtfs, Formatting!Go, Formatting!NoThread, FormatInv,
                           FormatShapes, OperationInv, Closing, Filling, Before
      <4>3. HeadersStay'
        BY <1>10, <2>2 DEF Formatting!FormatNtfs, Formatting!Go, Formatting!NoThread, FormatInv,
                           FormatShapes, OperationInv, HeadersStay, Closing, Filling, Before
      <4>4. ThreadInv'
        BY <1>10, <2>2 DEF Formatting!FormatNtfs, Formatting!Go, Formatting!NoThread, FormatInv,
                           FormatShapes, ThreadInv, Filling, Before
      <4>5. FatInv'
        BY <1>10, <2>2 DEF Formatting!FormatNtfs, Formatting!Go, Formatting!NoThread, FormatInv,
                           FormatShapes, OperationInv, FatInv, ThreadInv, Closing, Written,
                           Requested, Placed, Filling, Before
      <4>6. (NtfsInv /\ vfHostKept)'
        BY <1>10, <2>2 DEF Formatting!FormatNtfs, Formatting!Go, Formatting!NoThread, FormatInv,
                           FormatShapes, NtfsInv, Written
      <4> QED
        BY <4>1, <4>2, <4>3, <4>4, <4>5, <4>6 DEF FormatInv
  <2>3. CASE /\ vfDisk' = Formatting!WriteAt(vfDisk, 0, [i \in 1..Formatting!FsSectors |->
                                                    Formatting!Content("fs", "master")])
             /\ Formatting!Go("done") /\ UNCHANGED vfParams
    <3> DEFINE all == [i \in 1..Formatting!FsSectors |-> Formatting!Content("fs", "master")]
    <3>1. Formatting!Content("fs", "master") \in Contents
      BY DEF Formatting!Content, Contents
    <3>2. /\ all \in Seq(Contents) /\ DOMAIN all = 1..Formatting!FsSectors
          /\ \A i \in 1..Formatting!FsSectors : all[i] = FsContent
      BY <3>1, SectorsIn DEF FsContent
    <3> HIDE DEF all
    <3>3. /\ DOMAIN vfDisk' = DOMAIN vfDisk /\ vfDisk'.sector \in [Formatting!Sectors -> Contents]
          /\ vfDisk'.primary = vfDisk.primary /\ vfDisk'.backup = vfDisk.backup
          /\ \A s \in Formatting!Sectors : vfDisk'.sector[s] =
                IF s - 0 + 1 \in DOMAIN all THEN all[s - 0 + 1] ELSE vfDisk.sector[s]
      BY <2>3, <3>2, Overwrites DEF all, FormatInv
    <3>4. \A s \in FileSectors : Written(s)'
      <4> TAKE s \in FileSectors
      <4>1. s \in Formatting!Sectors /\ s - 0 + 1 \in 1..Formatting!FsSectors
        BY SectorsIn DEF FileSectors
      <4> QED
        BY <3>2, <3>3, <4>1 DEF Written
    <3>5. /\ vfOp'.pc = "done" /\ vfOp'.ok = vfOp.ok /\ vfOp.pc = "ntfs"
          /\ vfParams' = vfParams /\ vfThread' = vfThread /\ vfHostKept' = vfHostKept
      BY <1>10, <2>3 DEF Formatting!FormatNtfs, Formatting!Go, FormatInv, FormatShapes
    <3>6. FormatShapes'
      BY <1>10, <2>3, <3>3 DEF Formatting!FormatNtfs, Formatting!Go, FormatInv, FormatShapes
    <3> QED
      BY <3>3, <3>4, <3>5, <3>6
         DEF FormatInv, OperationInv, Closing, HeadersStay, ThreadInv, FatInv, NtfsInv, Filling,
             Before, Formatting!NoThread
  <2> QED
    BY <1>10, <2>1, <2>2, <2>3 DEF Formatting!FormatNtfs
<1>11. CASE Formatting!FormatFat
  <2>1. CASE Len(vfOp.buf) = BufferSectors /\ Formatting!FlushFormatWriteBuffer
    BY <1>11, <2>1, Flushes DEF Formatting!FormatFat, Formatting!WriteBuffer
  <2>2. CASE Formatting!Abort
    BY <1>11, <2>2, Aborts DEF Formatting!FormatFat, Formatting!WriteBuffer, Filling
  <2>3. CASE /\ Len(vfOp.buf) < BufferSectors /\ ~Formatting!Appended(Formatting!FsSectors)
             /\ Formatting!AppendSectors("fs", Formatting!FsSectors)
             /\ UNCHANGED <<vfDisk, vfThread>>
    <3>1. /\ vfOp.next + Len(vfOp.buf) <= Formatting!FsSectors /\ Formatting!FsSectors \in Nat
          /\ vfOp.pc = "fat"
      BY <1>11, SectorsIn DEF Formatting!FormatFat, Formatting!WriteBuffer, FormatInv,
                              OperationInv
    <3>2. PICK new \in Seq({"fs", "zero"}) :
              /\ vfOp' = [vfOp EXCEPT !.buf = new] /\ vfOp.next + Len(new) <= Formatting!FsSectors
              /\ \A i \in DOMAIN new : new[i] = IF i <= Len(vfOp.buf) THEN vfOp.buf[i] ELSE "fs"
      BY <2>3, <3>1, Appends
    <3> QED
      <4>1. FormatShapes'
        BY <1>11, <2>3, <3>1, <3>2, LenProperties DEF Formatting!FormatFat,
                                                      Formatting!WriteBuffer, FormatInv,
                                                      FormatShapes
      <4>2. OperationInv'
        BY <1>11, <2>3, <3>1, <3>2, LenProperties DEF Formatting!FormatFat,
                                                      Formatting!WriteBuffer, FormatInv,
                                                      FormatShapes, OperationInv, Closing,
                                                      Filling, Before
      <4>3. HeadersStay'
        BY <1>11, <2>3, <3>1, <3>2, LenProperties DEF Formatting!FormatFat,
                                                      Formatting!WriteBuffer, FormatInv,
                                                      FormatShapes, OperationInv, HeadersStay,
                                                      Closing, Filling, Before
      <4>4. ThreadInv'
        BY <1>11, <2>3, <3>1, <3>2, LenProperties DEF Formatting!FormatFat,
                                                      Formatting!WriteBuffer, FormatInv,
                                                      FormatShapes, ThreadInv, Filling, Before
      <4>5. FatInv'
        BY <1>11, <2>3, <3>1, <3>2, LenProperties DEF Formatting!FormatFat,
                                                      Formatting!WriteBuffer, FormatInv,
                                                      FormatShapes, OperationInv, FatInv,
                                                      ThreadInv, Closing, Written, Requested,
                                                      Placed, Filling, Before
      <4>6. (NtfsInv /\ vfHostKept)'
        BY <1>11, <2>3, <3>1, <3>2, LenProperties DEF Formatting!FormatFat,
                                                      Formatting!WriteBuffer, FormatInv,
                                                      FormatShapes, NtfsInv, Written
      <4> QED
        BY <4>1, <4>2, <4>3, <4>4, <4>5, <4>6 DEF FormatInv
  <2> QED
    BY <1>11, <2>1, <2>2, <2>3 DEF Formatting!FormatFat, Formatting!WriteBuffer
<1>12. CASE Formatting!FillWithRandomData
  <2>1. CASE Len(vfOp.buf) = BufferSectors /\ Formatting!FlushFormatWriteBuffer
    BY <1>12, <2>1, Flushes DEF Formatting!FillWithRandomData, Formatting!WriteBuffer
  <2>2. CASE Formatting!Abort
    BY <1>12, <2>2, Aborts DEF Formatting!FillWithRandomData, Formatting!WriteBuffer, Filling
  <2>3. CASE /\ Len(vfOp.buf) < BufferSectors /\ ~Formatting!Appended(DataSectors)
             /\ Formatting!AppendSectors("zero", DataSectors) /\ UNCHANGED <<vfDisk, vfThread>>
    <3>1. vfOp.next + Len(vfOp.buf) <= DataSectors /\ DataSectors \in Nat /\ vfOp.pc = "fill"
      BY <1>12 DEF Formatting!FillWithRandomData, Formatting!WriteBuffer, FormatInv,
                   OperationInv, FileSystemFits
    <3>2. PICK new \in Seq({"fs", "zero"}) :
              /\ vfOp' = [vfOp EXCEPT !.buf = new] /\ vfOp.next + Len(new) <= DataSectors
      BY <2>3, <3>1, Appends
    <3> QED
      <4>1. FormatShapes'
        BY <1>12, <2>3, <3>1, <3>2 DEF Formatting!FillWithRandomData, Formatting!WriteBuffer,
                                       FormatInv, FormatShapes
      <4>2. OperationInv'
        BY <1>12, <2>3, <3>1, <3>2 DEF Formatting!FillWithRandomData, Formatting!WriteBuffer,
                                       FormatInv, FormatShapes, OperationInv, Closing, Filling,
                                       Before
      <4>3. HeadersStay'
        BY <1>12, <2>3, <3>1, <3>2 DEF Formatting!FillWithRandomData, Formatting!WriteBuffer,
                                       FormatInv, FormatShapes, OperationInv, HeadersStay,
                                       Closing, Filling, Before
      <4>4. ThreadInv'
        BY <1>12, <2>3, <3>1, <3>2 DEF Formatting!FillWithRandomData, Formatting!WriteBuffer,
                                       FormatInv, FormatShapes, ThreadInv, Filling, Before
      <4>5. FatInv'
        BY <1>12, <2>3, <3>1, <3>2 DEF Formatting!FillWithRandomData, Formatting!WriteBuffer,
                                       FormatInv, FormatShapes, OperationInv, FatInv, ThreadInv,
                                       Closing, Written, Requested, Placed, Filling, Before
      <4>6. (NtfsInv /\ vfHostKept)'
        BY <1>12, <2>3, <3>1, <3>2 DEF Formatting!FillWithRandomData, Formatting!WriteBuffer,
                                       FormatInv, FormatShapes, NtfsInv, Written
      <4> QED
        BY <4>1, <4>2, <4>3, <4>4, <4>5, <4>6 DEF FormatInv
  <2> QED
    BY <1>12, <2>1, <2>2, <2>3 DEF Formatting!FillWithRandomData, Formatting!WriteBuffer
<1>13. CASE Formatting!FinishFat
  <2>1. CASE Formatting!FlushFormatWriteBuffer
    BY <1>13, <2>1, Flushes DEF Formatting!FinishFat
  <2>2. CASE /\ vfOp.buf = << >> /\ (Formatting!Go("temporaryKey") \/ Formatting!Go("stop"))
             /\ UNCHANGED <<vfDisk, vfThread>>
    <3>1. /\ vfOp.next = Formatting!FsSectors /\ vfOp.next \in Nat
          /\ Formatting!FsSectors <= DataSectors
      <4>1. /\ vfOp.next + Len(vfOp.buf) = Formatting!FsSectors /\ Len(vfOp.buf) = 0
            /\ vfOp.next \in Nat
        <5>1. vfOp.next + Len(vfOp.buf) = Formatting!FsSectors
          BY <1>13 DEF Formatting!FinishFat, Formatting!Appended
        <5>2. Len(vfOp.buf) = 0
          BY <1>0, <2>2
        <5> QED
          BY <5>1, <5>2 DEF FormatInv, FormatShapes
      <4>2. Formatting!FsSectors \in Nat /\ Formatting!FsSectors <= DataSectors
        BY DEF FileSystemFits
      <4> QED
        BY <4>1, <4>2
    <3>2. \A s \in FileSectors : s < vfOp.next
      BY <3>1 DEF FileSectors
    <3> QED
      <4>1. FormatShapes'
        BY <1>13, <2>2, <3>1, <3>2 DEF Formatting!FinishFat, Formatting!Go, FormatInv,
                                       FormatShapes
      <4>2. OperationInv'
        BY <1>13, <2>2, <3>1, <3>2 DEF Formatting!FinishFat, Formatting!Go, FormatInv,
                                       FormatShapes, OperationInv, Closing, Filling, Before
      <4>3. HeadersStay'
        BY <1>13, <2>2, <3>1, <3>2 DEF Formatting!FinishFat, Formatting!Go, FormatInv,
                                       FormatShapes, OperationInv, HeadersStay, Closing, Filling,
                                       Before
      <4>4. ThreadInv'
        BY <1>13, <2>2, <3>1, <3>2 DEF Formatting!FinishFat, Formatting!Go, FormatInv,
                                       FormatShapes, ThreadInv, Filling, Before
      <4>5. FatInv'
        BY <1>13, <2>2, <3>1, <3>2 DEF Formatting!FinishFat, Formatting!Go, FormatInv,
                                       FormatShapes, OperationInv, FatInv, ThreadInv, Closing,
                                       Written, Requested, Placed, Filling, Before
      <4>6. (NtfsInv /\ vfHostKept)'
        BY <1>13, <2>2, <3>1, <3>2 DEF Formatting!FinishFat, Formatting!Go, FormatInv,
                                       FormatShapes, NtfsInv, Written
      <4> QED
        BY <4>1, <4>2, <4>3, <4>4, <4>5, <4>6 DEF FormatInv
  <2> QED
    BY <1>13, <2>1, <2>2 DEF Formatting!FinishFat, Formatting!BeforeTemporaryKey
<1>14. CASE Formatting!FinishFill
  <2>1. CASE Formatting!FlushFormatWriteBuffer
    BY <1>14, <2>1, Flushes DEF Formatting!FinishFill
  <2>2. CASE /\ vfOp' = [vfOp EXCEPT !.pc = "stop",
                             !.key = IF vfParams.fileSystem = "fat" THEN @ ELSE "master"]
             /\ UNCHANGED <<vfDisk, vfThread>>
    <3> QED
      <4>1. FormatShapes'
        BY <1>14, <2>2 DEF Formatting!FinishFill, FormatInv, FormatShapes
      <4>2. OperationInv'
        BY <1>14, <2>2 DEF Formatting!FinishFill, FormatInv, FormatShapes, OperationInv, Closing,
                           Filling, Before
      <4>3. HeadersStay'
        BY <1>14, <2>2 DEF Formatting!FinishFill, FormatInv, FormatShapes, OperationInv,
                           HeadersStay, Closing, Filling, Before
      <4>4. ThreadInv'
        BY <1>14, <2>2 DEF Formatting!FinishFill, FormatInv, FormatShapes, ThreadInv, Filling,
                           Before
      <4>5. FatInv'
        BY <1>14, <2>2 DEF Formatting!FinishFill, FormatInv, FormatShapes, OperationInv, FatInv,
                           ThreadInv, Closing, Written, Requested, Placed, Filling, Before
      <4>6. (NtfsInv /\ vfHostKept)'
        BY <1>14, <2>2 DEF Formatting!FinishFill, FormatInv, FormatShapes, NtfsInv, Written
      <4> QED
        BY <4>1, <4>2, <4>3, <4>4, <4>5, <4>6 DEF FormatInv
  <2> QED
    BY <1>14, <2>1, <2>2 DEF Formatting!FinishFill
<1>15. CASE Formatting!FormatWriteThreadProc
  <2>1. /\ vfThread.full /\ UNCHANGED <<vfParams, vfOp, vfHostKept>> /\ ~vfThread'.full
        /\ vfThread.first \in Nat /\ vfThread.request \in Seq(Contents) /\ ~vfThread.failed
    BY <1>15 DEF Formatting!FormatWriteThreadProc, FormatInv, FormatShapes, ThreadInv
  <2>2. CASE /\ vfDisk' = Formatting!WriteAt(vfDisk, vfThread.first, vfThread.request)
             /\ vfThread' = [vfThread EXCEPT !.full = FALSE, !.failed = FALSE]
    <3> DEFINE first == vfThread.first
               sent == vfThread.request
    <3>1. /\ DOMAIN vfDisk' = DOMAIN vfDisk /\ vfDisk'.sector \in [Formatting!Sectors -> Contents]
          /\ vfDisk'.primary = vfDisk.primary /\ vfDisk'.backup = vfDisk.backup
          /\ \A s \in Formatting!Sectors : vfDisk'.sector[s] =
                IF s - first + 1 \in DOMAIN sent THEN sent[s - first + 1] ELSE vfDisk.sector[s]
      BY <2>1, <2>2, Overwrites DEF FormatInv
    <3>2. vfParams.fileSystem = "fat" => \A s \in FileSectors : Placed(s) => Placed(s)'
      <4> SUFFICES ASSUME vfParams.fileSystem = "fat", NEW s \in FileSectors, Placed(s)
                   PROVE  Placed(s)'
        OBVIOUS
      <4>1. s \in Formatting!Sectors /\ s \in Nat /\ s < Formatting!FsSectors
        BY SectorsIn DEF FileSectors
      <4>2. CASE s - first + 1 \in DOMAIN sent
        <5>1. first + (s - first + 1) - 1 < Formatting!FsSectors
          BY <2>1, <4>1, SectorsIn
        <5>2. sent[s - first + 1] = FsContent
          BY <2>1, <4>2, <5>1 DEF FormatInv, ThreadInv
        <5> QED
          BY <3>1, <4>1, <4>2, <5>2 DEF Placed, Written
      <4>3. CASE ~(s - first + 1 \in DOMAIN sent)
        BY <2>1, <3>1, <4>1, <4>3 DEF Placed, Written, Requested
      <4> QED
        BY <4>2, <4>3
    <3>3. FormatShapes' /\ vfThread'.failed = FALSE
      BY <2>1, <2>2, <3>1 DEF FormatInv, FormatShapes
    <3>4. vfOp.pc \in Filling
      BY <2>1 DEF FormatInv, ThreadInv, Formatting!NoThread
    <3>5. OperationInv' /\ HeadersStay' /\ ThreadInv' /\ NtfsInv'
      BY <2>1, <3>1, <3>3, <3>4 DEF FormatInv, OperationInv, Closing, HeadersStay, ThreadInv,
                                    NtfsInv, Filling, Before
    <3>6. FatInv'
      BY <2>1, <3>2, <3>4 DEF FormatInv, FatInv, Closing, Filling
    <3> QED
      BY <2>1, <3>3, <3>5, <3>6 DEF FormatInv
  <2>3. CASE vfThread' = [vfThread EXCEPT !.full = FALSE, !.failed = TRUE] /\ UNCHANGED vfDisk
    <3>1. FormatShapes' /\ vfThread'.failed
      BY <2>1, <2>3 DEF FormatInv, FormatShapes
    <3>2. vfOp.pc \in Filling
      BY <2>1 DEF FormatInv, ThreadInv, Formatting!NoThread
    <3> QED
      <4>1. FormatShapes'
        BY <2>1, <2>3, <3>1, <3>2 DEF FormatInv, FormatShapes
      <4>2. OperationInv'
        BY <2>1, <2>3, <3>1, <3>2 DEF FormatInv, FormatShapes, OperationInv, Closing, Filling,
                                      Before
      <4>3. HeadersStay'
        BY <2>1, <2>3, <3>1, <3>2 DEF FormatInv, FormatShapes, OperationInv, HeadersStay,
                                      Closing, Filling, Before
      <4>4. ThreadInv'
        BY <2>1, <2>3, <3>1, <3>2 DEF FormatInv, FormatShapes, ThreadInv, Filling, Before
      <4>5. FatInv'
        BY <2>1, <2>3, <3>1, <3>2 DEF FormatInv, FormatShapes, OperationInv, FatInv, ThreadInv,
                                      Closing, Written, Requested, Placed, Filling, Before
      <4>6. (NtfsInv /\ vfHostKept)'
        BY <2>1, <2>3, <3>1, <3>2 DEF FormatInv, FormatShapes, NtfsInv, Written
      <4> QED
        BY <4>1, <4>2, <4>3, <4>4, <4>5, <4>6 DEF FormatInv
  <2> QED
    BY <1>15, <2>2, <2>3 DEF Formatting!FormatWriteThreadProc
<1>16. CASE UNCHANGED Formatting!vfVars
  <2> QED
    <3>1. FormatShapes'
      BY <1>16 DEF Formatting!vfVars, FormatInv, FormatShapes
    <3>2. OperationInv'
      BY <1>16 DEF Formatting!vfVars, FormatInv, FormatShapes, OperationInv, Closing, Filling,
                   Before
    <3>3. HeadersStay'
      BY <1>16 DEF Formatting!vfVars, FormatInv, FormatShapes, OperationInv, HeadersStay,
                   Closing, Filling, Before
    <3>4. ThreadInv'
      BY <1>16 DEF Formatting!vfVars, FormatInv, FormatShapes, ThreadInv, Filling, Before
    <3>5. FatInv'
      BY <1>16 DEF Formatting!vfVars, FormatInv, FormatShapes, OperationInv, FatInv, ThreadInv,
                   Closing, Written, Requested, Placed, Filling, Before
    <3>6. (NtfsInv /\ vfHostKept)'
      BY <1>16 DEF Formatting!vfVars, FormatInv, FormatShapes, NtfsInv, Written
    <3> QED
      BY <3>1, <3>2, <3>3, <3>4, <3>5, <3>6 DEF FormatInv
<1> QED
  BY <1>1, <1>2, <1>3, <1>4, <1>5, <1>6, <1>7, <1>8, <1>9, <1>10, <1>11, <1>12, <1>13, <1>14,
     <1>15, <1>16 DEF Formatting!Next

LEMMA UsableWhenCreated ==
    ASSUME FileSystemFits
    PROVE  Formatting!Init /\ [][Formatting!Next]_(Formatting!vfVars) => []Formatting!VolumeUsable
<1>1. FormatInv => Formatting!VolumeUsable
  BY DEF FormatInv, OperationInv, Closing, HeadersStay, FatInv, NtfsInv, FormatShapes,
         Formatting!VolumeUsable, Written, FileSectors, FsContent
<1> QED
  BY FormattingInit, FormattingStep, <1>1, PTL

LEMMA HeadersLast ==
    ASSUME OneHeaderFault
    PROVE  Spec => [](component = "headers" => Headers!HeaderAvailable)
<1>1. Init /\ component = "headers" => Headers!Init
  BY DEF Init
<1>2. [Next]_vars /\ component = "headers" => [Headers!Next]_(Headers!vhVars)
  BY DEF Next, vars, Headers!vhVars
<1>3. Headers!Init /\ [][Headers!Next]_(Headers!vhVars) => []Headers!HeaderAvailable
  BY HeaderRemains DEF Headers!Spec
<1>4. /\ component = "headers" /\ [Next]_vars => (component = "headers")'
      /\ ~(component = "headers") /\ [Next]_vars => ~(component = "headers")'
  BY ComponentStays
<1> QED
  BY <1>1, <1>2, <1>3, <1>4, SumSteps, PTL

LEMMA CreatedUsable ==
    ASSUME FileSystemFits
    PROVE  Spec => [](component = "formatting" => Formatting!VolumeUsable)
<1>1. Init /\ component = "formatting" => Formatting!Init
  BY DEF Init
<1>2. [Next]_vars /\ component = "formatting" => [Formatting!Next]_(Formatting!vfVars)
  BY DEF Next, vars, Formatting!vfVars
<1>3. Formatting!Init /\ [][Formatting!Next]_(Formatting!vfVars) => []Formatting!VolumeUsable
  BY UsableWhenCreated
<1>4. /\ component = "formatting" /\ [Next]_vars => (component = "formatting")'
      /\ ~(component = "formatting") /\ [Next]_vars => ~(component = "formatting")'
  BY ComponentStays
<1> QED
  BY <1>1, <1>2, <1>3, <1>4, SumSteps, PTL

(* A volume can be opened: a header of it remains whatever is done to them, unless a write
   fails or the computer crashes twice, and what is reported as created has its headers and
   its file system (VolumeHeaders and VolumeFormatting, for any passwords and sizes). *)
THEOREM VolumesOpenable == Spec => []VolumesOpen
<1>1. Spec => [](component = "headers" => Headers!HeaderAvailable)
  BY VolumesAssumed, HeadersLast
<1>2. Spec => [](component = "formatting" => Formatting!VolumeUsable)
  BY VolumesAssumed, CreatedUsable
<1>3. /\ (component = "headers" => Headers!HeaderAvailable)
      /\ (component = "formatting" => Formatting!VolumeUsable)
      => VolumesOpen
  BY DEF VolumesOpen
<1> QED
  BY <1>1, <1>2, <1>3, PTL

-----------------------------------------------------------------------------
(* The wizard. Which modes and flags there are, what is chosen, and the paths it works on. *)
vwPage == s1
vwMode == s2
vwFlags == s3
vwTarget == s4
vwHost == s5
vwThread == s6
vwVolumes == s7
USE DEF vwPage, vwMode, vwFlags, vwTarget, vwHost, vwThread, vwVolumes

WizardModes == {"file", "device", "system"}
WizardFlags ==
    [hidden : BOOLEAN, host : BOOLEAN, direct : BOOLEAN, finished : BOOLEAN,
     hiddenOS : BOOLEAN, inPlace : BOOLEAN, resumed : BOOLEAN, whole : BOOLEAN]
WizardTargets ==
    [path : Wizard!Paths \cup {"none"}, size : {"none", "device", "container", "inner", "system"}]
WizardHosts == [drive : Wizard!Paths \cup {"none", "failed"}, scanned : Wizard!Paths \cup {"none"}]
WizardThreads == [state : {"idle", "toRun", "running"}, cancel : BOOLEAN, asking : BOOLEAN]
VolumeKinds == {"data", "damaged", "outer", "both", "partial"}
WizardShapes ==
    /\ vwMode \in WizardModes /\ vwFlags \in WizardFlags /\ vwTarget \in WizardTargets
    /\ vwHost \in WizardHosts /\ vwThread \in WizardThreads
    /\ vwVolumes \in [Wizard!Paths -> VolumeKinds]

(* What the pages set goes together, whatever way the user takes through them. *)
SystemPageSet == {"sysType", "requirements", "span", "analysis", "multiBoot", "system", "pretest"}
EarlyPages ==
    {"closed", "intro", "type", "wizardMode", "location", "resumePassword", "select"}
InnerPages == {"hiddenPreCipher", "cipher", "size", "password", "fileSystem", "format"}
SizedPages == {"password", "fileSystem", "format"}
Created == vwPage = "formatFinished" /\ (~vwFlags.hidden \/ vwFlags.finished)

\* Which flags go with which page: that of an outer volume is set only with that of a hidden
\* one, and encryption in place is neither.
FlagsInv ==
    /\ vwFlags.host => vwFlags.hidden
    /\ vwFlags.inPlace => vwMode = "device" /\ ~vwFlags.hidden /\ ~vwFlags.hiddenOS
    /\ vwFlags.finished => Wizard!Inner /\ vwPage \in InnerPages \cup {"formatFinished"}
    /\ vwFlags.resumed =>
         vwFlags.inPlace /\ vwPage \in {"resumePassword", "select", "inPlace", "inPlaceFinished"}
    /\ vwPage \in {"random", "inPlace"} => vwFlags.inPlace
    /\ vwPage \in {"size", "fileSystem", "format", "formatFinished"} => ~vwFlags.inPlace
    /\ vwPage \in {"wizardMode", "hostPassword", "hostPreCipher"} => vwFlags.host
    /\ vwPage = "hiddenPreCipher" => Wizard!Inner
    /\ vwPage = "location" => ~Wizard!Inner
    /\ vwPage = "transform" => vwMode = "device" /\ ~vwFlags.hidden
    /\ vwPage = "formatFinished" => ~vwFlags.host

\* Which mode goes with which page, and what a hidden system leaves open.
ModeInv ==
    /\ vwPage = "closed" =>
         vwMode = "file" /\ vwFlags = Wizard!NoFlags /\ vwTarget = Wizard!NoTarget
    /\ vwPage \in {"resumePassword", "select"} =>
         vwMode = "device" /\ vwFlags.resumed /\ vwTarget.path = "none"
    /\ vwPage \in SystemPageSet => vwMode = "system"
    /\ vwMode = "system" =>
         /\ vwPage \in SystemPageSet \cup {"intro", "cipher", "password", "formatFinished"}
         /\ vwTarget.path = "none" /\ (vwFlags.hidden => vwFlags.hiddenOS)
         /\ Wizard!Inner => vwPage = "formatFinished" /\ vwFlags.finished
         /\ vwPage \in {"cipher", "password", "system", "span", "analysis"} => ~vwFlags.hidden
         /\ vwPage = "formatFinished" => Wizard!Inner
    /\ vwFlags.hiddenOS =>
         /\ vwPage # "pretest" => vwFlags.hidden
         /\ vwMode # "system" =>
              /\ vwMode = "device" /\ vwTarget.path = HiddenSystemPath
              /\ vwPage \in InnerPages \cup {"hostPreCipher", "formatFinished"}
         /\ vwFlags.finished => vwPage = "formatFinished"

\* The path has been chosen in the mode, and the size verified for what is to be created.
TargetInv ==
    /\ vwTarget.path # "none" => (vwTarget.path \in Wizard!Devices <=> vwMode = "device")
    /\ vwMode # "system" => vwPage \in EarlyPages \/ vwTarget.path # "none"
    /\ vwMode # "system" /\ (vwPage \in SizedPages \/ Created) /\ ~vwFlags.inPlace =>
         vwTarget.size = IF Wizard!Inner THEN (IF vwFlags.hiddenOS THEN "system" ELSE "inner")
                         ELSE IF vwMode = "device" THEN "device" ELSE "container"
    /\ vwPage = "size" /\ vwMode = "device" /\ ~Wizard!Inner => vwTarget.size = "device"
    /\ Wizard!CreatingHiddenSysVol /\ vwMode # "system" /\ vwPage # "formatFinished" =>
         vwTarget.size = "system" /\ vwPage \notin {"size", "fileSystem"}

\* What is stored at the path is what the pages take for granted.
VolumesInv ==
    /\ Wizard!Inner /\ vwMode # "system" /\ (vwPage \in InnerPages \/ Created) =>
         /\ vwHost = [drive |-> "none", scanned |-> vwTarget.path]
         /\ vwVolumes[vwTarget.path] \in {"outer", "both"}
    /\ vwPage = "formatFinished" /\ Wizard!Inner =>
         IF vwFlags.finished THEN vwFlags.hiddenOS => vwVolumes[HiddenSystemPath] = "both"
         ELSE vwVolumes[vwTarget.path] \in {"outer", "both"}
    /\ vwPage = "inPlace" /\ vwFlags.resumed => vwVolumes[vwTarget.path] = "partial"
    /\ vwPage = "pretest" => vwVolumes[HiddenSystemPath] = "both"
    /\ Wizard!ThreadActive => vwPage \in {"format", "inPlace"}

WizardInv == WizardShapes /\ FlagsInv /\ ModeInv /\ TargetInv /\ VolumesInv

-----------------------------------------------------------------------------
\* What setting flags and changing modes leaves of them.
LEMMA FlagsWith ==
    \A f \in WizardFlags, b \in BOOLEAN :
        /\ [f EXCEPT !.hidden = b] \in WizardFlags /\ [f EXCEPT !.host = b] \in WizardFlags
        /\ [f EXCEPT !.direct = b] \in WizardFlags /\ [f EXCEPT !.finished = b] \in WizardFlags
        /\ [f EXCEPT !.hiddenOS = b] \in WizardFlags /\ [f EXCEPT !.inPlace = b] \in WizardFlags
        /\ [f EXCEPT !.resumed = b] \in WizardFlags /\ [f EXCEPT !.whole = b] \in WizardFlags
<1> SUFFICES ASSUME NEW f \in WizardFlags, NEW b \in BOOLEAN
             PROVE  /\ [f EXCEPT !.hidden = b] \in WizardFlags
                    /\ [f EXCEPT !.host = b] \in WizardFlags
                    /\ [f EXCEPT !.direct = b] \in WizardFlags
                    /\ [f EXCEPT !.finished = b] \in WizardFlags
                    /\ [f EXCEPT !.hiddenOS = b] \in WizardFlags
                    /\ [f EXCEPT !.inPlace = b] \in WizardFlags
                    /\ [f EXCEPT !.resumed = b] \in WizardFlags
                    /\ [f EXCEPT !.whole = b] \in WizardFlags
  OBVIOUS
<1>1. [f EXCEPT !.hidden = b] \in WizardFlags /\ [f EXCEPT !.host = b] \in WizardFlags
  BY DEF WizardFlags
<1>2. [f EXCEPT !.direct = b] \in WizardFlags /\ [f EXCEPT !.finished = b] \in WizardFlags
  BY DEF WizardFlags
<1>3. [f EXCEPT !.hiddenOS = b] \in WizardFlags /\ [f EXCEPT !.inPlace = b] \in WizardFlags
  BY DEF WizardFlags
<1>4. [f EXCEPT !.resumed = b] \in WizardFlags /\ [f EXCEPT !.whole = b] \in WizardFlags
  BY DEF WizardFlags
<1> QED
  BY <1>1, <1>2, <1>3, <1>4

LEMMA FlagFields ==
    \A f \in WizardFlags :
        /\ f.hidden \in BOOLEAN /\ f.host \in BOOLEAN /\ f.direct \in BOOLEAN
        /\ f.finished \in BOOLEAN /\ f.hiddenOS \in BOOLEAN /\ f.inPlace \in BOOLEAN
        /\ f.resumed \in BOOLEAN /\ f.whole \in BOOLEAN
  BY DEF WizardFlags

LEMMA ThreadWith ==
    \A t \in WizardThreads, b \in BOOLEAN, s \in {"idle", "toRun", "running"} :
        /\ [t EXCEPT !.state = s] \in WizardThreads /\ [t EXCEPT !.asking = b] \in WizardThreads
        /\ [t EXCEPT !.cancel = b] \in WizardThreads
  BY DEF WizardThreads

LEMMA NothingChosen ==
    /\ Wizard!NoFlags \in WizardFlags /\ Wizard!NoTarget \in WizardTargets
    /\ Wizard!NoHost \in WizardHosts /\ Wizard!NoThread \in WizardThreads
    /\ ~Wizard!NoFlags.hidden /\ ~Wizard!NoFlags.host /\ ~Wizard!NoFlags.direct
    /\ ~Wizard!NoFlags.finished /\ ~Wizard!NoFlags.hiddenOS
    /\ ~Wizard!NoFlags.inPlace /\ ~Wizard!NoFlags.resumed /\ ~Wizard!NoFlags.whole
    /\ Wizard!NoTarget.path = "none" /\ Wizard!NoTarget.size = "none"
    /\ Wizard!NoThread.state = "idle"
  BY DEF Wizard!NoFlags, Wizard!NoTarget, Wizard!NoHost, Wizard!NoThread, WizardFlags,
         WizardTargets, WizardHosts, WizardThreads

LEMMA ModeChanges ==
    ASSUME WizardShapes, NEW mode \in WizardModes, NEW flags \in WizardFlags,
           Wizard!ChangeMode(mode, flags)
    PROVE  /\ vwMode' = mode /\ vwFlags' \in WizardFlags /\ vwTarget' \in WizardTargets
           /\ vwFlags'.hidden = flags.hidden /\ vwFlags'.host = flags.host
           /\ vwFlags'.finished = flags.finished /\ vwFlags'.hiddenOS = flags.hiddenOS
           /\ vwFlags'.resumed = flags.resumed
           /\ vwFlags'.inPlace <=> flags.inPlace /\ (mode = vwMode \/ mode = "device")
           /\ vwTarget' = IF mode = vwMode THEN vwTarget ELSE Wizard!NoTarget
<1>1. vwMode' = mode /\ vwTarget' = IF mode = vwMode THEN vwTarget ELSE Wizard!NoTarget
  BY DEF Wizard!ChangeMode
<1>2. CASE mode # vwMode /\ mode # "device"
  <2>1. vwFlags' = [flags EXCEPT !.inPlace = FALSE]
    BY <1>2 DEF Wizard!ChangeMode
  <2>2. vwFlags' \in WizardFlags
    BY <2>1, FlagsWith
  <2>3. /\ vwFlags'.hidden = flags.hidden /\ vwFlags'.host = flags.host
        /\ vwFlags'.finished = flags.finished /\ vwFlags'.hiddenOS = flags.hiddenOS
        /\ vwFlags'.resumed = flags.resumed /\ ~vwFlags'.inPlace
    BY <2>1 DEF WizardFlags
  <2>4. vwTarget' \in WizardTargets
    BY <1>1, NothingChosen DEF WizardShapes
  <2> QED
    BY <1>1, <1>2, <2>2, <2>3, <2>4
<1>3. CASE ~(mode # vwMode /\ mode # "device")
  <2>1. vwFlags' = flags
    BY <1>3 DEF Wizard!ChangeMode
  <2> QED
    BY <1>1, <1>3, <2>1, FlagFields, NothingChosen DEF WizardShapes
<1> QED
  BY <1>2, <1>3

LEMMA SystemTypeShown ==
    ASSUME WizardShapes, NEW flags \in WizardFlags, Wizard!ToSystemType(flags)
    PROVE  /\ vwPage' = "sysType" /\ vwMode' = "system" /\ vwFlags' \in WizardFlags
           /\ vwTarget' \in WizardTargets
           /\ vwFlags'.hidden = flags.hiddenOS /\ vwFlags'.host = flags.hiddenOS
           /\ vwFlags'.finished = flags.finished /\ vwFlags'.hiddenOS = flags.hiddenOS
           /\ vwFlags'.resumed = flags.resumed
           /\ vwFlags'.inPlace <=> flags.inPlace /\ vwMode = "system"
           /\ vwTarget' = IF vwMode = "system" THEN vwTarget ELSE Wizard!NoTarget
<1> DEFINE shown == [flags EXCEPT !.host = flags.hiddenOS, !.hidden = flags.hiddenOS]
<1>1. shown \in WizardFlags
  BY FlagsWith, FlagFields
<1>2. /\ shown.hidden = flags.hiddenOS /\ shown.host = flags.hiddenOS
      /\ shown.finished = flags.finished
      /\ shown.hiddenOS = flags.hiddenOS /\ shown.resumed = flags.resumed
      /\ shown.inPlace = flags.inPlace
  BY DEF WizardFlags
<1>3. vwPage' = "sysType" /\ Wizard!ChangeMode("system", shown)
  BY DEF Wizard!ToSystemType
<1>4. "system" \in WizardModes
  BY DEF WizardModes
<1> HIDE DEF shown
<1> QED
  BY <1>1, <1>2, <1>3, <1>4, ModeChanges

LEMMA Examined ==
    ASSUME WizardShapes, NEW page, NEW mounted \in Wizard!Paths \cup {"failed"},
           Wizard!Examine(page, mounted)
    PROVE  \/ vwHost' \in WizardHosts /\ UNCHANGED <<vwPage, vwFlags, vwTarget>>
           \/ /\ mounted # "failed" /\ vwHost' = [drive |-> "none", scanned |-> mounted]
              /\ vwHost' \in WizardHosts /\ vwFlags' \in WizardFlags
              /\ vwTarget' \in WizardTargets
              /\ ~vwFlags'.host /\ ~vwFlags'.finished /\ vwFlags'.hidden = vwFlags.hidden
              /\ vwFlags'.hiddenOS = vwFlags.hiddenOS /\ vwFlags'.inPlace = vwFlags.inPlace
              /\ vwFlags'.resumed = vwFlags.resumed
              /\ vwPage' = "hiddenPreCipher" /\ vwTarget'.path = vwTarget.path
              /\ vwTarget'.size = IF vwFlags.hiddenOS THEN "system" ELSE "none"
<1>1. CASE mounted = "failed"
  BY <1>1 DEF Wizard!Examine, WizardShapes, WizardHosts, Wizard!Stay
<1>2. CASE /\ mounted # "failed" /\ Wizard!Stay /\ UNCHANGED <<vwFlags, vwTarget>>
           /\ vwHost' \in {[vwHost EXCEPT !.drive = mounted],
                           [drive |-> mounted, scanned |-> mounted]}
                \cup (IF page = "hostPassword" THEN {[vwHost EXCEPT !.drive = "none"]} ELSE {})
  BY <1>2 DEF WizardShapes, WizardHosts, Wizard!Stay
<1>3. CASE /\ mounted # "failed" /\ vwHost' = [drive |-> "none", scanned |-> mounted]
           /\ vwFlags' = [vwFlags EXCEPT !.host = FALSE, !.finished = FALSE]
           /\ Wizard!ToHiddenPreCipher
  <2>1. vwHost' \in WizardHosts
    BY <1>3 DEF WizardHosts
  <2>2. vwFlags' \in WizardFlags
    BY <1>3, FlagsWith DEF WizardShapes
  <2>3. /\ ~vwFlags'.host /\ ~vwFlags'.finished /\ vwFlags'.hidden = vwFlags.hidden
        /\ vwFlags'.hiddenOS = vwFlags.hiddenOS /\ vwFlags'.inPlace = vwFlags.inPlace
        /\ vwFlags'.resumed = vwFlags.resumed
    BY <1>3 DEF WizardShapes, WizardFlags
  <2>4. /\ vwPage' = "hiddenPreCipher" /\ vwTarget' \in WizardTargets
        /\ vwTarget'.path = vwTarget.path
        /\ vwTarget'.size = IF vwFlags.hiddenOS THEN "system" ELSE "none"
    BY <1>3 DEF Wizard!ToHiddenPreCipher, WizardShapes, WizardTargets
  <2> QED
    BY <1>3, <2>1, <2>2, <2>3, <2>4
<1> QED
  BY <1>1, <1>2, <1>3 DEF Wizard!Examine

LEMMA WizardInit == Wizard!Init => WizardInv
  BY NothingChosen DEF Wizard!Init, WizardInv, WizardShapes, WizardModes, VolumeKinds, FlagsInv,
                       ModeInv, TargetInv, VolumesInv, SystemPageSet, InnerPages, SizedPages,
                       EarlyPages, Created, Wizard!Inner, Wizard!CreatingHiddenSysVol,
                       Wizard!ThreadActive, Wizard!Devices, Wizard!Paths, Wizard!NoFlags,
                       Wizard!NoTarget, Wizard!NoThread, PathsDiffer

-----------------------------------------------------------------------------
(* The invariant, page by page. *)
LEMMA LaunchStep == ASSUME PathsDiffer, WizardInv, Wizard!Launch PROVE WizardInv'
<1>1. CASE vwPage' = "intro" /\ UNCHANGED <<vwMode, vwFlags>>
  <2>1. /\ vwPage = "closed" /\ UNCHANGED <<vwTarget, vwHost, vwThread, vwVolumes>>
    BY <1>1 DEF Wizard!Launch
  <2>2. WizardShapes'
    BY <1>1, <2>1, NothingChosen DEF WizardShapes, WizardInv, WizardModes
  <2>3. FlagsInv'
    BY <1>1, <2>1 DEF WizardInv, FlagsInv, Wizard!Inner, InnerPages
  <2>4. ModeInv'
    BY <1>1, <2>1, NothingChosen DEF WizardInv, PathsDiffer, ModeInv, Wizard!Devices,
                                     Wizard!Inner, InnerPages, Wizard!NoFlags, Wizard!NoTarget,
                                     SystemPageSet
  <2>5. TargetInv'
    BY <1>1, <2>1 DEF WizardInv, PathsDiffer, TargetInv, Created, Wizard!CreatingHiddenSysVol,
                      Wizard!Devices, EarlyPages, Wizard!Inner, SizedPages
  <2>6. VolumesInv'
    BY <1>1, <2>1 DEF WizardInv, PathsDiffer, VolumesInv, Created, Wizard!Devices, Wizard!Inner,
                      InnerPages, Wizard!ThreadActive
  <2> QED
    BY <2>2, <2>3, <2>4, <2>5, <2>6 DEF WizardInv
<1>2. CASE /\ vwPage' = "resumePassword" /\ vwMode' = "device"
           /\ vwFlags' = [Wizard!NoFlags EXCEPT !.inPlace = TRUE, !.resumed = TRUE]
  <2>1. /\ vwPage = "closed" /\ UNCHANGED <<vwTarget, vwHost, vwThread, vwVolumes>>
    BY <1>2 DEF Wizard!Launch
  <2>2. vwFlags' \in WizardFlags
    BY <1>2, <2>1, FlagsWith, NothingChosen
  <2>3. /\ vwFlags'.inPlace /\ vwFlags'.resumed /\ ~vwFlags'.hidden /\ ~vwFlags'.host
        /\ ~vwFlags'.finished /\ ~vwFlags'.hiddenOS
    BY <1>2, <2>1, <2>2 DEF Wizard!NoFlags
  <2>4. WizardShapes'
    BY <1>2, <2>1, <2>2, <2>3, NothingChosen DEF WizardShapes, WizardInv, WizardModes
  <2>5. FlagsInv'
    BY <1>2, <2>1, <2>2, <2>3 DEF WizardInv, FlagsInv, Wizard!Inner, InnerPages
  <2>6. ModeInv'
    BY <1>2, <2>1, <2>2, <2>3, NothingChosen
       DEF WizardInv, PathsDiffer, ModeInv, Wizard!Devices, Wizard!Inner, InnerPages,
           Wizard!NoFlags, Wizard!NoTarget, SystemPageSet
  <2>7. TargetInv'
    BY <1>2, <2>1, <2>2, <2>3, NothingChosen
       DEF WizardInv, PathsDiffer, FlagsInv, ModeInv, TargetInv, Created,
           Wizard!CreatingHiddenSysVol, Wizard!Devices, EarlyPages, Wizard!Inner, InnerPages,
           Wizard!NoFlags, Wizard!NoTarget, SizedPages, SystemPageSet
  <2>8. VolumesInv'
    BY <1>2, <2>1, <2>2, <2>3 DEF WizardInv, PathsDiffer, VolumesInv, Created, Wizard!Devices,
                                  Wizard!Inner, InnerPages, Wizard!ThreadActive
  <2> QED
    BY <2>4, <2>5, <2>6, <2>7, <2>8 DEF WizardInv
<1> QED
  BY <1>1, <1>2 DEF Wizard!Launch

LEMMA QuitStep == ASSUME PathsDiffer, WizardInv, Wizard!Quit PROVE WizardInv'
<1>1. WizardShapes'
  BY NothingChosen DEF WizardInv, WizardShapes, WizardModes, WizardFlags, WizardTargets,
                       WizardHosts, WizardThreads, VolumeKinds, Wizard!Devices, Wizard!Inner,
                       Wizard!NoFlags, Wizard!NoHost, Wizard!NoTarget, Wizard!NoThread,
                       Wizard!Paths, Wizard!Quit, Wizard!Reset
<1>2. FlagsInv'
  BY DEF WizardInv, FlagsInv, Wizard!Inner, InnerPages, Wizard!NoFlags, Wizard!NoHost,
         Wizard!NoTarget, Wizard!NoThread, Wizard!Quit, Wizard!Reset
<1>3. ModeInv'
  BY DEF WizardInv, PathsDiffer, ModeInv, Wizard!Devices, Wizard!Inner, InnerPages,
         Wizard!NoFlags, Wizard!NoHost, Wizard!NoTarget, Wizard!NoThread, Wizard!Quit,
         Wizard!Reset, SystemPageSet
<1>4. TargetInv'
  BY DEF WizardInv, PathsDiffer, TargetInv, Created, Wizard!CreatingHiddenSysVol,
         Wizard!Devices, EarlyPages, Wizard!Inner, Wizard!NoFlags, Wizard!NoHost,
         Wizard!NoTarget, Wizard!NoThread, Wizard!Quit, SizedPages, Wizard!Reset
<1>5. VolumesInv'
  BY DEF WizardInv, PathsDiffer, VolumesInv, Created, Wizard!Devices, Wizard!Inner, InnerPages,
         Wizard!NoFlags, Wizard!NoHost, Wizard!NoTarget, Wizard!NoThread, Wizard!Quit,
         Wizard!Reset, Wizard!ThreadActive
<1> QED
  BY <1>1, <1>2, <1>3, <1>4, <1>5 DEF WizardInv

LEMMA ChooseWizardModeStep ==
    ASSUME PathsDiffer, NEW m \in WizardModes, WizardInv, Wizard!ChooseWizardMode(m)
    PROVE  WizardInv'
<1>1. CASE m = "system"
  <2>1. /\ vwPage = "intro"
        /\ Wizard!ToSystemType([vwFlags EXCEPT !.hidden = FALSE, !.inPlace = FALSE])
        /\ UNCHANGED <<vwHost, vwThread, vwVolumes>>
    BY <1>1 DEF Wizard!ChooseWizardMode, Wizard!At
  <2>2. [vwFlags EXCEPT !.hidden = FALSE, !.inPlace = FALSE] \in WizardFlags
    BY <1>1, <2>1, FlagsWith DEF WizardInv, WizardShapes
  <2>3. LET flags == [vwFlags EXCEPT !.hidden = FALSE, !.inPlace = FALSE] IN
        /\ flags.hiddenOS = vwFlags.hiddenOS /\ flags.finished = vwFlags.finished
        /\ flags.resumed = vwFlags.resumed /\ ~flags.inPlace
    BY <1>1, <2>1, <2>2 DEF WizardInv, WizardShapes, WizardFlags
  <2>4. /\ vwPage' = "sysType" /\ vwMode' = "system" /\ vwFlags' \in WizardFlags
        /\ vwTarget' \in WizardTargets
        /\ vwFlags'.hidden = vwFlags.hiddenOS /\ vwFlags'.host = vwFlags.hiddenOS
        /\ vwFlags'.finished = vwFlags.finished /\ vwFlags'.hiddenOS = vwFlags.hiddenOS
        /\ vwFlags'.resumed = vwFlags.resumed /\ ~vwFlags'.inPlace
        /\ vwTarget' = IF vwMode = "system" THEN vwTarget ELSE Wizard!NoTarget
    BY <1>1, <2>1, <2>2, <2>3, SystemTypeShown DEF WizardInv
  <2>5. WizardShapes'
    BY <1>1, <2>1, <2>2, <2>3, <2>4, NothingChosen DEF WizardShapes, WizardInv, WizardModes
  <2>6. FlagsInv'
    BY <1>1, <2>1, <2>2, <2>3, <2>4, NothingChosen
       DEF WizardInv, FlagsInv, Wizard!Inner, InnerPages, Wizard!NoTarget
  <2>7. ModeInv'
    BY <1>1, <2>1, <2>2, <2>3, <2>4, NothingChosen
       DEF WizardInv, PathsDiffer, ModeInv, Wizard!Devices, Wizard!Inner, InnerPages,
           Wizard!NoFlags, Wizard!NoTarget, SystemPageSet
  <2>8. TargetInv'
    BY <1>1, <2>1, <2>2, <2>3, <2>4, NothingChosen
       DEF WizardInv, PathsDiffer, TargetInv, Created, Wizard!CreatingHiddenSysVol,
           Wizard!Devices, EarlyPages, Wizard!Inner, Wizard!NoTarget, SizedPages
  <2>9. VolumesInv'
    BY <1>1, <2>1, <2>2, <2>3, <2>4, NothingChosen
       DEF WizardInv, PathsDiffer, VolumesInv, Created, Wizard!Devices, Wizard!Inner,
           InnerPages, Wizard!NoTarget, Wizard!ThreadActive
  <2> QED
    BY <2>5, <2>6, <2>7, <2>8, <2>9 DEF WizardInv
<1>2. CASE m # "system"
  <2>1. vwPage = "intro" /\ vwPage' = "type" /\ UNCHANGED <<vwHost, vwThread, vwVolumes>>
        /\ Wizard!ChangeMode(m, [vwFlags EXCEPT !.hiddenOS = FALSE, !.inPlace = m = "device" /\ @])
    BY <1>2 DEF Wizard!ChooseWizardMode, Wizard!At
  <2>2. [vwFlags EXCEPT !.hiddenOS = FALSE, !.inPlace = m = "device" /\ @] \in WizardFlags
    BY <1>2, <2>1, FlagsWith, FlagFields DEF WizardInv, WizardShapes
  <2>3. LET flags == [vwFlags EXCEPT !.hiddenOS = FALSE, !.inPlace = m = "device" /\ @] IN
        /\ ~flags.hiddenOS /\ flags.finished = vwFlags.finished /\ flags.hidden = vwFlags.hidden
        /\ flags.host = vwFlags.host /\ flags.resumed = vwFlags.resumed
        /\ flags.inPlace <=> m = "device" /\ vwFlags.inPlace
    BY <1>2, <2>1, <2>2 DEF WizardInv, WizardShapes, WizardFlags
  <2>4. /\ vwMode' = m /\ vwFlags' \in WizardFlags /\ vwTarget' \in WizardTargets
        /\ vwFlags'.hidden = vwFlags.hidden /\ vwFlags'.host = vwFlags.host
        /\ vwFlags'.finished = vwFlags.finished /\ ~vwFlags'.hiddenOS
        /\ vwFlags'.resumed = vwFlags.resumed
        /\ vwFlags'.inPlace => m = "device" /\ vwFlags.inPlace
        /\ vwTarget' = IF m = vwMode THEN vwTarget ELSE Wizard!NoTarget
    BY <1>2, <2>1, <2>2, <2>3, ModeChanges DEF WizardInv
  <2>5. WizardShapes'
    BY <1>2, <2>1, <2>2, <2>3, <2>4, NothingChosen DEF WizardShapes, WizardInv, WizardModes
  <2>6. FlagsInv'
    BY <1>2, <2>1, <2>2, <2>3, <2>4, NothingChosen
       DEF WizardInv, FlagsInv, Wizard!Inner, InnerPages, Wizard!NoTarget
  <2>7. ModeInv'
    BY <1>2, <2>1, <2>2, <2>3, <2>4, NothingChosen
       DEF WizardInv, PathsDiffer, ModeInv, Wizard!Devices, Wizard!Inner, InnerPages,
           Wizard!NoFlags, Wizard!NoTarget, SystemPageSet
  <2>8. TargetInv'
    BY <1>2, <2>1, <2>2, <2>3, <2>4, NothingChosen
       DEF WizardInv, PathsDiffer, TargetInv, Created, Wizard!CreatingHiddenSysVol,
           Wizard!Devices, EarlyPages, Wizard!Inner, Wizard!NoTarget, SizedPages
  <2>9. VolumesInv'
    BY <1>2, <2>1, <2>2, <2>3, <2>4, NothingChosen
       DEF WizardInv, PathsDiffer, VolumesInv, Created, Wizard!Devices, Wizard!Inner,
           InnerPages, Wizard!NoTarget, Wizard!ThreadActive
  <2> QED
    BY <2>5, <2>6, <2>7, <2>8, <2>9 DEF WizardInv
<1> QED
  BY <1>1, <1>2 DEF Wizard!ChooseWizardMode

LEMMA SetHiddenSystemStep ==
    ASSUME PathsDiffer, NEW b \in BOOLEAN, WizardInv, Wizard!SetHiddenSystem(b)
    PROVE  WizardInv'
<1>1. WizardShapes'
  BY FlagsWith DEF WizardInv, WizardShapes, Wizard!At, Wizard!Set, Wizard!SetHiddenSystem
<1>2. FlagsInv'
  BY DEF WizardInv, PathsDiffer, FlagsInv, ModeInv, Wizard!At, Wizard!Devices, Wizard!Inner,
         InnerPages, Wizard!NoFlags, Wizard!NoTarget, Wizard!Set, Wizard!SetHiddenSystem,
         SystemPageSet, Wizard!ThreadActive
<1>3. ModeInv'
  BY DEF WizardInv, PathsDiffer, FlagsInv, ModeInv, Wizard!At, Wizard!Devices, Wizard!Inner,
         InnerPages, Wizard!NoFlags, Wizard!NoTarget, Wizard!Set, Wizard!SetHiddenSystem,
         SystemPageSet, Wizard!ThreadActive
<1>4. TargetInv'
  BY DEF WizardInv, PathsDiffer, TargetInv, Wizard!At, Created, Wizard!CreatingHiddenSysVol,
         Wizard!Devices, EarlyPages, Wizard!Inner, SizedPages, Wizard!Set,
         Wizard!SetHiddenSystem, Wizard!ThreadActive
<1>5. VolumesInv'
  BY DEF WizardInv, PathsDiffer, VolumesInv, Wizard!At, Created, Wizard!Devices, Wizard!Inner,
         InnerPages, Wizard!Set, Wizard!SetHiddenSystem, Wizard!ThreadActive
<1> QED
  BY <1>1, <1>2, <1>3, <1>4, <1>5 DEF WizardInv

LEMMA SetWholeDriveStep ==
    ASSUME PathsDiffer, NEW b \in BOOLEAN, WizardInv, Wizard!SetWholeDrive(b)
    PROVE  WizardInv'
<1>1. WizardShapes'
  BY FlagsWith DEF WizardInv, WizardShapes, Wizard!At, Wizard!Set, Wizard!SetWholeDrive
<1>2. FlagsInv'
  BY DEF WizardInv, FlagsInv, Wizard!At, Wizard!Inner, InnerPages, Wizard!Set,
         Wizard!SetWholeDrive, Wizard!ThreadActive
<1>3. ModeInv'
  BY DEF WizardInv, PathsDiffer, ModeInv, Wizard!At, Wizard!Devices, Wizard!Inner, InnerPages,
         Wizard!NoFlags, Wizard!NoTarget, Wizard!Set, Wizard!SetWholeDrive, SystemPageSet,
         Wizard!ThreadActive
<1>4. TargetInv'
  BY DEF WizardInv, PathsDiffer, TargetInv, Wizard!At, Created, Wizard!CreatingHiddenSysVol,
         Wizard!Devices, EarlyPages, Wizard!Inner, SizedPages, Wizard!Set, Wizard!SetWholeDrive,
         Wizard!ThreadActive
<1>5. VolumesInv'
  BY DEF WizardInv, PathsDiffer, VolumesInv, Wizard!At, Created, Wizard!Devices, Wizard!Inner,
         InnerPages, Wizard!Set, Wizard!SetWholeDrive, Wizard!ThreadActive
<1> QED
  BY <1>1, <1>2, <1>3, <1>4, <1>5 DEF WizardInv

LEMMA SetHiddenVolumeStep ==
    ASSUME PathsDiffer, NEW b \in BOOLEAN, WizardInv, Wizard!SetHiddenVolume(b)
    PROVE  WizardInv'
<1>1. WizardShapes'
  BY FlagsWith DEF WizardInv, WizardShapes, Wizard!At, Wizard!Set, Wizard!SetHiddenVolume
<1>2. FlagsInv'
  BY DEF WizardInv, WizardShapes, WizardModes, WizardFlags, WizardTargets, WizardHosts,
         WizardThreads, VolumeKinds, PathsDiffer, FlagsInv, Wizard!At, Wizard!Devices,
         Wizard!Inner, InnerPages, Wizard!Paths, Wizard!Set, Wizard!SetHiddenVolume,
         Wizard!ThreadActive
<1>3. ModeInv'
  BY DEF WizardInv, PathsDiffer, ModeInv, Wizard!At, Wizard!Devices, Wizard!Inner, InnerPages,
         Wizard!NoFlags, Wizard!NoTarget, Wizard!Set, Wizard!SetHiddenVolume, SystemPageSet,
         Wizard!ThreadActive
<1>4. TargetInv'
  BY DEF WizardInv, PathsDiffer, TargetInv, Wizard!At, Created, Wizard!CreatingHiddenSysVol,
         Wizard!Devices, EarlyPages, Wizard!Inner, SizedPages, Wizard!Set,
         Wizard!SetHiddenVolume, Wizard!ThreadActive
<1>5. VolumesInv'
  BY DEF WizardInv, PathsDiffer, VolumesInv, Wizard!At, Created, Wizard!Devices, Wizard!Inner,
         InnerPages, Wizard!Set, Wizard!SetHiddenVolume, Wizard!ThreadActive
<1> QED
  BY <1>1, <1>2, <1>3, <1>4, <1>5 DEF WizardInv

LEMMA SetDirectStep ==
    ASSUME PathsDiffer, NEW b \in BOOLEAN, WizardInv, Wizard!SetDirect(b)
    PROVE  WizardInv'
<1>1. WizardShapes'
  BY FlagsWith DEF WizardInv, WizardShapes, Wizard!At, Wizard!Set, Wizard!SetDirect
<1>2. FlagsInv'
  BY DEF WizardInv, FlagsInv, Wizard!At, Wizard!Inner, InnerPages, Wizard!Set, Wizard!SetDirect,
         Wizard!ThreadActive
<1>3. ModeInv'
  BY DEF WizardInv, PathsDiffer, ModeInv, Wizard!At, Wizard!Devices, Wizard!Inner, InnerPages,
         Wizard!NoFlags, Wizard!NoTarget, Wizard!Set, Wizard!SetDirect, SystemPageSet,
         Wizard!ThreadActive
<1>4. TargetInv'
  BY DEF WizardInv, PathsDiffer, TargetInv, Wizard!At, Created, Wizard!CreatingHiddenSysVol,
         Wizard!Devices, EarlyPages, Wizard!Inner, SizedPages, Wizard!Set, Wizard!SetDirect,
         Wizard!ThreadActive
<1>5. VolumesInv'
  BY DEF WizardInv, PathsDiffer, VolumesInv, Wizard!At, Created, Wizard!Devices, Wizard!Inner,
         InnerPages, Wizard!Set, Wizard!SetDirect, Wizard!ThreadActive
<1> QED
  BY <1>1, <1>2, <1>3, <1>4, <1>5 DEF WizardInv

LEMMA SetInPlaceStep ==
    ASSUME PathsDiffer, NEW b \in BOOLEAN, WizardInv, Wizard!SetInPlace(b)
    PROVE  WizardInv'
<1>1. WizardShapes'
  BY FlagsWith DEF WizardInv, WizardShapes, Wizard!At, Wizard!Set, Wizard!SetInPlace
<1>2. FlagsInv'
  BY DEF WizardInv, PathsDiffer, FlagsInv, ModeInv, Wizard!At, Wizard!Devices, Wizard!Inner,
         InnerPages, Wizard!NoFlags, Wizard!NoTarget, Wizard!Set, Wizard!SetInPlace,
         SystemPageSet, Wizard!ThreadActive
<1>3. ModeInv'
  BY DEF WizardInv, PathsDiffer, ModeInv, Wizard!At, Wizard!Devices, Wizard!Inner, InnerPages,
         Wizard!NoFlags, Wizard!NoTarget, Wizard!Set, Wizard!SetInPlace, SystemPageSet,
         Wizard!ThreadActive
<1>4. TargetInv'
  BY DEF WizardInv, PathsDiffer, TargetInv, Wizard!At, Created, Wizard!CreatingHiddenSysVol,
         Wizard!Devices, EarlyPages, Wizard!Inner, SizedPages, Wizard!Set, Wizard!SetInPlace,
         Wizard!ThreadActive
<1>5. VolumesInv'
  BY DEF WizardInv, PathsDiffer, VolumesInv, Wizard!At, Created, Wizard!Devices, Wizard!Inner,
         InnerPages, Wizard!Set, Wizard!SetInPlace, Wizard!ThreadActive
<1> QED
  BY <1>1, <1>2, <1>3, <1>4, <1>5 DEF WizardInv

LEMMA SystemTypeNextStep ==
    ASSUME PathsDiffer, WizardInv, Wizard!SystemTypeNext
    PROVE  WizardInv'
<1>1. CASE vwFlags.hiddenOS
  <2>1. /\ vwPage = "sysType" /\ vwPage' = "requirements"
        /\ vwFlags' = [vwFlags EXCEPT !.whole = FALSE, !.direct = FALSE]
        /\ UNCHANGED <<vwMode, vwTarget, vwHost, vwThread, vwVolumes>>
    BY <1>1 DEF Wizard!SystemTypeNext, Wizard!At
  <2>2. vwFlags' \in WizardFlags
    BY <1>1, <2>1, FlagsWith DEF WizardInv, WizardShapes
  <2>3. /\ vwFlags'.inPlace = vwFlags.inPlace
        /\ vwFlags'.hidden = vwFlags.hidden /\ vwFlags'.host = vwFlags.host
        /\ vwFlags'.finished = vwFlags.finished /\ vwFlags'.hiddenOS = vwFlags.hiddenOS
        /\ vwFlags'.resumed = vwFlags.resumed
    BY <1>1, <2>1, <2>2 DEF WizardInv, WizardShapes, WizardFlags
  <2>4. WizardShapes'
    BY <1>1, <2>1, <2>2, <2>3, NothingChosen DEF WizardShapes, WizardInv, WizardModes
  <2>5. FlagsInv'
    BY <1>1, <2>1, <2>2, <2>3 DEF WizardInv, FlagsInv, Wizard!Inner, InnerPages
  <2>6. ModeInv'
    BY <1>1, <2>1, <2>2, <2>3, NothingChosen
       DEF WizardInv, PathsDiffer, ModeInv, Wizard!Devices, Wizard!Inner, InnerPages,
           Wizard!NoFlags, Wizard!NoTarget, SystemPageSet
  <2>7. TargetInv'
    BY <1>1, <2>1, <2>2, <2>3 DEF WizardInv, PathsDiffer, TargetInv, Created,
                                  Wizard!CreatingHiddenSysVol, Wizard!Devices, EarlyPages,
                                  Wizard!Inner, SizedPages
  <2>8. VolumesInv'
    BY <1>1, <2>1, <2>2, <2>3 DEF WizardInv, PathsDiffer, VolumesInv, Created, Wizard!Devices,
                                  Wizard!Inner, InnerPages, Wizard!ThreadActive
  <2> QED
    BY <2>4, <2>5, <2>6, <2>7, <2>8 DEF WizardInv
<1>2. CASE ~vwFlags.hiddenOS
  <2>1. /\ vwPage = "sysType" /\ vwPage' = "span"
        /\ UNCHANGED <<vwFlags, vwMode, vwTarget, vwHost, vwThread, vwVolumes>>
    BY <1>2 DEF Wizard!SystemTypeNext, Wizard!At
  <2>2. WizardShapes'
    BY <1>2, <2>1, NothingChosen DEF WizardShapes, WizardInv, WizardModes
  <2>3. FlagsInv'
    BY <1>2, <2>1 DEF WizardInv, FlagsInv, Wizard!Inner, InnerPages
  <2>4. ModeInv'
    BY <1>2, <2>1, NothingChosen DEF WizardInv, PathsDiffer, ModeInv, Wizard!Devices,
                                     Wizard!Inner, InnerPages, Wizard!NoFlags, Wizard!NoTarget,
                                     SystemPageSet
  <2>5. TargetInv'
    BY <1>2, <2>1 DEF WizardInv, PathsDiffer, TargetInv, Created, Wizard!CreatingHiddenSysVol,
                      Wizard!Devices, EarlyPages, Wizard!Inner, SizedPages
  <2>6. VolumesInv'
    BY <1>2, <2>1 DEF WizardInv, PathsDiffer, VolumesInv, Created, Wizard!Devices, Wizard!Inner,
                      InnerPages, Wizard!ThreadActive
  <2> QED
    BY <2>2, <2>3, <2>4, <2>5, <2>6 DEF WizardInv
<1> QED
  BY <1>1, <1>2 DEF Wizard!SystemTypeNext

LEMMA MultiBootNextStep ==
    ASSUME PathsDiffer, WizardInv, Wizard!MultiBootNext
    PROVE  WizardInv'
<1>1. WizardShapes'
  BY NothingChosen DEF WizardInv, WizardShapes, WizardModes, WizardFlags, WizardTargets,
                       WizardHosts, WizardThreads, VolumeKinds, Wizard!At, Wizard!Devices,
                       Wizard!MultiBootNext, Wizard!NoTarget, Wizard!Paths, Wizard!ThreadActive
<1>2. FlagsInv'
  BY DEF WizardInv, PathsDiffer, FlagsInv, ModeInv, Wizard!At, Wizard!Devices, Wizard!Inner,
         InnerPages, Wizard!MultiBootNext, Wizard!NoFlags, Wizard!NoTarget, SystemPageSet,
         Wizard!ThreadActive
<1>3. ModeInv'
  BY DEF WizardInv, PathsDiffer, ModeInv, Wizard!At, Wizard!Devices, Wizard!Inner, InnerPages,
         Wizard!MultiBootNext, Wizard!NoFlags, Wizard!NoTarget, SystemPageSet,
         Wizard!ThreadActive
<1>4. TargetInv'
  BY DEF WizardInv, PathsDiffer, FlagsInv, ModeInv, TargetInv, Wizard!At, Created,
         Wizard!CreatingHiddenSysVol, Wizard!Devices, EarlyPages, Wizard!Inner, InnerPages,
         Wizard!MultiBootNext, Wizard!NoFlags, Wizard!NoTarget, SizedPages, SystemPageSet,
         Wizard!ThreadActive
<1>5. VolumesInv'
  BY DEF WizardInv, PathsDiffer, FlagsInv, ModeInv, VolumesInv, Wizard!At, Created,
         Wizard!Devices, Wizard!Inner, InnerPages, Wizard!MultiBootNext, Wizard!NoFlags,
         Wizard!NoTarget, SystemPageSet, Wizard!ThreadActive
<1> QED
  BY <1>1, <1>2, <1>3, <1>4, <1>5 DEF WizardInv

LEMMA SystemPagesStep ==
    ASSUME PathsDiffer, WizardInv, Wizard!SystemPages
    PROVE  WizardInv'
<1>1. CASE /\ (Wizard!At("requirements") \/ Wizard!At("span")) /\ Wizard!ToSystemType(vwFlags)
           /\ UNCHANGED <<vwHost, vwThread, vwVolumes>>
  <2>1. vwPage \in {"requirements", "span"}
    BY <1>1 DEF Wizard!At
  <2>2. /\ vwPage' = "sysType" /\ vwMode' = "system" /\ vwFlags' \in WizardFlags
        /\ vwTarget' \in WizardTargets
        /\ vwFlags'.hidden = vwFlags.hiddenOS /\ vwFlags'.host = vwFlags.hiddenOS
        /\ vwFlags'.finished = vwFlags.finished /\ vwFlags'.hiddenOS = vwFlags.hiddenOS
        /\ vwFlags'.resumed = vwFlags.resumed
        /\ vwFlags'.inPlace <=> vwFlags.inPlace /\ vwMode = "system"
        /\ vwTarget' = IF vwMode = "system" THEN vwTarget ELSE Wizard!NoTarget
    BY <1>1, <2>1, SystemTypeShown DEF WizardInv, WizardShapes
  <2>3. WizardShapes'
    BY <1>1, <2>1, <2>2, NothingChosen DEF WizardShapes, WizardInv, WizardModes
  <2>4. FlagsInv'
    BY <1>1, <2>1, <2>2, NothingChosen DEF WizardInv, FlagsInv, Wizard!Inner, InnerPages,
                                           Wizard!NoTarget
  <2>5. ModeInv'
    BY <1>1, <2>1, <2>2, NothingChosen DEF WizardInv, PathsDiffer, ModeInv, Wizard!Devices,
                                           Wizard!Inner, InnerPages, Wizard!NoFlags,
                                           Wizard!NoTarget, SystemPageSet
  <2>6. TargetInv'
    BY <1>1, <2>1, <2>2, NothingChosen DEF WizardInv, PathsDiffer, TargetInv, Created,
                                           Wizard!CreatingHiddenSysVol, Wizard!Devices,
                                           EarlyPages, Wizard!Inner, Wizard!NoTarget, SizedPages
  <2>7. VolumesInv'
    BY <1>1, <2>1, <2>2, NothingChosen DEF WizardInv, PathsDiffer, VolumesInv, Created,
                                           Wizard!Devices, Wizard!Inner, InnerPages,
                                           Wizard!NoTarget, Wizard!ThreadActive
  <2> QED
    BY <2>3, <2>4, <2>5, <2>6, <2>7 DEF WizardInv
<1>2. CASE \/ Wizard!Go("requirements", "multiBoot")
           \/ Wizard!Go("span", IF vwFlags.whole THEN "analysis" ELSE "multiBoot")
           \/ Wizard!Go("analysis", "multiBoot") \/ Wizard!Go("sysType", "intro")
           \/ Wizard!Go("analysis", "span")
           \/ Wizard!Go("multiBoot", IF vwFlags.hiddenOS THEN "requirements"
                              ELSE IF vwFlags.whole THEN "analysis" ELSE "span")
  <2>1. /\ \/ vwPage = "requirements" /\ vwPage' = "multiBoot"
           \/ vwPage \in {"span", "analysis"} /\ vwPage' \in {"analysis", "span", "multiBoot"}
           \/ vwPage = "sysType" /\ vwPage' = "intro"
           \/ vwPage = "multiBoot" /\ vwFlags.hiddenOS /\ vwPage' = "requirements"
           \/ vwPage = "multiBoot" /\ ~vwFlags.hiddenOS /\ vwPage' \in {"analysis", "span"}
        /\ UNCHANGED <<vwMode, vwFlags, vwTarget, vwHost, vwThread, vwVolumes>>
    BY <1>2 DEF Wizard!Go, Wizard!At
  <2>2. WizardShapes'
    BY <1>2, <2>1, NothingChosen DEF WizardShapes, WizardInv, WizardModes
  <2>3. FlagsInv'
    BY <1>2, <2>1 DEF WizardInv, FlagsInv, Wizard!Inner, InnerPages
  <2>4. ModeInv'
    BY <1>2, <2>1, NothingChosen DEF WizardInv, PathsDiffer, ModeInv, Wizard!Devices,
                                     Wizard!Inner, InnerPages, Wizard!NoFlags, Wizard!NoTarget,
                                     SystemPageSet
  <2>5. TargetInv'
    BY <1>2, <2>1 DEF WizardInv, PathsDiffer, TargetInv, Created, Wizard!CreatingHiddenSysVol,
                      Wizard!Devices, EarlyPages, Wizard!Inner, SizedPages
  <2>6. VolumesInv'
    BY <1>2, <2>1 DEF WizardInv, PathsDiffer, VolumesInv, Created, Wizard!Devices, Wizard!Inner,
                      InnerPages, Wizard!ThreadActive
  <2> QED
    BY <2>2, <2>3, <2>4, <2>5, <2>6 DEF WizardInv
<1> QED
  BY <1>1, <1>2 DEF Wizard!SystemPages

LEMMA TypeNextStep == ASSUME PathsDiffer, WizardInv, Wizard!TypeNext PROVE WizardInv'
<1>1. CASE vwFlags.hidden
  <2>1. /\ vwPage = "type" /\ vwPage' = "wizardMode"
        /\ vwFlags' = [vwFlags EXCEPT !.host = TRUE, !.inPlace = FALSE]
        /\ UNCHANGED <<vwMode, vwTarget, vwHost, vwThread, vwVolumes>>
    BY <1>1 DEF Wizard!TypeNext, Wizard!At
  <2>2. vwFlags' \in WizardFlags
    BY <1>1, <2>1, FlagsWith DEF WizardInv, WizardShapes
  <2>3. /\ vwFlags'.hidden /\ vwFlags'.host /\ ~vwFlags'.inPlace
        /\ vwFlags'.finished = vwFlags.finished /\ vwFlags'.hiddenOS = vwFlags.hiddenOS
        /\ vwFlags'.resumed = vwFlags.resumed
    BY <1>1, <2>1, <2>2 DEF WizardInv, WizardShapes, WizardFlags
  <2>4. WizardShapes'
    BY <1>1, <2>1, <2>2, <2>3, NothingChosen DEF WizardShapes, WizardInv, WizardModes
  <2>5. FlagsInv'
    BY <1>1, <2>1, <2>2, <2>3 DEF WizardInv, FlagsInv, Wizard!Inner, InnerPages
  <2>6. ModeInv'
    BY <1>1, <2>1, <2>2, <2>3, NothingChosen
       DEF WizardInv, PathsDiffer, ModeInv, Wizard!Devices, Wizard!Inner, InnerPages,
           Wizard!NoFlags, Wizard!NoTarget, SystemPageSet
  <2>7. TargetInv'
    BY <1>1, <2>1, <2>2, <2>3 DEF WizardInv, PathsDiffer, TargetInv, Created,
                                  Wizard!CreatingHiddenSysVol, Wizard!Devices, EarlyPages,
                                  Wizard!Inner, SizedPages
  <2>8. VolumesInv'
    BY <1>1, <2>1, <2>2, <2>3 DEF WizardInv, PathsDiffer, VolumesInv, Created, Wizard!Devices,
                                  Wizard!Inner, InnerPages, Wizard!ThreadActive
  <2> QED
    BY <2>4, <2>5, <2>6, <2>7, <2>8 DEF WizardInv
<1>2. CASE ~vwFlags.hidden
  <2>1. /\ vwPage = "type" /\ vwPage' = "location"
        /\ vwFlags' = [vwFlags EXCEPT !.host = FALSE, !.direct = FALSE]
        /\ UNCHANGED <<vwMode, vwTarget, vwHost, vwThread, vwVolumes>>
    BY <1>2 DEF Wizard!TypeNext, Wizard!At
  <2>2. vwFlags' \in WizardFlags
    BY <1>2, <2>1, FlagsWith DEF WizardInv, WizardShapes
  <2>3. /\ ~vwFlags'.hidden /\ ~vwFlags'.host /\ vwFlags'.inPlace = vwFlags.inPlace
        /\ vwFlags'.finished = vwFlags.finished /\ vwFlags'.hiddenOS = vwFlags.hiddenOS
        /\ vwFlags'.resumed = vwFlags.resumed
    BY <1>2, <2>1, <2>2 DEF WizardInv, WizardShapes, WizardFlags
  <2>4. WizardShapes'
    BY <1>2, <2>1, <2>2, <2>3, NothingChosen DEF WizardShapes, WizardInv, WizardModes
  <2>5. FlagsInv'
    BY <1>2, <2>1, <2>2, <2>3 DEF WizardInv, FlagsInv, Wizard!Inner, InnerPages
  <2>6. ModeInv'
    BY <1>2, <2>1, <2>2, <2>3, NothingChosen
       DEF WizardInv, PathsDiffer, ModeInv, Wizard!Devices, Wizard!Inner, InnerPages,
           Wizard!NoFlags, Wizard!NoTarget, SystemPageSet
  <2>7. TargetInv'
    BY <1>2, <2>1, <2>2, <2>3 DEF WizardInv, PathsDiffer, TargetInv, Created,
                                  Wizard!CreatingHiddenSysVol, Wizard!Devices, EarlyPages,
                                  Wizard!Inner, SizedPages
  <2>8. VolumesInv'
    BY <1>2, <2>1, <2>2, <2>3 DEF WizardInv, PathsDiffer, VolumesInv, Created, Wizard!Devices,
                                  Wizard!Inner, InnerPages, Wizard!ThreadActive
  <2> QED
    BY <2>4, <2>5, <2>6, <2>7, <2>8 DEF WizardInv
<1> QED
  BY <1>1, <1>2 DEF Wizard!TypeNext

LEMMA SelectPathStep ==
    ASSUME PathsDiffer, NEW p \in Wizard!Paths, WizardInv, Wizard!SelectPath(p)
    PROVE  WizardInv'
<1>1. WizardShapes'
  BY FlagsWith DEF WizardInv, WizardShapes, WizardTargets, Wizard!At, Wizard!SelectPath
<1>2. FlagsInv'
  BY DEF WizardInv, PathsDiffer, FlagsInv, Wizard!At, Wizard!Devices, Wizard!Inner, InnerPages,
         Wizard!SelectPath, Wizard!ThreadActive
<1>3. ModeInv'
  BY DEF WizardInv, PathsDiffer, ModeInv, Wizard!At, Wizard!Devices, Wizard!Inner, InnerPages,
         Wizard!NoFlags, Wizard!NoTarget, Wizard!SelectPath, SystemPageSet, Wizard!ThreadActive
<1>4. TargetInv'
  BY DEF WizardInv, PathsDiffer, TargetInv, Wizard!At, Created, Wizard!CreatingHiddenSysVol,
         Wizard!Devices, EarlyPages, Wizard!Inner, SizedPages, Wizard!SelectPath,
         Wizard!ThreadActive
<1>5. VolumesInv'
  BY DEF WizardInv, PathsDiffer, VolumesInv, Wizard!At, Created, Wizard!Devices, Wizard!Inner,
         InnerPages, Wizard!SelectPath, Wizard!ThreadActive
<1> QED
  BY <1>1, <1>2, <1>3, <1>4, <1>5 DEF WizardInv

LEMMA LocationNextStep ==
    ASSUME PathsDiffer, WizardInv, Wizard!LocationNext
    PROVE  WizardInv'
<1>1. WizardShapes'
  BY DEF WizardInv, WizardShapes, Wizard!At, Wizard!LocationNext
<1>2. FlagsInv'
  BY DEF WizardInv, WizardShapes, WizardModes, WizardFlags, WizardTargets, WizardHosts,
         WizardThreads, VolumeKinds, PathsDiffer, FlagsInv, ModeInv, Wizard!At, Wizard!Devices,
         Wizard!Inner, InnerPages, Wizard!LocationNext, Wizard!NoFlags, Wizard!NoTarget,
         Wizard!Paths, SystemPageSet, Wizard!ThreadActive
<1>3. ModeInv'
  BY DEF WizardInv, PathsDiffer, ModeInv, Wizard!At, Wizard!Devices, Wizard!Inner, InnerPages,
         Wizard!LocationNext, Wizard!NoFlags, Wizard!NoTarget, SystemPageSet,
         Wizard!ThreadActive
<1>4. TargetInv'
  BY DEF WizardInv, PathsDiffer, TargetInv, Wizard!At, Created, Wizard!CreatingHiddenSysVol,
         Wizard!Devices, EarlyPages, Wizard!Inner, Wizard!LocationNext, SizedPages,
         Wizard!ThreadActive
<1>5. VolumesInv'
  BY DEF WizardInv, PathsDiffer, FlagsInv, VolumesInv, Wizard!At, Created, Wizard!Devices,
         Wizard!Inner, InnerPages, Wizard!LocationNext, Wizard!ThreadActive
<1> QED
  BY <1>1, <1>2, <1>3, <1>4, <1>5 DEF WizardInv

LEMMA LocationSwitchStep ==
    ASSUME PathsDiffer, WizardInv, Wizard!LocationSwitch
    PROVE  WizardInv'
<1>1. CASE vwMode = "file"
  <2>1. /\ vwPage = "location" /\ vwPage' = "type" /\ Wizard!ChangeMode("device", vwFlags)
        /\ UNCHANGED <<vwHost, vwThread, vwVolumes>>
    BY <1>1 DEF Wizard!LocationSwitch, Wizard!At
  <2>2. /\ vwMode' = "device" /\ vwFlags' \in WizardFlags /\ vwTarget' \in WizardTargets
        /\ vwFlags'.hidden = vwFlags.hidden /\ vwFlags'.host = vwFlags.host
        /\ vwFlags'.finished = vwFlags.finished /\ vwFlags'.hiddenOS = vwFlags.hiddenOS
        /\ vwFlags'.resumed = vwFlags.resumed
        /\ vwFlags'.inPlace <=> vwFlags.inPlace /\ ("device" = vwMode \/ "device" = "device")
        /\ vwTarget' = IF "device" = vwMode THEN vwTarget ELSE Wizard!NoTarget
    BY <1>1, <2>1, ModeChanges DEF WizardInv, WizardShapes, WizardModes
  <2>3. WizardShapes'
    BY <1>1, <2>1, <2>2, NothingChosen DEF WizardShapes, WizardInv, WizardModes
  <2>4. FlagsInv'
    BY <1>1, <2>1, <2>2, NothingChosen DEF WizardInv, FlagsInv, Wizard!Inner, InnerPages,
                                           Wizard!NoTarget
  <2>5. ModeInv'
    BY <1>1, <2>1, <2>2, NothingChosen DEF WizardInv, PathsDiffer, ModeInv, Wizard!Devices,
                                           Wizard!Inner, InnerPages, Wizard!NoFlags,
                                           Wizard!NoTarget, SystemPageSet
  <2>6. TargetInv'
    BY <1>1, <2>1, <2>2, NothingChosen DEF WizardInv, PathsDiffer, FlagsInv, TargetInv, Created,
                                           Wizard!CreatingHiddenSysVol, Wizard!Devices,
                                           EarlyPages, Wizard!Inner, InnerPages,
                                           Wizard!NoTarget, SizedPages
  <2>7. VolumesInv'
    BY <1>1, <2>1, <2>2, NothingChosen DEF WizardInv, PathsDiffer, VolumesInv, Created,
                                           Wizard!Devices, Wizard!Inner, InnerPages,
                                           Wizard!NoTarget, Wizard!ThreadActive
  <2> QED
    BY <2>3, <2>4, <2>5, <2>6, <2>7 DEF WizardInv
<1>2. CASE vwMode # "file" /\ vwFlags.hidden
  <2>1. /\ vwPage = "location" /\ Wizard!ToSystemType(vwFlags)
        /\ UNCHANGED <<vwHost, vwThread, vwVolumes>>
    BY <1>2 DEF Wizard!LocationSwitch, Wizard!At
  <2>2. /\ vwPage' = "sysType" /\ vwMode' = "system" /\ vwFlags' \in WizardFlags
        /\ vwTarget' \in WizardTargets
        /\ vwFlags'.hidden = vwFlags.hiddenOS /\ vwFlags'.host = vwFlags.hiddenOS
        /\ vwFlags'.finished = vwFlags.finished /\ vwFlags'.hiddenOS = vwFlags.hiddenOS
        /\ vwFlags'.resumed = vwFlags.resumed
        /\ vwFlags'.inPlace <=> vwFlags.inPlace /\ vwMode = "system"
        /\ vwTarget' = IF vwMode = "system" THEN vwTarget ELSE Wizard!NoTarget
    BY <1>2, <2>1, SystemTypeShown DEF WizardInv, WizardShapes
  <2>3. WizardShapes'
    BY <1>2, <2>1, <2>2, NothingChosen DEF WizardShapes, WizardInv, WizardModes
  <2>4. FlagsInv'
    BY <1>2, <2>1, <2>2, NothingChosen DEF WizardInv, FlagsInv, Wizard!Inner, InnerPages,
                                           Wizard!NoTarget
  <2>5. ModeInv'
    BY <1>2, <2>1, <2>2, NothingChosen DEF WizardInv, PathsDiffer, ModeInv, Wizard!Devices,
                                           Wizard!Inner, InnerPages, Wizard!NoFlags,
                                           Wizard!NoTarget, SystemPageSet
  <2>6. TargetInv'
    BY <1>2, <2>1, <2>2, NothingChosen DEF WizardInv, PathsDiffer, TargetInv, Created,
                                           Wizard!CreatingHiddenSysVol, Wizard!Devices,
                                           EarlyPages, Wizard!Inner, Wizard!NoTarget, SizedPages
  <2>7. VolumesInv'
    BY <1>2, <2>1, <2>2, NothingChosen DEF WizardInv, PathsDiffer, VolumesInv, Created,
                                           Wizard!Devices, Wizard!Inner, InnerPages,
                                           Wizard!NoTarget, Wizard!ThreadActive
  <2> QED
    BY <2>3, <2>4, <2>5, <2>6, <2>7 DEF WizardInv
<1>3. CASE vwMode # "file" /\ ~vwFlags.hidden
  <2>1. /\ vwPage = "location" /\ vwPage' = "multiBoot"
        /\ UNCHANGED <<vwHost, vwThread, vwVolumes>>
        /\ Wizard!ChangeMode("system", [vwFlags EXCEPT !.whole = FALSE])
    BY <1>3 DEF Wizard!LocationSwitch, Wizard!At
  <2>2. [vwFlags EXCEPT !.whole = FALSE] \in WizardFlags
    BY <1>3, <2>1, FlagsWith DEF WizardInv, WizardShapes
  <2>3. LET flags == [vwFlags EXCEPT !.whole = FALSE] IN
        /\ flags.hidden = vwFlags.hidden /\ flags.host = vwFlags.host
        /\ flags.finished = vwFlags.finished /\ flags.hiddenOS = vwFlags.hiddenOS
        /\ flags.resumed = vwFlags.resumed /\ flags.inPlace = vwFlags.inPlace
    BY <1>3, <2>1, <2>2 DEF WizardInv, WizardShapes, WizardFlags
  <2>4. /\ vwMode' = "system" /\ vwFlags' \in WizardFlags /\ vwTarget' \in WizardTargets
        /\ vwFlags'.hidden = vwFlags.hidden /\ vwFlags'.host = vwFlags.host
        /\ vwFlags'.finished = vwFlags.finished /\ vwFlags'.hiddenOS = vwFlags.hiddenOS
        /\ vwFlags'.resumed = vwFlags.resumed
        /\ vwFlags'.inPlace <=> vwFlags.inPlace /\ ("system" = vwMode \/ "system" = "device")
        /\ vwTarget' = IF "system" = vwMode THEN vwTarget ELSE Wizard!NoTarget
    BY <1>3, <2>1, <2>2, <2>3, ModeChanges DEF WizardInv, WizardModes
  <2>5. WizardShapes'
    BY <1>3, <2>1, <2>2, <2>3, <2>4, NothingChosen DEF WizardShapes, WizardInv, WizardModes
  <2>6. FlagsInv'
    BY <1>3, <2>1, <2>2, <2>3, <2>4, NothingChosen
       DEF WizardInv, FlagsInv, Wizard!Inner, InnerPages, Wizard!NoTarget
  <2>7. ModeInv'
    BY <1>3, <2>1, <2>2, <2>3, <2>4, NothingChosen
       DEF WizardInv, PathsDiffer, ModeInv, Wizard!Devices, Wizard!Inner, InnerPages,
           Wizard!NoFlags, Wizard!NoTarget, SystemPageSet
  <2>8. TargetInv'
    BY <1>3, <2>1, <2>2, <2>3, <2>4, NothingChosen
       DEF WizardInv, PathsDiffer, TargetInv, Created, Wizard!CreatingHiddenSysVol,
           Wizard!Devices, EarlyPages, Wizard!Inner, Wizard!NoTarget, SizedPages
  <2>9. VolumesInv'
    BY <1>3, <2>1, <2>2, <2>3, <2>4, NothingChosen
       DEF WizardInv, PathsDiffer, VolumesInv, Created, Wizard!Devices, Wizard!Inner,
           InnerPages, Wizard!NoTarget, Wizard!ThreadActive
  <2> QED
    BY <2>5, <2>6, <2>7, <2>8, <2>9 DEF WizardInv
<1> QED
  BY <1>1, <1>2, <1>3 DEF Wizard!LocationSwitch

LEMMA TransformNextStep ==
    ASSUME PathsDiffer, WizardInv, Wizard!TransformNext
    PROVE  WizardInv'
<1>1. WizardShapes'
  BY DEF WizardInv, WizardShapes, WizardTargets, Wizard!At, Wizard!TransformNext
<1>2. FlagsInv'
  BY DEF WizardInv, FlagsInv, Wizard!At, Wizard!Inner, InnerPages, Wizard!ThreadActive,
         Wizard!TransformNext
<1>3. ModeInv'
  BY DEF WizardInv, PathsDiffer, ModeInv, Wizard!At, Wizard!Devices, Wizard!Inner, InnerPages,
         Wizard!NoFlags, Wizard!NoTarget, SystemPageSet, Wizard!ThreadActive,
         Wizard!TransformNext
<1>4. TargetInv'
  BY DEF WizardInv, PathsDiffer, FlagsInv, TargetInv, Wizard!At, Created,
         Wizard!CreatingHiddenSysVol, Wizard!Devices, EarlyPages, Wizard!Inner, InnerPages,
         SizedPages, Wizard!ThreadActive, Wizard!TransformNext
<1>5. VolumesInv'
  BY DEF WizardInv, PathsDiffer, FlagsInv, VolumesInv, Wizard!At, Created, Wizard!Devices,
         Wizard!Inner, InnerPages, Wizard!ThreadActive, Wizard!TransformNext
<1> QED
  BY <1>1, <1>2, <1>3, <1>4, <1>5 DEF WizardInv

LEMMA HostPreCipherBackStep ==
    ASSUME PathsDiffer, WizardInv, Wizard!HostPreCipherBack
    PROVE  WizardInv'
<1>1. CASE vwFlags.hiddenOS
  <2>1. /\ vwPage = "hostPreCipher" /\ vwPage' = "multiBoot"
        /\ Wizard!ChangeMode("system", vwFlags)
        /\ UNCHANGED <<vwHost, vwThread, vwVolumes>>
    BY <1>1 DEF Wizard!HostPreCipherBack, Wizard!At
  <2>2. /\ vwMode' = "system" /\ vwFlags' \in WizardFlags /\ vwTarget' \in WizardTargets
        /\ vwFlags'.hidden = vwFlags.hidden /\ vwFlags'.host = vwFlags.host
        /\ vwFlags'.finished = vwFlags.finished /\ vwFlags'.hiddenOS = vwFlags.hiddenOS
        /\ vwFlags'.resumed = vwFlags.resumed
        /\ vwFlags'.inPlace <=> vwFlags.inPlace /\ ("system" = vwMode \/ "system" = "device")
        /\ vwTarget' = IF "system" = vwMode THEN vwTarget ELSE Wizard!NoTarget
    BY <1>1, <2>1, ModeChanges DEF WizardInv, WizardShapes, WizardModes
  <2>3. WizardShapes'
    BY <1>1, <2>1, <2>2, NothingChosen DEF WizardShapes, WizardInv, WizardModes
  <2>4. FlagsInv'
    BY <1>1, <2>1, <2>2, NothingChosen DEF WizardInv, FlagsInv, Wizard!Inner, InnerPages,
                                           Wizard!NoTarget
  <2>5. ModeInv'
    BY <1>1, <2>1, <2>2, NothingChosen DEF WizardInv, PathsDiffer, FlagsInv, ModeInv,
                                           Wizard!Devices, Wizard!Inner, InnerPages,
                                           Wizard!NoFlags, Wizard!NoTarget, SystemPageSet
  <2>6. TargetInv'
    BY <1>1, <2>1, <2>2, NothingChosen DEF WizardInv, PathsDiffer, TargetInv, Created,
                                           Wizard!CreatingHiddenSysVol, Wizard!Devices,
                                           EarlyPages, Wizard!Inner, Wizard!NoTarget, SizedPages
  <2>7. VolumesInv'
    BY <1>1, <2>1, <2>2, NothingChosen DEF WizardInv, PathsDiffer, VolumesInv, Created,
                                           Wizard!Devices, Wizard!Inner, InnerPages,
                                           Wizard!NoTarget, Wizard!ThreadActive
  <2> QED
    BY <2>3, <2>4, <2>5, <2>6, <2>7 DEF WizardInv
<1>2. CASE ~vwFlags.hiddenOS
  <2>1. /\ vwPage = "hostPreCipher" /\ vwPage' = "location"
        /\ UNCHANGED <<vwMode, vwFlags, vwTarget, vwHost, vwThread, vwVolumes>>
    BY <1>2 DEF Wizard!HostPreCipherBack, Wizard!At
  <2>2. WizardShapes'
    BY <1>2, <2>1, NothingChosen DEF WizardShapes, WizardInv, WizardModes
  <2>3. FlagsInv'
    BY <1>2, <2>1 DEF WizardInv, FlagsInv, Wizard!Inner, InnerPages
  <2>4. ModeInv'
    BY <1>2, <2>1, NothingChosen DEF WizardInv, PathsDiffer, ModeInv, Wizard!Devices,
                                     Wizard!Inner, InnerPages, Wizard!NoFlags, Wizard!NoTarget,
                                     SystemPageSet
  <2>5. TargetInv'
    BY <1>2, <2>1 DEF WizardInv, PathsDiffer, TargetInv, Created, Wizard!CreatingHiddenSysVol,
                      Wizard!Devices, EarlyPages, Wizard!Inner, SizedPages
  <2>6. VolumesInv'
    BY <1>2, <2>1 DEF WizardInv, PathsDiffer, VolumesInv, Created, Wizard!Devices, Wizard!Inner,
                      InnerPages, Wizard!ThreadActive
  <2> QED
    BY <2>2, <2>3, <2>4, <2>5, <2>6 DEF WizardInv
<1> QED
  BY <1>1, <1>2 DEF Wizard!HostPreCipherBack

LEMMA CipherNextStep == ASSUME PathsDiffer, WizardInv, Wizard!CipherNext PROVE WizardInv'
<1>1. WizardShapes'
  BY DEF WizardInv, WizardShapes, WizardTargets, Wizard!At, Wizard!CipherNext, Wizard!ShownSize
<1>2. FlagsInv'
  BY DEF WizardInv, FlagsInv, Wizard!At, Wizard!CipherNext, Wizard!CreatingHiddenSysVol,
         Wizard!Inner, InnerPages, Wizard!ShownSize, Wizard!SysEncInEffect, Wizard!ThreadActive
<1>3. ModeInv'
  BY DEF WizardInv, WizardShapes, WizardModes, WizardFlags, WizardTargets, WizardHosts,
         WizardThreads, VolumeKinds, PathsDiffer, ModeInv, Wizard!At, Wizard!CipherNext,
         Wizard!CreatingHiddenSysVol, Wizard!Devices, Wizard!Inner, InnerPages, Wizard!NoFlags,
         Wizard!NoTarget, Wizard!Paths, Wizard!ShownSize, Wizard!SysEncInEffect, SystemPageSet,
         Wizard!ThreadActive
<1>4. TargetInv'
  BY DEF WizardInv, WizardShapes, WizardModes, WizardFlags, WizardTargets, WizardHosts,
         WizardThreads, VolumeKinds, PathsDiffer, TargetInv, Wizard!At, Wizard!CipherNext,
         Created, Wizard!CreatingHiddenSysVol, Wizard!Devices, EarlyPages, Wizard!Inner,
         Wizard!Paths, SizedPages, Wizard!ShownSize, Wizard!SysEncInEffect, Wizard!ThreadActive
<1>5. VolumesInv'
  BY DEF WizardInv, WizardShapes, WizardModes, WizardFlags, WizardTargets, WizardHosts,
         WizardThreads, VolumeKinds, PathsDiffer, VolumesInv, Wizard!At, Wizard!CipherNext,
         Created, Wizard!CreatingHiddenSysVol, Wizard!Devices, Wizard!Inner, InnerPages,
         Wizard!Paths, Wizard!ShownSize, Wizard!SysEncInEffect, Wizard!ThreadActive
<1> QED
  BY <1>1, <1>2, <1>3, <1>4, <1>5 DEF WizardInv

LEMMA CipherBackStep == ASSUME PathsDiffer, WizardInv, Wizard!CipherBack PROVE WizardInv'
<1>1. WizardShapes'
  BY DEF WizardInv, WizardShapes, Wizard!At, Wizard!CipherBack, Wizard!Go
<1>2. FlagsInv'
  BY DEF WizardInv, PathsDiffer, FlagsInv, ModeInv, Wizard!At, Wizard!CipherBack,
         Wizard!Devices, Wizard!Go, Wizard!Inner, InnerPages, Wizard!NoFlags, Wizard!NoTarget,
         SystemPageSet, Wizard!ThreadActive
<1>3. ModeInv'
  BY DEF WizardInv, PathsDiffer, ModeInv, Wizard!At, Wizard!CipherBack, Wizard!Devices,
         Wizard!Go, Wizard!Inner, InnerPages, Wizard!NoFlags, Wizard!NoTarget, SystemPageSet,
         Wizard!ThreadActive
<1>4. TargetInv'
  BY DEF WizardInv, PathsDiffer, TargetInv, Wizard!At, Wizard!CipherBack, Created,
         Wizard!CreatingHiddenSysVol, Wizard!Devices, EarlyPages, Wizard!Go, Wizard!Inner,
         SizedPages, Wizard!ThreadActive
<1>5. VolumesInv'
  BY DEF WizardInv, PathsDiffer, VolumesInv, Wizard!At, Wizard!CipherBack, Created,
         Wizard!Devices, Wizard!Go, Wizard!Inner, InnerPages, Wizard!ThreadActive
<1> QED
  BY <1>1, <1>2, <1>3, <1>4, <1>5 DEF WizardInv

LEMMA SizeNextStep == ASSUME PathsDiffer, WizardInv, Wizard!SizeNext PROVE WizardInv'
<1>1. WizardShapes'
  BY DEF WizardInv, WizardShapes, WizardTargets, Wizard!At, Wizard!SizeNext, Wizard!VerifiedSize
<1>2. FlagsInv'
  BY DEF WizardInv, FlagsInv, Wizard!At, Wizard!Inner, InnerPages, Wizard!SizeNext,
         Wizard!ThreadActive, Wizard!VerifiedSize
<1>3. ModeInv'
  BY DEF WizardInv, PathsDiffer, ModeInv, Wizard!At, Wizard!Devices, Wizard!Inner, InnerPages,
         Wizard!NoFlags, Wizard!NoTarget, Wizard!SizeNext, SystemPageSet, Wizard!ThreadActive,
         Wizard!VerifiedSize
<1>4. TargetInv'
  BY DEF WizardInv, WizardShapes, WizardModes, WizardFlags, WizardTargets, WizardHosts,
         WizardThreads, VolumeKinds, PathsDiffer, TargetInv, Wizard!At, Created,
         Wizard!CreatingHiddenSysVol, Wizard!Devices, EarlyPages, Wizard!Inner, Wizard!Paths,
         SizedPages, Wizard!SizeNext, Wizard!ThreadActive, Wizard!VerifiedSize
<1>5. VolumesInv'
  BY DEF WizardInv, PathsDiffer, VolumesInv, Wizard!At, Created, Wizard!Devices, Wizard!Inner,
         InnerPages, Wizard!SizeNext, Wizard!ThreadActive, Wizard!VerifiedSize
<1> QED
  BY <1>1, <1>2, <1>3, <1>4, <1>5 DEF WizardInv

LEMMA PasswordNextStep ==
    ASSUME PathsDiffer, WizardInv, Wizard!PasswordNext
    PROVE  WizardInv'
<1>1. WizardShapes'
  BY DEF WizardInv, WizardShapes, Wizard!At, Wizard!Go, Wizard!PasswordNext
<1>2. FlagsInv'
  BY DEF WizardInv, PathsDiffer, FlagsInv, ModeInv, Wizard!At, Wizard!CreatingHiddenSysVol,
         Wizard!Devices, Wizard!Go, Wizard!Inner, InnerPages, Wizard!NoFlags, Wizard!NoTarget,
         Wizard!PasswordNext, Wizard!SysEncInEffect, SystemPageSet, Wizard!ThreadActive
<1>3. ModeInv'
  BY DEF WizardInv, PathsDiffer, FlagsInv, ModeInv, Wizard!At, Wizard!CreatingHiddenSysVol,
         Wizard!Devices, Wizard!Go, Wizard!Inner, InnerPages, Wizard!NoFlags, Wizard!NoTarget,
         Wizard!PasswordNext, Wizard!SysEncInEffect, SystemPageSet, Wizard!ThreadActive
<1>4. TargetInv'
  BY DEF WizardInv, PathsDiffer, TargetInv, Wizard!At, Created, Wizard!CreatingHiddenSysVol,
         Wizard!Devices, EarlyPages, Wizard!Go, Wizard!Inner, Wizard!PasswordNext, SizedPages,
         Wizard!SysEncInEffect, Wizard!ThreadActive
<1>5. VolumesInv'
  BY DEF WizardInv, PathsDiffer, VolumesInv, Wizard!At, Created, Wizard!CreatingHiddenSysVol,
         Wizard!Devices, Wizard!Go, Wizard!Inner, InnerPages, Wizard!PasswordNext,
         Wizard!SysEncInEffect, Wizard!ThreadActive
<1> QED
  BY <1>1, <1>2, <1>3, <1>4, <1>5 DEF WizardInv

LEMMA VolumePagesNextStep ==
    ASSUME PathsDiffer, WizardInv, Wizard!VolumePagesNext
    PROVE  WizardInv'
<1>1. WizardShapes'
  BY DEF WizardInv, WizardShapes, Wizard!At, Wizard!Go, Wizard!VolumePagesNext
<1>2. FlagsInv'
  BY DEF WizardInv, FlagsInv, Wizard!At, Wizard!Go, Wizard!Inner, InnerPages,
         Wizard!ThreadActive, Wizard!VolumePagesNext
<1>3. ModeInv'
  BY DEF WizardInv, PathsDiffer, ModeInv, Wizard!At, Wizard!Devices, Wizard!Go, Wizard!Inner,
         InnerPages, Wizard!NoFlags, Wizard!NoTarget, SystemPageSet, Wizard!ThreadActive,
         Wizard!VolumePagesNext
<1>4. TargetInv'
  BY DEF WizardInv, PathsDiffer, TargetInv, Wizard!At, Created, Wizard!CreatingHiddenSysVol,
         Wizard!Devices, EarlyPages, Wizard!Go, Wizard!Inner, SizedPages, Wizard!ThreadActive,
         Wizard!VolumePagesNext
<1>5. VolumesInv'
  BY DEF WizardInv, PathsDiffer, FlagsInv, VolumesInv, Wizard!At, Created, Wizard!Devices,
         Wizard!Go, Wizard!Inner, InnerPages, Wizard!ThreadActive, Wizard!VolumePagesNext
<1> QED
  BY <1>1, <1>2, <1>3, <1>4, <1>5 DEF WizardInv

LEMMA VolumePagesBackStep ==
    ASSUME PathsDiffer, WizardInv, Wizard!VolumePagesBack
    PROVE  WizardInv'
<1>1. WizardShapes'
  BY DEF WizardInv, WizardShapes, Wizard!At, Wizard!Go, Wizard!VolumePagesBack
<1>2. FlagsInv'
  BY DEF WizardInv, FlagsInv, Wizard!At, Wizard!CreatingHiddenSysVol, Wizard!Go, Wizard!Inner,
         InnerPages, Wizard!SysEncInEffect, Wizard!ThreadActive, Wizard!VolumePagesBack
<1>3. ModeInv'
  BY DEF WizardInv, PathsDiffer, ModeInv, Wizard!At, Wizard!CreatingHiddenSysVol,
         Wizard!Devices, Wizard!Go, Wizard!Inner, InnerPages, Wizard!NoFlags, Wizard!NoTarget,
         Wizard!SysEncInEffect, SystemPageSet, Wizard!ThreadActive, Wizard!VolumePagesBack
<1>4. TargetInv'
  BY DEF WizardInv, PathsDiffer, FlagsInv, ModeInv, TargetInv, Wizard!At, Created,
         Wizard!CreatingHiddenSysVol, Wizard!Devices, EarlyPages, Wizard!Go, Wizard!Inner,
         InnerPages, Wizard!NoFlags, Wizard!NoTarget, SizedPages, Wizard!SysEncInEffect,
         SystemPageSet, Wizard!ThreadActive, Wizard!VolumePagesBack
<1>5. VolumesInv'
  BY DEF WizardInv, PathsDiffer, FlagsInv, ModeInv, VolumesInv, Wizard!At, Created,
         Wizard!CreatingHiddenSysVol, Wizard!Devices, Wizard!Go, Wizard!Inner, InnerPages,
         Wizard!NoFlags, Wizard!NoTarget, Wizard!SysEncInEffect, SystemPageSet,
         Wizard!ThreadActive, Wizard!VolumePagesBack
<1> QED
  BY <1>1, <1>2, <1>3, <1>4, <1>5 DEF WizardInv

LEMMA HostPasswordNextStep ==
    ASSUME PathsDiffer, WizardInv, Wizard!HostPasswordNext
    PROVE  WizardInv'
<1>1. CASE \E mounted \in {"failed"} \cup (IF vwVolumes[vwTarget.path] \in {"outer", "both"}
                                      THEN {vwTarget.path} ELSE {}) :
           Wizard!Examine("hostPassword", mounted)
  <2>1. /\ vwPage = "hostPassword" /\ UNCHANGED <<vwMode, vwThread, vwVolumes>>
        /\ vwTarget.path \in Wizard!Paths
    BY <1>1 DEF WizardInv, WizardShapes, WizardTargets, ModeInv, TargetInv, Wizard!At, Created,
                Wizard!CreatingHiddenSysVol, Wizard!Devices, Wizard!Dismounted, EarlyPages,
                Wizard!Examine, Wizard!HostPasswordNext, Wizard!Inner, InnerPages,
                Wizard!NoFlags, Wizard!NoTarget, Wizard!Paths, SizedPages, Wizard!Stay,
                SystemPageSet, Wizard!ThreadActive, Wizard!ToHiddenPreCipher
  <2>2. PICK mounted \in Wizard!Paths \cup {"failed"} :
          /\ Wizard!Examine("hostPassword", mounted)
          /\ mounted # "failed" =>
               mounted = vwTarget.path /\ vwVolumes[vwTarget.path] \in {"outer", "both"}
    BY <1>1, <2>1
  <2>3. \/ vwHost' \in WizardHosts /\ UNCHANGED <<vwPage, vwFlags, vwTarget>>
        \/ /\ vwVolumes[vwTarget.path] \in {"outer", "both"}
           /\ vwHost' = [drive |-> "none", scanned |-> vwTarget.path]
           /\ vwHost' \in WizardHosts /\ vwFlags' \in WizardFlags /\ vwTarget' \in WizardTargets
           /\ ~vwFlags'.host /\ ~vwFlags'.finished /\ vwFlags'.hidden = vwFlags.hidden
           /\ vwFlags'.hiddenOS = vwFlags.hiddenOS /\ vwFlags'.inPlace = vwFlags.inPlace
           /\ vwFlags'.resumed = vwFlags.resumed
           /\ vwPage' = "hiddenPreCipher" /\ vwTarget'.path = vwTarget.path
           /\ vwTarget'.size = IF vwFlags.hiddenOS THEN "system" ELSE "none"
    BY <1>1, <2>1, <2>2, Examined DEF WizardInv
  <2>4. WizardShapes'
    BY <1>1, <2>1, <2>3, NothingChosen DEF WizardShapes, WizardInv, WizardModes
  <2>5. FlagsInv'
    BY <1>1, <2>1, <2>3 DEF WizardInv, FlagsInv, Wizard!Inner, InnerPages
  <2>6. ModeInv'
    BY <1>1, <2>1, <2>3, NothingChosen DEF WizardInv, PathsDiffer, ModeInv, Wizard!Devices,
                                           Wizard!Inner, InnerPages, Wizard!NoFlags,
                                           Wizard!NoTarget, SystemPageSet
  <2>7. TargetInv'
    BY <1>1, <2>1, <2>3 DEF WizardInv, PathsDiffer, TargetInv, Created,
                            Wizard!CreatingHiddenSysVol, Wizard!Devices, EarlyPages,
                            Wizard!Inner, SizedPages
  <2>8. VolumesInv'
    BY <1>1, <2>1, <2>3 DEF WizardInv, PathsDiffer, VolumesInv, Created, Wizard!Devices,
                            Wizard!Inner, InnerPages, Wizard!ThreadActive
  <2> QED
    BY <2>4, <2>5, <2>6, <2>7, <2>8 DEF WizardInv
<1>2. CASE UNCHANGED <<vwPage, vwFlags, vwTarget, vwHost>>
  <2>1. vwPage = "hostPassword" /\ UNCHANGED <<vwMode, vwThread, vwVolumes>>
    BY <1>2 DEF Wizard!HostPasswordNext, Wizard!At
  <2>2. WizardShapes'
    BY <1>2, <2>1, NothingChosen DEF WizardShapes, WizardInv, WizardModes
  <2>3. FlagsInv'
    BY <1>2, <2>1 DEF WizardInv, FlagsInv, Wizard!Inner, InnerPages
  <2>4. ModeInv'
    BY <1>2, <2>1, NothingChosen DEF WizardInv, PathsDiffer, ModeInv, Wizard!Devices,
                                     Wizard!Inner, InnerPages, Wizard!NoFlags, Wizard!NoTarget,
                                     SystemPageSet
  <2>5. TargetInv'
    BY <1>2, <2>1 DEF WizardInv, PathsDiffer, TargetInv, Created, Wizard!CreatingHiddenSysVol,
                      Wizard!Devices, EarlyPages, Wizard!Inner, SizedPages
  <2>6. VolumesInv'
    BY <1>2, <2>1 DEF WizardInv, PathsDiffer, VolumesInv, Created, Wizard!Devices, Wizard!Inner,
                      InnerPages, Wizard!ThreadActive
  <2> QED
    BY <2>2, <2>3, <2>4, <2>5, <2>6 DEF WizardInv
<1> QED
  BY <1>1, <1>2 DEF Wizard!HostPasswordNext

LEMMA FormatFinishedNextStep ==
    ASSUME PathsDiffer, WizardInv, Wizard!FormatFinishedNext
    PROVE  WizardInv'
<1>1. CASE (~vwFlags.hidden \/ vwFlags.finished) /\ vwFlags.hiddenOS
  <2>1. /\ vwPage = "formatFinished" /\ vwPage' = "pretest"
        /\ UNCHANGED <<vwHost, vwThread, vwVolumes>>
        /\ Wizard!ChangeMode("system", [vwFlags EXCEPT !.hidden = FALSE, !.finished = FALSE])
    BY <1>1 DEF Wizard!FormatFinishedNext, Wizard!At
  <2>2. [vwFlags EXCEPT !.hidden = FALSE, !.finished = FALSE] \in WizardFlags
    BY <1>1, <2>1, FlagsWith DEF WizardInv, WizardShapes
  <2>3. LET flags == [vwFlags EXCEPT !.hidden = FALSE, !.finished = FALSE] IN
        /\ ~flags.hidden /\ flags.host = vwFlags.host
        /\ ~flags.finished /\ flags.hiddenOS = vwFlags.hiddenOS
        /\ flags.resumed = vwFlags.resumed /\ flags.inPlace = vwFlags.inPlace
    BY <1>1, <2>1, <2>2 DEF WizardInv, WizardShapes, WizardFlags
  <2>4. /\ vwMode' = "system" /\ vwFlags' \in WizardFlags /\ vwTarget' \in WizardTargets
        /\ ~vwFlags'.hidden /\ vwFlags'.host = vwFlags.host
        /\ ~vwFlags'.finished /\ vwFlags'.hiddenOS = vwFlags.hiddenOS
        /\ vwFlags'.resumed = vwFlags.resumed
        /\ vwFlags'.inPlace <=> vwFlags.inPlace /\ ("system" = vwMode \/ "system" = "device")
        /\ vwTarget' = IF "system" = vwMode THEN vwTarget ELSE Wizard!NoTarget
    BY <1>1, <2>1, <2>2, <2>3, ModeChanges DEF WizardInv, WizardModes
  <2>5. WizardShapes'
    BY <1>1, <2>1, <2>2, <2>3, <2>4, NothingChosen DEF WizardShapes, WizardInv, WizardModes
  <2>6. FlagsInv'
    BY <1>1, <2>1, <2>2, <2>3, <2>4, NothingChosen
       DEF WizardInv, FlagsInv, Wizard!Inner, InnerPages, Wizard!NoTarget
  <2>7. ModeInv'
    BY <1>1, <2>1, <2>2, <2>3, <2>4, NothingChosen
       DEF WizardInv, PathsDiffer, ModeInv, Wizard!Devices, Wizard!Inner, InnerPages,
           Wizard!NoFlags, Wizard!NoTarget, SystemPageSet
  <2>8. TargetInv'
    BY <1>1, <2>1, <2>2, <2>3, <2>4, NothingChosen
       DEF WizardInv, PathsDiffer, TargetInv, Created, Wizard!CreatingHiddenSysVol,
           Wizard!Devices, EarlyPages, Wizard!Inner, Wizard!NoTarget, SizedPages
  <2>9. VolumesInv'
    BY <1>1, <2>1, <2>2, <2>3, <2>4, NothingChosen
       DEF WizardInv, PathsDiffer, FlagsInv, ModeInv, VolumesInv, Created, Wizard!Devices,
           Wizard!Inner, InnerPages, Wizard!NoFlags, Wizard!NoTarget, SystemPageSet,
           Wizard!ThreadActive
  <2> QED
    BY <2>5, <2>6, <2>7, <2>8, <2>9 DEF WizardInv
<1>2. CASE (~vwFlags.hidden \/ vwFlags.finished) /\ ~vwFlags.hiddenOS
  <2>1. /\ vwPage = "formatFinished" /\ vwPage' = "intro"
        /\ vwFlags' = [vwFlags EXCEPT !.finished = FALSE]
        /\ UNCHANGED <<vwMode, vwTarget, vwHost, vwThread, vwVolumes>>
    BY <1>2 DEF Wizard!FormatFinishedNext, Wizard!At
  <2>2. vwFlags' \in WizardFlags
    BY <1>2, <2>1, FlagsWith DEF WizardInv, WizardShapes
  <2>3. /\ vwFlags'.inPlace = vwFlags.inPlace
        /\ vwFlags'.hidden = vwFlags.hidden /\ vwFlags'.host = vwFlags.host
        /\ ~vwFlags'.finished /\ vwFlags'.hiddenOS = vwFlags.hiddenOS
        /\ vwFlags'.resumed = vwFlags.resumed
    BY <1>2, <2>1, <2>2 DEF WizardInv, WizardShapes, WizardFlags
  <2>4. WizardShapes'
    BY <1>2, <2>1, <2>2, <2>3, NothingChosen DEF WizardShapes, WizardInv, WizardModes
  <2>5. FlagsInv'
    BY <1>2, <2>1, <2>2, <2>3 DEF WizardInv, FlagsInv, Wizard!Inner, InnerPages
  <2>6. ModeInv'
    BY <1>2, <2>1, <2>2, <2>3, NothingChosen
       DEF WizardInv, PathsDiffer, ModeInv, Wizard!Devices, Wizard!Inner, InnerPages,
           Wizard!NoFlags, Wizard!NoTarget, SystemPageSet
  <2>7. TargetInv'
    BY <1>2, <2>1, <2>2, <2>3 DEF WizardInv, PathsDiffer, TargetInv, Created,
                                  Wizard!CreatingHiddenSysVol, Wizard!Devices, EarlyPages,
                                  Wizard!Inner, SizedPages
  <2>8. VolumesInv'
    BY <1>2, <2>1, <2>2, <2>3 DEF WizardInv, PathsDiffer, VolumesInv, Created, Wizard!Devices,
                                  Wizard!Inner, InnerPages, Wizard!ThreadActive
  <2> QED
    BY <2>4, <2>5, <2>6, <2>7, <2>8 DEF WizardInv
<1>3. CASE ~(~vwFlags.hidden \/ vwFlags.finished)
  <2>1. vwPage = "formatFinished" /\ UNCHANGED <<vwMode, vwThread, vwVolumes>>
    BY <1>3 DEF Wizard!FormatFinishedNext, Wizard!At
  <2>2. \E mounted \in {"failed", vwTarget.path} : Wizard!Examine("formatFinished", mounted)
    BY <1>3, <2>1 DEF Wizard!FormatFinishedNext, Wizard!At
  <2>3. vwTarget.path \in Wizard!Paths /\ vwFlags.hidden /\ ~vwFlags.finished
                                       /\ vwMode # "system"
    BY <1>3, <2>1 DEF WizardInv, WizardShapes, WizardTargets, ModeInv, TargetInv, Created,
                      Wizard!CreatingHiddenSysVol, Wizard!Devices, EarlyPages, Wizard!Inner,
                      InnerPages, Wizard!NoFlags, Wizard!NoTarget, Wizard!Paths, SizedPages,
                      SystemPageSet
  <2>4. PICK mounted \in Wizard!Paths \cup {"failed"} :
          /\ Wizard!Examine("formatFinished", mounted)
          /\ mounted # "failed" => mounted = vwTarget.path
    BY <1>3, <2>1, <2>2, <2>3
  <2>5. \/ vwHost' \in WizardHosts /\ UNCHANGED <<vwPage, vwFlags, vwTarget>>
        \/ /\ vwHost' = [drive |-> "none", scanned |-> vwTarget.path]
           /\ vwHost' \in WizardHosts /\ vwFlags' \in WizardFlags /\ vwTarget' \in WizardTargets
           /\ ~vwFlags'.host /\ ~vwFlags'.finished /\ vwFlags'.hidden = vwFlags.hidden
           /\ vwFlags'.hiddenOS = vwFlags.hiddenOS /\ vwFlags'.inPlace = vwFlags.inPlace
           /\ vwFlags'.resumed = vwFlags.resumed
           /\ vwPage' = "hiddenPreCipher" /\ vwTarget'.path = vwTarget.path
           /\ vwTarget'.size = IF vwFlags.hiddenOS THEN "system" ELSE "none"
    BY <1>3, <2>1, <2>2, <2>3, <2>4, Examined DEF WizardInv
  <2>6. WizardShapes'
    BY <1>3, <2>1, <2>3, <2>5, NothingChosen DEF WizardShapes, WizardInv, WizardModes
  <2>7. FlagsInv'
    BY <1>3, <2>1, <2>3, <2>5 DEF WizardInv, FlagsInv, Wizard!Inner, InnerPages
  <2>8. ModeInv'
    BY <1>3, <2>1, <2>3, <2>5, NothingChosen
       DEF WizardInv, PathsDiffer, ModeInv, Wizard!Devices, Wizard!Inner, InnerPages,
           Wizard!NoFlags, Wizard!NoTarget, SystemPageSet
  <2>9. TargetInv'
    BY <1>3, <2>1, <2>3, <2>5 DEF WizardInv, PathsDiffer, TargetInv, Created,
                                  Wizard!CreatingHiddenSysVol, Wizard!Devices, EarlyPages,
                                  Wizard!Inner, SizedPages
  <2>10. VolumesInv'
    BY <1>3, <2>1, <2>3, <2>5 DEF WizardInv, PathsDiffer, FlagsInv, VolumesInv, Created,
                                  Wizard!Devices, Wizard!Inner, InnerPages, Wizard!ThreadActive
  <2> QED
    BY <2>6, <2>7, <2>8, <2>9, <2>10 DEF WizardInv
<1> QED
  BY <1>1, <1>2, <1>3 DEF Wizard!FormatFinishedNext

LEMMA PrepareFailsStep ==
    ASSUME PathsDiffer, WizardInv, Wizard!PrepareFails
    PROVE  WizardInv'
<1>1. WizardShapes'
  BY FlagsWith, NothingChosen DEF WizardInv, WizardShapes, WizardModes, Wizard!At,
                                  Wizard!ChangeMode, Wizard!PrepareFails
<1>2. FlagsInv'
  BY DEF WizardInv, FlagsInv, Wizard!At, Wizard!ChangeMode, Wizard!Inner, InnerPages,
         Wizard!NoTarget, Wizard!PrepareFails, Wizard!ThreadActive
<1>3. ModeInv'
  BY DEF WizardInv, PathsDiffer, FlagsInv, ModeInv, Wizard!At, Wizard!ChangeMode,
         Wizard!Devices, Wizard!Inner, InnerPages, Wizard!NoFlags, Wizard!NoTarget,
         Wizard!PrepareFails, SystemPageSet, Wizard!ThreadActive
<1>4. TargetInv'
  BY DEF WizardInv, PathsDiffer, TargetInv, Wizard!At, Wizard!ChangeMode, Created,
         Wizard!CreatingHiddenSysVol, Wizard!Devices, EarlyPages, Wizard!Inner, Wizard!NoTarget,
         Wizard!PrepareFails, SizedPages, Wizard!ThreadActive
<1>5. VolumesInv'
  BY DEF WizardInv, PathsDiffer, VolumesInv, Wizard!At, Wizard!ChangeMode, Created,
         Wizard!Devices, Wizard!Inner, InnerPages, Wizard!NoTarget, Wizard!PrepareFails,
         Wizard!ThreadActive
<1> QED
  BY <1>1, <1>2, <1>3, <1>4, <1>5 DEF WizardInv

LEMMA FormatFinishedBackStep ==
    ASSUME PathsDiffer, WizardInv, Wizard!FormatFinishedBack
    PROVE  WizardInv'
<1>1. WizardShapes'
  BY DEF WizardInv, WizardShapes, Wizard!At, Wizard!FormatFinishedBack, Wizard!Go
<1>2. FlagsInv'
  BY DEF WizardInv, FlagsInv, Wizard!At, Wizard!FormatFinishedBack, Wizard!Go, Wizard!Inner,
         InnerPages, Wizard!ThreadActive
<1>3. ModeInv'
  BY DEF WizardInv, PathsDiffer, ModeInv, Wizard!At, Wizard!Devices, Wizard!FormatFinishedBack,
         Wizard!Go, Wizard!Inner, InnerPages, Wizard!NoFlags, Wizard!NoTarget, SystemPageSet,
         Wizard!ThreadActive
<1>4. TargetInv'
  BY DEF WizardInv, PathsDiffer, TargetInv, Wizard!At, Created, Wizard!CreatingHiddenSysVol,
         Wizard!Devices, EarlyPages, Wizard!FormatFinishedBack, Wizard!Go, Wizard!Inner,
         SizedPages, Wizard!ThreadActive
<1>5. VolumesInv'
  BY DEF WizardInv, PathsDiffer, VolumesInv, Wizard!At, Created, Wizard!Devices,
         Wizard!FormatFinishedBack, Wizard!Go, Wizard!Inner, InnerPages, Wizard!ThreadActive
<1> QED
  BY <1>1, <1>2, <1>3, <1>4, <1>5 DEF WizardInv

LEMMA ResumePasswordNextStep ==
    ASSUME PathsDiffer, WizardInv, Wizard!ResumePasswordNext
    PROVE  WizardInv'
<1>1. WizardShapes'
  BY DEF WizardInv, WizardShapes, WizardTargets, Wizard!At, Wizard!Devices, Wizard!Paths,
         Wizard!ResumePasswordNext
<1>2. FlagsInv'
  BY DEF WizardInv, PathsDiffer, FlagsInv, ModeInv, Wizard!At, Wizard!Devices, Wizard!Inner,
         InnerPages, Wizard!NoFlags, Wizard!NoTarget, Wizard!ResumePasswordNext, SystemPageSet,
         Wizard!ThreadActive
<1>3. ModeInv'
  BY DEF WizardInv, PathsDiffer, ModeInv, Wizard!At, Wizard!Devices, Wizard!Inner, InnerPages,
         Wizard!NoFlags, Wizard!NoTarget, Wizard!ResumePasswordNext, SystemPageSet,
         Wizard!ThreadActive
<1>4. TargetInv'
  BY DEF WizardInv, PathsDiffer, FlagsInv, ModeInv, TargetInv, Wizard!At, Created,
         Wizard!CreatingHiddenSysVol, Wizard!Devices, EarlyPages, Wizard!Inner, InnerPages,
         Wizard!NoFlags, Wizard!NoTarget, SizedPages, Wizard!ResumePasswordNext, SystemPageSet,
         Wizard!ThreadActive
<1>5. VolumesInv'
  BY DEF WizardInv, PathsDiffer, VolumesInv, Wizard!At, Created, Wizard!Devices, Wizard!Inner,
         InnerPages, Wizard!ResumePasswordNext, Wizard!ThreadActive
<1> QED
  BY <1>1, <1>2, <1>3, <1>4, <1>5 DEF WizardInv

LEMMA SelectPartitionStep ==
    ASSUME PathsDiffer, WizardInv, Wizard!SelectPartition
    PROVE  WizardInv'
<1>1. WizardShapes'
  BY DEF WizardInv, WizardShapes, WizardTargets, Wizard!At, Wizard!Devices, Wizard!Paths,
         Wizard!SelectPartition
<1>2. FlagsInv'
  BY DEF WizardInv, PathsDiffer, FlagsInv, ModeInv, Wizard!At, Wizard!Devices, Wizard!Inner,
         InnerPages, Wizard!NoFlags, Wizard!NoTarget, Wizard!SelectPartition, SystemPageSet,
         Wizard!ThreadActive
<1>3. ModeInv'
  BY DEF WizardInv, PathsDiffer, ModeInv, Wizard!At, Wizard!Devices, Wizard!Inner, InnerPages,
         Wizard!NoFlags, Wizard!NoTarget, Wizard!SelectPartition, SystemPageSet,
         Wizard!ThreadActive
<1>4. TargetInv'
  BY DEF WizardInv, PathsDiffer, FlagsInv, ModeInv, TargetInv, Wizard!At, Created,
         Wizard!CreatingHiddenSysVol, Wizard!Devices, EarlyPages, Wizard!Inner, InnerPages,
         Wizard!NoFlags, Wizard!NoTarget, SizedPages, Wizard!SelectPartition, SystemPageSet,
         Wizard!ThreadActive
<1>5. VolumesInv'
  BY DEF WizardInv, PathsDiffer, VolumesInv, Wizard!At, Created, Wizard!Devices, Wizard!Inner,
         InnerPages, Wizard!SelectPartition, Wizard!ThreadActive
<1> QED
  BY <1>1, <1>2, <1>3, <1>4, <1>5 DEF WizardInv

LEMMA FormatNextStep == ASSUME PathsDiffer, WizardInv, Wizard!FormatNext PROVE WizardInv'
<1>1. WizardShapes'
  BY ThreadWith, NothingChosen DEF WizardInv, WizardShapes, Wizard!At, Wizard!FormatNext
<1>2. FlagsInv'
  BY DEF WizardInv, FlagsInv, Wizard!At, Wizard!FormatNext, Wizard!Inner, InnerPages,
         Wizard!NoHost, Wizard!ThreadActive
<1>3. ModeInv'
  BY DEF WizardInv, PathsDiffer, ModeInv, Wizard!At, Wizard!Devices, Wizard!FormatNext,
         Wizard!Inner, InnerPages, Wizard!NoFlags, Wizard!NoHost, Wizard!NoTarget,
         SystemPageSet, Wizard!ThreadActive
<1>4. TargetInv'
  BY DEF WizardInv, PathsDiffer, TargetInv, Wizard!At, Created, Wizard!CreatingHiddenSysVol,
         Wizard!Devices, EarlyPages, Wizard!FormatNext, Wizard!Inner, Wizard!NoHost, SizedPages,
         Wizard!ThreadActive
<1>5. VolumesInv'
  BY DEF WizardInv, PathsDiffer, VolumesInv, Wizard!At, Created, Wizard!Devices,
         Wizard!FormatNext, Wizard!Inner, InnerPages, Wizard!NoHost, Wizard!ThreadActive
<1> QED
  BY <1>1, <1>2, <1>3, <1>4, <1>5 DEF WizardInv

LEMMA InPlaceNextStep ==
    ASSUME PathsDiffer, WizardInv, Wizard!InPlaceNext
    PROVE  WizardInv'
<1>1. WizardShapes'
  BY ThreadWith DEF WizardInv, WizardShapes, Wizard!At, Wizard!InPlaceNext
<1>2. FlagsInv'
  BY DEF WizardInv, FlagsInv, Wizard!At, Wizard!InPlaceNext, Wizard!Inner, InnerPages,
         Wizard!ThreadActive
<1>3. ModeInv'
  BY DEF WizardInv, PathsDiffer, ModeInv, Wizard!At, Wizard!Devices, Wizard!InPlaceNext,
         Wizard!Inner, InnerPages, Wizard!NoFlags, Wizard!NoTarget, SystemPageSet,
         Wizard!ThreadActive
<1>4. TargetInv'
  BY DEF WizardInv, PathsDiffer, TargetInv, Wizard!At, Created, Wizard!CreatingHiddenSysVol,
         Wizard!Devices, EarlyPages, Wizard!InPlaceNext, Wizard!Inner, SizedPages,
         Wizard!ThreadActive
<1>5. VolumesInv'
  BY DEF WizardInv, PathsDiffer, VolumesInv, Wizard!At, Created, Wizard!Devices,
         Wizard!InPlaceNext, Wizard!Inner, InnerPages, Wizard!ThreadActive
<1> QED
  BY <1>1, <1>2, <1>3, <1>4, <1>5 DEF WizardInv

LEMMA RunStep == ASSUME PathsDiffer, WizardInv, Wizard!Run PROVE WizardInv'
<1>1. WizardShapes'
  BY ThreadWith DEF WizardInv, WizardShapes, Wizard!Run
<1>2. FlagsInv'
  BY DEF WizardInv, FlagsInv, Wizard!Inner, InnerPages, Wizard!Run
<1>3. ModeInv'
  BY DEF WizardInv, PathsDiffer, ModeInv, Wizard!Devices, Wizard!Inner, InnerPages,
         Wizard!NoFlags, Wizard!NoTarget, Wizard!Run, SystemPageSet
<1>4. TargetInv'
  BY DEF WizardInv, PathsDiffer, TargetInv, Created, Wizard!CreatingHiddenSysVol,
         Wizard!Devices, EarlyPages, Wizard!Inner, SizedPages, Wizard!Run
<1>5. VolumesInv'
  BY DEF WizardInv, PathsDiffer, VolumesInv, Created, Wizard!Devices, Wizard!Inner, InnerPages,
         Wizard!Run, Wizard!ThreadActive
<1> QED
  BY <1>1, <1>2, <1>3, <1>4, <1>5 DEF WizardInv

LEMMA TransformEndsStep ==
    ASSUME PathsDiffer, WizardInv, Wizard!TransformEnds
    PROVE  WizardInv'
<1>1. /\ vwPage = "format" /\ vwThread.state = "running"
      /\ vwThread' = [vwThread EXCEPT !.state = "idle", !.cancel = FALSE]
      /\ UNCHANGED <<vwPage, vwMode, vwFlags, vwTarget>>
  BY DEF Wizard!TransformEnds, Wizard!Stopped
<1>2. vwTarget.path \in Wizard!Paths /\ vwMode # "system"
  BY <1>1 DEF WizardInv, WizardShapes, WizardTargets, ModeInv, TargetInv, Created,
              Wizard!CreatingHiddenSysVol, Wizard!Devices, EarlyPages, Wizard!Inner, InnerPages,
              Wizard!NoFlags, Wizard!NoTarget, Wizard!Paths, SizedPages, SystemPageSet
<1>3. PICK after \in {vwVolumes[vwTarget.path]}
                        \cup (IF Wizard!Inner THEN {} ELSE {"damaged", "outer"}) :
        /\ vwVolumes' = [vwVolumes EXCEPT ![vwTarget.path] = after]
        /\ vwHost' \in {vwHost} \cup (IF vwFlags.host /\ vwThread.cancel /\ after = "outer"
                                     THEN {[vwHost EXCEPT !.drive = vwTarget.path]} ELSE {})
  BY <1>1, <1>2 DEF Wizard!TransformEnds
<1>4. vwVolumes' \in [Wizard!Paths -> VolumeKinds] /\ (Wizard!Inner => vwVolumes' = vwVolumes)
  BY <1>1, <1>2, <1>3 DEF WizardInv, WizardShapes, VolumeKinds
<1>5. /\ vwHost' \in WizardHosts /\ (~vwFlags.host => vwHost' = vwHost)
  BY <1>1, <1>2, <1>3, <1>4 DEF WizardInv, WizardShapes, WizardHosts
<1>6. vwThread' \in WizardThreads /\ vwThread'.state = "idle"
  BY <1>1, <1>2, <1>3, <1>4, <1>5, ThreadWith DEF WizardInv, WizardShapes, WizardThreads
<1>7. WizardShapes'
  BY <1>1, <1>2, <1>3, <1>4, <1>5, <1>6, NothingChosen DEF WizardShapes, WizardInv, WizardModes
<1>8. FlagsInv'
  BY <1>1, <1>2, <1>3, <1>4, <1>5, <1>6 DEF WizardInv, FlagsInv, Wizard!Inner, InnerPages
<1>9. ModeInv'
  BY <1>1, <1>2, <1>3, <1>4, <1>5, <1>6, NothingChosen
     DEF WizardInv, PathsDiffer, ModeInv, Wizard!Devices, Wizard!Inner, InnerPages,
         Wizard!NoFlags, Wizard!NoTarget, SystemPageSet
<1>10. TargetInv'
  BY <1>1, <1>2, <1>3, <1>4, <1>5, <1>6 DEF WizardInv, PathsDiffer, TargetInv, Created,
                                            Wizard!CreatingHiddenSysVol, Wizard!Devices,
                                            EarlyPages, Wizard!Inner, SizedPages
<1>11. VolumesInv'
  BY <1>1, <1>2, <1>3, <1>4, <1>5, <1>6 DEF WizardInv, PathsDiffer, VolumesInv, Created,
                                            Wizard!Devices, Wizard!Inner, InnerPages,
                                            Wizard!ThreadActive
<1> QED
  BY <1>7, <1>8, <1>9, <1>10, <1>11 DEF WizardInv

LEMMA TransformSucceedsStep ==
    ASSUME PathsDiffer, WizardInv, Wizard!TransformSucceeds
    PROVE  WizardInv'
<1>1. CASE /\ vwFlags.host => ~vwThread.cancel
           /\ vwPage' = "formatFinished" /\ UNCHANGED <<vwMode, vwTarget>>
           /\ vwThread' = [vwThread EXCEPT !.state = "idle", !.cancel = FALSE]
           /\ vwVolumes' =
                [vwVolumes EXCEPT ![vwTarget.path] = IF Wizard!Inner THEN "both" ELSE "outer"]
           /\ vwFlags' = IF vwFlags.host THEN [vwFlags EXCEPT !.host = FALSE, !.finished = FALSE]
                         ELSE IF vwFlags.hidden THEN [vwFlags EXCEPT !.finished = TRUE] ELSE vwFlags
           /\ vwHost' = IF vwFlags.host THEN [vwHost EXCEPT !.drive = vwTarget.path] ELSE vwHost
  <2>1. /\ vwPage = "format" /\ vwTarget.path \in Wizard!Paths /\ vwMode # "system"
    BY <1>1 DEF WizardInv, WizardShapes, WizardTargets, ModeInv, TargetInv, Created,
                Wizard!CreatingHiddenSysVol, Wizard!Devices, EarlyPages, Wizard!Inner,
                InnerPages, Wizard!NoFlags, Wizard!NoHost, Wizard!NoTarget, Wizard!NoThread,
                Wizard!Paths, SizedPages, Wizard!Reset, Wizard!Stopped, SystemPageSet,
                Wizard!TransformSucceeds
  <2>2. vwFlags' \in WizardFlags
    BY <1>1, <2>1, FlagsWith DEF WizardInv, WizardShapes
  <2>3. /\ ~vwFlags'.host /\ vwFlags'.hidden = vwFlags.hidden
        /\ vwFlags'.hiddenOS = vwFlags.hiddenOS
        /\ vwFlags'.inPlace = vwFlags.inPlace /\ vwFlags'.resumed = vwFlags.resumed
        /\ vwFlags'.finished = (Wizard!Inner \/ (~vwFlags.hidden /\ vwFlags.finished))
    BY <1>1, <2>1, <2>2 DEF WizardInv, WizardShapes, WizardFlags, Wizard!Inner, FlagsInv
  <2>4. /\ vwHost' \in WizardHosts /\ (~vwFlags.host => vwHost' = vwHost)
    BY <1>1, <2>1, <2>2, <2>3 DEF WizardInv, WizardShapes, WizardHosts
  <2>5. vwThread' \in WizardThreads /\ vwThread'.state = "idle"
    BY <1>1, <2>1, <2>2, <2>3, <2>4, ThreadWith DEF WizardInv, WizardShapes, WizardThreads
  <2>6. /\ vwVolumes' \in [Wizard!Paths -> VolumeKinds]
        /\ vwVolumes'[vwTarget.path] = IF Wizard!Inner THEN "both" ELSE "outer"
    BY <1>1, <2>1, <2>2, <2>3, <2>4, <2>5 DEF WizardInv, WizardShapes, VolumeKinds
  <2>7. WizardShapes'
    BY <1>1, <2>1, <2>2, <2>3, <2>4, <2>5, <2>6, NothingChosen
       DEF WizardShapes, WizardInv, WizardModes
  <2>8. FlagsInv'
    BY <1>1, <2>1, <2>2, <2>3, <2>4, <2>5, <2>6
       DEF WizardInv, FlagsInv, Wizard!Inner, InnerPages
  <2>9. ModeInv'
    BY <1>1, <2>1, <2>2, <2>3, <2>4, <2>5, <2>6, NothingChosen
       DEF WizardInv, PathsDiffer, ModeInv, Wizard!Devices, Wizard!Inner, InnerPages,
           Wizard!NoFlags, Wizard!NoTarget, SystemPageSet
  <2>10. TargetInv'
    BY <1>1, <2>1, <2>2, <2>3, <2>4, <2>5, <2>6
       DEF WizardInv, PathsDiffer, TargetInv, Created, Wizard!CreatingHiddenSysVol,
           Wizard!Devices, EarlyPages, Wizard!Inner, SizedPages
  <2>11. VolumesInv'
    BY <1>1, <2>1, <2>2, <2>3, <2>4, <2>5, <2>6, NothingChosen
       DEF WizardInv, PathsDiffer, FlagsInv, ModeInv, VolumesInv, Created, Wizard!Devices,
           Wizard!Inner, InnerPages, Wizard!NoFlags, Wizard!NoTarget, SystemPageSet,
           Wizard!ThreadActive
  <2> QED
    BY <2>7, <2>8, <2>9, <2>10, <2>11 DEF WizardInv
<1>2. CASE /\ vwFlags.host /\ ~vwThread.asking
           /\ Wizard!Reset([[vwVolumes EXCEPT ![vwTarget.path] =
                                IF Wizard!Inner THEN "both" ELSE "outer"] EXCEPT
                       ![ContainerPath] = IF @ = vwVolumes[ContainerPath] THEN @ ELSE "damaged"])
  <2>1. /\ vwPage' = "closed" /\ vwMode' = "file" /\ vwFlags' = Wizard!NoFlags
        /\ vwTarget' = Wizard!NoTarget /\ vwHost' = Wizard!NoHost /\ vwThread' = Wizard!NoThread
    BY <1>2 DEF Wizard!Reset
  <2>2. vwVolumes' \in [Wizard!Paths -> VolumeKinds]
    BY <1>2, <2>1 DEF Wizard!Reset, WizardInv, WizardShapes, VolumeKinds
  <2>3. WizardShapes'
    BY <1>2, <2>1, <2>2, NothingChosen DEF WizardShapes, WizardInv, WizardModes
  <2>4. FlagsInv'
    BY <1>2, <2>1, <2>2, NothingChosen DEF WizardInv, FlagsInv, Wizard!Inner, InnerPages,
                                           Wizard!NoTarget
  <2>5. ModeInv'
    BY <1>2, <2>1, <2>2, NothingChosen DEF WizardInv, PathsDiffer, ModeInv, Wizard!Devices,
                                           Wizard!Inner, InnerPages, Wizard!NoFlags,
                                           Wizard!NoTarget, SystemPageSet
  <2>6. TargetInv'
    BY <1>2, <2>1, <2>2, NothingChosen DEF WizardInv, PathsDiffer, TargetInv, Created,
                                           Wizard!CreatingHiddenSysVol, Wizard!Devices,
                                           EarlyPages, Wizard!Inner, Wizard!NoTarget, SizedPages
  <2>7. VolumesInv'
    BY <1>2, <2>1, <2>2, NothingChosen DEF WizardInv, PathsDiffer, VolumesInv, Created,
                                           Wizard!Devices, Wizard!Inner, InnerPages,
                                           Wizard!NoTarget, Wizard!ThreadActive
  <2> QED
    BY <2>3, <2>4, <2>5, <2>6, <2>7 DEF WizardInv
<1> QED
  BY <1>1, <1>2 DEF Wizard!TransformSucceeds, Wizard!Stopped

LEMMA InPlaceBeginsStep ==
    ASSUME PathsDiffer, WizardInv, Wizard!InPlaceBegins
    PROVE  WizardInv'
<1>1. WizardShapes'
  BY FlagsWith DEF WizardInv, WizardShapes, VolumeKinds, Wizard!InPlaceBegins
<1>2. FlagsInv'
  BY DEF WizardInv, FlagsInv, Wizard!InPlaceBegins, Wizard!Inner, InnerPages
<1>3. ModeInv'
  BY DEF WizardInv, PathsDiffer, ModeInv, Wizard!Devices, Wizard!InPlaceBegins, Wizard!Inner,
         InnerPages, Wizard!NoFlags, Wizard!NoTarget, SystemPageSet
<1>4. TargetInv'
  BY DEF WizardInv, PathsDiffer, TargetInv, Created, Wizard!CreatingHiddenSysVol,
         Wizard!Devices, EarlyPages, Wizard!InPlaceBegins, Wizard!Inner, SizedPages
<1>5. VolumesInv'
  BY DEF WizardInv, WizardShapes, WizardModes, WizardFlags, WizardTargets, WizardHosts,
         WizardThreads, VolumeKinds, PathsDiffer, FlagsInv, ModeInv, TargetInv, VolumesInv,
         Created, Wizard!CreatingHiddenSysVol, Wizard!Devices, EarlyPages, Wizard!InPlaceBegins,
         Wizard!Inner, InnerPages, Wizard!NoFlags, Wizard!NoTarget, Wizard!Paths, SizedPages,
         SystemPageSet, Wizard!ThreadActive
<1> QED
  BY <1>1, <1>2, <1>3, <1>4, <1>5 DEF WizardInv

LEMMA InPlaceEndsStep ==
    ASSUME PathsDiffer, WizardInv, Wizard!InPlaceEnds
    PROVE  WizardInv'
<1>1. /\ vwPage = "inPlace" /\ vwThread.state = "running"
      /\ vwThread' = [vwThread EXCEPT !.state = "idle", !.cancel = FALSE]
      /\ UNCHANGED <<vwMode, vwFlags, vwTarget, vwHost>>
  BY DEF Wizard!InPlaceEnds, Wizard!Stopped
<1>2. vwTarget.path \in Wizard!Paths /\ vwMode = "device"
  BY <1>1 DEF WizardInv, WizardShapes, WizardTargets, FlagsInv, TargetInv, Created,
              Wizard!CreatingHiddenSysVol, Wizard!Devices, EarlyPages, Wizard!Inner, InnerPages,
              Wizard!Paths, SizedPages
<1>3. \/ UNCHANGED <<vwPage, vwVolumes>>
      \/ /\ vwFlags.resumed /\ vwPage' = "inPlaceFinished"
         /\ vwVolumes' = [vwVolumes EXCEPT ![vwTarget.path] = "outer"]
  BY <1>1, <1>2 DEF Wizard!InPlaceEnds
<1>4. vwVolumes' \in [Wizard!Paths -> VolumeKinds]
  BY <1>1, <1>2, <1>3 DEF WizardInv, WizardShapes, VolumeKinds
<1>5. vwThread' \in WizardThreads /\ vwThread'.state = "idle"
  BY <1>1, <1>2, <1>3, <1>4, ThreadWith DEF WizardInv, WizardShapes, WizardThreads
<1>6. WizardShapes'
  BY <1>1, <1>2, <1>3, <1>4, <1>5, NothingChosen DEF WizardShapes, WizardInv, WizardModes
<1>7. FlagsInv'
  BY <1>1, <1>2, <1>3, <1>4, <1>5 DEF WizardInv, FlagsInv, Wizard!Inner, InnerPages
<1>8. ModeInv'
  BY <1>1, <1>2, <1>3, <1>4, <1>5, NothingChosen
     DEF WizardInv, PathsDiffer, ModeInv, Wizard!Devices, Wizard!Inner, InnerPages,
         Wizard!NoFlags, Wizard!NoTarget, SystemPageSet
<1>9. TargetInv'
  BY <1>1, <1>2, <1>3, <1>4, <1>5 DEF WizardInv, PathsDiffer, TargetInv, Created,
                                      Wizard!CreatingHiddenSysVol, Wizard!Devices, EarlyPages,
                                      Wizard!Inner, SizedPages
<1>10. VolumesInv'
  BY <1>1, <1>2, <1>3, <1>4, <1>5 DEF WizardInv, PathsDiffer, VolumesInv, Created,
                                      Wizard!Devices, Wizard!Inner, InnerPages,
                                      Wizard!ThreadActive
<1> QED
  BY <1>6, <1>7, <1>8, <1>9, <1>10 DEF WizardInv

LEMMA AskToStopStep == ASSUME PathsDiffer, WizardInv, Wizard!AskToStop PROVE WizardInv'
<1>1. WizardShapes'
  BY ThreadWith DEF WizardInv, WizardShapes, Wizard!AskToStop
<1>2. FlagsInv'
  BY DEF WizardInv, FlagsInv, Wizard!AskToStop, Wizard!Inner, InnerPages, Wizard!ThreadActive
<1>3. ModeInv'
  BY DEF WizardInv, PathsDiffer, ModeInv, Wizard!AskToStop, Wizard!Devices, Wizard!Inner,
         InnerPages, Wizard!NoFlags, Wizard!NoTarget, SystemPageSet, Wizard!ThreadActive
<1>4. TargetInv'
  BY DEF WizardInv, PathsDiffer, TargetInv, Wizard!AskToStop, Created,
         Wizard!CreatingHiddenSysVol, Wizard!Devices, EarlyPages, Wizard!Inner, SizedPages,
         Wizard!ThreadActive
<1>5. VolumesInv'
  BY DEF WizardInv, PathsDiffer, VolumesInv, Wizard!AskToStop, Created, Wizard!Devices,
         Wizard!Inner, InnerPages, Wizard!ThreadActive
<1> QED
  BY <1>1, <1>2, <1>3, <1>4, <1>5 DEF WizardInv

LEMMA ConfirmStopStep ==
    ASSUME PathsDiffer, WizardInv, Wizard!ConfirmStop
    PROVE  WizardInv'
<1>1. /\ vwThread' \in {[vwThread EXCEPT !.asking = FALSE, !.cancel = c] :
                           c \in {TRUE, vwThread.cancel}}
      /\ UNCHANGED <<vwPage, vwMode, vwFlags, vwTarget, vwHost, vwVolumes>>
  BY DEF Wizard!ConfirmStop
<1>2. PICK c \in BOOLEAN : vwThread' = [vwThread EXCEPT !.asking = FALSE, !.cancel = c]
  BY <1>1 DEF WizardInv, WizardShapes, WizardThreads
<1>3. vwThread' \in WizardThreads
  BY <1>1, <1>2, ThreadWith DEF WizardInv, WizardShapes
<1>4. vwThread'.state = vwThread.state
  BY <1>1, <1>2, <1>3 DEF WizardInv, WizardShapes, WizardThreads
<1>5. WizardShapes'
  BY <1>1, <1>2, <1>3, <1>4, NothingChosen DEF WizardShapes, WizardInv, WizardModes
<1>6. FlagsInv'
  BY <1>1, <1>2, <1>3, <1>4 DEF WizardInv, FlagsInv, Wizard!Inner, InnerPages
<1>7. ModeInv'
  BY <1>1, <1>2, <1>3, <1>4, NothingChosen
     DEF WizardInv, PathsDiffer, ModeInv, Wizard!Devices, Wizard!Inner, InnerPages,
         Wizard!NoFlags, Wizard!NoTarget, SystemPageSet
<1>8. TargetInv'
  BY <1>1, <1>2, <1>3, <1>4 DEF WizardInv, PathsDiffer, TargetInv, Created,
                                Wizard!CreatingHiddenSysVol, Wizard!Devices, EarlyPages,
                                Wizard!Inner, SizedPages
<1>9. VolumesInv'
  BY <1>1, <1>2, <1>3, <1>4 DEF WizardInv, PathsDiffer, VolumesInv, Created, Wizard!Devices,
                                Wizard!Inner, InnerPages, Wizard!ThreadActive
<1> QED
  BY <1>5, <1>6, <1>7, <1>8, <1>9 DEF WizardInv

LEMMA WizardStep ==
    ASSUME PathsDiffer
    PROVE  WizardInv /\ [Wizard!Next]_(Wizard!vwVars) => WizardInv'
<1> SUFFICES ASSUME WizardInv, [Wizard!Next]_(Wizard!vwVars) PROVE WizardInv'
  OBVIOUS
<1>1. CASE Wizard!Launch
  BY <1>1, LaunchStep
<1>2. CASE Wizard!Quit
  BY <1>2, QuitStep
<1>3. CASE \E m \in {"file", "device", "system"} : Wizard!ChooseWizardMode(m)
  BY <1>3, ChooseWizardModeStep DEF WizardModes
<1>4. CASE \E b \in BOOLEAN : Wizard!SetHiddenSystem(b)
  BY <1>4, SetHiddenSystemStep
<1>5. CASE \E b \in BOOLEAN : Wizard!SetWholeDrive(b)
  BY <1>5, SetWholeDriveStep
<1>6. CASE \E b \in BOOLEAN : Wizard!SetHiddenVolume(b)
  BY <1>6, SetHiddenVolumeStep
<1>7. CASE \E b \in BOOLEAN : Wizard!SetDirect(b)
  BY <1>7, SetDirectStep
<1>8. CASE \E b \in BOOLEAN : Wizard!SetInPlace(b)
  BY <1>8, SetInPlaceStep
<1>9. CASE Wizard!SystemTypeNext
  BY <1>9, SystemTypeNextStep
<1>10. CASE Wizard!MultiBootNext
  BY <1>10, MultiBootNextStep
<1>11. CASE Wizard!SystemPages
  BY <1>11, SystemPagesStep
<1>12. CASE Wizard!TypeNext
  BY <1>12, TypeNextStep
<1>13. CASE \E p \in Wizard!Paths : Wizard!SelectPath(p)
  BY <1>13, SelectPathStep
<1>14. CASE Wizard!LocationNext
  BY <1>14, LocationNextStep
<1>15. CASE Wizard!LocationSwitch
  BY <1>15, LocationSwitchStep
<1>16. CASE Wizard!TransformNext
  BY <1>16, TransformNextStep
<1>17. CASE Wizard!HostPreCipherBack
  BY <1>17, HostPreCipherBackStep
<1>18. CASE Wizard!CipherNext
  BY <1>18, CipherNextStep
<1>19. CASE Wizard!CipherBack
  BY <1>19, CipherBackStep
<1>20. CASE Wizard!SizeNext
  BY <1>20, SizeNextStep
<1>21. CASE Wizard!PasswordNext
  BY <1>21, PasswordNextStep
<1>22. CASE Wizard!VolumePagesNext
  BY <1>22, VolumePagesNextStep
<1>23. CASE Wizard!VolumePagesBack
  BY <1>23, VolumePagesBackStep
<1>24. CASE Wizard!HostPasswordNext
  BY <1>24, HostPasswordNextStep
<1>25. CASE Wizard!FormatFinishedNext
  BY <1>25, FormatFinishedNextStep
<1>26. CASE Wizard!PrepareFails
  BY <1>26, PrepareFailsStep
<1>27. CASE Wizard!FormatFinishedBack
  BY <1>27, FormatFinishedBackStep
<1>28. CASE Wizard!ResumePasswordNext
  BY <1>28, ResumePasswordNextStep
<1>29. CASE Wizard!SelectPartition
  BY <1>29, SelectPartitionStep
<1>30. CASE Wizard!FormatNext
  BY <1>30, FormatNextStep
<1>31. CASE Wizard!InPlaceNext
  BY <1>31, InPlaceNextStep
<1>32. CASE Wizard!Run
  BY <1>32, RunStep
<1>33. CASE Wizard!TransformEnds
  BY <1>33, TransformEndsStep
<1>34. CASE Wizard!TransformSucceeds
  BY <1>34, TransformSucceedsStep
<1>35. CASE Wizard!InPlaceBegins
  BY <1>35, InPlaceBeginsStep
<1>36. CASE Wizard!InPlaceEnds
  BY <1>36, InPlaceEndsStep
<1>37. CASE Wizard!AskToStop
  BY <1>37, AskToStopStep
<1>38. CASE Wizard!ConfirmStop
  BY <1>38, ConfirmStopStep
<1>39. CASE UNCHANGED Wizard!vwVars
  BY <1>39 DEF Wizard!vwVars, WizardInv, WizardShapes, FlagsInv, ModeInv, TargetInv, VolumesInv,
               Created, Wizard!Inner, Wizard!CreatingHiddenSysVol, Wizard!ThreadActive
<1> QED
  BY <1>1, <1>2, <1>3, <1>4, <1>5, <1>6, <1>7, <1>8, <1>9, <1>10, <1>11, <1>12, <1>13, <1>14,
     <1>15, <1>16, <1>17, <1>18, <1>19, <1>20, <1>21, <1>22, <1>23, <1>24, <1>25, <1>26, <1>27,
     <1>28, <1>29, <1>30, <1>31, <1>32, <1>33, <1>34, <1>35, <1>36, <1>37, <1>38, <1>39
     DEF Wizard!Next

LEMMA StartedAsPlanned == ASSUME PathsDiffer, WizardInv PROVE Wizard!TransformAsPlanned
<1>1. ASSUME vwThread.state = "running", vwPage = "format"
      PROVE  /\ ~vwFlags.inPlace /\ vwTarget.path # "none"
             /\ vwTarget.path \in Wizard!Devices <=> vwMode = "device"
             /\ Wizard!Inner =>
                  /\ vwHost = [drive |-> "none", scanned |-> vwTarget.path]
                  /\ vwTarget.size \in {"inner", "system"}
                  /\ vwVolumes[vwTarget.path] \in {"outer", "both"}
             /\ ~Wizard!Inner => vwTarget.size \in {"device", "container"}
  <2>1. vwMode # "system" /\ vwTarget.path # "none"
    BY <1>1 DEF WizardInv, ModeInv, TargetInv, SystemPageSet, EarlyPages
  <2> QED
    BY <1>1, <2>1 DEF WizardInv, FlagsInv, TargetInv, VolumesInv, InnerPages, SizedPages
<1>2. ASSUME vwThread.state = "running", vwPage = "inPlace"
      PROVE  /\ vwFlags.inPlace /\ ~vwFlags.hidden /\ vwTarget.path \in Wizard!Devices
             /\ vwFlags.resumed => vwVolumes[vwTarget.path] = "partial"
  BY <1>2 DEF WizardInv, FlagsInv, TargetInv, VolumesInv, EarlyPages
<1>3. vwPage = "pretest" => vwVolumes[HiddenSystemPath] = "both"
  BY DEF WizardInv, VolumesInv
<1> QED
  BY <1>1, <1>2, <1>3 DEF Wizard!TransformAsPlanned

LEMMA WizardKeepsPlan ==
    ASSUME PathsDiffer
    PROVE  Spec => [](component = "wizard" => Wizard!TransformAsPlanned)
<1>1. Init /\ component = "wizard" => Wizard!Init
  BY DEF Init
<1>2. [Next]_vars /\ component = "wizard" => [Wizard!Next]_(Wizard!vwVars)
  BY DEF Next, vars, Wizard!vwVars
<1>3. Wizard!Init /\ [][Wizard!Next]_(Wizard!vwVars) => []Wizard!TransformAsPlanned
  BY WizardInit, WizardStep, StartedAsPlanned, PTL
<1>4. /\ component = "wizard" /\ [Next]_vars => (component = "wizard")'
      /\ ~(component = "wizard") /\ [Next]_vars => ~(component = "wizard")'
  BY ComponentStays
<1> QED
  BY <1>1, <1>2, <1>3, <1>4, SumSteps, PTL

(* Whatever way the user takes through the wizard's pages, and whatever the user asks while the
   thread runs, what the thread starts on is what was chosen and examined (VolumeWizard). *)
THEOREM WizardPlans == Spec => []TransformAsPlanned
<1>1. Spec => [](component = "wizard" => Wizard!TransformAsPlanned)
  BY VolumesAssumed, WizardKeepsPlan
<1>2. (component = "wizard" => Wizard!TransformAsPlanned) => TransformAsPlanned
  BY DEF TransformAsPlanned
<1> QED
  BY <1>1, <1>2, PTL

=============================================================================
