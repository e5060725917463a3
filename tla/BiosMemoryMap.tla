---------------------------- MODULE BiosMemoryMap ----------------------------
(* The boot loader stays in memory to decrypt what the system reads through the BIOS, and
   keeps the system from using that memory: it answers requests for the memory map
   (interrupt 15h) from a copy of the BIOS's map in which its area is reserved
   (Boot/Windows/IntFilter.cpp, Boot/Windows/BootMemory.cpp). *)
EXTENDS Integers, Sequences

CONSTANTS
    Cells,                  \* the memory, in cells 0..Cells-1
    LoaderStart, LoaderEnd, \* the loader's area, from the first cell up to before the last
    MaxEntries,             \* bounds the entries of the BIOS's map
    MapSize                 \* TC_MAX_MEMORY_MAP_SIZE

VARIABLES
    bmBios,      \* the BIOS's map, as far as it has been read
    bmMap,       \* BiosMemoryMap
    bmInserted,  \* loaderEntryInserted
    bmPhase,     \* what the loader does
    bmNext,      \* EBX of the system's next request
    bmSeen,      \* the entries that the system was given since its first request
    bmComplete,  \* whether the last request ended the map
    bmIssued,    \* CompleteMapIssueCount
    bmVista      \* TC_BOOT_CFG_FLAG_WINDOWS_VISTA_OR_LATER

bmVars == <<bmBios, bmMap, bmInserted, bmPhase, bmNext, bmSeen, bmComplete, bmIssued, bmVista>>

Free == 1
Reserved == 2
Entry(type, first, end) == [type |-> type, first |-> first, end |-> end]
Entries == {e \in [type : {Free, Reserved}, first : 0..(Cells - 1), end : 1..Cells] :
                e.first < e.end}
CellsOf(e) == e.first..(e.end - 1)
OfType(map, type) == UNION {CellsOf(map[i]) : i \in {j \in DOMAIN map : map[j].type = type}}
Loader == LoaderStart..(LoaderEnd - 1)

Init ==
    /\ bmBios = << >> /\ bmMap = << >> /\ bmInserted = FALSE
    /\ bmPhase = "read" /\ bmNext = 0 /\ bmSeen = << >> /\ bmComplete = FALSE
    /\ bmIssued = 0 /\ bmVista \in BOOLEAN

-----------------------------------------------------------------------------
(* CreateNewBiosMemoryMap, for each entry of the BIOS's map, in any order. *)
RegionsIntersect(e) == e.first < LoaderEnd /\ LoaderStart < e.end

CreateBootLoaderMemoryMapEntry ==
    IF bmInserted THEN << >> ELSE <<Entry(Reserved, LoaderStart, LoaderEnd)>>

\* A free entry that the loader's area lies in is split.
FaultySplit(e) ==
    (IF e.first < LoaderStart THEN <<Entry(Free, e.first, LoaderStart)>> ELSE << >>)
    \o CreateBootLoaderMemoryMapEntry
Split(e) ==
    (IF e.first < LoaderStart THEN <<Entry(Free, e.first, LoaderStart)>> ELSE << >>)
    \o CreateBootLoaderMemoryMapEntry
    \o (IF LoaderEnd < e.end THEN <<Entry(Free, LoaderEnd, e.end)>> ELSE << >>)

\* Another is copied, after the loader's own, which the map has in its order.
Copied(e) ==
    (IF e.first > LoaderStart THEN CreateBootLoaderMemoryMapEntry ELSE << >>) \o <<e>>

Places(e, new, inserts, room) ==
    /\ bmBios' = Append(bmBios, e)
    /\ IF room
       THEN /\ bmMap' = bmMap \o new /\ UNCHANGED bmPhase
            /\ bmInserted' = (bmInserted \/ inserts)
       ELSE bmPhase' = "overflow" /\ UNCHANGED <<bmMap, bmInserted>>
    /\ UNCHANGED <<bmNext, bmSeen, bmComplete, bmIssued, bmVista>>

\* Room is tested for before every entry of a split one, but only once before a copied one
\* and the loader's.
CreateNewBiosMemoryMap ==
    /\ bmPhase = "read" /\ Len(bmBios) < MaxEntries
    /\ \E e \in Entries :
        /\ \A i \in DOMAIN bmBios : CellsOf(e) \cap CellsOf(bmBios[i]) = {}
        /\ IF e.type = Free /\ RegionsIntersect(e)
           THEN Places(e, Split(e), TRUE, Len(bmMap) + Len(Split(e)) <= MapSize)
           ELSE Places(e, Copied(e), e.first > LoaderStart, Len(bmMap) < MapSize)

\* The map has ended; the loader starts the system with its filters, and does not after an
\* overflow.
InstallInterruptFilters ==
    /\ bmPhase = "read" /\ bmPhase' = "filter"
    /\ UNCHANGED <<bmBios, bmMap, bmInserted, bmNext, bmSeen, bmComplete, bmIssued, bmVista>>

-----------------------------------------------------------------------------
(* Int15Filter. The system asks with the EBX of the last answer, zero at first. *)
Answers == IF bmPhase = "filter" THEN bmMap ELSE bmBios
Asked == IF bmComplete \/ bmNext = 0 THEN << >> ELSE bmSeen

\* With an older system the filter goes when the map has been issued three times.
FaultyGoesAfter(ends) == ends /\ ~bmVista
GoesAfter(ends) == ends /\ ~bmVista /\ bmIssued + 1 >= 3

Int15Filter ==
    /\ bmPhase \in {"filter", "uninstalled"}
    /\ LET map == Answers
           ends == bmNext + 1 >= Len(map)
       IN /\ bmSeen' = IF bmNext < Len(map) THEN Append(Asked, map[bmNext + 1]) ELSE Asked
          /\ bmNext' = IF ends THEN 0 ELSE bmNext + 1
          /\ bmComplete' = ends
          /\ bmIssued' = IF ends /\ bmIssued < 4 THEN bmIssued + 1 ELSE bmIssued
          /\ bmPhase' = IF bmPhase = "filter" /\ GoesAfter(ends) THEN "uninstalled" ELSE bmPhase
    /\ UNCHANGED <<bmBios, bmMap, bmInserted, bmVista>>

Next == CreateNewBiosMemoryMap \/ InstallInterruptFilters \/ Int15Filter

-----------------------------------------------------------------------------
TypeOK ==
    /\ \A i \in DOMAIN bmBios : bmBios[i] \in Entries
    /\ \A i \in DOMAIN bmMap : bmMap[i] \in Entries
    /\ bmInserted \in BOOLEAN /\ bmPhase \in {"read", "overflow", "filter", "uninstalled"}
    /\ bmNext \in 0..Len(Answers) /\ Len(bmSeen) <= 2 * MaxEntries + 1
    /\ bmComplete \in BOOLEAN /\ bmIssued \in 0..4 /\ bmVista \in BOOLEAN

(* The system may use what the BIOS says is free, but for the loader's memory, which is told
   to be reserved; the rest of the map is as the BIOS tells it. An older system finds this
   the first three times (CreateNewBiosMemoryMap, Int15Filter). *)
LoaderMemoryKept ==
    bmComplete /\ (bmVista \/ bmIssued <= 3) =>
        /\ OfType(bmSeen, Free) = OfType(bmBios, Free) \ Loader
        /\ Loader \cap OfType(bmBios, Free) \subseteq OfType(bmSeen, Reserved)
        /\ OfType(bmSeen, Reserved) \subseteq OfType(bmBios, Reserved) \cup Loader
        /\ \A i \in DOMAIN bmBios : bmBios[i].type = Reserved =>
              \E j \in DOMAIN bmSeen : bmSeen[j] = bmBios[i]

(* The entries lie within BiosMemoryMap: true of up to MapSize - 1 entries; the one that is
   copied after the loader's, with room for one, is written past the end
   (CreateNewBiosMemoryMap). *)
MapFits == Len(bmMap) <= MapSize
===============================================================================
