----------------------------- MODULE SelfExtract -----------------------------
(* The self-extracting distribution package: how Setup makes one out of its   *)
(* own executable and the files to be distributed (src/Setup/SelfExtract.c),  *)
(* and how the package finds, verifies and extracts its contents when it is   *)
(* launched.  A package is a sequence of cells: the executable, with the area *)
(* that a digital signature changes and a literal of the start marker; the    *)
(* start marker; two sizes; the compressed files; the end marker; a checksum  *)
(* of everything before it; and, once signed, the signature.  A marker is two *)
(* cells long, BufSize cells are searched at a time, and file f compresses to *)
(* size[f] cells.  Checksums are perfect.  The executable cannot hold the end *)
(* marker, which is assembled only at run time.                               *)
EXTENDS Integers, Sequences, SequencesExt, FiniteSetsExt

CONSTANTS NumFiles,       \* NBR_COMPRESSED_FILES
          Sizes,          \* compressed lengths of a file
          BufSize,        \* cells FindStringInFile reads at once
          MaxSignature,   \* longest signature appended
          MaxFaults       \* failures and corruptions

VARIABLES size,      \* compressed length of each file
          maker,     \* progress of MakeSelfExtractingPackage
          package,   \* the package file; <<>> when there is none
          sum,       \* what the checksum in the package was computed over
          signed,    \* the package was digitally signed
          setup,     \* progress of the launched package
          memory,    \* files in Decompressed_Files
          dest,      \* the files in the destination folder
          faults
exVars == <<size, maker, package, sum, signed, setup, memory, dest, faults>>

Files == 1..NumFiles
Cell(kind, n) == [kind |-> kind, n |-> n]
StartMarker == <<Cell("start", 1), Cell("start", 2)>>
MagEndMarker == <<Cell("end", 1), Cell("end", 2)>>
Executable == <<Cell("code", 1), Cell("unsigned", 0)>> \o StartMarker \o <<Cell("code", 2)>>
Bad == Cell("bad", 0)

Compressed(f) == [i \in 1..size[f] |-> Cell("data", f)]
Archive == FlattenSeq([f \in Files |-> Compressed(f)])

(* What a failing operation costs: the numbers of faults left *)
Fault == faults > 0 /\ faults' = faults - 1

----------------------------------------------------------------------------
(* Where FindStringInFile looks: windows of BufSize cells from the end of the *)
(* file backwards, each overlapping the one after it by one cell less than    *)
(* the string; within a window the comparison stops before its first cell.    *)
Least(a, b) == IF a < b THEN a ELSE b
WindowStarts(n, len) ==
  {n - k * (BufSize - len + 1) : k \in 1..(n \div (BufSize - len + 1))} \cup {0}
HoldsAt(file, str, p) == SubSeq(file, p + 1, p + Len(str)) = str
Occurrences(file, str) == {p \in 0..(Len(file) - Len(str)) : HoldsAt(file, str, p)}
FirstCompared(w) == w + 1
FindStringInFile(file, str) ==
  LET n == Len(file)
      compared == UNION {FirstCompared(w)..(w + Least(BufSize, n - w) - Len(str)) :
                         w \in WindowStarts(n, Len(str))}
      found == Occurrences(file, str) \cap compared
  IN IF found = {} THEN -1 ELSE Max(found)

(* The bytes a signature changes inside the executable are left out of the sum *)
FaultyWipeSignatureAreas(file) == file
WipeSignatureAreas(file) == [i \in DOMAIN file |-> IF i = 2 THEN Cell("unsigned", 0) ELSE file[i]]

Exists == package # <<>>
EndPos == FindStringInFile(package, MagEndMarker)
StartPos == FindStringInFile(package, StartMarker)
LoadInt32(pos) == package[pos + 1]
LoadFileBlock(pos, count) == SubSeq(package, pos + 1, pos + count)
LoadFile == package

----------------------------------------------------------------------------
(* Making the package *)
Removed == package' = <<>> /\ maker' = "failed"

(* SaveBufferToFile with bAppend: a failed write makes the caller remove the package *)
AppendCells(from, to, cells) ==
  /\ maker = from
  /\ \/ package' = package \o cells /\ maker' = to /\ UNCHANGED faults
     \/ Fault /\ Removed
  /\ UNCHANGED <<size, sum, signed, setup, memory, dest>>

(* TCCopyFile: a copy that fails is left behind *)
TCCopyFile ==
  /\ maker = "idle"
  /\ \/ package' = Executable /\ maker' = "cloned" /\ UNCHANGED faults
     \/ Fault /\ maker' = "failed" /\ package' \in {<<>>, SubSeq(Executable, 1, 3)}
  /\ UNCHANGED <<size, sum, signed, setup, memory, dest>>

(* A file that is missing, or cannot be loaded, ends it *)
FileMissing ==
  /\ maker \in {"cloned", "started"}
  /\ Fault /\ Removed
  /\ UNCHANGED <<size, sum, signed, setup, memory, dest>>

WriteStartMarker == AppendCells("cloned", "started", StartMarker)
WriteUncompressedLen == AppendCells("started", "sized", <<Cell("total", NumFiles)>>)

(* CompressBuffer: the output of the child process is read until its pipe breaks; *)
(* when the child died early, or the thread feeding it failed, what there is of   *)
(* it counts as the compressed data, unless it is nothing                         *)
CompressBuffer ==
  /\ maker = "sized"
  /\ \/ /\ package' = package \o <<Cell("packed", Len(Archive))>> \o Archive
        /\ maker' = "compressed" /\ UNCHANGED faults
     \/ /\ Fault
        /\ \/ Removed
           \/ \E n \in 1..(Len(Archive) - 1) :
                /\ package' = package \o <<Cell("packed", n)>> \o SubSeq(Archive, 1, n)
                /\ maker' = "compressed"
  /\ UNCHANGED <<size, sum, signed, setup, memory, dest>>

WriteEndMarker == AppendCells("compressed", "ended", MagEndMarker)
(* The checksum covers the file as it is read back, with the signature areas wiped *)
WriteChecksum ==
  /\ maker = "ended"
  /\ \/ /\ package' = Append(package, Cell("crc", 0)) /\ maker' = "created"
        /\ sum' = WipeSignatureAreas(LoadFile)
        /\ UNCHANGED faults
     \/ Fault /\ Removed /\ UNCHANGED sum
  /\ UNCHANGED <<size, signed, setup, memory, dest>>

MakeSelfExtractingPackage ==
  \/ TCCopyFile \/ FileMissing \/ WriteStartMarker \/ WriteUncompressedLen
  \/ CompressBuffer \/ WriteEndMarker \/ WriteChecksum

(* The program is killed and leaves the package as far as it was written *)
Killed ==
  /\ maker \notin {"idle", "created", "failed"}
  /\ Fault /\ maker' = "failed"
  /\ UNCHANGED <<size, package, sum, signed, setup, memory, dest>>

(* Signing changes the area in the executable and appends the signature *)
Sign ==
  /\ maker = "created" /\ ~signed /\ setup = "idle" /\ Exists
  /\ signed' = TRUE
  /\ \E n \in 1..MaxSignature :
       package' = [package EXCEPT ![2] = Cell("signed", 0)] \o [i \in 1..n |-> Cell("signature", i)]
  /\ UNCHANGED <<size, maker, sum, setup, memory, dest, faults>>

(* A download damages a cell or stops early *)
Damage ==
  /\ maker \in {"created", "failed"} /\ setup = "idle" /\ Exists
  /\ Fault
  /\ \/ \E i \in DOMAIN package : package' = [package EXCEPT ![i] = Bad]
     \/ \E n \in 1..(Len(package) - 1) : package' = SubSeq(package, 1, n)
  /\ UNCHANGED <<size, maker, sum, signed, setup, memory, dest>>

----------------------------------------------------------------------------
(* Launching the package *)

(* IsSelfExtractingPackage: an executable without the end marker is refused *)
Launch ==
  /\ maker \in {"created", "failed"} /\ setup = "idle" /\ Exists
  /\ setup' = IF EndPos = -1 THEN "refused" ELSE "launched"
  /\ UNCHANGED <<size, maker, package, sum, signed, memory, dest, faults>>

ChecksumPos == EndPos + Len(MagEndMarker)
Matches == /\ ChecksumPos < Len(package) /\ LoadInt32(ChecksumPos).kind = "crc"
           /\ SubSeq(WipeSignatureAreas(LoadFile), 1, ChecksumPos) = sum

(* Only the presence of the start marker is looked at, not its place *)
VerifyPackageIntegrity ==
  /\ setup = "launched"
  /\ \/ setup' = (IF StartPos # -1 /\ Matches THEN "verified" ELSE "corrupted") /\ UNCHANGED faults
     \/ Fault /\ setup' = "unverified"
  /\ UNCHANGED <<size, maker, package, sum, signed, memory, dest>>

(* The decompressed files, when the sizes and the data found are consistent *)
DataStart == StartPos + Len(StartMarker)
DataLength == EndPos - DataStart - 2
DecompressesTo(cells) == cells = Archive
Readable ==
  /\ EndPos # -1 /\ StartPos # -1 /\ DataLength > 0
  /\ LoadInt32(DataStart) = Cell("total", NumFiles)
  /\ LoadInt32(DataStart + 1) = Cell("packed", DataLength)
  /\ DecompressesTo(LoadFileBlock(DataStart + 2, DataLength))

(* Used to install as well as to extract.  The message about a wrong compressed *)
(* length does not end it: what decompresses decides                            *)
SelfExtractInMemory ==
  /\ setup = "verified"
  /\ \/ /\ IF Readable THEN setup' = "extracting" /\ memory' = Files
                       ELSE setup' = "failed" /\ memory' = {}
        /\ UNCHANGED faults
     \/ Fault /\ setup' = "failed" /\ memory' = {}
  /\ UNCHANGED <<size, maker, package, sum, signed, dest>>

(* The files are written in their order; the first that cannot be written ends it. *)
(* SaveBufferToFile removes a file it could not write whole                        *)
NextFile == Cardinality({f \in Files : dest[f] # "none"}) + 1
FaultyAfterFailedWrite(f) == setup' = "extracting" /\ dest' = [dest EXCEPT ![f] = "part"]
AfterFailedWrite(f) == setup' = "failed" /\ UNCHANGED dest
WriteFile ==
  /\ setup = "extracting" /\ NextFile \in Files
  /\ LET f == NextFile IN
     \/ dest' = [dest EXCEPT ![f] = IF f \in memory THEN "whole" ELSE "part"]
        /\ UNCHANGED <<setup, faults>>
     \/ Fault /\ AfterFailedWrite(f)
  /\ UNCHANGED <<size, maker, package, sum, signed, memory>>

(* ExtractAllFilesThread posts what became of it, and the buffers are freed *)
Report ==
  /\ setup \in {"extracting", "failed"}
  /\ setup = "extracting" => NextFile \notin Files
  /\ setup' = IF setup = "extracting" THEN "success" ELSE "failure"
  /\ memory' = {}
  /\ UNCHANGED <<size, maker, package, sum, signed, dest, faults>>

Init ==
  /\ size \in [Files -> Sizes]
  /\ maker = "idle" /\ package = <<>> /\ sum = <<>> /\ signed = FALSE
  /\ setup = "idle" /\ memory = {} /\ dest = [f \in Files |-> "none"]
  /\ faults = MaxFaults

Next ==
  \/ MakeSelfExtractingPackage \/ Killed \/ Sign \/ Damage
  \/ Launch \/ VerifyPackageIntegrity \/ SelfExtractInMemory \/ WriteFile \/ Report

Spec == Init /\ [][Next]_exVars

----------------------------------------------------------------------------
TypeOK ==
  /\ size \in [Files -> Sizes]
  /\ maker \in {"idle", "cloned", "started", "sized", "compressed", "ended", "created", "failed"}
  /\ setup \in {"idle", "refused", "launched", "verified", "corrupted", "unverified",
                "extracting", "failed", "success", "failure"}
  /\ memory \subseteq Files /\ dest \in [Files -> {"none", "part", "whole"}]
  /\ signed \in BOOLEAN /\ faults \in 0..MaxFaults
  /\ \A i \in DOMAIN package : package[i].n \in Nat

(* An extraction reported successful left every packaged file whole in the      *)
(* destination, whatever failed while the package was made, sent or extracted.  *)
ExtractedWhole == setup = "success" => \A f \in Files : dest[f] = "whole"

(* A package that was made without a failure and arrived unchanged, signed or   *)
(* not, is accepted by its own verification, unless one of its markers begins   *)
(* exactly where a window of the search begins (see FindsLast).                 *)
StartsWindow(p, str) == p \in WindowStarts(Len(package), Len(str))
GenuineVerifies ==
  (maker = "created" /\ faults = MaxFaults /\ setup \in {"refused", "corrupted"}) =>
    \E m \in {StartMarker, MagEndMarker} :
      StartsWindow(Max(Occurrences(package, m)), m)

(* What the comment on FindStringInFile says of it (src/Common/Dlgcode.c:6723): *)
(* it returns the offset of the last occurrence of the string, if there is one. *)
FindsLast ==
  \A m \in {StartMarker, MagEndMarker} :
    Occurrences(package, m) # {} => FindStringInFile(package, m) = Max(Occurrences(package, m))
=============================================================================
