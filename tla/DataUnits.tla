----------------------------- MODULE DataUnits -----------------------------
(* The modes of operation (Common/Crypto.c, Common/Xts.c): how a buffer of data units, or a volume
   header, is encrypted and decrypted by a cascade of ciphers, in the variants of the code that the
   driver, the application and the boot loader run over the same sectors.

   The ciphers and the multiplications are symbolic. A cell is 8 bytes; its value is the set of the
   atoms whose exclusive or it is; enciphering a block makes new atoms, and deciphering them with
   the same key schedule gives the block back. *)
EXTENDS Integers, Sequences, FiniteSetsExt, SequencesExt

CONSTANTS
    UnitCells,    \* ENCRYPTION_DATA_UNIT_SIZE, in cells
    HeaderCells,  \* the encrypted part of a volume header
    Algorithms,   \* the encryption algorithms in use, of EncryptionAlgorithms
    Units,        \* the numbers of the data units
    HiddenOffset, \* cryptoInfo->hiddenVolumeOffset, in data units
    LowParts      \* how many values the low part of a UINT64_STRUCT has

VARIABLES
    duInfo,     \* CRYPTO_INFO: [ea, mode, hiddenVolume]
    duHardware, \* IsAesHwCpuSupported
    duBoot,     \* whether the boot loader is running
    duDisk,     \* the cells of each data unit
    duContent,  \* what the cells of each data unit were written with
    duHeader,   \* the encrypted header and what it was written with
    duRead      \* what the last call read, and what it should have read: [got, expected]

duVars == <<duInfo, duHardware, duBoot, duDisk, duContent, duHeader, duRead>>

BlockCells(cipher) == IF cipher \in {"Blowfish", "CAST5", "Triple DES"} THEN 1 ELSE 2

\* The ciphers of each algorithm, in the order they encipher, and its modes.
EncryptionAlgorithms ==
    LET Modern(ciphers) == [ciphers |-> ciphers, modes |-> {"XTS", "LRW", IF Len(ciphers) = 1 THEN "CBC" ELSE "OUTER_CBC"}]
        Legacy(cipher) == [ciphers |-> <<cipher>>, modes |-> {"LRW", "CBC"}]
        Inner(ciphers) == [ciphers |-> ciphers, modes |-> {"INNER_CBC"}]
    IN <<Modern(<<"AES">>), Modern(<<"Serpent">>), Modern(<<"Twofish">>), Modern(<<"Twofish", "AES">>),
         Modern(<<"Serpent", "Twofish", "AES">>), Modern(<<"AES", "Serpent">>), Modern(<<"AES", "Twofish", "Serpent">>),
         Modern(<<"Serpent", "Twofish">>), Legacy("Blowfish"), Legacy("CAST5"), Legacy("Triple DES"),
         Inner(<<"Blowfish", "AES">>), Inner(<<"Serpent", "Blowfish", "AES">>)>>

Ciphers(ea) == EncryptionAlgorithms[ea].ciphers
EAIsModeSupported(ea, mode) == mode \in EncryptionAlgorithms[ea].modes
EAGetFirstCipher(ea) == Ciphers(ea)[1]

-----------------------------------------------------------------------------
(* Ciphers *)

Xor(a, b) == (a \ b) \cup (b \ a)
XorBlock(block, other) == [i \in DOMAIN block |-> Xor(block[i], other[i])]
Atoms(name, n) == [i \in 1..n |-> {name \o <<i>>}]

Ciphered(way, cipher, key, block) == [i \in DOMAIN block |-> {<<way, cipher, key, block, i>>}]
\* One way undoes the other under the same cipher and key schedule.
Cipher(way, opposite, cipher, key, block) ==
    LET origins == {a[4] : a \in {b \in block[1] : b[1] = opposite /\ b[2] = cipher /\ b[3] = key}}
        undone == {o \in origins : Ciphered(opposite, cipher, key, o) = block}
    IN IF undone # {} THEN CHOOSE o \in undone : TRUE ELSE Ciphered(way, cipher, key, block)
EncipherBlock(cipher, block, key) == Cipher("enc", "dec", cipher, key, block)
DecipherBlock(cipher, block, key) == Cipher("dec", "enc", cipher, key, block)

KeySize(cipher) ==
    CASE cipher \in {"AES", "Serpent", "Twofish"} -> 32
      [] cipher = "Blowfish" -> 56 [] cipher = "CAST5" -> 16 [] cipher = "Triple DES" -> 24
SumOfKeySizes(ciphers) == FoldLeft(LAMBDA sum, c : sum + KeySize(c), 0, ciphers)
EAGetKeySize(ea) == SumOfKeySizes(Ciphers(ea))

\* EAInit, EAInitMode: the keys of the ciphers follow one another; a schedule is named after where
\* its key begins, among the primary keys ("ks") or the secondary ones ("ks2").
Schedule(which, position) == <<which, SumOfKeySizes(SubSeq(Ciphers(duInfo.ea), 1, position - 1))>>

EAGetLargestKeyForMode(mode) ==
    Max({0} \cup {EAGetKeySize(ea) : ea \in {e \in DOMAIN EncryptionAlgorithms : EAIsModeSupported(e, mode)}})
LegacyIVSize == 32
\* How much key material is derived from a password, for whichever algorithm it will turn out to be.
GetMaxPkcs5OutSize ==
    Max({32, 2 * EAGetLargestKeyForMode("XTS")}
        \cup {LegacyIVSize + EAGetLargestKeyForMode(m) : m \in {"LRW", "CBC", "OUTER_CBC", "INNER_CBC"}})

EncipherCascade(ea, block) ==
    FoldLeftDomain(LAMBDA b, i : EncipherBlock(Ciphers(ea)[i], b, Schedule("ks", i)), block, Ciphers(ea))
DecipherCascade(ea, block) ==
    FoldRightDomain(LAMBDA i, b : DecipherBlock(Ciphers(ea)[i], b, Schedule("ks", i)), Ciphers(ea), block)

-----------------------------------------------------------------------------
(* Buffers of cells *)

Block(buffer, size, i) == SubSeq(buffer, (i - 1) * size + 1, i * size)
Unit(buffer, i) == Block(buffer, UnitCells, i)
Blocks(buffer, size) == 1..(Len(buffer) \div size)
Joined(f, n) == FlattenSeq([i \in 1..n |-> f[i]])
OnBlocks(buffer, size, Op(_, _)) ==
    Joined([i \in Blocks(buffer, size) |-> Op(i, Block(buffer, size, i))], Len(buffer) \div size)

-----------------------------------------------------------------------------
(* XTS *)

XtsBlocks == UnitCells \div 2 \* BLOCKS_PER_XTS_DATA_UNIT

\* The data unit and the block in it of the i-th block of a buffer of n blocks that starts at a block
\* of a unit.
XtsPosition(unit, startBlock, n, i) ==
    LET first == IF n < XtsBlocks THEN n ELSE XtsBlocks - startBlock
    IN IF i <= first THEN <<unit, startBlock + i - 1>>
       ELSE <<unit + 1 + ((i - first - 1) \div XtsBlocks), (i - first - 1) % XtsBlocks>>

\* The enciphered number of the data unit, multiplied by 2 for each block before.
Whitening(cipher, key2, position) ==
    LET start == EncipherBlock(cipher, Atoms(<<"unit", position[1]>>, 2), key2)
    IN [h \in 1..2 |-> {<<"times", start, position[2], h>>}]

\* Multiples of 32 blocks are left to the hardware, 32 at a time; any other number goes block by block.
EncipherBlocks(cipher, buffer, key) == OnBlocks(buffer, 2, LAMBDA i, b : EncipherBlock(cipher, b, key))
DecipherBlocks(cipher, buffer, key) == OnBlocks(buffer, 2, LAMBDA i, b : DecipherBlock(cipher, b, key))

BufferXTSNonParallel(Op(_, _, _), buffer, unit, startBlock, position, cipher) ==
    LET White(i) == Whitening(cipher, Schedule("ks2", position), XtsPosition(unit, startBlock, Len(buffer) \div 2, i))
    IN OnBlocks(buffer, 2, LAMBDA i, b :
           XorBlock(Op(cipher, XorBlock(b, White(i)), Schedule("ks", position)), White(i)))

\* All blocks are whitened, all enciphered together, and all whitened again.
BufferXTSParallel(Op(_, _, _), buffer, unit, startBlock, position, cipher) ==
    LET n == Len(buffer) \div 2
        whitening == Joined([i \in 1..n |-> Whitening(cipher, Schedule("ks2", position), XtsPosition(unit, startBlock, n, i))], n)
    IN XorBlock(Op(cipher, XorBlock(buffer, whitening), Schedule("ks", position)), whitening)

\* The number of the unit k units after one, in two parts of which the low one wraps around.
UnitNo32(unit, k) ==
    LET no[i \in 0..k] == IF i = 0 THEN [low |-> unit % LowParts, high |-> unit \div LowParts]
                          ELSE LET low == (no[i - 1].low + 1) % LowParts
                               IN [low |-> low, high |-> no[i - 1].high + (IF low = 0 THEN 1 ELSE 0)]
    IN no[k].high * LowParts + no[k].low
BufferXTS32(Op(_, _, _), buffer, unit, startBlock, position, cipher) ==
    LET White(i) ==
            LET at == XtsPosition(0, startBlock, Len(buffer) \div 2, i)
            IN Whitening(cipher, Schedule("ks2", position), <<UnitNo32(unit, at[1]), at[2]>>)
    IN OnBlocks(buffer, 2, LAMBDA i, b :
           XorBlock(Op(cipher, XorBlock(b, White(i)), Schedule("ks", position)), White(i)))

EncryptBufferXTSParallel(buffer, unit, startBlock, position, cipher) ==
    BufferXTSParallel(EncipherBlocks, buffer, unit, startBlock, position, cipher)
DecryptBufferXTSParallel(buffer, unit, startBlock, position, cipher) ==
    BufferXTSParallel(DecipherBlocks, buffer, unit, startBlock, position, cipher)
EncryptBufferXTSNonParallel(buffer, unit, startBlock, position, cipher) ==
    BufferXTSNonParallel(EncipherBlock, buffer, unit, startBlock, position, cipher)
DecryptBufferXTSNonParallel(buffer, unit, startBlock, position, cipher) ==
    BufferXTSNonParallel(DecipherBlock, buffer, unit, startBlock, position, cipher)

\* EncryptDecryptBufferXTS32, in its two directions.
EncryptBufferXTS32(buffer, unit, startBlock, position, cipher) ==
    BufferXTS32(EncipherBlock, buffer, unit, startBlock, position, cipher)
DecryptBufferXTS32(buffer, unit, startBlock, position, cipher) ==
    BufferXTS32(DecipherBlock, buffer, unit, startBlock, position, cipher)

CipherSupportsIntraDataUnitParallelization(cipher) == cipher = "AES" /\ duHardware
EncryptBufferXTS(buffer, unit, position, cipher) ==
    IF duBoot THEN EncryptBufferXTS32(buffer, unit, 0, position, cipher)
    ELSE IF CipherSupportsIntraDataUnitParallelization(cipher) THEN EncryptBufferXTSParallel(buffer, unit, 0, position, cipher)
    ELSE EncryptBufferXTSNonParallel(buffer, unit, 0, position, cipher)
DecryptBufferXTS(buffer, unit, position, cipher) ==
    IF duBoot THEN DecryptBufferXTS32(buffer, unit, 0, position, cipher)
    ELSE IF CipherSupportsIntraDataUnitParallelization(cipher) THEN DecryptBufferXTSParallel(buffer, unit, 0, position, cipher)
    ELSE DecryptBufferXTSNonParallel(buffer, unit, 0, position, cipher)

EncryptXTS(buffer, unit) ==
    FoldLeftDomain(LAMBDA b, i : EncryptBufferXTS(b, unit, i, Ciphers(duInfo.ea)[i]), buffer, Ciphers(duInfo.ea))
DecryptXTS(buffer, unit) ==
    FoldRightDomain(LAMBDA i, b : DecryptBufferXTS(b, unit, i, Ciphers(duInfo.ea)[i]), Ciphers(duInfo.ea), buffer)

-----------------------------------------------------------------------------
(* The legacy modes *)

FirstBlockCells == BlockCells(EAGetFirstCipher(duInfo.ea))

\* A bug: the shift of the larger block for both.
FaultyDataUnit2LRWIndex(unit) ==
    (unit - (IF duInfo.hiddenVolume THEN HiddenOffset ELSE 1)) * (UnitCells \div 2) + 1
\* The index of the first block of a data unit; the header of a legacy volume is one unit.
DataUnit2LRWIndex(unit) ==
    (unit - (IF duInfo.hiddenVolume THEN HiddenOffset ELSE 1)) * (UnitCells \div FirstBlockCells) + 1

BufferLRW(Cascade(_, _), buffer, index) ==
    LET Tweak(i) == Atoms(<<"index", index + i - 1>>, FirstBlockCells)
    IN OnBlocks(buffer, FirstBlockCells, LAMBDA i, b : XorBlock(Cascade(duInfo.ea, XorBlock(b, Tweak(i))), Tweak(i)))
EncryptBufferLRW(buffer, index) == BufferLRW(EncipherCascade, buffer, index)
DecryptBufferLRW(buffer, index) == BufferLRW(DecipherCascade, buffer, index)

\* InitSectorIVAndWhitening; the header uses the stored values themselves, as of a unit of its own.
IV(unit, size) == Atoms(<<"iv", unit>>, size)
SectorWhitening(unit, size) == [i \in 1..size |-> {<<"whitening", unit, size>>}]
HeaderUnit == -1

\* The blocks of a buffer chained; what a cipher, or the whole cascade, does to one is an operand.
Chained(Op(_), buffer, unit, size) ==
    LET chained[i \in 0..(Len(buffer) \div size)] ==
            IF i = 0 THEN IV(unit, size) ELSE Op(XorBlock(Block(buffer, size, i), chained[i - 1]))
    IN OnBlocks(buffer, size, LAMBDA i, b : XorBlock(chained[i], SectorWhitening(unit, size)))
Unchained(Op(_), buffer, unit, size) ==
    LET Unwhitened(i) == XorBlock(Block(buffer, size, i), SectorWhitening(unit, size))
        Previous(i) == IF i = 1 THEN IV(unit, size) ELSE Unwhitened(i - 1)
    IN OnBlocks(buffer, size, LAMBDA i, b : XorBlock(Op(Unwhitened(i)), Previous(i)))

\* Cipher i of the algorithm alone (CBC and inner CBC), or, for 0, all of them (outer CBC).
EncryptBufferCBC(buffer, unit, i) ==
    IF i = 0 THEN Chained(LAMBDA x : EncipherCascade(duInfo.ea, x), buffer, unit, FirstBlockCells)
    ELSE LET c == Ciphers(duInfo.ea)[i]
         IN Chained(LAMBDA x : EncipherBlock(c, x, Schedule("ks", i)), buffer, unit, BlockCells(c))
DecryptBufferCBC(buffer, unit, i) ==
    IF i = 0 THEN Unchained(LAMBDA x : DecipherCascade(duInfo.ea, x), buffer, unit, FirstBlockCells)
    ELSE LET c == Ciphers(duInfo.ea)[i]
         IN Unchained(LAMBDA x : DecipherBlock(c, x, Schedule("ks", i)), buffer, unit, BlockCells(c))

EncryptInnerCBC(buffer, unit) ==
    FoldLeftDomain(LAMBDA b, i : EncryptBufferCBC(b, unit, i), buffer, Ciphers(duInfo.ea))
DecryptInnerCBC(buffer, unit) ==
    FoldRightDomain(LAMBDA i, b : DecryptBufferCBC(b, unit, i), Ciphers(duInfo.ea), buffer)
EncryptOuterCBC(buffer, unit) == EncryptBufferCBC(buffer, unit, 0)
DecryptOuterCBC(buffer, unit) == DecryptBufferCBC(buffer, unit, 0)

-----------------------------------------------------------------------------
(* The interface *)

OnUnits(buffer, unit, Op(_, _)) == OnBlocks(buffer, UnitCells, LAMBDA i, b : Op(b, unit + i - 1))

EncryptDataUnits(buffer, unit) ==
    CASE duInfo.mode = "XTS" -> EncryptXTS(buffer, unit)
      [] duInfo.mode = "LRW" -> EncryptBufferLRW(buffer, DataUnit2LRWIndex(unit))
      [] duInfo.mode \in {"CBC", "INNER_CBC"} -> OnUnits(buffer, unit, EncryptInnerCBC)
      [] duInfo.mode = "OUTER_CBC" -> OnUnits(buffer, unit, EncryptOuterCBC)
DecryptDataUnits(buffer, unit) ==
    CASE duInfo.mode = "XTS" -> DecryptXTS(buffer, unit)
      [] duInfo.mode = "LRW" -> DecryptBufferLRW(buffer, DataUnit2LRWIndex(unit))
      [] duInfo.mode \in {"CBC", "INNER_CBC"} -> OnUnits(buffer, unit, DecryptInnerCBC)
      [] duInfo.mode = "OUTER_CBC" -> OnUnits(buffer, unit, DecryptOuterCBC)

\* A buffer that is no run of data units, a header: its first unit is 0, its first index 1.
EncryptBuffer(buffer) ==
    CASE duInfo.mode = "XTS" -> EncryptXTS(buffer, 0)
      [] duInfo.mode = "LRW" -> EncryptBufferLRW(buffer, 1)
      [] duInfo.mode \in {"CBC", "INNER_CBC"} -> EncryptInnerCBC(buffer, HeaderUnit)
      [] duInfo.mode = "OUTER_CBC" -> EncryptOuterCBC(buffer, HeaderUnit)
DecryptBuffer(buffer) ==
    CASE duInfo.mode = "XTS" -> DecryptXTS(buffer, 0)
      [] duInfo.mode = "LRW" -> DecryptBufferLRW(buffer, 1)
      [] duInfo.mode \in {"CBC", "INNER_CBC"} -> DecryptInnerCBC(buffer, HeaderUnit)
      [] duInfo.mode = "OUTER_CBC" -> DecryptOuterCBC(buffer, HeaderUnit)

Plain(v, n) == [i \in 1..n |-> {<<"plain", v>>}]
Nothing == [got |-> <<>>, expected |-> <<>>]

\* The driver opens a volume, or a system drive that the boot loader uses as well (EAInitMode).
Init ==
    /\ duInfo \in {ci \in [ea : Algorithms, mode : {"XTS", "LRW", "CBC", "INNER_CBC", "OUTER_CBC"}, hiddenVolume : BOOLEAN] :
                     EAIsModeSupported(ci.ea, ci.mode) /\ (ci.hiddenVolume => ci.mode = "LRW")}
    /\ duHardware \in BOOLEAN /\ duBoot = FALSE
    /\ duContent = [u \in Units |-> 0] /\ duDisk = [u \in Units |-> Plain(0, UnitCells)]
    /\ duHeader = [cells |-> <<>>, content |-> 0] /\ duRead = Nothing

Ranges == {r \in Units \X Units : r[1] <= r[2]}

\* EncryptDataUnits on consecutive units, each with its content.
WriteUnits == \E r \in Ranges, v \in 1..2 :
    LET buffer == EncryptDataUnits(Plain(v, (r[2] - r[1] + 1) * UnitCells), r[1])
    IN /\ duDisk' = [u \in Units |-> IF u \in r[1]..r[2] THEN Unit(buffer, u - r[1] + 1) ELSE duDisk[u]]
       /\ duContent' = [u \in Units |-> IF u \in r[1]..r[2] THEN v ELSE duContent[u]]
       /\ duRead' = Nothing /\ UNCHANGED <<duInfo, duHardware, duBoot, duHeader>>

\* DecryptDataUnits on consecutive units, however they were grouped when written.
ReadUnits == \E r \in Ranges :
    LET Cat(f(_)) == FlattenSeq([i \in 1..(r[2] - r[1] + 1) |-> f(r[1] + i - 1)])
    IN /\ \A u \in r[1]..r[2] : duContent[u] # 0
       /\ duRead' = [got |-> DecryptDataUnits(Cat(LAMBDA u : duDisk[u]), r[1]),
                     expected |-> Cat(LAMBDA u : Plain(duContent[u], UnitCells))]
       /\ UNCHANGED <<duInfo, duHardware, duBoot, duDisk, duContent, duHeader>>

WriteHeader == \E v \in 1..2 :
    /\ duHeader' = [cells |-> EncryptBuffer(Plain(v, HeaderCells)), content |-> v]
    /\ duRead' = Nothing /\ UNCHANGED <<duInfo, duHardware, duBoot, duDisk, duContent>>
ReadHeader ==
    /\ duHeader.content # 0
    /\ duRead' = [got |-> DecryptBuffer(duHeader.cells), expected |-> Plain(duHeader.content, HeaderCells)]
    /\ UNCHANGED <<duInfo, duHardware, duBoot, duDisk, duContent, duHeader>>

EnableHwEncryption ==
    /\ duHardware' = ~duHardware /\ duRead' = Nothing
    /\ UNCHANGED <<duInfo, duBoot, duDisk, duContent, duHeader>>
\* The boot loader knows XTS only.
Reboot ==
    /\ duInfo.mode = "XTS" /\ duBoot' = ~duBoot /\ duRead' = Nothing
    /\ UNCHANGED <<duInfo, duHardware, duDisk, duContent, duHeader>>

Next == WriteUnits \/ ReadUnits \/ WriteHeader \/ ReadHeader \/ EnableHwEncryption \/ Reboot

-----------------------------------------------------------------------------
TypeOK ==
    /\ EAIsModeSupported(duInfo.ea, duInfo.mode) /\ duHardware \in BOOLEAN /\ duBoot \in BOOLEAN
    /\ duContent \in [Units -> 0..2] /\ \A u \in Units : Len(duDisk[u]) = UnitCells
    /\ duHeader.content \in 0..2

\* The keys of an algorithm are distinct parts of what is derived from the password.
KeysFit ==
    LET n == Len(Ciphers(duInfo.ea))
    IN /\ (IF duInfo.mode = "XTS" THEN 2 * EAGetKeySize(duInfo.ea) ELSE LegacyIVSize + EAGetKeySize(duInfo.ea)) <= GetMaxPkcs5OutSize
       /\ \A i, j \in 1..n : i # j => Schedule("ks", i) # Schedule("ks", j)

\* What is read is what was written, whichever of the variants wrote and reads it (the hardware's, the
\* boot loader's) and however the units are grouped into calls: what a unit is encrypted to depends on
\* its number and content alone, as the split of a call over threads needs.
UnitsReadBack ==
    /\ duRead.got = duRead.expected
    /\ \A u \in Units : duContent[u] # 0 => duDisk[u] = EncryptDataUnits(Plain(duContent[u], UnitCells), u)

\* The same content is never encrypted to the same block in two places of a volume.
NoBlockRepeats ==
    \A u, w \in {x \in Units : duContent[x] # 0} :
        \A i, j \in Blocks(duDisk[u], FirstBlockCells) :
            <<u, i>> # <<w, j>> => Block(duDisk[u], FirstBlockCells, i) # Block(duDisk[w], FirstBlockCells, j)
=============================================================================
