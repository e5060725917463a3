----------------------- MODULE InPlaceEncryption_proofs -----------------------
(* A theorem about the encryption of a partition in place, for any size of the
   partition, of the chunks and of the interval of header updates, and any number of
   failures and crashes. *)
EXTENDS InPlaceEncryption, FiniteSetTheorems, TLAPS

SizesAssumed ==
    /\ Units \in Nat /\ Units > 0
    /\ ChunkUnits \in Nat /\ ChunkUnits > 0
    /\ UpdateInterval \in Nat /\ UpdateInterval > 0

\* Where the thread may be: a chunk is in the buffer, a chunk is under way, distance counts
\* what the header does not know of, and all of the transformation.
Buffered == {"wipe", "write", "writing", "undo"}
Handling == Buffered \cup {"read", "advance"}
Counting == Handling \cup {"loop", "intervalUpdate", "poll", "update"}
Transforming == Counting \cup {"primary", "close"}
Starting == {"none", "dismount", "backup", "conceal", "saveSettings", "open"}
PcInv == enc.pc \in Starting \cup Transforming

\* The first unit that counts as encrypted, and how many the header does not know of.
Boundary == IF enc.pc \in Transforming THEN enc.remaining ELSE Units - backupHeader.length
Exposed == Units - backupHeader.length - Boundary

\* Until the start of the file system has been concealed, nothing is encrypted.
Concealing == ~backupHeader.valid \/ enc.pc = "conceal"

\* Where the thread and the header are.
ThreadInv ==
    /\ DOMAIN place = 0..Units
    /\ DOMAIN enc = DOMAIN NoThread
    /\ enc.remaining \in 0..Units /\ enc.chunk \in Nat
    /\ DOMAIN backupHeader = {"valid", "length"} /\ backupHeader.length \in 0..Units
    /\ Concealing => backupHeader.length = 0 /\ enc.pc \in {"none", "dismount", "backup", "conceal"}
                     /\ ~faults.unconcealed
    /\ enc.pc \in {"dismount", "backup"} => ~backupHeader.valid
    /\ enc.pc \in Handling =>
          /\ enc.chunk > 0
          /\ enc.chunk = IF enc.remaining <= ChunkUnits THEN enc.remaining ELSE ChunkUnits
    /\ enc.pc = "conceal" => backupHeader.valid
    /\ enc.pc = "update" => enc.paused \/ enc.remaining = 0
    /\ enc.pc = "primary" => enc.remaining = 0
    /\ DOMAIN faults = {"failed", "crashed", "cut", "unconcealed"}

\* Whole chunks have been handled since the last update of the header, but for the last
\* chunk of all.
DistanceInv ==
    /\ enc.distance \in Nat
    /\ enc.pc \notin Transforming => enc.distance = 0
    /\ enc.pc \in Counting => Exposed = enc.distance
    /\ enc.pc \in Counting => Exposed <= Lag
    /\ enc.pc \in Handling \cup {"loop", "poll"} => enc.distance < UpdateInterval
    /\ enc.pc \in Handling \cup {"loop", "poll"} =>
          enc.distance % ChunkUnits = 0 \/ enc.remaining = 0
    /\ Exposed >= 0 /\ Exposed <= Lag
    /\ Exposed > 0 => enc.changed
    /\ enc.pc = "primary" => Exposed = 0

\* The units that are not as the boundary says; those of the chunk under way, as they
\* will be when it is written.
Content(u) ==
    IF enc.pc \in Buffered /\ u \in ChunkOf(enc) THEN enc.buf[u]
    ELSE IF u >= Boundary \/ (enc.pc = "advance" /\ u \in ChunkOf(enc)) THEN place[u + 1]
    ELSE place[u]
Before(u) == IF u = 0 /\ ~Concealing THEN Concealed ELSE Plain(u)
Wanted(u) ==
    IF u >= Boundary \/ (enc.pc \in Buffered \cup {"advance"} /\ u \in ChunkOf(enc))
      THEN Cipher(u) ELSE Before(u)
Bad == {u \in Data : Content(u) # Wanted(u)}

\* A failed write is charged for when undoing it fails, any other failure when the header
\* cannot be updated after it.
Damage == Cardinality(Bad)
Allowed(crashed, failed) == (crashed + failed \div 2) * Lag
Spared == IF faults.unconcealed THEN 1 ELSE 0
LossInv ==
    /\ faults.failed \in Nat /\ faults.crashed \in Nat
    /\ enc.pc \in Buffered =>
         LET u == enc.remaining - enc.chunk IN enc.buf[u] = Cipher(u) => place[u] = Before(u)
    /\ enc.pc = "undo" =>
         faults.failed > 0 /\ Damage <= Allowed(faults.crashed, faults.failed - 1) + Spared
    /\ enc.pc = "close" =>
         \/ Damage + Exposed <= Allowed(faults.crashed, faults.failed) + Spared
         \/ faults.failed > 0 /\ Damage <= Allowed(faults.crashed, faults.failed - 1) + Spared
    /\ enc.pc \notin {"undo", "close"} =>
         Damage <= Allowed(faults.crashed, faults.failed) + Spared

IInv == ThreadInv /\ PcInv /\ DistanceInv /\ LossInv

-----------------------------------------------------------------------------
\* Multiples of a number, without division.
LEMMA Multiples ==
    ASSUME NEW n \in Nat, n > 0, NEW x \in Int
    PROVE  /\ x % n = 0 => \E k \in Int : x = n * k
           /\ \A k \in Int : x = n * k => x % n = 0
<1>1. x = n * (x \div n) + (x % n) /\ x \div n \in Int /\ x % n \in 0..n - 1
  OBVIOUS
<1>2. ASSUME NEW k \in Int, x = n * k PROVE x % n = 0
  <2> DEFINE d == k - (x \div n)
             r == x % n
  <2>1. d \in Int /\ r \in 0..n - 1
    BY <1>1
  <2>2. n * k = n * (x \div n) + n * d
    <3>1. \A a, b \in Int : n * a = n * b + n * (a - b)
      OBVIOUS
    <3> QED
      BY <3>1, <1>1
  <2>3. n * d = r
    <3>1. n * d \in Int /\ n * k \in Int /\ n * (x \div n) \in Int
      BY <1>1, <2>1
    <3> HIDE DEF d
    <3> QED
      BY <1>1, <1>2, <2>2, <3>1
  <2> HIDE DEF d, r
  <2>4. d = 0 \/ (d >= 1 /\ n * d >= n) \/ (d <= -1 /\ n * d <= -n)
    BY <2>1
  <2>5. r = 0
    BY <2>1, <2>3, <2>4
  <2> QED
    BY <2>5 DEF r
<1> QED
  BY <1>1, <1>2

\* Whole chunks that stay below the interval leave room for another one.
LEMMA LagFacts ==
    ASSUME SizesAssumed
    PROVE  /\ Lag \in Nat /\ ChunkUnits <= Lag /\ 0 % ChunkUnits = 0
           /\ \A x \in Nat : x % ChunkUnits = 0 => (x + ChunkUnits) % ChunkUnits = 0
           /\ \A x \in Nat : x % ChunkUnits = 0 /\ x < UpdateInterval => x + ChunkUnits <= Lag
<1> USE DEF SizesAssumed
<1> DEFINE t == UpdateInterval + ChunkUnits - 1
           q == t \div ChunkUnits
           r == t % ChunkUnits
<1>1. t \in Nat /\ t = ChunkUnits * q + r /\ q \in Int /\ r \in 0..ChunkUnits - 1
  OBVIOUS
<1>2. Lag = ChunkUnits * q
  <2>1. Lag = q * ChunkUnits
    BY DEF Lag
  <2> HIDE DEF q
  <2> QED
    BY <2>1, <1>1
<1> HIDE DEF q, r
<1>3. ChunkUnits * q \in Int /\ ChunkUnits * q >= UpdateInterval
  BY <1>1
<1>4. ASSUME NEW x \in Nat, x % ChunkUnits = 0, x < UpdateInterval PROVE x + ChunkUnits <= Lag
  <2>1. PICK k \in Int : x = ChunkUnits * k
    BY <1>4, Multiples
  <2>2. k < q
    BY <1>1, <1>3, <1>4, <2>1
  <2>3. PICK d \in Nat : q = k + 1 + d
    <3>1. q - k - 1 \in Nat
      BY <2>2, <1>1
    <3> QED
      BY <3>1, <1>1
  <2>4. ChunkUnits * q = ChunkUnits * k + ChunkUnits + ChunkUnits * d /\ ChunkUnits * d \in Nat
    <3>1. \A u, v, w \in Int : u * (v + 1 + w) = u * v + u + u * w
      OBVIOUS
    <3> QED
      BY <3>1, <2>3
  <2>5. ChunkUnits * k \in Int
    OBVIOUS
  <2> QED
    BY <1>2, <2>1, <2>4, <2>5
<1>5. 0 % ChunkUnits = 0
  BY Multiples
<1>6. ASSUME NEW x \in Nat, x % ChunkUnits = 0 PROVE (x + ChunkUnits) % ChunkUnits = 0
  <2>1. PICK k \in Int : x = ChunkUnits * k
    BY <1>6, Multiples
  <2>2. x + ChunkUnits = ChunkUnits * (k + 1) /\ k + 1 \in Int /\ x + ChunkUnits \in Int
    BY <2>1
  <2> QED
    BY <2>2, Multiples
<1>7. 0 + ChunkUnits <= Lag
  BY <1>4, <1>5
<1> QED
  BY <1>2, <1>3, <1>4, <1>5, <1>6, <1>7

LEMMA ChunkFacts ==
    ASSUME SizesAssumed, enc.remaining \in Nat
    PROVE  NextChunk(enc) = IF enc.remaining <= ChunkUnits THEN enc.remaining ELSE ChunkUnits
<1> DEFINE S == {enc.remaining, ChunkUnits}
           m == IF enc.remaining <= ChunkUnits THEN enc.remaining ELSE ChunkUnits
<1>1. m \in S /\ \A x \in S : m <= x
  BY DEF SizesAssumed
<1>2. \A y \in S : (\A x \in S : y <= x) => y = m
  BY <1>1 DEF SizesAssumed
<1>3. Min(S) = m
  <2>1. Min(S) \in S /\ \A x \in S : Min(S) <= x
    BY <1>1, Zenon DEF Min
  <2> QED
    BY <1>2, <2>1
<1> QED
  BY <1>3 DEF NextChunk

-----------------------------------------------------------------------------
LEMMA InitInv == SizesAssumed /\ Init => ThreadInv /\ DistanceInv
<1> SUFFICES ASSUME SizesAssumed, Init PROVE ThreadInv /\ DistanceInv
  OBVIOUS
<1>1. ThreadInv
  BY DEF SizesAssumed, Init, ThreadInv, NoThread, Concealing, Handling, Buffered
<1>2. DistanceInv
  BY LagFacts DEF SizesAssumed, Init, DistanceInv, NoThread, Exposed, Boundary, Handling,
     Buffered, Counting,
                  Transforming
<1> QED
  BY <1>1, <1>2

LEMMA ThreadStep == SizesAssumed /\ ThreadInv /\ [Next]_inPlaceVars => ThreadInv'
<1> SUFFICES ASSUME SizesAssumed, ThreadInv, [Next]_inPlaceVars PROVE ThreadInv'
  OBVIOUS
<1> USE DEF ThreadInv, NoThread, Concealing, Handling, Buffered, Go, Succeed, Fail
<1>1. CASE Begin
  BY <1>1 DEF Begin, SizesAssumed
<1>2. CASE DismountFileSystem
  BY <1>2 DEF DismountFileSystem, SizesAssumed
<1>3. CASE WriteBackupHeader
  BY <1>3 DEF WriteBackupHeader, SizesAssumed
<1>4. CASE ConcealNTFS
  BY <1>4 DEF ConcealNTFS, SizesAssumed
<1>5. CASE SaveSettings
  BY <1>5 DEF SaveSettings, SizesAssumed
<1>6. CASE Resume
  BY <1>6 DEF Resume, SizesAssumed
<1>7. CASE OpenBackupHeader
  <2>1. CASE enc' = NoThread
    BY <2>1, <1>7 DEF OpenBackupHeader, SizesAssumed
  <2>2. CASE enc' = [enc EXCEPT !.pc = "loop", !.remaining = Units - backupHeader.length]
    <3>1. enc'.pc = "loop" /\ enc'.remaining = Units - backupHeader.length /\ enc'.chunk = enc.chunk
          /\ DOMAIN enc' = DOMAIN NoThread
      BY <2>2
    <3>2. enc.pc = "open" /\ UNCHANGED <<place, backupHeader, faults>>
      BY <1>7 DEF OpenBackupHeader
    <3> QED
      BY <3>1, <3>2 DEF SizesAssumed
  <2> QED
    BY <2>1, <2>2, <1>7 DEF OpenBackupHeader
<1>8. CASE Loop
  <2>1. NextChunk(enc) = IF enc.remaining <= ChunkUnits THEN enc.remaining ELSE ChunkUnits
    BY ChunkFacts DEF SizesAssumed
  <2> QED
    <3>1. enc.pc = "loop" /\ UNCHANGED <<place, backupHeader, faults>>
      BY <1>8 DEF Loop
    <3>2. enc'.remaining = enc.remaining /\ DOMAIN enc' = DOMAIN NoThread
          /\ (enc'.paused <=> enc.paused)
          /\ IF enc.remaining > 0 THEN enc'.pc = "read" /\ enc'.chunk = NextChunk(enc)
                                  ELSE enc'.pc = "update" /\ enc'.chunk = enc.chunk
      BY <1>8 DEF Loop
    <3> QED
      BY <2>1, <3>1, <3>2 DEF SizesAssumed
<1>9. CASE ReadChunk
  BY <1>9 DEF ReadChunk, SizesAssumed
<1>10. CASE WipePass
  BY <1>10 DEF WipePass, WriteSome, WriteUnits, SizesAssumed
<1>11. CASE WriteChunkBegin
  BY <1>11 DEF WriteChunkBegin, WriteSome, WriteUnits, SizesAssumed
<1>12. CASE WriteChunkEnd
  BY <1>12 DEF WriteChunkEnd, WriteUnits, SizesAssumed
<1>13. CASE UndoWrite
  BY <1>13 DEF UndoWrite, RestoreUnits, SizesAssumed
<1>14. CASE Advance
  BY <1>14 DEF Advance, SizesAssumed
<1>15. CASE Update
  <2>1. enc'.pc \in {"poll", "close", "primary"} /\ enc'.remaining = enc.remaining
        /\ enc'.chunk = enc.chunk /\ DOMAIN enc' = DOMAIN NoThread
    BY <1>15 DEF Update
  <2>2. backupHeader'.length \in {Units - enc.remaining, backupHeader.length}
        /\ backupHeader'.valid = backupHeader.valid /\ DOMAIN backupHeader' = {"valid", "length"}
    BY <1>15 DEF Update, FastVolumeHeaderUpdate
  <2>3. place' = place /\ (faults'.unconcealed <=> faults.unconcealed) /\ DOMAIN faults' = DOMAIN faults
    BY <1>15 DEF Update
  <2>4. enc.pc \notin {"none", "dismount", "backup", "conceal"}
    BY <1>15 DEF Update
  <2>5. enc'.pc = "primary" => enc.remaining = 0
    BY <1>15 DEF Update
  <2> QED
    BY <2>1, <2>2, <2>3, <2>4, <2>5 DEF SizesAssumed
<1>16. CASE PollCancel
  BY <1>16 DEF PollCancel, SizesAssumed
<1>17. CASE WritePrimaryHeader
  BY <1>17 DEF WritePrimaryHeader, SizesAssumed
<1>18. CASE Close
  BY <1>18 DEF Close, FastVolumeHeaderUpdate, SizesAssumed
<1>19. CASE Crash
  <2>1. enc' = NoThread /\ UNCHANGED <<place, backupHeader>> /\ DOMAIN faults' = DOMAIN faults
    BY <1>19 DEF Crash
  <2>2. enc.pc # "conceal" => (faults'.unconcealed <=> faults.unconcealed)
    BY <1>19 DEF Crash
  <2> QED
    BY <2>1, <2>2 DEF SizesAssumed
<1>20. CASE UNCHANGED inPlaceVars
  BY <1>20 DEF inPlaceVars
<1> QED
  BY <1>1, <1>2, <1>3, <1>4, <1>5, <1>6, <1>7, <1>8, <1>9, <1>10, <1>11, <1>12, <1>13, <1>14,
     <1>15, <1>16, <1>17, <1>18, <1>19, <1>20 DEF Next

LEMMA DistanceStep ==
    SizesAssumed /\ ThreadInv /\ DistanceInv /\ [Next]_inPlaceVars => DistanceInv'
<1> SUFFICES ASSUME SizesAssumed, ThreadInv, DistanceInv, [Next]_inPlaceVars PROVE DistanceInv'
  OBVIOUS
<1> USE DEF ThreadInv, DistanceInv, Exposed, Boundary, NoThread, Handling,
            Buffered, Counting, Transforming
<1>0. Lag \in Nat /\ ChunkUnits <= Lag /\ 0 % ChunkUnits = 0
  BY LagFacts
<1>1. CASE Begin
  BY <1>0, <1>1 DEF Begin, Go, SizesAssumed
<1>2. CASE DismountFileSystem
  <2>1. enc'.pc \in {"none", "dismount", "backup", "conceal", "saveSettings"} /\ enc'.distance = 0
        /\ backupHeader'.length = backupHeader.length
    BY <1>2 DEF DismountFileSystem, Go, Concealing
  <2> QED
    BY <1>0, <2>1 DEF SizesAssumed
<1>3. CASE WriteBackupHeader
  <2>1. enc'.pc \in {"none", "dismount", "backup", "conceal", "saveSettings"} /\ enc'.distance = 0
        /\ backupHeader'.length = backupHeader.length
    BY <1>3 DEF WriteBackupHeader, Go, Concealing
  <2> QED
    BY <1>0, <2>1 DEF SizesAssumed
<1>4. CASE ConcealNTFS
  <2>1. enc'.pc \in {"none", "dismount", "backup", "conceal", "saveSettings"} /\ enc'.distance = 0
        /\ backupHeader'.length = backupHeader.length
    BY <1>4 DEF ConcealNTFS, Go, Concealing
  <2> QED
    BY <1>0, <2>1 DEF SizesAssumed
<1>5. CASE SaveSettings
  BY <1>0, <1>5 DEF SaveSettings, Go, SizesAssumed
<1>6. CASE Resume
  BY <1>0, <1>6 DEF Resume, Go, SizesAssumed
<1>7. CASE OpenBackupHeader
  <2>1. CASE enc' = NoThread
    BY <1>0, <2>1, <1>7 DEF OpenBackupHeader, SizesAssumed
  <2>2. CASE enc' = [enc EXCEPT !.pc = "loop", !.remaining = Units - backupHeader.length]
    <3>1. enc'.pc = "loop" /\ enc'.remaining = Units - backupHeader.length
          /\ enc'.distance = enc.distance
      BY <2>2
    <3>2. enc.pc = "open" /\ UNCHANGED backupHeader
      BY <1>7 DEF OpenBackupHeader
    <3> QED
      BY <1>0, <3>1, <3>2 DEF SizesAssumed
  <2> QED
    BY <2>1, <2>2, <1>7 DEF OpenBackupHeader
<1>8. CASE Loop
  <2>1. enc.pc = "loop" /\ UNCHANGED backupHeader
    BY <1>8 DEF Loop
  <2>2. enc'.remaining = enc.remaining /\ enc'.distance = enc.distance /\ (enc'.changed <=> enc.changed)
        /\ enc'.pc \in {"read", "update"}
    BY <1>8 DEF Loop, Go
  <2> QED
    BY <1>0, <2>1, <2>2 DEF SizesAssumed
<1>9. CASE ReadChunk
  BY <1>0, <1>9 DEF ReadChunk, Go, SizesAssumed
<1>10. CASE WipePass
  BY <1>0, <1>10 DEF WipePass, Go, SizesAssumed
<1>11. CASE WriteChunkBegin
  BY <1>0, <1>11 DEF WriteChunkBegin, Go, SizesAssumed
<1>12. CASE WriteChunkEnd
  BY <1>0, <1>12 DEF WriteChunkEnd, Go, SizesAssumed
<1>13. CASE UndoWrite
  BY <1>0, <1>13 DEF UndoWrite, Go, SizesAssumed
<1>14. CASE Advance
  <2>1. enc.pc = "advance" /\ UNCHANGED backupHeader
    BY <1>14 DEF Advance
  <2>2. enc'.remaining = enc.remaining - enc.chunk /\ enc'.distance = enc.distance + enc.chunk
        /\ enc'.changed
    BY <1>14 DEF Advance
  <2>3. enc'.pc = IF enc'.distance >= UpdateInterval THEN "intervalUpdate" ELSE "poll"
    BY <2>2, <1>14 DEF Advance
  <2>4. enc.remaining > 0 /\ enc.distance % ChunkUnits = 0 /\ enc.distance < UpdateInterval
    BY <2>1 DEF SizesAssumed
  <2>5. enc.distance + ChunkUnits <= Lag /\ (enc.distance + ChunkUnits) % ChunkUnits = 0
    BY <2>4, LagFacts
  <2>6. enc'.distance % ChunkUnits = 0 \/ enc'.remaining = 0
    BY <2>1, <2>2, <2>5 DEF SizesAssumed
  <2>7. Units - backupHeader'.length - enc'.remaining = enc'.distance
    BY <2>1, <2>2 DEF SizesAssumed
  <2>8. enc'.distance \in Nat /\ enc'.distance <= Lag
    <3>1. /\ enc.distance \in Nat /\ enc.chunk \in Nat /\ ChunkUnits \in Nat
          /\ enc.chunk <= ChunkUnits /\ enc.distance + ChunkUnits <= Lag /\ Lag \in Nat
      BY <1>0, <2>1, <2>2, <2>5 DEF SizesAssumed
    <3> QED
      BY ONLY <2>2, <3>1
  <2> QED
    BY <1>0, <2>2, <2>3, <2>6, <2>7, <2>8, SMTT(30) DEF SizesAssumed
<1>15. CASE Update
  <2>1. enc'.remaining = enc.remaining /\ (enc'.changed <=> enc.changed)
    BY <1>15 DEF Update, Go
  <2>2. enc.pc \in Counting
    BY <1>15 DEF Update
  <2>3. CASE FastVolumeHeaderUpdate /\ enc' = IF enc.pc = "intervalUpdate"
                    THEN [enc EXCEPT !.pc = "poll", !.distance = 0]
                    ELSE [enc EXCEPT !.pc = IF enc.paused THEN "close" ELSE "primary"]
    <3>1. backupHeader'.length = Units - enc.remaining
      BY <2>3 DEF FastVolumeHeaderUpdate
    <3>2. \/ enc'.pc = "poll" /\ enc'.distance = 0
          \/ enc'.pc \in {"close", "primary"} /\ enc'.distance = enc.distance
      BY <2>3
    <3>3. Units - backupHeader'.length - enc'.remaining = 0
      BY <2>1, <3>1 DEF SizesAssumed
    <3>4. CASE enc'.pc = "poll" /\ enc'.distance = 0
      BY <1>0, <3>3, <3>4 DEF SizesAssumed
    <3>5. CASE enc'.pc \in {"close", "primary"} /\ enc'.distance = enc.distance
      BY <1>0, <3>3, <3>5 DEF SizesAssumed
    <3> QED
      BY <3>2, <3>4, <3>5
  <2>4. CASE UNCHANGED backupHeader /\ Go("close")
    <3>1. enc'.pc = "close" /\ enc'.distance = enc.distance
      BY <2>4 DEF Go
    <3> QED
      BY <1>0, <2>1, <2>2, <2>4, <3>1 DEF SizesAssumed
  <2> QED
    BY <2>3, <2>4, <1>15 DEF Update
<1>16. CASE PollCancel
  BY <1>0, <1>16 DEF PollCancel, Go, SizesAssumed
<1>17. CASE WritePrimaryHeader
  BY <1>0, <1>17 DEF WritePrimaryHeader, Go, SizesAssumed
<1>18. CASE Close
  BY <1>0, <1>18 DEF Close, Go, SizesAssumed, FastVolumeHeaderUpdate
<1>19. CASE Crash
  BY <1>0, <1>19 DEF Crash, Go, SizesAssumed
<1>20. CASE UNCHANGED inPlaceVars
  BY <1>20 DEF inPlaceVars
<1> QED
  BY <1>1, <1>2, <1>3, <1>4, <1>5, <1>6, <1>7, <1>8, <1>9, <1>10, <1>11, <1>12, <1>13, <1>14,
     <1>15, <1>16, <1>17, <1>18, <1>19, <1>20 DEF Next

LEMMA PcStep == ThreadInv /\ PcInv /\ [Next]_inPlaceVars => PcInv'
<1> SUFFICES ASSUME ThreadInv, PcInv, [Next]_inPlaceVars PROVE PcInv'
  OBVIOUS
<1> USE DEF PcInv, Starting, Transforming, Counting, Handling, Buffered, ThreadInv, NoThread, Go
<1>1. CASE Begin
  BY <1>1 DEF Begin
<1>2. CASE DismountFileSystem
  BY <1>2 DEF DismountFileSystem
<1>3. CASE WriteBackupHeader
  BY <1>3 DEF WriteBackupHeader
<1>4. CASE ConcealNTFS
  BY <1>4 DEF ConcealNTFS
<1>5. CASE SaveSettings
  BY <1>5 DEF SaveSettings
<1>6. CASE Resume
  BY <1>6 DEF Resume
<1>7. CASE OpenBackupHeader
  <2>1. CASE enc' = NoThread
    BY <2>1
  <2>2. CASE enc' = [enc EXCEPT !.pc = "loop", !.remaining = Units - backupHeader.length]
    BY <2>2
  <2> QED
    BY <2>1, <2>2, <1>7 DEF OpenBackupHeader
<1>8. CASE Loop
  BY <1>8 DEF Loop
<1>9. CASE ReadChunk
  BY <1>9 DEF ReadChunk
<1>10. CASE WipePass
  BY <1>10 DEF WipePass
<1>11. CASE WriteChunkBegin
  BY <1>11 DEF WriteChunkBegin
<1>12. CASE WriteChunkEnd
  BY <1>12 DEF WriteChunkEnd
<1>13. CASE UndoWrite
  BY <1>13 DEF UndoWrite
<1>14. CASE Advance
  BY <1>14 DEF Advance
<1>15. CASE Update
  BY <1>15 DEF Update
<1>16. CASE PollCancel
  BY <1>16 DEF PollCancel
<1>17. CASE WritePrimaryHeader
  BY <1>17 DEF WritePrimaryHeader
<1>18. CASE Close
  BY <1>18 DEF Close
<1>19. CASE Crash
  BY <1>19 DEF Crash
<1>20. CASE UNCHANGED inPlaceVars
  BY <1>20 DEF inPlaceVars
<1> QED
  BY <1>1, <1>2, <1>3, <1>4, <1>5, <1>6, <1>7, <1>8, <1>9, <1>10, <1>11, <1>12, <1>13, <1>14,
     <1>15, <1>16, <1>17, <1>18, <1>19, <1>20 DEF Next


-----------------------------------------------------------------------------
LEMMA AllowedFacts ==
    ASSUME SizesAssumed, NEW c \in Nat, NEW f \in Nat
    PROVE  /\ Allowed(c, f) \in Nat /\ Allowed(c, f) <= Allowed(c, f + 1)
           /\ Allowed(c, f + 2) = Allowed(c, f) + Lag
           /\ Allowed(c + 1, f) = Allowed(c, f) + Lag
<1> DEFINE h == f \div 2
<1>1. h \in Nat /\ (f + 1) \div 2 \in {h, h + 1} /\ (f + 2) \div 2 = h + 1
  OBVIOUS
<1>2. Lag \in Nat
  BY LagFacts
<1> HIDE DEF h
<1>3. /\ Allowed(c, f) = (c + h) * Lag
      /\ Allowed(c, f + 2) = (c + h + 1) * Lag
      /\ Allowed(c + 1, f) = (c + h + 1) * Lag
      /\ Allowed(c, f + 1) \in {(c + h) * Lag, (c + h + 1) * Lag}
  BY <1>1 DEF Allowed, h
<1>4. (c + h) * Lag \in Nat /\ (c + h + 1) * Lag = (c + h) * Lag + Lag
  BY <1>1, <1>2
<1> QED
  BY <1>2, <1>3, <1>4

\* The units of a stretch add no more than its length.
LEMMA Counted ==
    ASSUME SizesAssumed, NEW A \in SUBSET Data, NEW B \in SUBSET Data, NEW a \in Int, NEW n \in Nat,
           A \subseteq B \cup (a..a + n - 1)
    PROVE  Cardinality(A) \in Nat /\ Cardinality(B) \in Nat /\ Cardinality(A) <= Cardinality(B) + n
<1> DEFINE C == a..a + n - 1
<1>1. IsFiniteSet(Data)
  BY FS_Interval DEF SizesAssumed, Data
<1>2. IsFiniteSet(A) /\ IsFiniteSet(B) /\ Cardinality(A) \in Nat /\ Cardinality(B) \in Nat
  BY <1>1, FS_Subset, FS_CardinalityType
<1>3. IsFiniteSet(C) /\ Cardinality(C) = n
  <2>1. a + n - 1 \in Int
    OBVIOUS
  <2>2. IsFiniteSet(C) /\ Cardinality(C) = IF a > a + n - 1 THEN 0 ELSE (a + n - 1) - a + 1
    BY <2>1, FS_Interval
  <2> QED
    BY <2>2
<1>4. IsFiniteSet(B \cup C) /\ Cardinality(B \cup C) = Cardinality(B) + Cardinality(C) - Cardinality(B \cap C)
  BY <1>2, <1>3, FS_Union
<1>5. Cardinality(B \cap C) \in Nat
  BY <1>2, FS_Subset, FS_CardinalityType
<1>6. Cardinality(A) <= Cardinality(B \cup C)
  BY <1>4, FS_Subset
<1>7. Cardinality(B \cup C) <= Cardinality(B) + n
  BY <1>2, <1>3, <1>4, <1>5
<1> QED
  BY <1>2, <1>3, <1>4, <1>5, <1>6, <1>7

\* What a step may add to the damage.
LEMMA DamageFewer ==
    ASSUME SizesAssumed, Bad' \subseteq Bad
    PROVE  Damage \in Nat /\ Damage' \in Nat /\ Damage' <= Damage
<1>1. Bad \in SUBSET Data /\ Bad' \in SUBSET Data /\ Bad' \subseteq Bad \cup (0..0 + 0 - 1)
  BY DEF Bad, Data
<1>2. Cardinality(Bad') \in Nat /\ Cardinality(Bad) \in Nat
      /\ Cardinality(Bad') <= Cardinality(Bad) + 0
  BY <1>1, Counted
<1> QED
  BY <1>2 DEF Damage

LEMMA DamageInside ==
    ASSUME SizesAssumed, NEW a \in Int, NEW n \in Nat, Bad' \subseteq Bad \cup (a..a + n - 1)
    PROVE  Damage \in Nat /\ Damage' \in Nat /\ Damage' <= Damage + n
<1>1. Bad \in SUBSET Data /\ Bad' \in SUBSET Data
  BY DEF Bad, Data
<1>2. Cardinality(Bad') \in Nat /\ Cardinality(Bad) \in Nat
      /\ Cardinality(Bad') <= Cardinality(Bad) + n
  BY <1>1, Counted
<1> QED
  BY <1>2 DEF Damage

\* What the contents of a place can be told by.
LEMMA Values ==
    /\ \A u : Junk # Cipher(u) /\ Junk # Plain(u) /\ Concealed # Plain(u)
    /\ \A c, u : Encrypt(c, u) = Cipher(u) => c = Plain(u)
    /\ \A u : Decrypt(Cipher(u), u) = Plain(u)
    /\ Conceal(Plain(0)) = Concealed
    /\ \A c : Conceal(c) = Plain(0) => c = Concealed
<1>1. \A u : Junk # Cipher(u) /\ Junk # Plain(u) /\ Concealed # Plain(u)
  BY DEF Junk, Cipher, Plain, Concealed
<1>2. \A c : Conceal(c) = IF c = Plain(0) THEN Concealed ELSE IF c = Concealed THEN Plain(0) ELSE Junk
  BY <1>1 DEF Conceal
<1> QED
  BY <1>1, <1>2 DEF Encrypt, Decrypt

\* A step that touches neither places nor boundary damages nothing.
LEMMA Untouched ==
    ASSUME ThreadInv, place' = place, Boundary' = Boundary, Concealing' <=> Concealing,
           enc.pc \notin Buffered \cup {"advance"}, enc'.pc \notin Buffered \cup {"advance"}
    PROVE  Bad' = Bad
<1>1. ASSUME NEW u \in Data PROVE (Content(u) = Wanted(u))' <=> Content(u) = Wanted(u)
  BY DEF Content, Wanted, Before
<1> QED
  BY <1>1 DEF Bad, Data

\* A step outside the transformation that damages nothing.
LEMMA QuietLoss ==
    ASSUME SizesAssumed, LossInv, Bad' = Bad, faults' = faults,
           enc.pc \notin {"undo", "close"}, enc'.pc \notin Buffered \cup {"close"}
    PROVE  LossInv'
<1>1. Damage' = Damage /\ Spared' = Spared
  BY DEF Damage, Spared
<1> QED
  BY <1>1 DEF LossInv, Buffered

-----------------------------------------------------------------------------
LossPre == SizesAssumed /\ ThreadInv /\ PcInv /\ DistanceInv /\ LossInv

LEMMA LossStarting ==
    ASSUME LossPre, \/ Begin \/ DismountFileSystem \/ WriteBackupHeader \/ SaveSettings
                    \/ Resume \/ OpenBackupHeader \/ Loop \/ PollCancel
    PROVE  LossInv'
<1> USE DEF LossPre
<1>1. place' = place /\ faults' = faults
  BY DEF Begin, DismountFileSystem, WriteBackupHeader, SaveSettings, Resume, OpenBackupHeader,
     Loop, PollCancel
<1>2. enc.pc \in {"none", "dismount", "backup", "saveSettings", "open", "loop", "poll"}
  BY DEF Begin, DismountFileSystem, WriteBackupHeader, SaveSettings, Resume, OpenBackupHeader,
     Loop, PollCancel
<1>3. enc'.pc \in {"none", "dismount", "backup", "conceal", "open", "loop", "read", "update"}
  <2> USE DEF Go, NoThread, ThreadInv
  <2>1. CASE Begin \/ DismountFileSystem \/ WriteBackupHeader \/ SaveSettings
    BY <2>1 DEF Begin, DismountFileSystem, WriteBackupHeader, SaveSettings
  <2>2. CASE Resume
    BY <2>2 DEF Resume
  <2>5. CASE OpenBackupHeader
    <3>1. CASE enc' = NoThread
      BY <3>1
    <3>2. CASE enc' = [enc EXCEPT !.pc = "loop", !.remaining = Units - backupHeader.length]
      BY <3>2
    <3> QED
      BY <3>1, <3>2, <2>5 DEF OpenBackupHeader
  <2>3. CASE Loop
    BY <2>3 DEF Loop
  <2>4. CASE PollCancel
    BY <2>4 DEF PollCancel
  <2> QED
    BY <2>1, <2>2, <2>3, <2>4, <2>5
<1>4. Boundary' = Boundary
  <2> USE DEF Boundary, Transforming, Counting, Handling, Buffered, ThreadInv, NoThread, Go
  <2>1. CASE Begin \/ DismountFileSystem \/ SaveSettings \/ Resume
    BY <2>1 DEF Begin, DismountFileSystem, SaveSettings, Resume
  <2>2. CASE WriteBackupHeader
    <3>1. backupHeader.length = 0 /\ backupHeader'.length = 0
      BY <2>2 DEF WriteBackupHeader, Concealing
    <3>2. enc.pc = "backup" /\ enc'.pc \in {"conceal", "none"}
      BY <2>2 DEF WriteBackupHeader
    <3> QED
      BY <3>1, <3>2
  <2>3. CASE OpenBackupHeader
    <3>1. CASE enc' = NoThread
      BY <3>1, <2>3 DEF OpenBackupHeader
    <3>2. CASE enc' = [enc EXCEPT !.pc = "loop", !.remaining = Units - backupHeader.length]
      <4>1. enc'.pc = "loop" /\ enc'.remaining = Units - backupHeader.length
        BY <3>2
      <4>2. enc.pc = "open"
        BY <2>3 DEF OpenBackupHeader
      <4> QED
        BY <4>1, <4>2
    <3> QED
      BY <3>1, <3>2, <2>3 DEF OpenBackupHeader
  <2>4. CASE Loop \/ PollCancel
    <3>1. enc.pc \in {"loop", "poll"} /\ enc'.pc \in {"loop", "read", "update"} /\ enc'.remaining = enc.remaining
      BY <2>4 DEF Loop, PollCancel
    <3> QED
      BY <3>1
  <2> QED
    BY <2>1, <2>2, <2>3, <2>4
<1>5. Concealing' <=> Concealing
  <2> USE DEF Concealing, ThreadInv
  <2>1. CASE Begin \/ DismountFileSystem \/ SaveSettings \/ Resume \/ OpenBackupHeader \/ Loop \/ PollCancel
    <3>1. backupHeader' = backupHeader
      BY <2>1 DEF Begin, DismountFileSystem, SaveSettings, Resume, OpenBackupHeader, Loop, PollCancel
    <3>2. enc.pc # "conceal" /\ (enc'.pc = "conceal" => DismountFileSystem)
      <4> USE DEF NoThread, Go
      <4>1. CASE Begin \/ SaveSettings \/ Resume
        BY <4>1, <1>2 DEF Begin, SaveSettings, Resume
      <4>4. CASE OpenBackupHeader
        <5>1. CASE enc' = NoThread
          BY <5>1, <1>2
        <5>2. CASE enc' = [enc EXCEPT !.pc = "loop", !.remaining = Units - backupHeader.length]
          BY <5>2, <1>2
        <5> QED
          BY <5>1, <5>2, <4>4 DEF OpenBackupHeader
      <4>2. CASE Loop
        BY <4>2, <1>2 DEF Loop
      <4>3. CASE PollCancel
        BY <4>3, <1>2 DEF PollCancel
      <4> QED
        BY <4>1, <4>2, <4>3, <4>4, <2>1, <1>2
    <3>3. DismountFileSystem => enc'.pc # "conceal"
      BY DEF DismountFileSystem, Go, NoThread
    <3> QED
      BY <3>1, <3>2, <3>3
  <2>2. CASE WriteBackupHeader
    <3>1. enc.pc = "backup" /\ (enc'.pc = "conceal" \/ (enc'.pc = "none" /\ backupHeader' = backupHeader))
      BY <2>2 DEF WriteBackupHeader, Go, NoThread
    <3> QED
      BY <3>1
  <2> QED
    BY <2>1, <2>2
<1>6. Bad' = Bad
  BY <1>1, <1>2, <1>3, <1>4, <1>5, Untouched DEF Buffered
<1> QED
  BY <1>1, <1>2, <1>3, <1>6, QuietLoss DEF Buffered

\* Stopping before the concealment costs the start of the file system.
LEMMA LossUnconcealed ==
    ASSUME LossPre, enc.pc = "conceal", enc'.pc = "none", place' = place, backupHeader' = backupHeader,
           faults'.unconcealed, faults'.failed = faults.failed, faults'.crashed = faults.crashed
    PROVE  LossInv'
<1> USE DEF LossPre
<1>1. backupHeader.valid /\ backupHeader.length = 0 /\ Concealing /\ ~faults.unconcealed
  BY DEF ThreadInv, Concealing
<1>3. ~Concealing'
  BY <1>1 DEF Concealing
<1>4. Boundary = Units /\ Boundary' = Units
  BY <1>1 DEF Boundary, Transforming, Counting, Handling, Buffered, SizesAssumed
<1>6. ASSUME NEW u \in Data, u # 0 PROVE Content(u)' = Content(u) /\ Wanted(u)' = Wanted(u)
  BY <1>1, <1>3, <1>4, <1>6 DEF Content, Wanted, Before, Buffered, Data, SizesAssumed
<1>7. Bad' \subseteq Bad \cup (0..0 + 1 - 1)
  BY <1>6 DEF Bad, Data
<1>8. Damage \in Nat /\ Damage' \in Nat /\ Damage' <= Damage + 1
  BY <1>7, DamageInside
<1>9. Allowed(faults.crashed, faults.failed) \in Nat
  BY AllowedFacts DEF LossInv
<1>10. Spared' = 1 /\ Spared = 0
  BY <1>1 DEF Spared
<1> QED
  BY <1>8, <1>9, <1>10 DEF LossInv, Buffered

LEMMA LossConceal ==
    ASSUME LossPre, ConcealNTFS
    PROVE  LossInv'
<1> USE DEF LossPre
<1>1. enc.pc = "conceal" /\ backupHeader.valid /\ backupHeader' = backupHeader /\ backupHeader.length = 0
      /\ Concealing /\ ~faults.unconcealed
  BY DEF ConcealNTFS, ThreadInv, Concealing
<1>2. enc'.pc \in {"none", "saveSettings"}
  BY DEF ConcealNTFS, Go, NoThread, ThreadInv
<1>3. ~Concealing'
  BY <1>1, <1>2 DEF Concealing
<1>4. Boundary = Units /\ Boundary' = Units
  BY <1>1, <1>2 DEF Boundary, Transforming, Counting, Handling, Buffered, SizesAssumed
<1>5. \A u \in Data : u < Units
  BY DEF Data, SizesAssumed
<1>6. /\ \A u \in Data : Content(u) = place[u] /\ Wanted(u) = Plain(u)
      /\ \A u \in Data : Content(u)' = place'[u] /\ Wanted(u)' = IF u = 0 THEN Concealed ELSE Plain(u)
  BY <1>1, <1>2, <1>3, <1>4, <1>5 DEF Content, Wanted, Before, Buffered, Data, SizesAssumed
<1>9. Allowed(faults.crashed, faults.failed) \in Nat /\ Spared \in Nat
  BY AllowedFacts DEF LossInv, Spared
<1>7. CASE place' = [place EXCEPT ![0] = Conceal(@)] /\ faults' = faults
  <2>1. ASSUME NEW u \in Data, Content(u) = Wanted(u) PROVE Content(u)' = Wanted(u)'
    <3>1. CASE u = 0
      BY <1>6, <1>7, <2>1, <3>1, Values DEF ThreadInv, SizesAssumed
    <3>2. CASE u # 0
      BY <1>6, <1>7, <2>1, <3>2 DEF ThreadInv, SizesAssumed
    <3> QED
      BY <3>1, <3>2
  <2>2. Bad' \subseteq Bad
    BY <2>1 DEF Bad, Data
  <2>3. Damage \in Nat /\ Damage' \in Nat /\ Damage' <= Damage
    BY <2>2, DamageFewer
  <2>4. Spared' = Spared
    BY <1>7 DEF Spared
  <2> QED
    BY <1>1, <1>2, <1>7, <1>9, <2>3, <2>4 DEF LossInv, Buffered
<1>8. CASE faults' = [faults EXCEPT !.cut = @ + 1, !.unconcealed = TRUE] /\ place' = place
           /\ enc' = NoThread
  <2>1. faults'.unconcealed /\ faults'.failed = faults.failed /\ faults'.crashed = faults.crashed
    BY <1>8 DEF ThreadInv
  <2>2. enc'.pc = "none"
    BY <1>8 DEF NoThread
  <2> QED
    BY <1>1, <1>8, <2>1, <2>2, LossUnconcealed
<1> QED
  BY <1>7, <1>8 DEF ConcealNTFS, Succeed

\* Reading a chunk: each unit of it that was right is right in the buffer.
LEMMA LossRead ==
    ASSUME LossPre, ReadChunk
    PROVE  LossInv'
<1> USE DEF LossPre
<1> DEFINE first == enc.remaining - enc.chunk
<1>1. enc.pc = "read" /\ place' = place /\ backupHeader' = backupHeader
  BY DEF ReadChunk
<1>2. enc'.remaining = enc.remaining /\ enc'.chunk = enc.chunk /\ enc'.pc \in {"wipe", "write", "close"}
  BY DEF ReadChunk, Go, ThreadInv, NoThread
<1>3. ~Concealing /\ ~Concealing'
  BY <1>1, <1>2 DEF Concealing, ThreadInv
<1>4. Boundary = enc.remaining /\ Boundary' = Boundary
  BY <1>1, <1>2 DEF Boundary, Transforming, Counting, Handling, Buffered
<1>5. ChunkOf(enc') = ChunkOf(enc) /\ ChunkOf(enc) = first..enc.remaining - 1 /\ first \in Nat
      /\ enc.remaining \in Nat
  BY <1>1, <1>2 DEF ChunkOf, ThreadInv, Handling, SizesAssumed
<1>8. Allowed(faults.crashed, faults.failed) \in Nat
  BY AllowedFacts DEF LossInv
<1>6. CASE /\ faults' = faults /\ enc'.pc \in {"wipe", "write"}
           /\ enc'.buf = [u \in ChunkOf(enc) |-> Encrypt(Read(u), u)]
  <2>1. \A u \in ChunkOf(enc) : enc'.buf[u] = Cipher(u) => place[u] = IF u = 0 THEN Concealed ELSE Plain(u)
    BY <1>6, Values DEF Read
  <2>2. \A u \in ChunkOf(enc) : place[u] = (IF u = 0 THEN Concealed ELSE Plain(u)) => enc'.buf[u] = Cipher(u)
    <3>1. Conceal(Concealed) = Plain(0)
      BY Values DEF Conceal
    <3> QED
      BY <1>6, <3>1 DEF Read, Encrypt
  <2>3. ASSUME NEW u \in Data, Content(u) = Wanted(u) PROVE Content(u)' = Wanted(u)'
    <3>1. CASE u \in ChunkOf(enc)
      <4>1. u < Boundary
        BY <3>1, <1>4, <1>5
      <4>2. Content(u) = place[u] /\ Wanted(u) = IF u = 0 THEN Concealed ELSE Plain(u)
        BY <4>1, <1>1, <1>3, <1>4, <1>5, <2>3 DEF Content, Wanted, Before, Buffered, Data, SizesAssumed
      <4>3. Content(u)' = enc'.buf[u] /\ Wanted(u)' = Cipher(u)
        BY <3>1, <1>5, <1>6 DEF Content, Wanted, Buffered
      <4> QED
        BY <2>2, <2>3, <3>1, <4>2, <4>3
    <3>2. CASE u \notin ChunkOf(enc)
      BY <3>2, <2>3, <1>1, <1>3, <1>4, <1>5 DEF Content, Wanted, Before, Buffered
    <3> QED
      BY <3>1, <3>2
  <2>4. Bad' \subseteq Bad
    BY <2>3 DEF Bad, Data
  <2>5. Damage \in Nat /\ Damage' \in Nat /\ Damage' <= Damage
    BY <2>4, DamageFewer
  <2>6. Spared' = Spared /\ Spared \in Nat
    BY <1>6 DEF Spared
  <2>7. first \in ChunkOf(enc)
    BY <1>1, <1>5 DEF ThreadInv, Handling
  <2>8. enc'.buf[first] = Cipher(first) => place'[first] = Before(first)'
    BY <1>1, <1>2, <1>3, <2>1, <2>7 DEF Before
  <2> QED
    BY <1>1, <1>2, <1>6, <1>8, <2>5, <2>6, <2>8 DEF LossInv, Buffered
<1>7. CASE Fail /\ enc'.pc = "close"
  <2>1. Bad' = Bad
    BY <1>1, <1>3, <1>4, <1>7, Untouched DEF Buffered
  <2>2. Damage' = Damage /\ faults'.failed = faults.failed + 1 /\ faults'.crashed = faults.crashed
        /\ (faults'.unconcealed <=> faults.unconcealed)
    BY <2>1, <1>7 DEF Damage, Fail, ThreadInv
  <2>3. Spared' = Spared
    BY <2>2 DEF Spared
  <2> QED
    BY <1>1, <1>7, <2>2, <2>3 DEF LossInv, Buffered
<1> QED
  BY <1>6, <1>7 DEF ReadChunk, Succeed, Go, ThreadInv, NoThread

\* What writing units of a chunk changes: the places above them.
LEMMA Written ==
    ASSUME SizesAssumed, ThreadInv, enc.pc \in Handling, NEW content, NEW units \in SUBSET ChunkOf(enc),
           WriteUnits(content, units)
    PROVE  /\ \A p \in 0..Units : p - 1 \notin ChunkOf(enc) => place'[p] = place[p]
           /\ \A u \in units : place'[u + 1] = content[u]
<1>1. DOMAIN place = 0..Units /\ enc.remaining \in 0..Units /\ enc.chunk \in Nat /\ enc.chunk <= enc.remaining
  BY DEF ThreadInv, SizesAssumed
<1>2. \A u \in ChunkOf(enc) : u \in Int /\ u + 1 \in 0..Units
  BY <1>1 DEF ChunkOf, SizesAssumed
<1> QED
  BY <1>1, <1>2 DEF WriteUnits

\* Where the chunk under way is.
LEMMA ChunkPlace ==
    ASSUME SizesAssumed, ThreadInv, enc.pc \in Handling
    PROVE  /\ enc.remaining \in 0..Units /\ enc.chunk \in Nat /\ enc.chunk > 0 /\ enc.chunk <= ChunkUnits
           /\ enc.remaining - enc.chunk \in Nat
           /\ ChunkOf(enc) = (enc.remaining - enc.chunk)..(enc.remaining - 1)
           /\ Boundary = enc.remaining /\ ~Concealing
           /\ backupHeader.length \in 0..Units /\ Units \in Nat
  BY DEF ThreadInv, SizesAssumed, ChunkOf, Boundary, Transforming, Counting, Handling, Buffered,
     Concealing

\* The right copy of a chunk under way is in the buffer, so that writing damages nothing, and
\* writing leaves alone what undoing does not restore.
LEMMA InBuffer ==
    ASSUME SizesAssumed, ThreadInv, enc.pc \in Buffered, enc'.pc \in Buffered,
           enc'.remaining = enc.remaining, enc'.chunk = enc.chunk, enc'.buf = enc.buf,
           backupHeader' = backupHeader,
           \A p \in 0..Units : p - 1 \notin ChunkOf(enc) => place'[p] = place[p]
    PROVE  /\ Bad' = Bad
           /\ ~Concealing' /\ ~Concealing
           /\ place'[enc.remaining - enc.chunk] = place[enc.remaining - enc.chunk]
<1> DEFINE first == enc.remaining - enc.chunk
<1>1. /\ enc.remaining \in 0..Units /\ enc.chunk \in Nat /\ first \in Nat /\ enc.chunk > 0
      /\ ChunkOf(enc) = first..(enc.remaining - 1) /\ Boundary = enc.remaining /\ ~Concealing /\ Units \in Nat
  BY ChunkPlace DEF Handling
<1>2. ChunkOf(enc') = ChunkOf(enc) /\ Boundary' = Boundary /\ ~Concealing'
  BY <1>1 DEF ChunkOf, Boundary, Transforming, Counting, Handling, Buffered, Concealing
<1>3. ASSUME NEW u \in Data PROVE Content(u)' = Content(u) /\ (Wanted(u)' = Wanted(u))
  <2>1. CASE u \in ChunkOf(enc)
    BY <2>1, <1>2 DEF Content, Wanted
  <2>2. CASE u \notin ChunkOf(enc)
    <3>1. u \in 0..Units /\ u + 1 \in 0..Units
      BY <1>1 DEF Data
    <3>2. CASE u >= Boundary
      <4>1. place'[u + 1] = place[u + 1]
        <5>1. u + 1 - 1 \notin ChunkOf(enc)
          BY <2>2, <3>1, <1>1
        <5> QED
          BY <5>1, <3>1
      <4> QED
        BY <4>1, <2>2, <3>2, <1>2 DEF Content, Wanted, Before
    <3>3. CASE ~(u >= Boundary)
      <4>1. u - 1 \notin ChunkOf(enc)
        BY <2>2, <3>1, <3>3, <1>1
      <4>2. place'[u] = place[u]
        BY <4>1, <3>1
      <4> QED
        BY <4>2, <2>2, <3>3, <1>1, <1>2 DEF Content, Wanted, Before, Buffered
    <3> QED
      BY <3>2, <3>3
  <2> QED
    BY <2>1, <2>2
<1>4. Bad' = Bad
  BY <1>3 DEF Bad, Data
<1>5. place'[first] = place[first]
  <2>1. first \in 0..Units /\ first - 1 \notin ChunkOf(enc)
    BY <1>1
  <2> QED
    BY <2>1
<1> QED
  BY <1>1, <1>2, <1>4, <1>5

LEMMA LossWrite ==
    ASSUME LossPre, WipePass \/ WriteChunkBegin
    PROVE  LossInv'
<1> USE DEF LossPre
<1> DEFINE first == enc.remaining - enc.chunk
<1>1. enc.pc \in {"wipe", "write"} /\ backupHeader' = backupHeader
  BY DEF WipePass, WriteChunkBegin
<1>2. /\ enc'.remaining = enc.remaining /\ enc'.chunk = enc.chunk /\ enc'.buf = enc.buf
      /\ enc'.pc \in Buffered
  <2>1. CASE WipePass
    BY <2>1 DEF WipePass, Go, ThreadInv, NoThread, Buffered
  <2>2. CASE WriteChunkBegin
    BY <2>2 DEF WriteChunkBegin, Go, ThreadInv, NoThread, Buffered
  <2> QED
    BY <2>1, <2>2
<1>3. \A p \in 0..Units : p - 1 \notin ChunkOf(enc) => place'[p] = place[p]
  <2>1. PICK content : \E units \in SUBSET ChunkOf(enc) : WriteUnits(content, units)
    <3>1. ChunkOf(enc) \in SUBSET ChunkOf(enc)
      OBVIOUS
    <3> QED
      BY <3>1 DEF WipePass, WriteChunkBegin, WriteSome
  <2>2. PICK units \in SUBSET ChunkOf(enc) : WriteUnits(content, units)
    BY <2>1
  <2> QED
    BY <1>1, <2>2, Written DEF Handling, Buffered
<1>4. Bad' = Bad /\ ~Concealing' /\ ~Concealing /\ place'[first] = place[first]
  BY <1>1, <1>2, <1>3, InBuffer DEF Buffered
<1>5. Damage' = Damage
  BY <1>4 DEF Damage
<1>6. enc'.buf[first] = Cipher(first) => place'[first] = Before(first)'
  BY <1>1, <1>2, <1>4 DEF LossInv, Before, Buffered
<1>7. CASE faults' = faults /\ enc'.pc \in {"wipe", "write", "writing"}
  <2>1. Spared' = Spared
    BY <1>7 DEF Spared
  <2> QED
    BY <1>1, <1>2, <1>5, <1>6, <1>7, <2>1 DEF LossInv, Buffered
<1>8. CASE Fail /\ enc'.pc = "undo"
  <2>1. faults'.failed = faults.failed + 1 /\ faults'.crashed = faults.crashed
        /\ (faults'.unconcealed <=> faults.unconcealed)
    BY <1>8 DEF Fail, ThreadInv
  <2>2. Spared' = Spared
    BY <2>1 DEF Spared
  <2> QED
    BY <1>1, <1>2, <1>5, <1>6, <1>8, <2>1, <2>2 DEF LossInv, Buffered
<1> QED
  BY <1>7, <1>8 DEF WipePass, WriteChunkBegin, Succeed, Go, ThreadInv, NoThread

LEMMA LossWriteEnd ==
    ASSUME LossPre, WriteChunkEnd
    PROVE  LossInv'
<1> USE DEF LossPre
<1> DEFINE first == enc.remaining - enc.chunk
<1>1. enc.pc = "writing" /\ backupHeader' = backupHeader
  BY DEF WriteChunkEnd
<1>2. enc'.remaining = enc.remaining /\ enc'.chunk = enc.chunk /\ enc'.buf = enc.buf
  BY DEF WriteChunkEnd, Go, ThreadInv, NoThread
<1>3. /\ enc.remaining \in 0..Units /\ enc.chunk \in Nat /\ first \in Nat /\ enc.chunk > 0
      /\ ChunkOf(enc) = first..(enc.remaining - 1) /\ Boundary = enc.remaining /\ ~Concealing /\ Units \in Nat
  BY <1>1, ChunkPlace DEF Handling, Buffered
<1>4. CASE WriteUnits(enc.buf, ChunkOf(enc)) /\ faults' = faults /\ enc'.pc = "advance"
  <2>1. /\ \A p \in 0..Units : p - 1 \notin ChunkOf(enc) => place'[p] = place[p]
        /\ \A u \in ChunkOf(enc) : place'[u + 1] = enc.buf[u]
    BY <1>1, <1>4, Written DEF Handling, Buffered
  <2>2. ChunkOf(enc') = ChunkOf(enc) /\ Boundary' = Boundary /\ ~Concealing'
    BY <1>1, <1>2, <1>3, <1>4 DEF ChunkOf, Boundary, Transforming, Counting, Handling, Buffered,
       Concealing
  <2>3. ASSUME NEW u \in Data PROVE Content(u)' = Content(u) /\ Wanted(u)' = Wanted(u)
    <3>1. CASE u \in ChunkOf(enc)
      BY <3>1, <1>1, <1>4, <2>1, <2>2 DEF Content, Wanted, Buffered
    <3>2. CASE u \notin ChunkOf(enc) /\ u >= Boundary
      <4>1. PICK p \in 0..Units : p = u + 1 /\ p - 1 \notin ChunkOf(enc)
        BY <3>2, <1>3 DEF Data
      <4>2. place'[u + 1] = place[u + 1]
        BY <4>1, <2>1, Zenon
      <4> QED
        BY <4>2, <3>2, <1>1, <1>4, <2>2 DEF Content, Wanted, Before, Buffered
    <3>3. CASE u \notin ChunkOf(enc) /\ ~(u >= Boundary)
      <4>1. u \in 0..Units /\ u - 1 \notin ChunkOf(enc)
        BY <3>3, <1>3 DEF Data
      <4>2. place'[u] = place[u]
        BY <4>1, <2>1
      <4> QED
        BY <4>2, <3>3, <1>1, <1>3, <1>4, <2>2 DEF Content, Wanted, Before, Buffered
    <3> QED
      BY <3>1, <3>2, <3>3
  <2>4. Damage' = Damage /\ Spared' = Spared
    BY <1>4, <2>3 DEF Damage, Bad, Data, Spared
  <2> QED
    BY <1>1, <1>4, <2>4 DEF LossInv, Buffered
<1>5. CASE place' = place /\ Fail /\ enc'.pc = "undo"
  <2>1. Bad' = Bad /\ ~Concealing' /\ place'[first] = place[first]
    BY <1>1, <1>2, <1>5, InBuffer DEF Buffered
  <2>2. Damage' = Damage
    BY <2>1 DEF Damage
  <2>3. enc'.buf[first] = Cipher(first) => place'[first] = Before(first)'
    BY <1>1, <1>2, <1>3, <2>1 DEF LossInv, Before, Buffered
  <2>4. faults'.failed = faults.failed + 1 /\ faults'.crashed = faults.crashed
        /\ (faults'.unconcealed <=> faults.unconcealed)
    BY <1>5 DEF Fail, ThreadInv
  <2>5. Spared' = Spared
    BY <2>4 DEF Spared
  <2> QED
    BY <1>1, <1>2, <1>5, <2>2, <2>3, <2>4, <2>5 DEF LossInv, Buffered
<1> QED
  BY <1>4, <1>5 DEF WriteChunkEnd, Succeed, Go, ThreadInv, NoThread

LEMMA FailChanges == ThreadInv /\ LossInv /\ Fail => faults' # faults
<1> SUFFICES ASSUME ThreadInv, LossInv, Fail PROVE faults' # faults
  OBVIOUS
<1>1. faults'.failed = faults.failed + 1 /\ faults.failed \in Nat
  BY DEF Fail, ThreadInv, LossInv
<1> QED
  BY <1>1

\* Undoing restores the units of the chunk that lay where the ciphertext went; the first of
\* them has not been touched.
LEMMA LossUndo ==
    ASSUME LossPre, UndoWrite
    PROVE  LossInv'
<1> USE DEF LossPre
<1> DEFINE first == enc.remaining - enc.chunk
<1>1. enc.pc = "undo" /\ backupHeader' = backupHeader /\ enc'.pc = "close"
      /\ enc'.remaining = enc.remaining
  BY DEF UndoWrite, Go, ThreadInv, NoThread
<1>2. /\ enc.remaining \in 0..Units /\ enc.chunk \in Nat /\ first \in Nat /\ enc.chunk > 0
      /\ ChunkOf(enc) = first..(enc.remaining - 1) /\ Boundary = enc.remaining /\ ~Concealing /\ Units \in Nat
      /\ enc.chunk <= ChunkUnits
  BY <1>1, ChunkPlace DEF Handling, Buffered
<1>3. Boundary' = Boundary /\ ~Concealing'
  BY <1>1, <1>2 DEF Boundary, Transforming, Counting, Handling, Buffered, Concealing
<1>4. PICK units \in SUBSET OldUnits :
          /\ RestoreUnits(units)
          /\ (units = OldUnits /\ faults' = faults) \/ Fail
  BY DEF UndoWrite, Succeed
<1>5. OldUnits = {u \in ChunkOf(enc) : u > first} /\ DOMAIN place = 0..Units
  BY DEF OldUnits, ThreadInv
<1>6. /\ \A p \in 0..Units : p \notin units => place'[p] = place[p]
      /\ \A u \in units : place'[u] = Decrypt(enc.buf[u], u)
  BY <1>2, <1>4, <1>5 DEF RestoreUnits
<1>7. ASSUME NEW u \in Data, u \notin ChunkOf(enc) PROVE Content(u)' = Content(u) /\ Wanted(u)' = Wanted(u)
  <2>2. u \notin units /\ u \in 0..Units /\ u + 1 \in 0..Units
    BY <1>2, <1>4, <1>5, <1>7 DEF Data
  <2>3. place'[u] = place[u]
    BY <2>2, <1>6
  <2>4. u >= Boundary => place'[u + 1] = place[u + 1]
    <3>1. u >= Boundary => u + 1 \notin units
      BY <1>2, <1>4, <1>5, <2>2
    <3> QED
      BY <3>1, <2>2, <1>6
  <2> QED
    BY <2>3, <2>4, <1>1, <1>2, <1>3, <1>7 DEF Content, Wanted, Before, Buffered
<1>8. Allowed(faults.crashed, faults.failed - 1) \in Nat /\ Spared \in Nat /\ faults.failed \in Nat
      /\ faults.failed > 0 /\ faults.crashed \in Nat /\ Exposed \in Nat /\ Exposed + ChunkUnits <= Lag
  <2>1. faults.failed > 0 /\ faults.failed \in Nat /\ faults.crashed \in Nat
    BY <1>1 DEF LossInv
  <2>2. Exposed = enc.distance /\ enc.distance \in Nat /\ enc.distance < UpdateInterval
        /\ enc.distance % ChunkUnits = 0
    BY <1>1, <1>2 DEF DistanceInv, Handling, Counting, Buffered
  <2>3. Exposed \in Nat /\ Exposed + ChunkUnits <= Lag
    BY <2>2, LagFacts
  <2>4. faults.failed - 1 \in Nat
    BY <2>1
  <2>5. Allowed(faults.crashed, faults.failed - 1) \in Nat
    BY <2>1, <2>4, AllowedFacts
  <2> QED
    BY <2>1, <2>3, <2>5 DEF Spared
<1>9. Exposed' = Exposed
  BY <1>1, <1>3 DEF Exposed
<1>10. CASE units = OldUnits /\ faults' = faults
  <2>1. ASSUME NEW u \in Data, Content(u) = Wanted(u) PROVE Content(u)' = Wanted(u)'
    <3>1. CASE u \in ChunkOf(enc)
      <4>1. enc.buf[u] = Cipher(u)
        BY <3>1, <1>1, <2>1 DEF Content, Wanted, Buffered
      <4>2. u \in Int /\ u < Boundary /\ u \in 0..Units
        BY <3>1, <1>2 DEF Data
      <4>3. place'[u] = IF u = 0 THEN Concealed ELSE Plain(u)
        <5>1. CASE u > first
          <6>1. u \in units /\ u # 0
            BY <5>1, <3>1, <1>2, <1>5, <1>10
          <6> QED
            BY <6>1, <4>1, <1>6, Values
        <5>2. CASE u = first
          <6>1. u \notin units
            BY <5>2, <1>2, <1>5, <1>10
          <6>2. place'[u] = place[u]
            BY <6>1, <4>2, <1>6
          <6> QED
            BY <6>2, <5>2, <4>1, <1>1, <1>2 DEF LossInv, Before, Buffered
        <5> QED
          BY <5>1, <5>2, <3>1, <1>2
      <4> QED
        BY <4>2, <4>3, <1>1, <1>2, <1>3 DEF Content, Wanted, Before, Buffered
    <3>2. CASE u \notin ChunkOf(enc)
      BY <3>2, <2>1, <1>7
    <3> QED
      BY <3>1, <3>2
  <2>2. Bad' \subseteq Bad
    BY <2>1 DEF Bad, Data
  <2>3. Damage \in Nat /\ Damage' \in Nat /\ Damage' <= Damage
    BY <2>2, DamageFewer
  <2>4. Spared' = Spared
    BY <1>10 DEF Spared
  <2> QED
    BY <1>1, <1>8, <1>10, <2>3, <2>4 DEF LossInv, Buffered
<1>11. CASE Fail
  <2>1. Bad' \subseteq Bad \cup (first..first + enc.chunk - 1)
    <3>1. ASSUME NEW u \in Data, Content(u) = Wanted(u), u \notin first..first + enc.chunk - 1
          PROVE Content(u)' = Wanted(u)'
      <4>1. u \notin ChunkOf(enc)
        BY <3>1, <1>2
      <4> QED
        BY <4>1, <3>1, <1>7
    <3> QED
      BY <3>1 DEF Bad, Data
  <2>2. Damage \in Nat /\ Damage' \in Nat /\ Damage' <= Damage + enc.chunk
    BY <2>1, <1>2, DamageInside
  <2>3. faults'.failed = faults.failed + 1 /\ faults'.crashed = faults.crashed
        /\ (faults'.unconcealed <=> faults.unconcealed)
    BY <1>11 DEF Fail, ThreadInv
  <2>4. Spared' = Spared
    BY <2>3 DEF Spared
  <2>5. Allowed(faults'.crashed, faults'.failed) = Allowed(faults.crashed, faults.failed - 1) + Lag
    <3>1. PICK f \in Nat : f = faults.failed - 1 /\ faults'.failed = f + 2
      BY <1>8, <2>3
    <3>2. Allowed(faults.crashed, f + 2) = Allowed(faults.crashed, f) + Lag
      BY <1>8, AllowedFacts
    <3> QED
      BY <3>1, <3>2, <2>3
  <2>6. Lag \in Nat /\ ChunkUnits \in Nat
    BY LagFacts DEF SizesAssumed
  <2>7. Damage <= Allowed(faults.crashed, faults.failed - 1) + Spared
    BY <1>1 DEF LossInv
  <2>8. Damage' + Exposed' <= Allowed(faults'.crashed, faults'.failed) + Spared'
    BY <1>2, <1>8, <1>9, <2>2, <2>4, <2>5, <2>6, <2>7
  <2> QED
    BY <1>1, <1>8, <2>3, <2>8 DEF LossInv, Buffered
<1> QED
  BY <1>4, <1>10, <1>11

LEMMA LossAdvance ==
    ASSUME LossPre, Advance
    PROVE  LossInv'
<1> USE DEF LossPre
<1> DEFINE first == enc.remaining - enc.chunk
<1>1. enc.pc = "advance" /\ backupHeader' = backupHeader /\ place' = place /\ faults' = faults
  BY DEF Advance
<1>2. enc'.remaining = first /\ enc'.pc \in {"intervalUpdate", "poll"}
  BY DEF Advance, ThreadInv, NoThread
<1>3. /\ enc.remaining \in 0..Units /\ enc.chunk \in Nat /\ first \in Nat /\ enc.chunk > 0
      /\ ChunkOf(enc) = first..(enc.remaining - 1) /\ Boundary = enc.remaining /\ ~Concealing /\ Units \in Nat
  BY <1>1, ChunkPlace DEF Handling, Buffered
<1>4. Boundary' = first /\ ~Concealing'
  BY <1>1, <1>2, <1>3 DEF Boundary, Transforming, Counting, Handling, Buffered, Concealing
<1>5. ASSUME NEW u \in Data PROVE Content(u)' = Content(u) /\ Wanted(u)' = Wanted(u)
  <2>1. u >= first <=> u >= Boundary \/ u \in ChunkOf(enc)
    BY <1>3 DEF Data
  <2> QED
    BY <2>1, <1>1, <1>2, <1>3, <1>4 DEF Content, Wanted, Before, Buffered
<1>6. Bad' = Bad
  BY <1>5 DEF Bad, Data
<1> QED
  BY <1>1, <1>2, <1>6, QuietLoss DEF Buffered

\* Updating the header: afterwards it knows of everything.
LEMMA LossUpdate ==
    ASSUME LossPre, Update \/ WritePrimaryHeader
    PROVE  LossInv'
<1> USE DEF LossPre
<1>1. enc.pc \in {"intervalUpdate", "update", "primary"}
  BY DEF Update, WritePrimaryHeader
<1>2. enc'.remaining = enc.remaining /\ enc'.pc \in {"poll", "close", "primary"}
      /\ (enc'.pc = "poll" => enc.pc # "primary") /\ backupHeader'.length \in {backupHeader.length, Units - enc.remaining}
      /\ (backupHeader'.valid <=> backupHeader.valid)
  <2>1. CASE Update
    BY <2>1 DEF Update, FastVolumeHeaderUpdate, Go, ThreadInv, NoThread
  <2>2. CASE WritePrimaryHeader
    BY <2>2 DEF WritePrimaryHeader, Go, ThreadInv, NoThread
  <2> QED
    BY <2>1, <2>2
<1>3. ~Concealing /\ ~Concealing'
  BY <1>1, <1>2 DEF Concealing, ThreadInv
<1>4. Boundary = enc.remaining /\ Boundary' = Boundary /\ enc.remaining \in 0..Units /\ Units \in Nat
      /\ backupHeader.length \in 0..Units
  BY <1>1, <1>2 DEF Boundary, Transforming, Counting, Handling, Buffered, ThreadInv, SizesAssumed
<1>5. Bad' = Bad
  <2>1. CASE place' = place
    BY <2>1, <1>1, <1>2, <1>3, <1>4, Untouched DEF Buffered
  <2>2. CASE enc.pc = "primary" /\ place' = [place EXCEPT ![0] = Junk]
    <3>1. Boundary = 0 /\ DOMAIN place = 0..Units
      BY <2>2, <1>4 DEF ThreadInv
    <3>2. ASSUME NEW u \in Data PROVE Content(u)' = Content(u) /\ Wanted(u)' = Wanted(u)
      <4>1. u >= Boundary /\ u + 1 # 0
        BY <3>1 DEF Data
      <4>2. place'[u + 1] = place[u + 1]
        BY <2>2, <3>1, <4>1
      <4> QED
        BY <4>1, <4>2, <1>1, <1>2, <1>4 DEF Content, Wanted, Buffered
    <3> QED
      BY <3>2 DEF Bad, Data
  <2> QED
    BY <2>1, <2>2 DEF Update, WritePrimaryHeader
<1>6. Damage' = Damage
  BY <1>5 DEF Damage
<1>7. Damage <= Allowed(faults.crashed, faults.failed) + Spared
  BY <1>1 DEF LossInv
<1>8. CASE faults' = faults
  <2>1. Spared' = Spared
    BY <1>8 DEF Spared
  <2>2. enc'.pc = "close" => Exposed' = 0
    <3>1. CASE Update
      <4>2. FastVolumeHeaderUpdate
        BY <3>1, <1>8, FailChanges DEF Update
      <4>3. backupHeader'.length = Units - enc.remaining
        BY <4>2 DEF FastVolumeHeaderUpdate, ThreadInv
      <4> QED
        BY <4>3, <1>4 DEF Exposed
    <3>2. CASE WritePrimaryHeader
      <4>1. enc.pc = "primary" /\ backupHeader' = backupHeader
        BY <3>2 DEF WritePrimaryHeader
      <4> QED
        BY <4>1, <1>4 DEF DistanceInv, Exposed
    <3> QED
      BY <3>1, <3>2
  <2>3. Damage \in Nat
    BY <1>5, DamageFewer
  <2> QED
    BY <1>1, <1>2, <1>6, <1>7, <1>8, <2>1, <2>2, <2>3 DEF LossInv, Buffered
<1>9. CASE Fail
  <2>1. enc'.pc = "close"
    <3>1. faults' # faults
      BY <1>9, FailChanges
    <3> QED
      BY <3>1, <1>9 DEF Update, WritePrimaryHeader, Succeed, Go, ThreadInv, NoThread
  <2>2. faults'.failed = faults.failed + 1 /\ faults'.crashed = faults.crashed
        /\ (faults'.unconcealed <=> faults.unconcealed)
    BY <1>9 DEF Fail, ThreadInv
  <2>3. Spared' = Spared
    BY <2>2 DEF Spared
  <2> QED
    BY <1>6, <1>7, <2>1, <2>2, <2>3 DEF LossInv, Buffered
<1> QED
  BY <1>8, <1>9 DEF Update, WritePrimaryHeader, Succeed

\* What holds of the damage wherever the thread is.
LEMMA LossBound ==
    ASSUME LossPre
    PROVE  /\ Damage \in Nat /\ Spared \in Nat /\ Lag \in Nat
           /\ faults.crashed \in Nat /\ faults.failed \in Nat
           /\ Allowed(faults.crashed, faults.failed) \in Nat
           /\ Damage <= Allowed(faults.crashed, faults.failed) + Spared
<1> USE DEF LossPre
<1>1. Damage \in Nat
  <2>1. Bad \in SUBSET Data /\ Bad \subseteq Bad \cup (0..0 + 0 - 1)
    BY DEF Bad
  <2> QED
    BY <2>1, Counted DEF Damage
<1>2. faults.crashed \in Nat /\ faults.failed \in Nat /\ Spared \in Nat /\ Lag \in Nat
  BY LagFacts DEF LossInv, Spared
<1>3. Allowed(faults.crashed, faults.failed) \in Nat
  BY <1>2, AllowedFacts
<1>4. CASE enc.pc \notin {"undo", "close"}
  BY <1>1, <1>2, <1>3, <1>4 DEF LossInv
<1>5. CASE faults.failed > 0 /\ Damage <= Allowed(faults.crashed, faults.failed - 1) + Spared
  <2>1. PICK f \in Nat : f = faults.failed - 1 /\ f + 1 = faults.failed
    BY <1>2, <1>5
  <2>2. Allowed(faults.crashed, f) \in Nat
        /\ Allowed(faults.crashed, f) <= Allowed(faults.crashed, f + 1)
    BY <1>2, AllowedFacts
  <2> QED
    BY <1>1, <1>2, <1>3, <1>5, <2>1, <2>2
<1>6. CASE enc.pc = "close" /\ Damage + Exposed <= Allowed(faults.crashed, faults.failed) + Spared
  <2>1. Exposed \in Int /\ Exposed >= 0
    <3>1. enc.pc \in Transforming
      BY <1>6 DEF Transforming
    <3> QED
      BY <3>1 DEF Exposed, Boundary, DistanceInv, ThreadInv, SizesAssumed
  <2> QED
    BY <1>1, <1>2, <1>3, <1>6, <2>1
<1> QED
  BY <1>1, <1>2, <1>3, <1>4, <1>5, <1>6 DEF LossInv

\* When the thread stops, the header decides what counts as encrypted: what was done since it
\* was updated is damaged, and the chunk under way.
UnderWay == IF enc.pc \in Handling THEN enc.chunk ELSE 0

LEMMA Stopped ==
    ASSUME LossPre, enc.pc \in Transforming, enc'.pc = "none", place' = place, backupHeader' = backupHeader
    PROVE  /\ UnderWay \in Nat /\ Exposed \in Nat /\ UnderWay + Exposed <= Lag
           /\ Damage' \in Nat /\ Damage' <= Damage + UnderWay + Exposed
<1> USE DEF LossPre
<1> DEFINE low == enc.remaining - UnderWay
           n == UnderWay + Exposed
<1>1. /\ Units \in Nat /\ enc.remaining \in 0..Units /\ backupHeader.length \in 0..Units
      /\ Boundary = enc.remaining
  BY DEF ThreadInv, SizesAssumed, Boundary
<1>2. ~Concealing /\ ~Concealing'
  BY DEF ThreadInv, Concealing, Transforming, Counting, Handling, Buffered
<1>3. Boundary' = Units - backupHeader.length
  BY DEF Boundary, Transforming, Counting, Handling, Buffered
<1>4. Exposed = Units - backupHeader.length - enc.remaining /\ Exposed >= 0 /\ Exposed <= Lag /\ Lag \in Nat
  BY <1>1, LagFacts DEF Exposed, DistanceInv
<1>5. UnderWay \in Nat /\ low \in Nat /\ n <= Lag
  <2>1. CASE enc.pc \in Handling
    <3>1. UnderWay = enc.chunk /\ enc.chunk \in Nat /\ enc.chunk <= ChunkUnits /\ enc.remaining - enc.chunk \in Nat
      BY <2>1, ChunkPlace DEF UnderWay
    <3>2. Exposed = enc.distance /\ enc.distance \in Nat /\ enc.distance < UpdateInterval
          /\ enc.distance % ChunkUnits = 0
      BY <2>1, <1>1, ChunkPlace DEF DistanceInv, Handling, Counting, Buffered
    <3>3. enc.distance + ChunkUnits <= Lag
      BY <3>2, LagFacts
    <3>4. ChunkUnits \in Nat
      BY DEF SizesAssumed
    <3> QED
      BY <3>1, <3>2, <3>3, <3>4, <1>4
  <2>2. CASE enc.pc \notin Handling
    BY <2>2, <1>1, <1>4 DEF UnderWay
  <2> QED
    BY <2>1, <2>2
<1>6. ASSUME NEW u \in Data, u \notin low..low + n - 1
      PROVE  Content(u)' = Content(u) /\ Wanted(u)' = Wanted(u)
  <2>1. u \in Nat
    BY <1>1 DEF Data
  <2>2. u < low \/ u >= Units - backupHeader.length
    BY <2>1, <1>1, <1>4, <1>5, <1>6
  <2>3. enc.pc \in Buffered \cup {"advance"} => u \notin ChunkOf(enc)
    <3>1. ASSUME enc.pc \in Handling PROVE u \notin ChunkOf(enc)
      <4>1. ChunkOf(enc) = low..enc.remaining - 1
        BY <3>1, ChunkPlace DEF UnderWay
      <4> QED
        BY <4>1, <2>1, <2>2, <1>1, <1>4, <1>5
    <3> QED
      BY <3>1 DEF Handling
  <2>4. u >= Boundary <=> u >= Boundary'
    <3>1. low <= enc.remaining
      BY <1>1, <1>5
    <3> QED
      BY <3>1, <2>1, <2>2, <1>1, <1>3, <1>4, <1>5
  <2> QED
    BY <2>3, <2>4, <1>2 DEF Content, Wanted, Before, Buffered
<1>7. Bad' \subseteq Bad \cup (low..low + n - 1)
  BY <1>6 DEF Bad, Data
<1>8. low \in Int /\ n \in Nat
  BY <1>1, <1>4, <1>5
<1>9. Damage \in Nat /\ Damage' \in Nat /\ Damage' <= Damage + n
  <2> HIDE DEF low, n
  <2> QED
    BY <1>7, <1>8, DamageInside
<1> QED
  BY <1>1, <1>4, <1>5, <1>9

LEMMA LossClose ==
    ASSUME LossPre, Close
    PROVE  LossInv'
<1> USE DEF LossPre
<1>1. enc.pc = "close" /\ enc'.pc = "none" /\ place' = place
  BY DEF Close, NoThread
<1>2. /\ Damage \in Nat /\ Spared \in Nat /\ Lag \in Nat
      /\ faults.crashed \in Nat /\ faults.failed \in Nat
      /\ Allowed(faults.crashed, faults.failed) \in Nat
      /\ Damage <= Allowed(faults.crashed, faults.failed) + Spared
  BY LossBound
<1>3. CASE enc.changed /\ FastVolumeHeaderUpdate /\ faults' = faults
  <2>1. backupHeader'.length = Units - enc.remaining /\ (backupHeader'.valid <=> backupHeader.valid)
    BY <1>3 DEF FastVolumeHeaderUpdate, ThreadInv
  <2>2. Boundary = enc.remaining /\ Boundary' = enc.remaining
    BY <1>1, <2>1 DEF Boundary, Transforming, Counting, Handling, Buffered, ThreadInv, SizesAssumed
  <2>3. Concealing' <=> Concealing
    BY <1>1, <2>1 DEF Concealing
  <2>4. Bad' = Bad
    BY <1>1, <2>2, <2>3, Untouched DEF Buffered
  <2>5. Damage' = Damage /\ Spared' = Spared
    BY <2>4, <1>3 DEF Damage, Spared
  <2> QED
    BY <1>1, <1>2, <1>3, <2>5 DEF LossInv, Buffered
<1>4. CASE ~enc.changed /\ faults' = faults /\ backupHeader' = backupHeader
  <2>1. Exposed = 0
    BY <1>1, <1>4, Stopped DEF DistanceInv, Transforming
  <2>2. UnderWay = 0
    BY <1>1 DEF UnderWay, Handling, Buffered
  <2>3. Damage' \in Nat /\ Damage' <= Damage
    BY <1>1, <1>2, <1>4, <2>1, <2>2, Stopped DEF Transforming
  <2>4. Spared' = Spared
    BY <1>4 DEF Spared
  <2> QED
    BY <1>1, <1>2, <1>4, <2>3, <2>4 DEF LossInv, Buffered
<1>5. CASE Fail /\ backupHeader' = backupHeader
  <2>1. Exposed \in Nat /\ Exposed <= Lag /\ Damage' \in Nat /\ Damage' <= Damage + Exposed
    <3>1. UnderWay = 0
      BY <1>1 DEF UnderWay, Handling, Buffered
    <3> QED
      BY <3>1, <1>1, <1>2, <1>5, Stopped DEF Transforming
  <2>2. faults'.failed = faults.failed + 1 /\ faults'.crashed = faults.crashed
        /\ (faults'.unconcealed <=> faults.unconcealed)
    BY <1>5 DEF Fail, ThreadInv
  <2>3. Spared' = Spared
    BY <2>2 DEF Spared
  <2>4. Damage' <= Allowed(faults.crashed, faults.failed + 1) + Spared
    <3>1. CASE Damage + Exposed <= Allowed(faults.crashed, faults.failed) + Spared
      <4>1. Allowed(faults.crashed, faults.failed) <= Allowed(faults.crashed, faults.failed + 1)
            /\ Allowed(faults.crashed, faults.failed + 1) \in Nat
        <5>1. faults.failed + 1 \in Nat
          BY <1>2
        <5> QED
          BY <5>1, <1>2, AllowedFacts
      <4> QED
        BY <3>1, <4>1, <1>2, <2>1
    <3>2. CASE faults.failed > 0 /\ Damage <= Allowed(faults.crashed, faults.failed - 1) + Spared
      <4>1. PICK f \in Nat : f = faults.failed - 1 /\ f + 2 = faults.failed + 1
        BY <3>2, <1>2
      <4>2. Allowed(faults.crashed, f) \in Nat
            /\ Allowed(faults.crashed, f + 2) = Allowed(faults.crashed, f) + Lag
        BY <1>2, AllowedFacts
      <4> QED
        BY <3>2, <4>1, <4>2, <1>2, <2>1
    <3> QED
      BY <3>1, <3>2, <1>1 DEF LossInv
  <2> QED
    BY <1>1, <1>2, <2>1, <2>2, <2>3, <2>4 DEF LossInv, Buffered
<1> QED
  BY <1>3, <1>4, <1>5 DEF Close, Succeed

LEMMA LossCrash ==
    ASSUME LossPre, Crash
    PROVE  LossInv'
<1> USE DEF LossPre
<1>1. enc.pc # "none" /\ enc'.pc = "none" /\ place' = place /\ backupHeader' = backupHeader
  BY DEF Crash, NoThread
<1>2. /\ Damage \in Nat /\ Spared \in Nat /\ Lag \in Nat
      /\ faults.crashed \in Nat /\ faults.failed \in Nat
      /\ Allowed(faults.crashed, faults.failed) \in Nat
      /\ Damage <= Allowed(faults.crashed, faults.failed) + Spared
  BY LossBound
<1>3. faults'.failed = faults.failed
  BY DEF Crash, ThreadInv
<1>4. CASE enc.pc = "conceal"
  <2>1. faults'.unconcealed /\ faults'.crashed = faults.crashed
    BY <1>4 DEF Crash, ThreadInv
  <2> QED
    BY <1>1, <1>3, <1>4, <2>1, LossUnconcealed
<1>5. CASE enc.pc \in {"dismount", "backup", "saveSettings", "open", "primary"}
  <2>1. faults'.crashed = faults.crashed /\ (faults'.unconcealed <=> faults.unconcealed)
    BY <1>5 DEF Crash, ThreadInv
  <2>2. Damage' \in Nat /\ Damage' <= Damage
    <3>1. CASE enc.pc = "primary"
      <4>1. UnderWay = 0 /\ Exposed = 0
        BY <3>1 DEF UnderWay, Handling, Buffered, DistanceInv
      <4> QED
        BY <3>1, <4>1, <1>1, <1>2, Stopped DEF Transforming
    <3>2. CASE enc.pc # "primary"
      <4>1. Boundary' = Boundary
        BY <1>1, <1>5, <3>2 DEF Boundary, Transforming, Counting, Handling, Buffered
      <4>2. Concealing' <=> Concealing
        BY <1>1, <1>5 DEF Concealing
      <4>3. Bad' = Bad
        BY <1>1, <1>5, <4>1, <4>2, Untouched DEF Buffered
      <4> QED
        BY <4>3, <1>2 DEF Damage
    <3> QED
      BY <3>1, <3>2
  <2>3. Spared' = Spared
    BY <2>1 DEF Spared
  <2> QED
    BY <1>1, <1>2, <1>3, <2>1, <2>2, <2>3 DEF LossInv, Buffered
<1>6. CASE enc.pc \in Counting \cup {"close"}
  <2>1. faults'.crashed = faults.crashed + 1 /\ (faults'.unconcealed <=> faults.unconcealed)
    BY <1>6 DEF Crash, ThreadInv, Counting, Handling, Buffered
  <2>2. UnderWay \in Nat /\ Exposed \in Nat /\ UnderWay + Exposed <= Lag
        /\ Damage' \in Nat /\ Damage' <= Damage + UnderWay + Exposed
    BY <1>1, <1>6, Stopped DEF Transforming
  <2>3. Allowed(faults.crashed + 1, faults.failed) = Allowed(faults.crashed, faults.failed) + Lag
    BY <1>2, AllowedFacts
  <2>4. Spared' = Spared
    BY <2>1 DEF Spared
  <2>5. Damage' <= Allowed(faults'.crashed, faults'.failed) + Spared'
    BY <1>2, <1>3, <2>1, <2>2, <2>3, <2>4
  <2> QED
    BY <1>1, <1>2, <1>3, <2>1, <2>2, <2>5 DEF LossInv, Buffered
<1>7. enc.pc \in Counting \cup {"close", "dismount", "backup", "conceal", "saveSettings", "open", "primary"}
  BY <1>1 DEF PcInv, Starting, Transforming
<1> QED
  BY <1>4, <1>5, <1>6, <1>7

-----------------------------------------------------------------------------
LEMMA LossInit == SizesAssumed /\ Init => LossInv
<1> SUFFICES ASSUME SizesAssumed, Init PROVE LossInv
  OBVIOUS
<1>1. Boundary = Units /\ Concealing /\ enc.pc = "none" /\ Units \in Nat
  BY DEF Init, NoThread, Boundary, Concealing, Transforming, Counting, Handling, Buffered, SizesAssumed
<1>2. Bad = {}
  <2>1. ASSUME NEW u \in Data PROVE Content(u) = Wanted(u)
    <3>1. u \in 0..Units /\ u # Units /\ ~(u >= Boundary)
      BY <1>1 DEF Data
    <3>2. place[u] = Plain(u)
      BY <3>1 DEF Init
    <3> QED
      BY <3>1, <3>2, <1>1 DEF Content, Wanted, Before, Buffered
  <2> QED
    BY <2>1 DEF Bad
<1>3. Damage = 0
  BY <1>2, FS_EmptySet DEF Damage
<1>4. faults.failed = 0 /\ faults.crashed = 0 /\ ~faults.unconcealed
  BY DEF Init
<1>5. Allowed(0, 0) \in Nat /\ Spared = 0
  BY <1>4, AllowedFacts DEF Spared
<1> QED
  BY <1>1, <1>3, <1>4, <1>5 DEF LossInv, Buffered

LEMMA LossStep == LossPre /\ [Next]_inPlaceVars => LossInv'
<1> SUFFICES ASSUME LossPre, [Next]_inPlaceVars PROVE LossInv'
  OBVIOUS
<1>1. CASE UNCHANGED inPlaceVars
  BY <1>1 DEF LossPre, LossInv, inPlaceVars, Damage, Bad, Content, Wanted, Before, Concealing, Boundary,
              Exposed, Spared, ChunkOf
<1> QED
  BY <1>1, LossStarting, LossConceal, LossRead, LossWrite, LossWriteEnd, LossUndo, LossAdvance,
     LossUpdate, LossClose, LossCrash DEF Next

\* In-place encryption: whenever no thread runs, each unit of the partition is what the backup
\* header says, so that encryption can be resumed or the volume mounted, but for the units that
\* crashes within the transformation and errors of its error handling account for
\* (EncryptPartitionInPlaceResume, InPlace.c lines 832-996 and closing_seq).
THEOREM PartitionKept ==
    ASSUME SizesAssumed
    PROVE  Init /\ [][Next]_inPlaceVars => []NothingLost
<1>1. Init => IInv
  BY InitInv, LossInit DEF IInv, Init, NoThread, PcInv, Starting
<1>2. IInv /\ [Next]_inPlaceVars => IInv'
  BY ThreadStep, PcStep, DistanceStep, LossStep DEF IInv, LossPre
<1>3. IInv => NothingLost
  <2> SUFFICES ASSUME IInv, enc.pc = "none"
               PROVE  Cardinality({u \in Data : ~Kept(u)})
                        <= (faults.crashed + faults.failed \div 2) * Lag + (IF faults.unconcealed THEN 1 ELSE 0)
    BY DEF NothingLost
  <2>1. Boundary = Units - backupHeader.length /\ Units \in Nat /\ backupHeader.length \in 0..Units
    BY DEF Boundary, Transforming, Counting, Handling, Buffered, IInv, ThreadInv, SizesAssumed
  <2>2. ~backupHeader.valid => backupHeader.length = 0
    BY DEF IInv, ThreadInv, Concealing
  <2>3. ASSUME NEW u \in Data PROVE Kept(u) <=> Content(u) = Wanted(u)
    <3>1. u \in Nat /\ u < Units
      BY <2>1 DEF Data
    <3>2. u >= Boundary <=> u + backupHeader.length >= Units
      BY <3>1, <2>1
    <3> QED
      BY <3>1, <3>2, <2>1, <2>2 DEF Kept, Content, Wanted, Before, Concealing, Buffered
  <2>4. {u \in Data : ~Kept(u)} = Bad
    BY <2>3 DEF Bad
  <2>5. Damage <= Allowed(faults.crashed, faults.failed) + Spared
    BY DEF IInv, LossInv
  <2> QED
    BY <2>4, <2>5 DEF Damage, Allowed, Spared
<1> QED
  BY <1>1, <1>2, <1>3, PTL

=============================================================================
