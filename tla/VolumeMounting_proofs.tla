------------------------ MODULE VolumeMounting_proofs ------------------------
(* Theorems about mounting and dismounting, for any drives, users, sizes of the cache and
   numbers of requests and mounts. *)
EXTENDS VolumeMounting, TLAPS, WellFoundedInduction

Opening == {"host", "measure", "normal", "hidden", "start", "announce"}

Shapes ==
    /\ DOMAIN vmDrive = Drives /\ \A d \in Drives : DOMAIN vmDrive[d] = DOMAIN NoDevice
    /\ DOMAIN vmRoot = DOMAIN Idle
    /\ vmArriving \in [Drives -> Nat] /\ vmAccepted \in [Drives -> Nat]

(* Requests have the lock of a mounted volume only; what the root request takes away is not
   mounted yet, or its lock has been drained. *)
ServedInv ==
    \A d \in Drives :
        /\ vmAccepted[d] > 0 => Mounted(d) /\ ~vmDrive[d].drained
        /\ vmRoot.drive = d =>
              /\ vmRoot.pc \in Opening => vmDrive[d].state = "opening"
              /\ vmRoot.pc = "delete" => ~Mounted(d) \/ vmDrive[d].drained

\* The hidden volume to be protected is found before the volume is started.
ProtectedInv ==
    \A d \in Drives :
        \/ Mounted(d)
        \/ vmRoot.drive = d /\ vmRoot.pc \in {"start", "announce"}
        => (vmDrive[d].asked => vmDrive[d].protect /\ vmDrive[d].type = "normal")

MInv == Shapes /\ ServedInv /\ ProtectedInv

LEMMA Fields ==
    /\ {"state", "id", "host", "user", "type", "asked", "protect", "action", "shuttingDown",
        "drained"} \subseteq DOMAIN NoDevice
    /\ NoDevice.state = "none"
    /\ "pc" \in DOMAIN Idle /\ "drive" \in DOMAIN Idle /\ "max" \in DOMAIN Idle
    /\ "all" \in DOMAIN Idle /\ "user" \in DOMAIN Idle
    /\ "force" \in DOMAIN Idle /\ Idle.pc = "idle"
  BY DEF NoDevice, Idle

LEMMA MountingInit == Init => MInv
<1> SUFFICES ASSUME Init PROVE MInv
  OBVIOUS
<1>1. /\ DOMAIN vmDrive = Drives /\ \A d \in Drives : vmDrive[d] = NoDevice
      /\ vmRoot = Idle /\ vmArriving \in [Drives -> Nat] /\ vmAccepted \in [Drives -> Nat]
      /\ \A d \in Drives : vmAccepted[d] = 0
  BY DEF Init
<1> QED
  BY <1>1, Fields DEF MInv, Shapes, ServedInv, ProtectedInv, Mounted, Opening

\* The root request goes on without touching a device.
LEMMA RootStep ==
    ASSUME MInv, UNCHANGED <<vmDrive, vmArriving, vmAccepted>>,
           DOMAIN vmRoot' = DOMAIN Idle,
           \/ vmRoot'.pc \notin Opening \cup {"delete"}
           \/ /\ vmRoot.pc \in Opening /\ vmRoot'.drive = vmRoot.drive
              /\ vmRoot'.pc \in Opening \cup {"delete"}
              /\ vmRoot'.pc \in {"start", "announce"} => vmRoot.pc \in {"start", "announce"}
    PROVE  MInv'
<1>1. Shapes'
  BY DEF MInv, Shapes
<1>2. ServedInv'
  BY DEF MInv, ServedInv, Mounted, Opening
<1>3. ProtectedInv'
  BY DEF MInv, ProtectedInv, Mounted, Opening
<1> QED
  BY <1>1, <1>2, <1>3 DEF MInv

\* The steps of a request to mount.
LEMMA MountStep ==
    ASSUME MInv,
           \/ \E d \in Drives, host \in Drives \cup {NoDrive}, user \in Users,
                 cache, protect \in BOOLEAN,
                 password, protected \in {Outer, Hidden, NoPassword} :
                    MountVolume(d, host, user, password, protect, protected, cache)
           \/ OpenHost \/ MeasureHost \/ RecognizeVolume("normal") \/ RecognizeVolume("hidden")
           \/ StartQueue \/ AnnounceVolume \/ WipeCache
    PROVE  MInv'
<1> USE Fields
<1>1. ASSUME NEW d \in Drives, NEW host, NEW user, NEW password, NEW protect, NEW protected,
             NEW cache, MountVolume(d, host, user, password, protect, protected, cache)
      PROVE  MInv'
  <2>1. /\ vmDrive' = [vmDrive EXCEPT ![d] = vmDrive'[d]] /\ vmDrive[d].state = "none"
        /\ DOMAIN vmDrive'[d] = DOMAIN NoDevice /\ vmDrive'[d].state = "opening"
        /\ UNCHANGED <<vmArriving, vmAccepted>>
    BY <1>1 DEF MountVolume, CreateDevice, MInv, Shapes, Io
  <2>2. DOMAIN vmRoot' = DOMAIN Idle /\ vmRoot'.pc = "host" /\ vmRoot'.drive = d
    BY <1>1 DEF MountVolume
  <2>3. Shapes'
    BY <2>1, <2>2 DEF MInv, Shapes
  <2>4. ServedInv'
    BY <2>1, <2>2 DEF MInv, Shapes, ServedInv, Mounted, Opening
  <2>5. ProtectedInv'
    BY <2>1, <2>2 DEF MInv, Shapes, ProtectedInv, Mounted
  <2> QED
    BY <2>3, <2>4, <2>5 DEF MInv
<1>2. CASE OpenHost \/ MeasureHost \/ StartQueue
  <2>1. \E pc \in {"measure", "normal", "announce", "delete"} :
            /\ vmRoot' = [vmRoot EXCEPT !.pc = pc]
            /\ pc = "announce" => vmRoot.pc = "start"
    BY <1>2 DEF OpenHost, MeasureHost, StartQueue, Step
  <2>2. vmRoot.pc \in Opening /\ UNCHANGED <<vmDrive, vmArriving, vmAccepted>>
    BY <1>2 DEF OpenHost, MeasureHost, StartQueue, Opening, Io
  <2> QED
    BY <2>1, <2>2, RootStep DEF MInv, Shapes, Opening
<1>3. ASSUME NEW type \in {"normal", "hidden"}, RecognizeVolume(type)
      PROVE  MInv'
  <2> DEFINE d == vmRoot.drive
  <2>1. /\ vmRoot.pc = type /\ type \in Opening /\ UNCHANGED <<vmArriving, vmAccepted>>
    BY <1>3 DEF RecognizeVolume, Io, Opening
  <2>2. ASSUME NEW pc \in {"hidden", "delete"}, vmRoot' = [vmRoot EXCEPT !.pc = pc],
               UNCHANGED vmDrive
        PROVE  MInv'
    BY <2>1, <2>2, RootStep DEF MInv, Shapes, Opening
  <2>3. ASSUME NEW pc \in {"start", "delete"}, vmRoot' = [vmRoot EXCEPT !.pc = pc],
               ~(type = "normal" /\ vmDrive[d].asked),
               vmDrive' = [vmDrive EXCEPT ![d].protect = vmDrive[d].asked,
                              ![d].type = IF vmDrive[d].asked THEN "normal" ELSE type]
        PROVE  MInv'
    <3>1. /\ DOMAIN vmDrive' = Drives
          /\ \A e \in Drives : /\ DOMAIN vmDrive'[e] = DOMAIN NoDevice
                               /\ vmDrive'[e].state = vmDrive[e].state
                               /\ vmDrive'[e].drained = vmDrive[e].drained
                               /\ vmDrive'[e].asked = vmDrive[e].asked
                               /\ e # d => vmDrive'[e] = vmDrive[e]
      BY <2>3 DEF MInv, Shapes
    <3>2. d \in Drives => /\ vmDrive'[d].protect = vmDrive[d].asked
                          /\ vmDrive[d].asked => vmDrive'[d].type = "normal"
      BY <2>3 DEF MInv, Shapes
    <3>3. DOMAIN vmRoot' = DOMAIN Idle /\ vmRoot'.pc = pc /\ vmRoot'.drive = d
      BY <2>3 DEF MInv, Shapes
    <3>4. d \in Drives => vmDrive[d].state = "opening"
      BY <2>1 DEF MInv, ServedInv
    <3> HIDE DEF d
    <3>5. Shapes'
      BY <2>1, <3>1, <3>3 DEF MInv, Shapes
    <3>6. ServedInv'
      BY <2>1, <3>1, <3>3, <3>4 DEF MInv, ServedInv, Mounted, Opening, d
    <3>7. ProtectedInv'
      BY <2>1, <3>1, <3>2, <3>3, <3>4 DEF MInv, ProtectedInv, Mounted, d
    <3> QED
      BY <3>5, <3>6, <3>7 DEF MInv
  <2>4. ASSUME ToleratesWrongPassword(type),
               vmRoot' = [vmRoot EXCEPT !.pc = IF type = "normal" THEN "hidden" ELSE "start"],
               UNCHANGED vmDrive
        PROVE  MInv'
    BY <2>2, <2>4 DEF ToleratesWrongPassword
  <2> HIDE DEF d
  <2>5. \/ \E pc \in {"hidden", "delete"} :
              vmRoot' = [vmRoot EXCEPT !.pc = pc] /\ UNCHANGED vmDrive
        \/ /\ ~(type = "normal" /\ vmDrive[d].asked)
           /\ \E pc \in {"start", "delete"} : vmRoot' = [vmRoot EXCEPT !.pc = pc]
           /\ vmDrive' = [vmDrive EXCEPT ![d].protect = vmDrive[d].asked,
                              ![d].type = IF vmDrive[d].asked THEN "normal" ELSE type]
        \/ /\ ToleratesWrongPassword(type) /\ UNCHANGED vmDrive
           /\ vmRoot' = [vmRoot EXCEPT !.pc = IF type = "normal" THEN "hidden" ELSE "start"]
    BY <1>3 DEF RecognizeVolume, Step, HeaderUnreadable, d
  <2> QED
    BY <2>2, <2>3, <2>4, <2>5
<1>4. CASE AnnounceVolume
  <2> DEFINE d == vmRoot.drive
  <2>1. /\ DOMAIN vmDrive' = Drives
        /\ \A e \in Drives : /\ DOMAIN vmDrive'[e] = DOMAIN NoDevice
                             /\ vmDrive'[e].asked = vmDrive[e].asked
                             /\ vmDrive'[e].protect = vmDrive[e].protect
                             /\ vmDrive'[e].type = vmDrive[e].type
                             /\ e # d => vmDrive'[e] = vmDrive[e]
    BY <1>4 DEF AnnounceVolume, MInv, Shapes
  <2>2. /\ vmRoot' = Idle /\ UNCHANGED <<vmArriving, vmAccepted>> /\ vmRoot.pc = "announce"
        /\ d \in Drives => vmAccepted[d] = 0
    BY <1>4 DEF AnnounceVolume, Io, MInv, Shapes, ServedInv, Mounted, Opening
  <2> HIDE DEF d
  <2>3. Shapes'
    BY <2>1, <2>2 DEF MInv, Shapes
  <2>4. ServedInv'
    BY <2>1, <2>2 DEF MInv, ServedInv, Mounted, Opening
  <2>5. ProtectedInv'
    BY <2>1, <2>2 DEF MInv, ProtectedInv, Mounted, d
  <2> QED
    BY <2>3, <2>4, <2>5 DEF MInv
<1>5. CASE WipeCache
  BY <1>5 DEF WipeCache, Io, MInv, Shapes, ServedInv, ProtectedInv, Mounted, Opening
<1> QED
  BY <1>1, <1>2, <1>3, <1>4, <1>5

\* The steps of a request to dismount one volume or all.
LEMMA DismountStep ==
    ASSUME MInv,
           \/ \E d \in Drives, user \in Users, force \in BOOLEAN : DismountVolume(d, user, force)
           \/ LockVolume \/ RemoveVolume \/ Drain \/ DeleteDevice
           \/ \E user \in Users \cup {System}, force \in BOOLEAN : DismountAllVolumes(user, force)
           \/ FindVolumeWithHighestUniqueId
    PROVE  MInv'
<1> USE Fields
<1>1. ASSUME NEW d \in Drives, NEW user, NEW force, DismountVolume(d, user, force)
      PROVE  MInv'
  <2>1. /\ DOMAIN vmRoot' = DOMAIN Idle /\ vmRoot'.pc = "lock"
        /\ UNCHANGED <<vmDrive, vmArriving, vmAccepted>>
    BY <1>1 DEF DismountVolume, Io
  <2> QED
    BY <2>1, RootStep DEF Opening
<1>2. ASSUME NEW user, NEW force, DismountAllVolumes(user, force)
      PROVE  MInv'
  <2>1. /\ DOMAIN vmRoot' = DOMAIN Idle /\ vmRoot'.pc = "next"
        /\ UNCHANGED <<vmDrive, vmArriving, vmAccepted>>
    BY <1>2 DEF DismountAllVolumes, Io
  <2> QED
    BY <2>1, RootStep DEF Opening
<1>3. Done => DOMAIN vmRoot' = DOMAIN Idle /\ vmRoot'.pc \in {"next", "idle"}
  BY DEF Done, MInv, Shapes
<1>4. CASE LockVolume
  <2>1. /\ DOMAIN vmRoot' = DOMAIN Idle /\ vmRoot'.pc \in {"remove", "next", "idle"}
        /\ UNCHANGED <<vmDrive, vmArriving, vmAccepted>>
    BY <1>4, <1>3 DEF LockVolume, Io, MInv, Shapes
  <2> QED
    BY <2>1, RootStep DEF Opening
<1>5. CASE FindVolumeWithHighestUniqueId
  <2> DEFINE h == Highest(Below(vmRoot.max))
  <2>1. vmRoot' \in {Idle, [vmRoot EXCEPT !.drive = h, !.max = vmDrive[h].id - 1],
                     [[vmRoot EXCEPT !.drive = h, !.max = vmDrive[h].id - 1] EXCEPT !.pc = "lock"]}
    BY <1>5 DEF FindVolumeWithHighestUniqueId
  <2>2. /\ UNCHANGED <<vmDrive, vmArriving, vmAccepted>> /\ vmRoot.pc = "next"
    BY <1>5 DEF FindVolumeWithHighestUniqueId, Io
  <2> HIDE DEF h
  <2>3. DOMAIN vmRoot' = DOMAIN Idle /\ vmRoot'.pc \in {"idle", "next", "lock"}
    BY <2>1, <2>2 DEF MInv, Shapes
  <2> QED
    BY <2>2, <2>3, RootStep DEF Opening
<1>6. CASE RemoveVolume \/ Drain
  <2> DEFINE d == vmRoot.drive
  <2>1. /\ DOMAIN vmDrive' = Drives
        /\ \A e \in Drives : /\ DOMAIN vmDrive'[e] = DOMAIN NoDevice
                             /\ vmDrive'[e].state = vmDrive[e].state
                             /\ vmDrive'[e].asked = vmDrive[e].asked
                             /\ vmDrive'[e].protect = vmDrive[e].protect
                             /\ vmDrive'[e].type = vmDrive[e].type
                             /\ e # d => vmDrive'[e] = vmDrive[e]
    BY <1>6 DEF RemoveVolume, Drain, ReleaseRemoveLockAndWait, MInv, Shapes
  <2>2. /\ DOMAIN vmRoot' = DOMAIN Idle /\ vmRoot'.drive = d
        /\ UNCHANGED <<vmArriving, vmAccepted>>
    BY <1>6 DEF RemoveVolume, Drain, Io, MInv, Shapes
  <2>3. d \in Drives =>
           \/ vmRoot'.pc = "drain" /\ vmDrive'[d].drained = vmDrive[d].drained
           \/ vmRoot'.pc = "delete" /\ vmDrive'[d].drained /\ vmAccepted[d] = 0
    BY <1>6 DEF RemoveVolume, Drain, ReleaseRemoveLockAndWait, MInv, Shapes
  <2>4. vmRoot'.pc \in {"drain", "delete"}
    BY <1>6 DEF RemoveVolume, Drain, MInv, Shapes
  <2> HIDE DEF d
  <2>5. Shapes'
    BY <2>1, <2>2 DEF MInv, Shapes
  <2>6. ServedInv'
    BY <2>1, <2>2, <2>3, <2>4 DEF MInv, ServedInv, Mounted, Opening
  <2>7. ProtectedInv'
    BY <2>1, <2>2, <2>4 DEF MInv, ProtectedInv, Mounted
  <2> QED
    BY <2>5, <2>6, <2>7 DEF MInv
<1>7. CASE DeleteDevice
  <2> DEFINE d == vmRoot.drive
  <2>1. /\ DOMAIN vmDrive' = Drives
        /\ \A e \in Drives :
              \/ e = d /\ vmDrive'[e] = NoDevice
              \/ /\ e # d /\ DOMAIN vmDrive'[e] = DOMAIN NoDevice
                 /\ vmDrive'[e].state = vmDrive[e].state
                 /\ vmDrive'[e].asked = vmDrive[e].asked
                 /\ vmDrive'[e].protect = vmDrive[e].protect
                 /\ vmDrive'[e].type = vmDrive[e].type
                 /\ vmDrive'[e].drained = vmDrive[e].drained
    BY <1>7 DEF DeleteDevice, MInv, Shapes
  <2>2. /\ DOMAIN vmRoot' = DOMAIN Idle /\ vmRoot'.pc \in {"next", "idle"}
        /\ UNCHANGED <<vmArriving, vmAccepted>>
    BY <1>7, <1>3 DEF DeleteDevice, Io
  <2>3. d \in Drives => vmAccepted[d] = 0
    BY <1>7 DEF DeleteDevice, MInv, Shapes, ServedInv
  <2> HIDE DEF d
  <2>4. Shapes'
    BY <2>1, <2>2 DEF MInv, Shapes
  <2>5. ServedInv'
    BY <2>1, <2>2, <2>3 DEF MInv, ServedInv, Mounted, Opening
  <2>6. ProtectedInv'
    BY <2>1, <2>2 DEF MInv, ProtectedInv, Mounted
  <2> QED
    BY <2>4, <2>5, <2>6 DEF MInv
<1> QED
  BY <1>1, <1>2, <1>4, <1>5, <1>6, <1>7

\* The requests to a volume.
LEMMA RequestStep ==
    ASSUME MInv, NEW d \in Drives, Arrive(d) \/ AcquireRemoveLock(d) \/ Serve(d)
    PROVE  MInv'
<1> USE Fields
<1>1. CASE Arrive(d) \/ AcquireRemoveLock(d)
  <2>1. UNCHANGED <<vmDrive, vmRoot>> /\ vmArriving' \in [Drives -> Nat]
    BY <1>1 DEF Arrive, AcquireRemoveLock, MInv, Shapes
  <2>2. vmAccepted' \in [Drives -> Nat]
        /\ \A e \in Drives : vmAccepted'[e] > 0 =>
              vmAccepted[e] > 0 \/ (Mounted(e) /\ ~vmDrive[e].drained)
    BY <1>1 DEF Arrive, AcquireRemoveLock, MInv, Shapes
  <2> QED
    BY <2>1, <2>2 DEF MInv, Shapes, ServedInv, ProtectedInv, Mounted
<1>2. CASE Serve(d)
  <2>1. /\ UNCHANGED <<vmRoot, vmArriving>> /\ vmAccepted' \in [Drives -> Nat]
        /\ \A e \in Drives : vmAccepted'[e] > 0 => vmAccepted[e] > 0
    BY <1>2 DEF Serve, MInv, Shapes
  <2>2. /\ DOMAIN vmDrive' = Drives
        /\ \A e \in Drives : /\ DOMAIN vmDrive'[e] = DOMAIN NoDevice
                             /\ vmDrive'[e].state = vmDrive[e].state
                             /\ vmDrive'[e].asked = vmDrive[e].asked
                             /\ vmDrive'[e].protect = vmDrive[e].protect
                             /\ vmDrive'[e].type = vmDrive[e].type
                             /\ vmDrive'[e].drained = vmDrive[e].drained
    BY <1>2 DEF Serve, MInv, Shapes
  <2> QED
    BY <2>1, <2>2 DEF MInv, Shapes, ServedInv, ProtectedInv, Mounted
<1> QED
  BY <1>1, <1>2

LEMMA MountingStep == MInv /\ [Next]_vmVars => MInv'
<1> SUFFICES ASSUME MInv, [Next]_vmVars PROVE MInv'
  OBVIOUS
<1>1. CASE UNCHANGED vmVars
  BY <1>1 DEF vmVars, MInv, Shapes, ServedInv, ProtectedInv, Mounted
<1>2. CASE DismountAllVolumes(System, TRUE)
  BY <1>2, DismountStep
<1> QED
  BY <1>1, <1>2, MountStep, DismountStep, RequestStep DEF Next

(* No request is in progress in a volume that is taken away, by whatever request and however it
   overtakes the dispatching of requests (EncryptedIoQueueAddIrp, UnmountDevice). *)
THEOREM AllServed == Spec => []RequestsServed
<1>1. MInv => RequestsServed
  BY DEF MInv, ServedInv, RequestsServed
<1> QED
  BY MountingInit, MountingStep, <1>1, PTL DEF Spec

(* A volume mounted with the request to protect its hidden volume does protect it, whatever
   passwords were given and cached (TCOpenVolume). *)
THEOREM AlwaysProtected == Spec => []ProtectionKept
<1>1. MInv => ProtectionKept
  BY DEF MInv, ProtectedInv, ProtectionKept
<1> QED
  BY MountingInit, MountingStep, <1>1, PTL DEF Spec
-----------------------------------------------------------------------------
\* The drives and users that the program cannot tell apart are told apart here.
SystemApart == NoDrive \notin Drives /\ System \notin Users

(* The numbers grow with mounting, and a host is mounted before what it hosts, so that the host
   has the smaller number. *)
OrderInv ==
    /\ vmLastId \in Nat
    /\ \A d \in Drives : Mounted(d) => vmDrive[d].id \in Nat /\ vmDrive[d].id < vmLastId
    /\ \A d, e \in Drives :
          Mounted(d) /\ Mounted(e) /\ d # e => vmDrive[d].id # vmDrive[e].id
    /\ \A e \in Drives :
          LET host == vmDrive[e].host IN
          vmDrive[e].state # "none" /\ host # NoDrive =>
             /\ host \in Drives /\ Mounted(host) /\ host # e
             /\ Mounted(e) => vmDrive[host].id < vmDrive[e].id

SystemAll == vmRoot.all /\ vmRoot.user = System

(* When the system dismounts all volumes, max bounds the numbers of those it has still to
   look at, and the one it is at has a greater number than those. *)
AllInv ==
    /\ vmRoot.pc \in Opening \cup {"idle"} => ~vmRoot.all
    /\ SystemAll =>
          /\ vmRoot.force /\ vmRoot.max \in Int
          /\ vmRoot.pc = "next" =>
                \A d \in Drives : Mounted(d) => vmDrive[d].id <= vmRoot.max
          /\ vmRoot.pc \in {"lock", "remove", "drain", "delete"} =>
                /\ vmRoot.drive \in Drives /\ Mounted(vmRoot.drive)
                /\ vmDrive[vmRoot.drive].id > vmRoot.max
                /\ \A e \in Drives :
                      Mounted(e) /\ e # vmRoot.drive => vmDrive[e].id <= vmRoot.max

OInv == MInv /\ OrderInv /\ AllInv

\* A set of numbers with an upper bound has a greatest member.
LEMMA GreatestOf ==
    ASSUME NEW S, S \subseteq Nat, S # {}, NEW b \in Nat, \A x \in S : x <= b
    PROVE  \E m \in S : \A x \in S : x <= m
<1> DEFINE T == {n \in Nat : \A x \in S : x <= n}
           R == OpToRel(<, Nat)
<1>1. \A i, j \in Nat : <<i, j>> \in R <=> i < j
  BY DEF OpToRel
<1>2. \E n \in T : \A k \in T : ~(<<k, n>> \in R)
  <2>1. T \subseteq Nat /\ T # {}
    OBVIOUS
  <2>2. IsWellFoundedOn(R, Nat)
    BY NatLessThanWellFounded
  <2> HIDE DEF T, R
  <2> QED
    BY <2>1, <2>2, WFMin
<1> HIDE DEF R
<1>3. PICK n \in T : \A k \in T : ~(k < n)
  BY <1>1, <1>2
<1>4. n \in S
  <2>1. SUFFICES ASSUME n \notin S PROVE FALSE
    OBVIOUS
  <2>2. \A x \in S : x \in Nat /\ x <= n /\ x # n
    BY <2>1, <1>3
  <2>3. n - 1 \in Nat
    <3>1. PICK y \in S : TRUE
      OBVIOUS
    <3> QED
      BY <2>2, <1>3, <3>1
  <2>4. \A x \in S : x <= n - 1
    BY <2>2, <1>3
  <2> QED
    BY <1>3, <2>3, <2>4
<1> QED
  BY <1>4

LEMMA OrderInit == Init => OInv
<1> SUFFICES ASSUME Init PROVE OInv
  OBVIOUS
<1>1. /\ \A d \in Drives : vmDrive[d] = NoDevice
      /\ vmRoot = Idle /\ vmLastId = 0
  BY DEF Init
<1>2. Idle.pc = "idle" /\ ~Idle.all /\ NoDevice.state = "none"
  BY DEF Idle, NoDevice
<1>3. OrderInv
  BY <1>1, <1>2 DEF OrderInv, Mounted
<1>4. AllInv
  BY <1>1, <1>2 DEF AllInv, SystemAll
<1> QED
  BY <1>3, <1>4, MountingInit DEF OInv

\* The devices keep what the order of the volumes is about.
OrderKept ==
    \A e \in Drives : /\ vmDrive'[e].state = vmDrive[e].state
                      /\ vmDrive'[e].id = vmDrive[e].id
                      /\ vmDrive'[e].host = vmDrive[e].host

LEMMA OrderFrame == ASSUME OrderInv, vmLastId' = vmLastId, OrderKept PROVE OrderInv'
  BY DEF OrderInv, OrderKept, Mounted

\* What dismounts all volumes stays where it is.
LEMMA AllFrame == ASSUME AllInv, OrderKept, vmRoot' = vmRoot PROVE AllInv'
  BY DEF AllInv, SystemAll, OrderKept, Mounted

\* A request that does not dismount all volumes.
LEMMA AllOff == ASSUME ~vmRoot'.all PROVE AllInv'
  BY DEF AllInv, SystemAll

LEMMA OrderMountStep ==
    ASSUME OInv,
           \/ \E d \in Drives, host \in Drives \cup {NoDrive}, user \in Users,
                 cache, protect \in BOOLEAN,
                 password, protected \in {Outer, Hidden, NoPassword} :
                    MountVolume(d, host, user, password, protect, protected, cache)
           \/ OpenHost \/ MeasureHost \/ RecognizeVolume("normal") \/ RecognizeVolume("hidden")
           \/ StartQueue \/ AnnounceVolume \/ WipeCache
    PROVE  OrderInv' /\ AllInv'
<1> USE Fields
<1>0. MInv /\ OrderInv /\ AllInv /\ Shapes
  BY DEF OInv, MInv
<1>i. Idle.all = FALSE
  BY DEF Idle
<1>1. ASSUME NEW d \in Drives, NEW host \in Drives \cup {NoDrive}, NEW user, NEW password,
             NEW protect, NEW protected, NEW cache,
             MountVolume(d, host, user, password, protect, protected, cache)
      PROVE  OrderInv' /\ AllInv'
  <2>1. /\ \A e \in Drives : e # d => vmDrive'[e] = vmDrive[e]
        /\ vmDrive[d].state = "none"
        /\ vmDrive'[d].state = "opening" /\ vmDrive'[d].host = host
        /\ host # NoDrive => host # d /\ Mounted(host)
        /\ vmLastId' = vmLastId
    BY <1>0, <1>1 DEF MountVolume, CreateDevice, Shapes
  <2>2. ~vmRoot'.all
    BY <1>1, <1>i DEF MountVolume
  <2>3. OrderInv'
    BY <1>0, <2>1 DEF OrderInv, Mounted
  <2> QED
    BY <2>2, <2>3, AllOff
<1>2. CASE OpenHost \/ MeasureHost \/ StartQueue \/ WipeCache
  <2>1. UNCHANGED <<vmDrive, vmLastId>> /\ OrderKept
    BY <1>2 DEF OpenHost, MeasureHost, StartQueue, WipeCache, OrderKept
  <2>2. vmRoot.pc \in Opening \cup {"idle"}
    BY <1>2 DEF OpenHost, MeasureHost, StartQueue, WipeCache, Opening
  <2>3. \/ vmRoot' = vmRoot
        \/ \E pc \in {"measure", "normal", "announce", "delete"} :
              vmRoot' = [vmRoot EXCEPT !.pc = pc]
    BY <1>2 DEF OpenHost, MeasureHost, StartQueue, WipeCache, Step
  <2>4. ~vmRoot'.all
    BY <1>0, <2>2, <2>3 DEF AllInv, Shapes
  <2> QED
    BY <1>0, <2>1, <2>4, OrderFrame, AllOff
<1>3. ASSUME NEW type \in {"normal", "hidden"}, RecognizeVolume(type)
      PROVE  OrderInv' /\ AllInv'
  <2>1. vmRoot.pc \in Opening /\ vmLastId' = vmLastId
    BY <1>3 DEF RecognizeVolume, Opening
  <2>2. \E pc \in {"hidden", "start", "delete"} : vmRoot' = [vmRoot EXCEPT !.pc = pc]
    BY <1>3 DEF RecognizeVolume, HeaderUnreadable, Step
  <2>3. OrderKept
    <3> DEFINE d == vmRoot.drive
               asked == vmDrive[d].asked
               kind == IF asked THEN "normal" ELSE type
    <3>1. \/ vmDrive' = vmDrive
          \/ vmDrive' = [vmDrive EXCEPT ![d].protect = asked, ![d].type = kind]
      BY <1>3 DEF RecognizeVolume, HeaderUnreadable
    <3> HIDE DEF d, asked, kind
    <3>2. CASE vmDrive' = [vmDrive EXCEPT ![d].protect = asked, ![d].type = kind]
      BY <1>0, <3>2 DEF Shapes, OrderKept
    <3> QED
      BY <3>1, <3>2 DEF OrderKept
  <2>4. ~vmRoot'.all
    BY <1>0, <2>1, <2>2 DEF AllInv, Shapes
  <2> QED
    BY <1>0, <2>1, <2>3, <2>4, OrderFrame, AllOff
<1>4. CASE AnnounceVolume
  <2> DEFINE d == vmRoot.drive
  <2>1. /\ \A e \in Drives : e # d => vmDrive'[e] = vmDrive[e]
        /\ d \in Drives => /\ vmDrive'[d].state = "mounted" /\ vmDrive'[d].id = vmLastId
                           /\ vmDrive'[d].host = vmDrive[d].host
        /\ vmLastId' = vmLastId + 1
    BY <1>0, <1>4 DEF AnnounceVolume, Shapes
  <2>2. d \in Drives => vmDrive[d].state = "opening"
    BY <1>0, <1>4 DEF AnnounceVolume, MInv, ServedInv, Opening
  <2>3. ~vmRoot'.all
    BY <1>4, <1>i DEF AnnounceVolume
  <2> HIDE DEF d
  <2>4. OrderInv'
    BY <1>0, <2>1, <2>2 DEF OrderInv, Mounted
  <2> QED
    BY <2>3, <2>4, AllOff
<1> QED
  BY <1>1, <1>2, <1>3, <1>4

\* The loop over all volumes finds the one that was mounted last, of those it has to look at.
LEMMA HighestIs ==
    ASSUME OrderInv, NEW max, Below(max) # {}
    PROVE  LET d == Highest(Below(max)) IN
           /\ d \in Drives /\ Mounted(d)
           /\ \A e \in Below(max) : vmDrive[e].id <= vmDrive[d].id
<1> DEFINE ds == Below(max)
           S == {vmDrive[d].id : d \in ds}
<1>1. ds \subseteq Drives /\ \A d \in ds : Mounted(d)
  BY DEF Below
<1>2. vmLastId \in Nat /\ \A d \in ds : vmDrive[d].id \in Nat /\ vmDrive[d].id <= vmLastId
  BY <1>1 DEF OrderInv
<1> HIDE DEF ds
<1>3. S \subseteq Nat /\ \A x \in S : x <= vmLastId
  BY <1>2
<1>4. S # {}
  BY DEF ds
<1>5. \E d \in ds : \A e \in ds : vmDrive[e].id <= vmDrive[d].id
  <2>1. PICK m \in S : \A x \in S : x <= m
    <3> HIDE DEF S
    <3> QED
      BY <1>2, <1>3, <1>4, GreatestOf
  <2> QED
    BY <2>1
<1>6. Highest(ds) \in ds /\ \A e \in ds : vmDrive[e].id <= vmDrive[Highest(ds)].id
  BY <1>5 DEF Highest
<1> QED
  BY <1>1, <1>6 DEF ds

LEMMA OrderDismountStep ==
    ASSUME OInv, SystemApart,
           \/ \E d \in Drives, user \in Users, force \in BOOLEAN : DismountVolume(d, user, force)
           \/ LockVolume \/ RemoveVolume \/ Drain \/ DeleteDevice
           \/ \E user \in Users, force \in BOOLEAN : DismountAllVolumes(user, force)
           \/ DismountAllVolumes(System, TRUE)
           \/ FindVolumeWithHighestUniqueId
    PROVE  OrderInv' /\ AllInv'
<1> USE Fields
<1>0. MInv /\ OrderInv /\ AllInv /\ Shapes
  BY DEF OInv, MInv
<1>i. Idle.all = FALSE
  BY DEF Idle
<1>1. ASSUME NEW d, NEW user, NEW force, DismountVolume(d, user, force)
      PROVE  OrderInv' /\ AllInv'
  <2>1. UNCHANGED <<vmDrive, vmLastId>> /\ OrderKept /\ ~vmRoot'.all
    BY <1>1, <1>i DEF DismountVolume, OrderKept
  <2> QED
    BY <1>0, <2>1, OrderFrame, AllOff
<1>2. ASSUME NEW user, NEW force, DismountAllVolumes(user, force), user = System => force = TRUE
      PROVE  OrderInv' /\ AllInv'
  <2>1. UNCHANGED <<vmDrive, vmLastId>> /\ OrderKept
    BY <1>2 DEF DismountAllVolumes, OrderKept
  <2>2. vmRoot'.pc = "next" /\ vmRoot'.user = user /\ vmRoot'.force = force
        /\ vmRoot'.max = vmLastId
    BY <1>2 DEF DismountAllVolumes
  <2>3. AllInv'
    BY <1>0, <1>2, <2>1, <2>2 DEF AllInv, SystemAll, OrderInv, Mounted, Opening
  <2> QED
    BY <1>0, <2>1, <2>3, OrderFrame
\* A volume that is gone leaves smaller numbers behind.
<1>3. ASSUME vmRoot.pc \in {"lock", "delete"}, Done,
             \A e \in Drives : Mounted(e)' =>
                e # vmRoot.drive /\ Mounted(e) /\ vmDrive'[e].id = vmDrive[e].id
      PROVE  AllInv'
  <2>1. CASE vmRoot.all
    <3>1. vmRoot' = [vmRoot EXCEPT !.pc = "next"]
      BY <1>3, <2>1 DEF Done
    <3>2. vmRoot'.pc = "next" /\ vmRoot'.max = vmRoot.max /\ vmRoot'.user = vmRoot.user
          /\ vmRoot'.force = vmRoot.force /\ vmRoot'.all = vmRoot.all
      BY <1>0, <3>1 DEF Shapes
    <3> QED
      BY <1>0, <1>3, <3>2 DEF AllInv, SystemAll, Opening
  <2>2. CASE ~vmRoot.all
    BY <2>2, <1>3, <1>i, AllOff DEF Done
  <2> QED
    BY <2>1, <2>2
<1>4. CASE LockVolume
  <2>1. UNCHANGED <<vmDrive, vmLastId>> /\ OrderKept /\ vmRoot.pc = "lock"
    BY <1>4 DEF LockVolume, OrderKept
  <2>2. CASE vmRoot' = [vmRoot EXCEPT !.pc = "remove"]
    <3>1. vmRoot'.pc = "remove" /\ vmRoot'.max = vmRoot.max /\ vmRoot'.user = vmRoot.user
          /\ vmRoot'.force = vmRoot.force /\ vmRoot'.all = vmRoot.all
          /\ vmRoot'.drive = vmRoot.drive
      BY <1>0, <2>2 DEF Shapes
    <3>2. AllInv'
      BY <1>0, <2>1, <3>1 DEF AllInv, SystemAll, Mounted, Opening
    <3> QED
      BY <1>0, <2>1, <3>2, OrderFrame
  <2>3. CASE ~vmRoot.force /\ Done
    <3>1. ~SystemAll
      BY <1>0, <2>3 DEF AllInv
    <3>2. vmRoot'.all => vmRoot'.pc = "next" /\ vmRoot'.user = vmRoot.user /\ vmRoot.all
      BY <1>0, <1>i, <2>3 DEF Done, Shapes
    <3>3. AllInv'
      BY <3>1, <3>2 DEF AllInv, SystemAll, Opening
    <3> QED
      BY <1>0, <2>1, <3>3, OrderFrame
  <2> QED
    BY <1>4, <2>2, <2>3 DEF LockVolume
<1>5. CASE RemoveVolume \/ Drain
  <2>1. vmLastId' = vmLastId /\ OrderKept
    BY <1>0, <1>5 DEF RemoveVolume, Drain, ReleaseRemoveLockAndWait, Shapes, OrderKept
  <2>2. /\ vmRoot.pc \in {"remove", "drain"} /\ vmRoot'.pc \in {"drain", "delete"}
        /\ vmRoot'.max = vmRoot.max /\ vmRoot'.user = vmRoot.user
        /\ vmRoot'.force = vmRoot.force /\ vmRoot'.all = vmRoot.all
        /\ vmRoot'.drive = vmRoot.drive
    BY <1>0, <1>5 DEF RemoveVolume, Drain, Shapes
  <2>3. AllInv'
    BY <1>0, <2>1, <2>2 DEF AllInv, SystemAll, Mounted, Opening, OrderKept
  <2> QED
    BY <1>0, <2>1, <2>3, OrderFrame
<1>6. CASE DeleteDevice
  <2> DEFINE d == vmRoot.drive
  <2>1. \A e \in Drives :
           IF e = d THEN vmDrive'[e] = NoDevice
           ELSE /\ vmDrive'[e].state = vmDrive[e].state
                /\ vmDrive'[e].id = vmDrive[e].id
                /\ vmDrive'[e].host =
                      IF vmDrive[e].host = d THEN NoDrive ELSE vmDrive[e].host
    BY <1>0, <1>6 DEF DeleteDevice, Shapes
  <2>2. vmRoot.pc = "delete" /\ vmLastId' = vmLastId /\ (vmRoot' = Idle \/ Done)
    BY <1>6 DEF DeleteDevice
  <2> HIDE DEF d
  <2>3. OrderInv'
    BY <1>0, <2>1, <2>2 DEF OrderInv, Mounted
  <2>4. \A e \in Drives : Mounted(e)' =>
           e # vmRoot.drive /\ Mounted(e) /\ vmDrive'[e].id = vmDrive[e].id
    BY <2>1 DEF Mounted, d
  <2> QED
    BY <1>3, <1>i, <2>2, <2>3, <2>4, AllOff
<1>7. CASE FindVolumeWithHighestUniqueId
  <2> DEFINE ds == Below(vmRoot.max)
             d == Highest(ds)
  <2>1. UNCHANGED <<vmDrive, vmLastId>> /\ OrderKept /\ vmRoot.pc = "next"
    BY <1>7 DEF FindVolumeWithHighestUniqueId, OrderKept
  <2>2. AllInv'
    <3>1. CASE vmRoot' = Idle
      BY <3>1, <1>i, AllOff
    <3>2. CASE vmRoot' # Idle
      <4>1. ds # {} /\ vmRoot' =
               IF Accessible(d, vmRoot.user)
               THEN [[vmRoot EXCEPT !.drive = d, !.max = vmDrive[d].id - 1] EXCEPT !.pc = "lock"]
               ELSE [vmRoot EXCEPT !.drive = d, !.max = vmDrive[d].id - 1]
        BY <1>7, <3>2 DEF FindVolumeWithHighestUniqueId
      <4>2. d \in Drives /\ Mounted(d) /\ \A e \in ds : vmDrive[e].id <= vmDrive[d].id
        BY <1>0, <4>1, HighestIs
      <4> HIDE DEF d
      <4>3. /\ vmRoot'.drive = d /\ vmRoot'.max = vmDrive[d].id - 1
            /\ vmRoot'.user = vmRoot.user /\ vmRoot'.all = vmRoot.all
            /\ vmRoot'.force = vmRoot.force
            /\ vmRoot'.pc = IF Accessible(d, vmRoot.user) THEN "lock" ELSE "next"
        BY <1>0, <2>1, <4>1 DEF Shapes
      <4>4. SystemAll => Accessible(d, vmRoot.user)
        BY DEF SystemAll, Accessible
      <4>5. SystemAll => \A e \in Drives : Mounted(e) => e \in ds
        BY <1>0, <2>1 DEF AllInv, Below
      <4>6. SystemAll =>
               /\ vmDrive[d].id \in Nat
               /\ \A e \in Drives : Mounted(e) /\ e # d => vmDrive[e].id <= vmDrive[d].id - 1
        <5> HIDE DEF ds
        <5> QED
          BY <1>0, <4>2, <4>5 DEF OrderInv
      <4> QED
        BY <1>0, <2>1, <4>2, <4>3, <4>4, <4>6 DEF AllInv, SystemAll, Mounted, Opening
    <3> QED
      BY <3>1, <3>2
  <2> QED
    BY <1>0, <2>1, <2>2, OrderFrame
<1> QED
  BY <1>1, <1>2, <1>4, <1>5, <1>6, <1>7 DEF SystemApart

LEMMA OrderStep == ASSUME SystemApart PROVE OInv /\ [Next]_vmVars => OInv'
<1> SUFFICES ASSUME OInv, [Next]_vmVars PROVE OInv'
  OBVIOUS
<1>0. MInv' /\ MInv /\ OrderInv /\ AllInv /\ Shapes
  BY MountingStep DEF OInv, MInv
<1>1. CASE UNCHANGED vmVars
  BY <1>0, <1>1, OrderFrame, AllFrame DEF vmVars, OrderKept, OInv
<1>2. ASSUME NEW d \in Drives, Arrive(d) \/ AcquireRemoveLock(d) \/ Serve(d)
      PROVE  OInv'
  <2>1. UNCHANGED <<vmRoot, vmLastId>>
    BY <1>2 DEF Arrive, AcquireRemoveLock, Serve
  <2>2. vmDrive' = vmDrive \/ vmDrive' = [vmDrive EXCEPT ![d].action = TRUE]
    BY <1>2 DEF Arrive, AcquireRemoveLock, Serve
  <2>3. OrderKept
    <3>1. CASE vmDrive' = vmDrive
      BY <3>1 DEF OrderKept
    <3>2. CASE vmDrive' = [vmDrive EXCEPT ![d].action = TRUE]
      BY <1>0, <3>2 DEF Shapes, OrderKept
    <3> QED
      BY <2>2, <3>1, <3>2
  <2> QED
    BY <1>0, <2>1, <2>3, OrderFrame, AllFrame DEF OInv
<1> QED
  BY <1>0, <1>1, <1>2, OrderMountStep, OrderDismountStep DEF Next, OInv

(* At shutdown no volume is taken away while one that it hosts is mounted, however many
   there are, wherever they are and whatever was mounted and dismounted before
   (TC_IOCTL_DISMOUNT_ALL_VOLUMES, UnmountAllDevices). *)
THEOREM NestedGoFirst == ASSUME SystemApart PROVE Spec => []NestedFirst
<1>1. OInv => NestedFirst
  <2> SUFFICES ASSUME OInv, SystemAll, vmRoot.pc \in {"remove", "drain", "delete"},
                      NEW e \in Drives, Mounted(e), vmDrive[e].host = vmRoot.drive
               PROVE  FALSE
    BY DEF NestedFirst, SystemAll, Nested
  <2> DEFINE d == vmRoot.drive
  <2>1. d \in Drives /\ Mounted(d) /\ vmDrive[d].id > vmRoot.max /\ vmRoot.max \in Int
        /\ (e # d => vmDrive[e].id <= vmRoot.max)
    BY DEF OInv, AllInv
  <2>2. d # NoDrive /\ vmDrive[e].state # "none"
    BY <2>1 DEF SystemApart, Mounted
  <2>3. e # d /\ vmDrive[d].id < vmDrive[e].id
        /\ vmDrive[e].id \in Nat /\ vmDrive[d].id \in Nat
    BY <2>1, <2>2 DEF OInv, OrderInv
  <2> HIDE DEF d
  <2> QED
    BY <2>1, <2>3
<1> QED
  BY OrderInit, OrderStep, <1>1, PTL DEF Spec
=============================================================================
