--------------------------- MODULE VolumeMounting ---------------------------
(* Mounting and dismounting of volumes by the driver (Driver/Ntdriver.c, Driver/Ntvol.c,
   Common/Cache.c). Requests to the root device run one at a time, under
   RootDeviceControlMutex; reads, writes and control requests to mounted volumes run
   beside them. A volume may be hosted by a file of another mounted volume. *)
EXTENDS Integers, FiniteSets, FiniteSetsExt

CONSTANTS
    Drives,         \* drive letters
    NoDrive,
    Users,          \* users who are not administrators
    System,         \* a system thread, which may do everything
    Outer, Hidden,  \* the passwords of an outer volume and of the hidden volume in it
    NoPassword,
    CacheSize,      \* CACHE_SIZE
    MaxMounts,      \* bounds LastUniqueVolumeId
    MaxRequests     \* bounds the requests in progress per volume

VARIABLES
    vmDrive,        \* VirtualVolumeDeviceObjects and their extensions
    vmLastId,       \* LastUniqueVolumeId
    vmRoot,         \* the request that holds RootDeviceControlMutex
    vmArriving,     \* per drive, requests that found bShuttingDown unset
    vmAccepted,     \* per drive, requests that hold Queue.RemoveLock
    vmCache         \* CachedPasswords, nPasswordIdx, cacheEmpty

vmVars == <<vmDrive, vmLastId, vmRoot, vmArriving, vmAccepted, vmCache>>

NoDevice == [state |-> "none", id |-> 0, host |-> NoDrive, user |-> System,
             type |-> "normal", asked |-> FALSE, protect |-> FALSE, action |-> FALSE,
             shuttingDown |-> FALSE, drained |-> FALSE]
Idle == [pc |-> "idle", drive |-> NoDrive, user |-> System, force |-> FALSE,
         all |-> FALSE, max |-> 0, password |-> NoPassword, protected |-> NoPassword,
         cache |-> FALSE]

Init ==
    /\ vmDrive = [d \in Drives |-> NoDevice] /\ vmLastId = 0 /\ vmRoot = Idle
    /\ vmArriving = [d \in Drives |-> 0] /\ vmAccepted = [d \in Drives |-> 0]
    /\ vmCache = [slot |-> [i \in 0..(CacheSize - 1) |-> NoPassword], next |-> 0, empty |-> TRUE]

Mounted(d) == vmDrive[d].state = "mounted"
Nested(d) == {e \in Drives : Mounted(e) /\ vmDrive[e].host = d}
\* IsVolumeAccessibleByCurrentUser
Accessible(d, user) == user \in {System, vmDrive[d].user}
Io == <<vmArriving, vmAccepted>>

-----------------------------------------------------------------------------
(* TC_IOCTL_MOUNT_VOLUME. An empty password asks for the cached ones. *)
CreateDevice(d, host, user, protect) ==
    vmDrive' = [vmDrive EXCEPT ![d] = [NoDevice EXCEPT !.state = "opening", !.host = host,
                                           !.user = user, !.asked = protect]]

MountVolume(d, host, user, password, protect, protected, cache) ==
    /\ vmRoot.pc = "idle" /\ vmLastId < MaxMounts
    /\ vmDrive[d].state = "none" /\ vmArriving[d] = 0
    /\ ~protect => protected = NoPassword
    /\ host # NoDrive => host # d /\ Mounted(host)
    /\ CreateDevice(d, host, user, protect)
    /\ vmRoot' = [Idle EXCEPT !.pc = "host", !.drive = d, !.user = user,
                      !.password = password, !.protected = protected, !.cache = cache]
    /\ UNCHANGED <<vmLastId, vmCache, Io>>

Step(pcs) == vmRoot' \in {[vmRoot EXCEPT !.pc = pc] : pc \in pcs}

\* TCOpenVolume, in the volume's thread: the host file or device is opened, perhaps
\* only for reading, ...
OpenHost ==
    /\ vmRoot.pc = "host"
    /\ Step({"measure", "delete"})
    /\ UNCHANGED <<vmDrive, vmLastId, vmCache, Io>>

\* ... and must be a plain file or a device, and neither too small nor too large.
MeasureHost ==
    /\ vmRoot.pc = "measure"
    /\ Step({"normal", "delete"})
    /\ UNCHANGED <<vmDrive, vmLastId, vmCache, Io>>

HeaderUnreadable == Step({"delete"}) /\ UNCHANGED <<vmDrive, vmCache>>

Cached == {i \in DOMAIN vmCache.slot : vmCache.slot[i] # NoPassword}

StorePassword(password) ==
    IF \E i \in DOMAIN vmCache.slot : vmCache.slot[i] = password
    THEN vmCache
    ELSE [slot |-> [vmCache.slot EXCEPT ![vmCache.next] = password],
          next |-> (vmCache.next + 1) % CacheSize, empty |-> FALSE]

\* Whether a header that the password "right" opens is recognized, and the cache after that.
ReadVolumeHeaderWCache(password, right) ==
    IF password # NoPassword
    THEN [found |-> password = right,
          cache |-> IF vmRoot.cache /\ password = right THEN StorePassword(right) ELSE vmCache]
    ELSE [found |-> ~vmCache.empty /\ \E i \in Cached : vmCache.slot[i] = right,
          cache |-> vmCache]

\* A bug: a hidden volume that is not found is not protected.
FaultyToleratesWrongPassword(type) == TRUE

\* Both headers must be decrypted if the hidden volume is to be protected.
ToleratesWrongPassword(type) == ~vmDrive[vmRoot.drive].asked /\ type = "normal"

\* One turn of the loop over the volume types. The host may hold no hidden volume, the
\* header may be unreadable, or what it says not fit the host.
RecognizeVolume(type) ==
    LET asked == vmDrive[vmRoot.drive].asked
        password == IF type = "hidden" /\ asked THEN vmRoot.protected ELSE vmRoot.password
        right == IF type = "hidden" THEN Hidden ELSE Outer
        read == ReadVolumeHeaderWCache(password, right)
    IN
    /\ vmRoot.pc = type
    /\ \/ /\ read.found /\ vmCache' = read.cache
          /\ IF type = "normal" /\ asked
             THEN Step({"hidden", "delete"}) /\ UNCHANGED vmDrive
             ELSE /\ Step({"start", "delete"})
                  /\ vmDrive' = [vmDrive EXCEPT ![vmRoot.drive].protect = asked,
                                   ![vmRoot.drive].type = IF asked THEN "normal" ELSE type]
       \/ /\ ~read.found \/ type = "hidden"
          /\ IF ToleratesWrongPassword(type)
             THEN Step({IF type = "normal" THEN "hidden" ELSE "start"}) ELSE Step({"delete"})
          /\ UNCHANGED <<vmDrive, vmCache>>
       \/ HeaderUnreadable
    /\ UNCHANGED <<vmLastId, Io>>

\* EncryptedIoQueueStart; without it the volume is closed again.
StartQueue ==
    /\ vmRoot.pc = "start"
    /\ Step({"announce", "delete"})
    /\ UNCHANGED <<vmDrive, vmLastId, vmCache, Io>>

\* The device can be used; the mount manager, the drive link, and the file system's state.
AnnounceVolume ==
    /\ vmRoot.pc = "announce"
    /\ vmDrive' = [vmDrive EXCEPT ![vmRoot.drive].state = "mounted",
                                  ![vmRoot.drive].id = vmLastId]
    /\ vmLastId' = vmLastId + 1
    /\ vmRoot' = Idle
    /\ UNCHANGED <<vmCache, Io>>

WipeCache ==
    /\ vmRoot.pc = "idle"
    /\ vmCache' = [slot |-> [i \in DOMAIN vmCache.slot |-> NoPassword], next |-> 0, empty |-> TRUE]
    /\ UNCHANGED <<vmDrive, vmLastId, vmRoot, Io>>

-----------------------------------------------------------------------------
(* TC_IOCTL_DISMOUNT_VOLUME and UnmountDevice. A file of a nested volume is an open file. *)
DismountVolume(d, user, force) ==
    /\ vmRoot.pc = "idle" /\ Mounted(d) /\ Accessible(d, user)
    /\ vmRoot' = [Idle EXCEPT !.pc = "lock", !.drive = d, !.user = user, !.force = force]
    /\ UNCHANGED <<vmDrive, vmLastId, vmCache, Io>>

\* On to the next volume, or back to the caller.
Done == vmRoot' = IF vmRoot.all THEN [vmRoot EXCEPT !.pc = "next"] ELSE Idle

LockVolume ==
    /\ vmRoot.pc = "lock"
    /\ \/ /\ Nested(vmRoot.drive) = {} \/ vmRoot.force
          /\ vmRoot' = [vmRoot EXCEPT !.pc = "remove"]
       \/ ~vmRoot.force /\ Done     \* ERR_FILES_OPEN
    /\ UNCHANGED <<vmDrive, vmLastId, vmCache, Io>>

RemoveVolume ==
    /\ vmRoot.pc = "remove"
    /\ vmDrive' = [vmDrive EXCEPT ![vmRoot.drive].shuttingDown = TRUE]
    /\ vmRoot' = [vmRoot EXCEPT !.pc = "drain"]
    /\ UNCHANGED <<vmLastId, vmCache, Io>>

\* A bug: the lock is released, its other holders are not waited for.
FaultyReleaseRemoveLockAndWait(d) == vmDrive' = [vmDrive EXCEPT ![d].drained = TRUE]

\* Nobody acquires the lock from here on.
ReleaseRemoveLockAndWait(d) ==
    vmAccepted[d] = 0 /\ vmDrive' = [vmDrive EXCEPT ![d].drained = TRUE]

Drain ==
    /\ vmRoot.pc = "drain"
    /\ ReleaseRemoveLockAndWait(vmRoot.drive)
    /\ vmRoot' = [vmRoot EXCEPT !.pc = "delete"]
    /\ UNCHANGED <<vmLastId, vmCache, Io>>

\* TCDeleteDeviceObject stops the volume's thread, which closes the volume. A triggered
\* hidden volume protection is reported, before more volumes are dismounted.
DeleteDevice ==
    /\ vmRoot.pc = "delete"
    /\ LET d == vmRoot.drive IN
       /\ vmDrive' = [e \in Drives |->
             IF e = d THEN NoDevice
             ELSE IF vmDrive[e].host = d THEN [vmDrive[e] EXCEPT !.host = NoDrive] ELSE vmDrive[e]]
       /\ IF vmDrive[d].protect /\ vmDrive[d].action THEN vmRoot' = Idle ELSE Done
    /\ UNCHANGED <<vmLastId, vmCache, Io>>

-----------------------------------------------------------------------------
(* TC_IOCTL_DISMOUNT_ALL_VOLUMES; at shutdown a system thread repeats it, by force. *)
DismountAllVolumes(user, force) ==
    /\ vmRoot.pc = "idle"
    /\ vmRoot' = [Idle EXCEPT !.pc = "next", !.all = TRUE, !.user = user, !.force = force,
                      !.max = vmLastId]
    /\ UNCHANGED <<vmDrive, vmLastId, vmCache, Io>>

Below(max) == {d \in Drives : Mounted(d) /\ vmDrive[d].id <= max}
\* A bug: the first volume that was mounted comes first.
FaultyHighest(ds) == CHOOSE d \in ds : \A e \in ds : vmDrive[e].id >= vmDrive[d].id

Highest(ds) == CHOOSE d \in ds : \A e \in ds : vmDrive[e].id <= vmDrive[d].id

FindVolumeWithHighestUniqueId ==
    /\ vmRoot.pc = "next"
    /\ IF Below(vmRoot.max) = {} THEN vmRoot' = Idle
       ELSE LET d == Highest(Below(vmRoot.max))
                onward == [vmRoot EXCEPT !.drive = d, !.max = vmDrive[d].id - 1]
            IN vmRoot' = IF Accessible(d, vmRoot.user) THEN [onward EXCEPT !.pc = "lock"] ELSE onward
    /\ UNCHANGED <<vmDrive, vmLastId, vmCache, Io>>

-----------------------------------------------------------------------------
(* TCDispatchQueueIRP for a mounted volume, EncryptedIoQueueAddIrp and VolumeThreadProc. *)
Arrive(d) ==
    /\ Mounted(d) /\ ~vmDrive[d].shuttingDown
    /\ vmArriving[d] + vmAccepted[d] < MaxRequests
    /\ vmArriving' = [vmArriving EXCEPT ![d] = @ + 1]
    /\ UNCHANGED <<vmDrive, vmLastId, vmRoot, vmAccepted, vmCache>>

AcquireRemoveLock(d) ==
    /\ vmArriving[d] > 0
    /\ vmArriving' = [vmArriving EXCEPT ![d] = @ - 1]
    /\ vmAccepted' = IF vmDrive[d].drained \/ ~Mounted(d) THEN vmAccepted
                     ELSE [vmAccepted EXCEPT ![d] = @ + 1]
    /\ UNCHANGED <<vmDrive, vmLastId, vmRoot, vmCache>>

\* A write into the protected hidden volume is refused and remembered.
Serve(d) ==
    /\ vmAccepted[d] > 0
    /\ vmAccepted' = [vmAccepted EXCEPT ![d] = @ - 1]
    /\ \/ UNCHANGED vmDrive
       \/ vmDrive[d].protect /\ vmDrive' = [vmDrive EXCEPT ![d].action = TRUE]
    /\ UNCHANGED <<vmLastId, vmRoot, vmArriving, vmCache>>

Next ==
    \/ \E d \in Drives, host \in Drives \cup {NoDrive}, user \in Users, cache, protect \in BOOLEAN,
          password, protected \in {Outer, Hidden, NoPassword} :
             MountVolume(d, host, user, password, protect, protected, cache)
    \/ OpenHost \/ MeasureHost \/ RecognizeVolume("normal") \/ RecognizeVolume("hidden")
    \/ StartQueue \/ AnnounceVolume \/ WipeCache
    \/ \E d \in Drives, user \in Users, force \in BOOLEAN : DismountVolume(d, user, force)
    \/ LockVolume \/ RemoveVolume \/ Drain \/ DeleteDevice
    \/ \E user \in Users, force \in BOOLEAN : DismountAllVolumes(user, force)
    \/ DismountAllVolumes(System, TRUE)
    \/ FindVolumeWithHighestUniqueId
    \/ \E d \in Drives : Arrive(d) \/ AcquireRemoveLock(d) \/ Serve(d)

Spec == Init /\ [][Next]_vmVars

-----------------------------------------------------------------------------
\* Type invariant.
TypeOK ==
    /\ \A d \in Drives : /\ vmDrive[d].state \in {"none", "opening", "mounted"}
                         /\ vmDrive[d].id \in 0..MaxMounts
                         /\ vmArriving[d] \in 0..MaxRequests /\ vmAccepted[d] \in 0..MaxRequests
    /\ vmLastId \in 0..MaxMounts
    /\ vmCache.empty = (Cached = {})

\* No request is accepted, or still in progress, for a volume that is gone, however the
\* dismount and the dispatch routine overtake each other.
RequestsServed == \A d \in Drives : vmAccepted[d] > 0 => Mounted(d) /\ ~vmDrive[d].drained

\* A volume mounted to protect its hidden volume really protects it: the hidden volume
\* was found and it is the outer one that is mounted, whatever passwords were given or cached.
ProtectionKept ==
    \A d \in Drives : Mounted(d) /\ vmDrive[d].asked =>
        vmDrive[d].protect /\ vmDrive[d].type = "normal"

\* Dismounting all volumes at shutdown never takes away the host of a volume that
\* is still mounted, which would lose what its file system has not written yet.
NestedFirst ==
    vmRoot.all /\ vmRoot.user = System /\ vmRoot.pc \in {"remove", "drain", "delete"}
    => Nested(vmRoot.drive) = {}
=============================================================================
