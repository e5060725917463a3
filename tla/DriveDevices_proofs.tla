------------------------- MODULE DriveDevices_proofs -------------------------
(* Theorems about the filter devices of drives and volumes, for any number of requests under
   way and of faults, whichever of the devices are one and the same. *)
EXTENDS DriveDevices, TLAPS

Locks == [removing : BOOLEAN, passing : Nat, reading : Nat, pnp : Nat]

Shapes ==
    /\ DOMAIN ddDevice = Devices /\ \A d \in Devices : DOMAIN ddDevice[d] = DOMAIN NoDevice
    /\ DOMAIN ddPnp = Devices
    /\ ddLock \in [Devices -> Locks]

(* The search for the system drive is exclusive, from the question whether one was found to
   the publication of the answer. *)
Searching == {"signature", "header", "found"}
SearchInv ==
    \A d \in Devices :
        /\ ddPnp[d] \in Searching \cup {"queue", "unlock"} => ddMutex = d
        /\ ddPnp[d] \in Searching => ~ddBoot.found
        /\ ddDevice[d].boot /\ ddPnp[d] # "delete" => ddBoot.found /\ ddBoot.extension = d

(* A device is taken apart when the requests under way have left, and its queue before its keys. *)
Apart == {"close", "forget", "delete", "absent"}
DeviceInv ==
    \A d \in Devices :
        /\ ddPnp[d] \in {"found", "queue"} => ddDevice[d].keys
        /\ ddPnp[d] = "queue" => ddDevice[d].boot /\ ddDevice[d].mounted
        /\ ddDevice[d].queue => ddDevice[d].keys /\ ddDevice[d].boot /\ ddDevice[d].mounted
        /\ ddPnp[d] \in Apart => ~ddDevice[d].queue
        /\ ddPnp[d] \in Apart \cup {"stop"} => ddLock[d].passing = 0 /\ ddLock[d].reading = 0
        /\ ddPnp[d] \notin Apart \cup {"stop"} => ddDevice[d].attached
        /\ ddLock[d].reading > 0 => ddDevice[d].queue
        /\ ddPnp[d] # "absent" => ddDevice[d].dispatch # {}
        /\ ddPnp[d] = "merging" => "volume" \in ddDevice[d].dispatch

DInv == Shapes /\ SearchInv /\ DeviceInv

LEMMA Fields ==
    /\ "attached" \in DOMAIN NoDevice /\ "dispatch" \in DOMAIN NoDevice
    /\ "boot" \in DOMAIN NoDevice /\ "mounted" \in DOMAIN NoDevice
    /\ "keys" \in DOMAIN NoDevice /\ "queue" \in DOMAIN NoDevice
    /\ ~NoDevice.queue /\ ~NoDevice.boot /\ Unlocked \in Locks
    /\ Unlocked.passing = 0 /\ Unlocked.reading = 0
  BY DEF NoDevice, Unlocked, Locks

LEMMA DevicesInit == Init => DInv
<1> SUFFICES ASSUME Init PROVE DInv
  OBVIOUS
<1>1. /\ DOMAIN ddDevice = Devices /\ DOMAIN ddPnp = Devices
      /\ ddLock \in [Devices -> Locks]
      /\ \A d \in Devices : ddDevice[d] = NoDevice /\ ddPnp[d] = "absent" /\ ddLock[d] = Unlocked
  BY Fields DEF Init
<1> QED
  BY <1>1, Fields DEF DInv, Shapes, SearchInv, DeviceInv, Searching, Apart

\* What a request does to the locks of a device.
LEMMA LockStep ==
    ASSUME DInv, NEW d \in Devices, UNCHANGED <<ddDevice, ddPnp, ddBoot, ddMutex>>,
           PassIrp(d) \/ Returned(d) \/ DriveFilterDispatchIrp(d) \/ ReadCompleted(d)
    PROVE  DInv'
<1>1. PICK lock \in Locks :
          /\ ddLock' = [ddLock EXCEPT ![d] = lock]
          /\ lock.passing <= ddLock[d].passing \/ Passed(d)
          /\ lock.reading <= ddLock[d].reading
             \/ (ddPnp[d] \in {"started", "drain"} /\ ddDevice[d].queue)
  BY DEF PassIrp, Returned, DriveFilterDispatchIrp, ReadCompleted, DInv, Shapes, Locks
<1>2. /\ ddLock' \in [Devices -> Locks]
      /\ ddLock'[d] = lock /\ \A e \in Devices : e # d => ddLock'[e] = ddLock[e]
  BY <1>1 DEF DInv, Shapes
<1>3. Shapes' /\ SearchInv'
  BY <1>2 DEF DInv, Shapes, SearchInv
<1>4. DeviceInv'
  BY <1>1, <1>2 DEF DInv, Shapes, DeviceInv, Locks, Passed, Apart
<1> QED
  BY <1>3, <1>4 DEF DInv

\* A step of the plug-and-play request of one device.
Device(d, value) ==
    /\ DOMAIN ddDevice' = Devices /\ ddDevice'[d] = value
    /\ \A e \in Devices : e # d => ddDevice'[e] = ddDevice[e]
Lock(d, lock) ==
    /\ ddLock' \in [Devices -> Locks] /\ ddLock'[d] = lock
    /\ \A e \in Devices : e # d => ddLock'[e] = ddLock[e]

LEMMA DeviceChanged ==
    ASSUME DInv, NEW d \in Devices, NEW value, ddDevice' = [ddDevice EXCEPT ![d] = value]
    PROVE  Device(d, value)
  BY DEF DInv, Shapes, Device

LEMMA LockChanged ==
    ASSUME DInv, NEW d \in Devices, NEW lock \in Locks, ddLock' = [ddLock EXCEPT ![d] = lock]
    PROVE  Lock(d, lock)
  BY DEF DInv, Shapes, Lock

LEMMA DeviceKept ==
    ASSUME DInv, NEW d \in Devices
    PROVE  /\ UNCHANGED ddDevice => Device(d, ddDevice[d])
           /\ UNCHANGED ddLock => Lock(d, ddLock[d])
           /\ ddLock[d] \in Locks
  BY DEF DInv, Shapes, Device, Lock

\* What the invariant says of one device.
LEMMA DeviceFacts ==
    ASSUME DInv, NEW d \in Devices
    PROVE  /\ ddPnp[d] \in Searching \cup {"queue", "unlock"} => ddMutex = d
           /\ ddPnp[d] \in Searching => ~ddBoot.found
           /\ ddDevice[d].boot /\ ddPnp[d] # "delete" => ddBoot.found /\ ddBoot.extension = d
           /\ ddPnp[d] \in {"found", "queue"} => ddDevice[d].keys
           /\ ddPnp[d] = "queue" => ddDevice[d].boot /\ ddDevice[d].mounted
           /\ ddDevice[d].queue => ddDevice[d].keys /\ ddDevice[d].boot /\ ddDevice[d].mounted
           /\ ddPnp[d] \in Apart => ~ddDevice[d].queue
           /\ ddPnp[d] \in Apart \cup {"stop"} => ddLock[d].passing = 0 /\ ddLock[d].reading = 0
           /\ ddPnp[d] \notin Apart \cup {"stop"} => ddDevice[d].attached
           /\ ddLock[d].reading > 0 => ddDevice[d].queue
           /\ ddPnp[d] # "absent" => ddDevice[d].dispatch # {}
           /\ ddPnp[d] = "merging" => "volume" \in ddDevice[d].dispatch
  BY DEF DInv, SearchInv, DeviceInv

\* What such a step must leave of the search for the system drive, and of the device.
SearchLeft(d, value, pc) ==
    /\ pc \in Searching \cup {"queue", "unlock"} => ddMutex' = d
    /\ \A e \in Devices : e # d /\ ddMutex = e => ddMutex' = e
    /\ pc \in Searching => ~ddBoot'.found
    /\ value.boot /\ pc # "delete" => ddBoot'.found /\ ddBoot'.extension = d
    /\ UNCHANGED ddBoot \/ \A e \in Devices : e # d =>
           /\ ddPnp[e] \in Searching => ~ddBoot'.found
           /\ ddPnp[e] # "delete" => ~ddDevice[e].boot
DeviceLeft(value, lock, pc) ==
    /\ DOMAIN value = DOMAIN NoDevice /\ lock \in Locks
    /\ pc \in {"found", "queue"} => value.keys
    /\ pc = "queue" => value.boot /\ value.mounted
    /\ value.queue => value.keys /\ value.boot /\ value.mounted
    /\ pc \in Apart => ~value.queue
    /\ pc \in Apart \cup {"stop"} => lock.passing = 0 /\ lock.reading = 0
    /\ pc \notin Apart \cup {"stop"} => value.attached
    /\ lock.reading > 0 => value.queue
    /\ pc # "absent" => value.dispatch # {}
    /\ pc = "merging" => "volume" \in value.dispatch

LEMMA PnpStep ==
    ASSUME DInv, NEW d \in Devices, NEW value, NEW lock, NEW pc,
           Device(d, value), Lock(d, lock), Goto(d, pc),
           SearchLeft(d, value, pc), DeviceLeft(value, lock, pc)
    PROVE  DInv'
<1>1. /\ DOMAIN ddDevice' = Devices /\ DOMAIN ddPnp' = Devices /\ ddLock' \in [Devices -> Locks]
      /\ ddDevice'[d] = value /\ ddLock'[d] = lock /\ ddPnp'[d] = pc
      /\ \A e \in Devices : e # d => /\ ddDevice'[e] = ddDevice[e]
                                     /\ ddLock'[e] = ddLock[e] /\ ddPnp'[e] = ddPnp[e]
  BY DEF DInv, Shapes, Device, Lock, Goto, DeviceLeft
<1>2. Shapes'
  BY <1>1 DEF DInv, Shapes, DeviceLeft
<1>3. SearchInv'
  <2> SUFFICES ASSUME NEW e \in Devices
               PROVE  /\ ddPnp'[e] \in Searching \cup {"queue", "unlock"} => ddMutex' = e
                      /\ ddPnp'[e] \in Searching => ~ddBoot'.found
                      /\ ddDevice'[e].boot /\ ddPnp'[e] # "delete" =>
                            ddBoot'.found /\ ddBoot'.extension = e
    BY DEF SearchInv
  <2>1. CASE e = d
    BY <1>1, <2>1 DEF SearchLeft
  <2>2. CASE e # d
    BY <1>1, <2>2 DEF DInv, SearchInv, SearchLeft
  <2> QED
    BY <2>1, <2>2
<1>4. DeviceInv'
  <2> SUFFICES ASSUME NEW e \in Devices
               PROVE  /\ ddPnp'[e] \in {"found", "queue"} => ddDevice'[e].keys
                      /\ ddPnp'[e] = "queue" => ddDevice'[e].boot /\ ddDevice'[e].mounted
                      /\ ddDevice'[e].queue =>
                            ddDevice'[e].keys /\ ddDevice'[e].boot /\ ddDevice'[e].mounted
                      /\ ddPnp'[e] \in Apart => ~ddDevice'[e].queue
                      /\ ddPnp'[e] \in Apart \cup {"stop"} =>
                            ddLock'[e].passing = 0 /\ ddLock'[e].reading = 0
                      /\ ddPnp'[e] \notin Apart \cup {"stop"} => ddDevice'[e].attached
                      /\ ddLock'[e].reading > 0 => ddDevice'[e].queue
                      /\ ddPnp'[e] # "absent" => ddDevice'[e].dispatch # {}
                      /\ ddPnp'[e] = "merging" => "volume" \in ddDevice'[e].dispatch
    BY DEF DeviceInv
  <2>1. CASE e = d
    BY <1>1, <2>1 DEF DeviceLeft
  <2>2. CASE e # d
    BY <1>1, <2>2 DEF DInv, DeviceInv
  <2> QED
    BY <2>1, <2>2
<1> QED
  BY <1>2, <1>3, <1>4 DEF DInv

\* A step that leaves the device and its lock as they are.
LEMMA PnpGoes ==
    ASSUME DInv, NEW d \in Devices, NEW pc, UNCHANGED <<ddDevice, ddLock, ddBoot>>, Goto(d, pc),
           pc \notin Apart \cup {"stop", "merging"}, ddPnp[d] \notin Apart \cup {"stop"},
           pc \in Searching \cup {"queue", "unlock"} => ddMutex' = d,
           \A e \in Devices : e # d /\ ddMutex = e => ddMutex' = e,
           pc \in Searching => ~ddBoot.found,
           pc \in {"found", "queue"} =>
               ddDevice[d].keys /\ ddDevice[d].boot /\ ddDevice[d].mounted
    PROVE  DInv'
<1>1. Device(d, ddDevice[d]) /\ Lock(d, ddLock[d]) /\ ddLock[d] \in Locks
  BY DeviceChanged, LockChanged, DeviceKept
<1>2. /\ DOMAIN ddDevice[d] = DOMAIN NoDevice
      /\ ddDevice[d].boot => ddBoot.found /\ ddBoot.extension = d
      /\ ddDevice[d].queue => ddDevice[d].keys /\ ddDevice[d].boot /\ ddDevice[d].mounted
      /\ ddDevice[d].attached /\ ddDevice[d].dispatch # {}
      /\ ddLock[d].reading > 0 => ddDevice[d].queue
  BY DEF DInv, Shapes, SearchInv, DeviceInv, Apart
<1>9. SearchLeft(d, ddDevice[d], pc) /\ DeviceLeft(ddDevice[d], ddLock[d], pc)
  BY <1>1, <1>2
     DEF SearchLeft, DeviceLeft
<1> QED
  BY <1>9, <1>1, <1>2, PnpStep

LEMMA DevicesStart ==
    ASSUME None \notin Devices, DInv, NEW d \in Devices,
           \/ DriverAddDevice(d) \/ StartDevice(d) \/ OnStartDeviceCompleted(d) \/ MergeDevice(d)
           \/ AcquireMountMutex(d) \/ CheckSignature(d)
    PROVE  DInv'
<1>1. CASE DriverAddDevice(d)
  <2> DEFINE value == IF d = Volume THEN VolumeFilterAddDevice(d) ELSE DriveFilterAddDevice(d)
  <2>1. /\ DOMAIN value = DOMAIN NoDevice /\ value.attached /\ value.dispatch # {}
        /\ ~value.queue /\ ~value.boot
    BY Fields DEF VolumeFilterAddDevice, DriveFilterAddDevice
  <2>2. Device(d, value) /\ Lock(d, Unlocked) /\ Goto(d, "added")
    BY <1>1, DeviceChanged, LockChanged, DeviceKept, Fields DEF DriverAddDevice, Goto
  <2> HIDE DEF value
  <2>9. SearchLeft(d, value, "added") /\ DeviceLeft(value, Unlocked, "added")
    BY <1>1, <2>1, <2>2, Fields
       DEF SearchLeft, DeviceLeft, DriverAddDevice, Others, Searching, Apart
  <2> QED
    BY <2>9, <1>1, <2>1, <2>2, Fields, PnpStep DEF DriverAddDevice, Others
<1>2. CASE StartDevice(d)
  <2> DEFINE lock == [ddLock[d] EXCEPT !.pnp = 1]
  <2>1. lock \in Locks /\ lock.passing = ddLock[d].passing /\ lock.reading = ddLock[d].reading
    BY DEF DInv, Shapes, Locks
  <2>2. Device(d, ddDevice[d]) /\ Lock(d, lock) /\ Goto(d, "starting")
    BY <1>2, <2>1, DeviceChanged, LockChanged, DeviceKept DEF StartDevice, AcquireForPnp
  <2>3. /\ ddPnp[d] = "added" /\ UNCHANGED <<ddBoot, ddMutex>>
        /\ DOMAIN ddDevice[d] = DOMAIN NoDevice
    BY <1>2 DEF StartDevice, Others, DInv, Shapes
  <2> HIDE DEF lock
  <2>9. SearchLeft(d, ddDevice[d], "starting") /\ DeviceLeft(ddDevice[d], lock, "starting")
    BY <2>1, <2>2, <2>3, DeviceFacts
       DEF SearchLeft, DeviceLeft, Searching, Apart
  <2> QED
    BY <2>9, <2>1, <2>2, <2>3, PnpStep
<1>3. CASE OnStartDeviceCompleted(d)
  <2>0. /\ ddPnp[d] = "starting" /\ UNCHANGED <<ddBoot, ddMutex, ddLock>>
        /\ DOMAIN ddDevice[d] = DOMAIN NoDevice
    BY <1>3 DEF OnStartDeviceCompleted, Others, DInv, Shapes
  <2>1. CASE UNCHANGED ddDevice /\ (Goto(d, "release") \/ Goto(d, "waiting"))
    BY <2>0, <2>1, PnpGoes DEF Searching, Apart
  <2>2. CASE Goto(d, "merging")
             /\ ddDevice' = [ddDevice EXCEPT ![d].dispatch = @ \cup {"volume"}]
    <3> DEFINE value == [ddDevice[d] EXCEPT !.dispatch = @ \cup {"volume"}]
    <3>1. /\ DOMAIN value = DOMAIN NoDevice /\ "volume" \in value.dispatch
          /\ value.keys = ddDevice[d].keys /\ value.boot = ddDevice[d].boot
          /\ value.mounted = ddDevice[d].mounted /\ value.queue = ddDevice[d].queue
          /\ value.attached = ddDevice[d].attached
      BY <2>0, Fields
    <3>2. Device(d, value) /\ Lock(d, ddLock[d]) /\ ddLock[d] \in Locks
      BY <2>0, <2>2, DeviceChanged, LockChanged, DeviceKept
    <3> HIDE DEF value
    <3>9. SearchLeft(d, value, "merging") /\ DeviceLeft(value, ddLock[d], "merging")
      BY <2>0, <2>2, <3>1, <3>2, DeviceFacts
         DEF SearchLeft, DeviceLeft, Searching, Apart
    <3> QED
      BY <3>9, <2>0, <2>2, <3>1, <3>2, PnpStep
  <2> QED
    BY <1>3, <2>1, <2>2 DEF OnStartDeviceCompleted
<1>4. CASE MergeDevice(d)
  <2> DEFINE value == [ddDevice[d] EXCEPT !.dispatch = @ \ {"drive"}]
  <2>0. /\ ddPnp[d] = "merging" /\ UNCHANGED <<ddBoot, ddMutex, ddLock>> /\ Goto(d, "release")
        /\ DOMAIN ddDevice[d] = DOMAIN NoDevice /\ "volume" \in ddDevice[d].dispatch
    BY <1>4 DEF MergeDevice, Others, DInv, Shapes, DeviceInv
  <2>1. /\ DOMAIN value = DOMAIN NoDevice /\ "volume" \in value.dispatch
        /\ value.keys = ddDevice[d].keys /\ value.boot = ddDevice[d].boot
        /\ value.mounted = ddDevice[d].mounted /\ value.queue = ddDevice[d].queue
        /\ value.attached = ddDevice[d].attached
    BY <2>0, Fields
  <2>2. Device(d, value) /\ Lock(d, ddLock[d]) /\ ddLock[d] \in Locks
    BY <1>4, <2>0, DeviceChanged, LockChanged, DeviceKept DEF MergeDevice
  <2> HIDE DEF value
  <2>9. SearchLeft(d, value, "release") /\ DeviceLeft(value, ddLock[d], "release")
    BY <2>0, <2>1, <2>2, DeviceFacts
       DEF SearchLeft, DeviceLeft, Searching, Apart
  <2> QED
    BY <2>9, <2>0, <2>1, <2>2, PnpStep
<1>5. CASE AcquireMountMutex(d)
  <2>1. \A e \in Devices : ddMutex # e
    BY <1>5 DEF AcquireMountMutex
  <2> QED
    BY <1>5, <2>1, PnpGoes DEF AcquireMountMutex, Searching, Apart
<1>6. CASE CheckSignature(d)
  <2>1. ddMutex = d /\ ~ddBoot.found
    BY <1>6 DEF CheckSignature, DInv, SearchInv, Searching
  <2> QED
    BY <1>6, <2>1, PnpGoes DEF CheckSignature, Searching, Apart
<1> QED
  BY <1>1, <1>2, <1>3, <1>4, <1>5, <1>6

LEMMA DevicesMount ==
    ASSUME None \notin Devices, DInv, NEW d \in Devices,
           \/ MountDrive(d) \/ PublishDrive(d) \/ StartQueue(d) \/ ReleaseMountMutex(d)
           \/ ReleaseStart(d)
    PROVE  DInv'
<1>0. DOMAIN ddDevice[d] = DOMAIN NoDevice /\ ddLock[d] \in Locks
  BY DEF DInv, Shapes
<1>1. CASE MountDrive(d)
  <2>0. /\ ddPnp[d] = "header" /\ UNCHANGED <<ddBoot, ddMutex, ddLock>>
        /\ ddMutex = d /\ ~ddBoot.found
    BY <1>1 DEF MountDrive, DInv, SearchInv, Searching
  <2>1. CASE UNCHANGED ddDevice /\ Goto(d, "unlock")
    BY <2>0, <2>1, PnpGoes DEF Searching, Apart
  <2>2. CASE ddDevice' = [ddDevice EXCEPT ![d].keys = TRUE] /\ Goto(d, "found")
    <3> DEFINE value == [ddDevice[d] EXCEPT !.keys = TRUE]
    <3>1. /\ DOMAIN value = DOMAIN NoDevice /\ value.keys
          /\ value.boot = ddDevice[d].boot /\ value.dispatch = ddDevice[d].dispatch
          /\ value.mounted = ddDevice[d].mounted /\ value.queue = ddDevice[d].queue
          /\ value.attached = ddDevice[d].attached
      BY <1>0, Fields
    <3>2. Device(d, value) /\ Lock(d, ddLock[d])
      BY <1>0, <2>0, <2>2, DeviceChanged, LockChanged, DeviceKept
    <3> HIDE DEF value
    <3>9. SearchLeft(d, value, "found") /\ DeviceLeft(value, ddLock[d], "found")
      BY <1>0, <2>0, <2>2, <3>1, <3>2
         DEF SearchLeft, DeviceLeft, DInv, SearchInv, DeviceInv, Searching, Apart
    <3> QED
      BY <3>9, <1>0, <2>0, <2>2, <3>1, <3>2, PnpStep
  <2> QED
    BY <1>1, <2>1, <2>2 DEF MountDrive, Unmounted
<1>2. CASE PublishDrive(d)
  <2> DEFINE value == [ddDevice[d] EXCEPT !.boot = TRUE, !.mounted = TRUE]
  <2>0. /\ ddPnp[d] = "found" /\ UNCHANGED <<ddMutex, ddLock>> /\ Goto(d, "queue")
        /\ ddBoot'.found /\ ddBoot'.extension = d
        /\ ddMutex = d /\ ~ddBoot.found /\ ddDevice[d].keys
    BY <1>2 DEF PublishDrive, DInv, SearchInv, DeviceInv, Searching
  <2>1. /\ DOMAIN value = DOMAIN NoDevice /\ value.boot /\ value.mounted
        /\ value.keys = ddDevice[d].keys /\ value.dispatch = ddDevice[d].dispatch
        /\ value.queue = ddDevice[d].queue /\ value.attached = ddDevice[d].attached
    BY <1>0, Fields
  <2>2. Device(d, value) /\ Lock(d, ddLock[d])
    <3>1. ddDevice' = [ddDevice EXCEPT ![d] = value]
      BY <1>2 DEF PublishDrive, DInv, Shapes
    <3> HIDE DEF value
    <3> QED
      BY <1>0, <2>0, <3>1, DeviceChanged, LockChanged, DeviceKept
  <2>3. \A e \in Devices : e # d => /\ ddPnp[e] \notin Searching
                                    /\ ddPnp[e] # "delete" => ~ddDevice[e].boot
    BY <2>0 DEF DInv, SearchInv
  <2> HIDE DEF value
  <2>9. SearchLeft(d, value, "queue") /\ DeviceLeft(value, ddLock[d], "queue")
    BY <1>0, <2>0, <2>1, <2>2, <2>3, DeviceFacts
       DEF SearchLeft, DeviceLeft, Searching, Apart
  <2> QED
    BY <2>9, <1>0, <2>0, <2>1, <2>2, <2>3, PnpStep
<1>3. CASE StartQueue(d)
  <2> DEFINE value == [ddDevice[d] EXCEPT !.queue = TRUE]
  <2>0. /\ ddPnp[d] = "queue" /\ UNCHANGED <<ddBoot, ddMutex, ddLock>> /\ Goto(d, "unlock")
        /\ ddMutex = d
    BY <1>3 DEF StartQueue, Others, DInv, SearchInv
  <2>1. /\ DOMAIN value = DOMAIN NoDevice /\ value.queue
        /\ value.keys = ddDevice[d].keys /\ value.dispatch = ddDevice[d].dispatch
        /\ value.mounted = ddDevice[d].mounted /\ value.attached = ddDevice[d].attached
        /\ value.boot = ddDevice[d].boot
    BY <1>0, Fields
  <2>2. Device(d, value) /\ Lock(d, ddLock[d])
    BY <1>0, <1>3, <2>0, DeviceChanged, LockChanged, DeviceKept DEF StartQueue
  <2> HIDE DEF value
  <2>9. SearchLeft(d, value, "unlock") /\ DeviceLeft(value, ddLock[d], "unlock")
    BY <1>0, <2>0, <2>1, <2>2, DeviceFacts
       DEF SearchLeft, DeviceLeft, Searching, Apart
  <2> QED
    BY <2>9, <1>0, <2>0, <2>1, <2>2, PnpStep
<1>4. CASE ReleaseMountMutex(d)
  <2>1. ddMutex = d
    BY <1>4 DEF ReleaseMountMutex, DInv, SearchInv
  <2> QED
    BY <1>4, <2>1, PnpGoes DEF ReleaseMountMutex, Searching, Apart
<1>5. CASE ReleaseStart(d)
  <2> DEFINE lock == [ddLock[d] EXCEPT !.pnp = 0]
  <2>1. lock \in Locks /\ lock.passing = ddLock[d].passing /\ lock.reading = ddLock[d].reading
    BY <1>0 DEF Locks
  <2>2. Device(d, ddDevice[d]) /\ Lock(d, lock) /\ Goto(d, "started")
    BY <1>5, <2>1, DeviceChanged, LockChanged, DeviceKept DEF ReleaseStart
  <2>3. ddPnp[d] = "release" /\ UNCHANGED <<ddBoot, ddMutex>>
    BY <1>5 DEF ReleaseStart, Others
  <2> HIDE DEF lock
  <2>9. SearchLeft(d, ddDevice[d], "started") /\ DeviceLeft(ddDevice[d], lock, "started")
    BY <1>0, <2>1, <2>2, <2>3, DeviceFacts
       DEF SearchLeft, DeviceLeft, Searching, Apart
  <2> QED
    BY <2>9, <1>0, <2>1, <2>2, <2>3, PnpStep
<1> QED
  BY <1>1, <1>2, <1>3, <1>4, <1>5

LEMMA DevicesRemove ==
    ASSUME DInv, NEW d \in Devices,
           \/ RemoveDevice(d) \/ ReleaseRemoveLockAndWait(d) \/ DismountDrive(d) \/ ForgetDrive(d)
           \/ DeleteDevice(d)
    PROVE  DInv'
<1>0. DOMAIN ddDevice[d] = DOMAIN NoDevice /\ ddLock[d] \in Locks
  BY DEF DInv, Shapes
<1>1. CASE RemoveDevice(d)
  <2> DEFINE lock == [ddLock[d] EXCEPT !.removing = TRUE]
  <2>1. lock \in Locks /\ lock.passing = ddLock[d].passing /\ lock.reading = ddLock[d].reading
    BY <1>0 DEF Locks
  <2>2. Device(d, ddDevice[d]) /\ Lock(d, lock) /\ Goto(d, "drain")
    BY <1>1, <2>1, LockChanged, DeviceKept DEF RemoveDevice
  <2>3. ddPnp[d] \in {"added", "started"} /\ UNCHANGED <<ddBoot, ddMutex>>
    BY <1>1 DEF RemoveDevice
  <2> HIDE DEF lock
  <2>9. SearchLeft(d, ddDevice[d], "drain") /\ DeviceLeft(ddDevice[d], lock, "drain")
    BY <1>0, <2>1, <2>2, <2>3, DeviceFacts
       DEF SearchLeft, DeviceLeft, Searching, Apart
  <2> QED
    BY <2>9, <1>0, <2>1, <2>2, <2>3, PnpStep
<1>2. CASE ReleaseRemoveLockAndWait(d)
  <2> DEFINE value == [ddDevice[d] EXCEPT !.attached = FALSE]
             pc == IF ddDevice[d].mounted THEN "stop" ELSE "forget"
  <2>0. /\ ddPnp[d] = "drain" /\ UNCHANGED <<ddBoot, ddMutex, ddLock>> /\ Goto(d, pc)
    BY <1>2 DEF ReleaseRemoveLockAndWait, Others
  <2>1. /\ DOMAIN value = DOMAIN NoDevice
        /\ value.keys = ddDevice[d].keys /\ value.dispatch = ddDevice[d].dispatch
        /\ value.mounted = ddDevice[d].mounted /\ value.queue = ddDevice[d].queue
        /\ value.boot = ddDevice[d].boot
    BY <1>0, Fields
  <2>2. Device(d, value) /\ Lock(d, ddLock[d])
    BY <1>2, <2>0, DeviceChanged, DeviceKept DEF ReleaseRemoveLockAndWait
  <2>3. ddLock[d].passing = 0 /\ ddLock[d].reading = 0
    BY <1>0, <1>2 DEF ReleaseRemoveLockAndWait, Holders, Locks
  <2>4. /\ pc \in {"stop", "forget"} /\ (pc = "forget" => ~ddDevice[d].queue)
        /\ ddDevice[d].boot => ddBoot.found /\ ddBoot.extension = d
        /\ ddDevice[d].queue => ddDevice[d].keys /\ ddDevice[d].boot /\ ddDevice[d].mounted
        /\ ddDevice[d].dispatch # {}
    BY <2>0 DEF DInv, SearchInv, DeviceInv
  <2> HIDE DEF value, pc
  <2>9. SearchLeft(d, value, pc) /\ DeviceLeft(value, ddLock[d], pc)
    BY <1>0, <2>0, <2>1, <2>2, <2>3, <2>4
       DEF SearchLeft, DeviceLeft, Searching, Apart
  <2> QED
    BY <2>9, <1>0, <2>0, <2>1, <2>2, <2>3, <2>4, PnpStep
<1>3. CASE DismountDrive(d)
  <2>0. /\ UNCHANGED <<ddBoot, ddMutex, ddLock>> /\ Lock(d, ddLock[d])
        /\ ddPnp[d] \in {"stop", "close"}
        /\ ddLock[d].passing = 0 /\ ddLock[d].reading = 0 /\ ddDevice[d].dispatch # {}
        /\ ddDevice[d].boot => ddBoot.found /\ ddBoot.extension = d
        /\ ddDevice[d].queue => ddDevice[d].keys /\ ddDevice[d].boot /\ ddDevice[d].mounted
        /\ ddPnp[d] = "close" => ~ddDevice[d].queue
    BY <1>3, DeviceKept DEF DismountDrive, Others, DInv, SearchInv, DeviceInv, Apart
  <2>1. CASE Goto(d, "close") /\ ddDevice' = [ddDevice EXCEPT ![d].queue = FALSE]
    <3> DEFINE value == [ddDevice[d] EXCEPT !.queue = FALSE]
    <3>1. /\ DOMAIN value = DOMAIN NoDevice /\ ~value.queue
          /\ value.dispatch = ddDevice[d].dispatch /\ value.boot = ddDevice[d].boot
      BY <1>0, Fields
    <3>2. Device(d, value)
      BY <2>1, DeviceChanged
    <3> HIDE DEF value
    <3>9. SearchLeft(d, value, "close") /\ DeviceLeft(value, ddLock[d], "close")
      BY <1>0, <2>0, <2>1, <3>1, <3>2
         DEF SearchLeft, DeviceLeft, Searching, Apart
    <3> QED
      BY <3>9, <1>0, <2>0, <2>1, <3>1, <3>2, PnpStep
  <2>2. CASE /\ ddPnp[d] = "close" /\ Goto(d, "forget")
             /\ ddDevice' = [ddDevice EXCEPT ![d].keys = FALSE, ![d].mounted = FALSE]
    <3> DEFINE value == [ddDevice[d] EXCEPT !.keys = FALSE, !.mounted = FALSE]
    <3>1. /\ DOMAIN value = DOMAIN NoDevice /\ value.queue = ddDevice[d].queue
          /\ value.dispatch = ddDevice[d].dispatch /\ value.boot = ddDevice[d].boot
      BY <1>0, Fields
    <3>2. Device(d, value)
      <4>1. ddDevice' = [ddDevice EXCEPT ![d] = value]
        BY <2>2 DEF DInv, Shapes
      <4> HIDE DEF value
      <4> QED
        BY <4>1, DeviceChanged
    <3> HIDE DEF value
    <3>9. SearchLeft(d, value, "forget") /\ DeviceLeft(value, ddLock[d], "forget")
      BY <1>0, <2>0, <2>2, <3>1, <3>2
         DEF SearchLeft, DeviceLeft, Searching, Apart
    <3> QED
      BY <3>9, <1>0, <2>0, <2>2, <3>1, <3>2, PnpStep
  <2> QED
    BY <1>3, <2>1, <2>2 DEF DismountDrive
<1>4. CASE ForgetDrive(d)
  <2>0. /\ UNCHANGED <<ddDevice, ddMutex, ddLock>> /\ Goto(d, "delete")
        /\ Device(d, ddDevice[d]) /\ Lock(d, ddLock[d]) /\ ddPnp[d] = "forget"
        /\ ddLock[d].passing = 0 /\ ddLock[d].reading = 0 /\ ddDevice[d].dispatch # {}
        /\ ~ddDevice[d].queue
    BY <1>4, DeviceKept DEF ForgetDrive, DInv, DeviceInv, Apart
  <2>1. UNCHANGED ddBoot \/ (~ddBoot'.found /\ \A e \in Devices :
            e # d /\ ddPnp[e] # "delete" => ~ddDevice[e].boot)
    BY <1>4 DEF ForgetDrive, DInv, SearchInv
  <2>9. SearchLeft(d, ddDevice[d], "delete") /\ DeviceLeft(ddDevice[d], ddLock[d], "delete")
    BY <1>0, <2>0, <2>1
       DEF SearchLeft, DeviceLeft, Searching, Apart
  <2> QED
    BY <2>9, <1>0, <2>0, <2>1, PnpStep
<1>5. CASE DeleteDevice(d)
  <2>1. /\ Device(d, NoDevice) /\ Lock(d, Unlocked) /\ Goto(d, "absent")
        /\ UNCHANGED <<ddBoot, ddMutex>>
    BY <1>5, DeviceChanged, LockChanged, Fields DEF DeleteDevice, Others
  <2>9. SearchLeft(d, NoDevice, "absent") /\ DeviceLeft(NoDevice, Unlocked, "absent")
    BY <2>1, Fields
       DEF SearchLeft, DeviceLeft, Searching, Apart
  <2> QED
    BY <2>9, <2>1, Fields, PnpStep
<1> QED
  BY <1>1, <1>2, <1>3, <1>4, <1>5

LEMMA DevicesStep == ASSUME None \notin Devices, DInv, [Next]_ddVars PROVE DInv'
<1>1. CASE UNCHANGED ddVars
  BY <1>1 DEF ddVars, DInv, Shapes, SearchInv, DeviceInv
<1>2. ASSUME NEW d \in Devices, DriverAddDevice(d) \/ DispatchPnp(d) PROVE DInv'
  BY <1>2, DevicesStart, DevicesMount, DevicesRemove DEF DispatchPnp
<1>3. ASSUME NEW d \in Devices,
             PassIrp(d) \/ Returned(d) \/ DriveFilterDispatchIrp(d) \/ ReadCompleted(d)
      PROVE  DInv'
  BY <1>3, LockStep DEF PassIrp, Returned, DriveFilterDispatchIrp, ReadCompleted, Others
<1> QED
  BY <1>1, <1>2, <1>3 DEF Next

(* A device is not taken out of its stack under a request, nor the queue and the keys from a
   read of the system drive, and a request always finds a handler, however devices are started
   and removed meanwhile (DispatchPnp, MountDrive, DismountDrive). *)
THEOREM DevicesHandled == ASSUME None \notin Devices PROVE Spec => []RequestsHandled
<1>1. DInv => RequestsHandled
  <2> SUFFICES ASSUME DInv, NEW d \in Devices
               PROVE  /\ ddLock[d].passing > 0 => ddDevice[d].attached
                      /\ ddLock[d].reading > 0 =>
                            ddDevice[d].keys /\ ddDevice[d].queue /\ ddBoot.extension = d
                      /\ ddPnp[d] # "absent" => ddDevice[d].dispatch # {}
    BY DEF RequestsHandled
  <2> QED
    BY DEF DInv, SearchInv, DeviceInv, Apart
<1>2. DInv /\ [Next]_ddVars => DInv'
  BY DevicesStep
<1> QED
  BY DevicesInit, <1>1, <1>2, PTL DEF Spec

-----------------------------------------------------------------------------
\* The system drive is a drive, and none of the others.
DevicesDiffer == None \notin Devices /\ System \notin {Restored, Merged, Volume}

Removing == {"drain", "stop", "close", "forget", "delete"}

(* The password opens the header of at most one drive: it is burnt before another one is
   tried. *)
PasswordInv ==
    \A d \in Devices :
        /\ ddPassword = "typed" =>
              /\ ~ddDevice[d].boot /\ ~ddDevice[d].mounted
              /\ ddDevice[d].keys => ddPnp[d] = "found"
        /\ ddPnp[d] = "found" => ddPassword = "typed" /\ ddDevice[d].keys
        /\ ddDevice[d].mounted => ddDevice[d].keys /\ ddPnp[d] # "absent"
        /\ ddDevice[d].keys => HasHeader(d)
        /\ \A e \in Devices : ddDevice[d].keys /\ ddDevice[e].keys => d = e

(* As long as nothing fails and nothing is removed, the drive that was found stays, and the
   system drive does not finish its start before one is found. *)
FaultlessInv ==
    /\ \A d \in Devices : ddPnp[d] \notin Removing
    /\ ~ddBoot.found => ddPassword = "typed"
    /\ ddBoot.found => /\ ddBoot.extension \in {System, Restored}
                       /\ ddDevice[ddBoot.extension].mounted
    /\ ddPnp[System] \in {"unlock", "release", "started"} /\ ddArgs.valid => ddBoot.found
    /\ ddPnp[System] # "merging"
    /\ ddPnp[System] \in {"added", "starting"} => "drive" \in ddDevice[System].dispatch

FoundInv ==
    /\ ddFaults \in Nat
    /\ ddBoot = [found |-> ddBoot.found, extension |-> ddBoot.extension]
    /\ ddBoot.found \in BOOLEAN
    /\ PasswordInv
    /\ ddPnp[Restored] \in {"header", "found"} \/ ddDevice[Restored].mounted =>
          ~ddArgs.signature \/ ddFaults > 0
    /\ ddFaults = 0 => FaultlessInv

LEMMA FoundInit == ASSUME DevicesDiffer, Init PROVE FoundInv
<1>1. /\ ddBoot = [found |-> FALSE, extension |-> None] /\ ddPassword = "typed" /\ ddFaults = 0
      /\ \A d \in Devices : /\ ddPnp[d] = "absent" /\ ~ddDevice[d].boot /\ ~ddDevice[d].mounted
                            /\ ~ddDevice[d].keys
  BY DEF Init, NoDevice
<1>2. System \in Devices /\ Restored \in Devices
  BY DEF Devices
<1>3. PasswordInv /\ FaultlessInv
  BY <1>1, <1>2 DEF PasswordInv, FaultlessInv, Removing
<1> QED
  BY <1>1, <1>2, <1>3 DEF FoundInv

\* What a step that does not mount or forget a drive must leave of the device.
FoundLeft(d, value, pc) ==
    /\ value.keys => ddDevice[d].keys
    /\ value.boot => ddDevice[d].boot
    /\ value.mounted => ddDevice[d].mounted /\ value.keys /\ pc # "absent"
    /\ ddFaults' \in Nat /\ ddFaults' >= ddFaults
    /\ pc # "found"
    /\ pc = "header" /\ d = Restored => ~ddArgs.signature \/ ddFaults' > 0
    /\ ddFaults' = 0 =>
          /\ pc \notin Removing
          /\ ddDevice[d].mounted => value.mounted
          /\ d = System =>
                /\ pc \in {"unlock", "release", "started"} /\ ddArgs.valid => ddBoot.found
                /\ pc # "merging"
                /\ pc \in {"added", "starting"} => "drive" \in value.dispatch

LEMMA FoundStep ==
    ASSUME DInv, FoundInv, NEW d \in Devices, NEW value, NEW pc, ddPnp[d] # "found",
           UNCHANGED <<ddArgs, ddPassword, ddBoot>>,
           Device(d, value), Goto(d, pc), FoundLeft(d, value, pc)
    PROVE  FoundInv'
<1>1. /\ ddDevice'[d] = value /\ ddPnp'[d] = pc
      /\ \A e \in Devices : e # d => ddDevice'[e] = ddDevice[e] /\ ddPnp'[e] = ddPnp[e]
      /\ \A e \in Devices : /\ ddDevice'[e].keys => ddDevice[e].keys
                            /\ ddDevice'[e].boot => ddDevice[e].boot
                            /\ ddDevice'[e].mounted => ddDevice[e].mounted
      /\ System \in Devices /\ Restored \in Devices
  BY DEF DInv, Shapes, Device, Goto, FoundLeft, Devices
<1>2. PasswordInv'
  <2> SUFFICES ASSUME NEW e \in Devices
               PROVE  /\ ddPassword' = "typed" =>
                            /\ ~ddDevice'[e].boot /\ ~ddDevice'[e].mounted
                            /\ ddDevice'[e].keys => ddPnp'[e] = "found"
                      /\ ddPnp'[e] = "found" => ddPassword' = "typed" /\ ddDevice'[e].keys
                      /\ ddDevice'[e].mounted => ddDevice'[e].keys /\ ddPnp'[e] # "absent"
                      /\ ddDevice'[e].keys => HasHeader(e)
                      /\ \A f \in Devices : ddDevice'[e].keys /\ ddDevice'[f].keys => e = f
    BY DEF PasswordInv, HasHeader
  <2>1. CASE e = d
    BY <1>1, <2>1 DEF FoundInv, PasswordInv, FoundLeft
  <2>2. CASE e # d
    BY <1>1, <2>2 DEF FoundInv, PasswordInv
  <2> QED
    BY <2>1, <2>2
<1>3. ddFaults' \in Nat /\ (ddFaults' = 0 => ddFaults = 0) /\ (ddFaults > 0 => ddFaults' > 0)
  BY DEF FoundLeft, FoundInv
<1>4. ddFaults' = 0 => FaultlessInv'
  <2> SUFFICES ASSUME ddFaults' = 0 PROVE FaultlessInv'
    OBVIOUS
  <2>1. FaultlessInv
    BY <1>3 DEF FoundInv
  <2>2. ddBoot'.found => /\ ddBoot'.extension \in {System, Restored}
                         /\ ddDevice'[ddBoot'.extension].mounted
    BY <1>1, <2>1 DEF FaultlessInv, FoundLeft
  <2> QED
    BY <1>1, <2>1, <2>2 DEF FaultlessInv, FoundLeft
<1>5. ddPnp'[Restored] \in {"header", "found"} \/ ddDevice'[Restored].mounted =>
          ~ddArgs'.signature \/ ddFaults' > 0
  BY <1>1, <1>3 DEF FoundInv, FoundLeft
<1> QED
  BY <1>2, <1>3, <1>4, <1>5 DEF FoundInv

\* A step that leaves the device as it is.
LEMMA FoundGoes ==
    ASSUME DInv, FoundInv, NEW d \in Devices, NEW pc, UNCHANGED ddDevice,
           UNCHANGED <<ddArgs, ddPassword, ddBoot>>, ddPnp[d] # "found", Goto(d, pc),
           ddFaults' \in Nat, ddFaults' >= ddFaults, pc \notin {"found", "absent"},
           pc = "header" /\ d = Restored => ~ddArgs.signature \/ ddFaults' > 0,
           ddFaults' = 0 =>
             /\ pc \notin Removing
             /\ d = System =>
                   /\ pc \in {"unlock", "release", "started"} /\ ddArgs.valid => ddBoot.found
                   /\ pc # "merging"
                   /\ pc \in {"added", "starting"} => "drive" \in ddDevice[System].dispatch
    PROVE  FoundInv'
<1>1. Device(d, ddDevice[d])
  BY DeviceKept
<1>2. FoundLeft(d, ddDevice[d], pc)
  BY DEF FoundLeft, FoundInv, PasswordInv
<1> QED
  BY <1>1, <1>2, FoundStep

\* What is known of the system drive while nothing has failed.
LEMMA SystemFacts ==
    ASSUME DevicesDiffer, DInv, FoundInv, ddFaults = 0
    PROVE  /\ \A d \in Devices : ddPnp[d] \notin Removing
           /\ ddPnp[System] # "merging"
           /\ ddPnp[System] \in {"unlock", "release", "started"} /\ ddArgs.valid => ddBoot.found
           /\ ddPnp[System] \in {"added", "starting"} => "drive" \in ddDevice[System].dispatch
           /\ ddPnp[System] = "header" => ddPassword = "typed"
           /\ ddPnp[System] = "queue" => ddBoot.found
           /\ HasHeader(System) /\ ~IsVolumeDevice(System) /\ System \in Devices
<1>1. System \in Devices /\ HasHeader(System) /\ ~IsVolumeDevice(System)
  BY DEF Devices, HasHeader, IsVolumeDevice, DevicesDiffer
<1>2. /\ ddPnp[System] = "header" => ~ddBoot.found
      /\ ddPnp[System] = "queue" => ddBoot.found
  BY <1>1, DeviceFacts DEF Searching
<1> QED
  BY <1>1, <1>2 DEF FoundInv, FaultlessInv

LEMMA FoundStart ==
    ASSUME DevicesDiffer, DInv, FoundInv, NEW d \in Devices,
           \/ DriverAddDevice(d) \/ StartDevice(d) \/ OnStartDeviceCompleted(d) \/ MergeDevice(d)
           \/ AcquireMountMutex(d) \/ CheckSignature(d)
    PROVE  FoundInv'
<1>0. ddFaults \in Nat /\ DOMAIN ddDevice[d] = DOMAIN NoDevice
  BY DEF FoundInv, DInv, Shapes
<1>1. CASE DriverAddDevice(d)
  <2> DEFINE value == IF d = Volume THEN VolumeFilterAddDevice(d) ELSE DriveFilterAddDevice(d)
  <2>1. /\ ~value.keys /\ ~value.boot /\ ~value.mounted
        /\ d # Volume => "drive" \in value.dispatch
    BY DEF VolumeFilterAddDevice, DriveFilterAddDevice, NoDevice
  <2>2. /\ Device(d, value) /\ Goto(d, "added") /\ ddPnp[d] = "absent"
        /\ UNCHANGED <<ddArgs, ddPassword, ddBoot, ddFaults>>
    BY <1>1, DeviceChanged DEF DriverAddDevice, Goto, Others
  <2> HIDE DEF value
  <2>3. ~ddDevice[d].mounted
    BY <2>2 DEF FoundInv, PasswordInv
  <2>4. FoundLeft(d, value, "added")
    BY <1>0, <2>1, <2>2, <2>3 DEF FoundLeft, Removing, DevicesDiffer
  <2> QED
    BY <2>2, <2>4, FoundStep
<1>2. CASE StartDevice(d)
  <2>1. /\ ddPnp[d] = "added" /\ Goto(d, "starting")
        /\ UNCHANGED <<ddDevice, ddArgs, ddPassword, ddBoot, ddFaults>>
    BY <1>2 DEF StartDevice, Others
  <2> QED
    BY <1>0, <2>1, FoundGoes, SystemFacts DEF Removing
<1>3. CASE OnStartDeviceCompleted(d)
  <2>0. ddPnp[d] = "starting" /\ UNCHANGED <<ddArgs, ddPassword, ddBoot, ddFaults>>
    BY <1>3 DEF OnStartDeviceCompleted, Others
  <2>1. CASE /\ "drive" \notin ddDevice[d].dispatch \/ ~ddArgs.valid
             /\ UNCHANGED ddDevice /\ Goto(d, "release")
    BY <1>0, <2>0, <2>1, FoundGoes, SystemFacts DEF Removing
  <2>2. CASE UNCHANGED ddDevice /\ Goto(d, "waiting")
    BY <1>0, <2>0, <2>2, FoundGoes DEF Removing
  <2>3. CASE Goto(d, "merging") /\ IsVolumeDevice(d)
             /\ ddDevice' = [ddDevice EXCEPT ![d].dispatch = @ \cup {"volume"}]
    <3> DEFINE value == [ddDevice[d] EXCEPT !.dispatch = @ \cup {"volume"}]
    <3>1. /\ value.keys = ddDevice[d].keys /\ value.boot = ddDevice[d].boot
          /\ value.mounted = ddDevice[d].mounted
      BY <1>0, Fields
    <3>2. Device(d, value)
      BY <2>3, DeviceChanged
    <3> HIDE DEF value
    <3>3. FoundLeft(d, value, "merging")
      BY <1>0, <2>0, <2>3, <3>1
         DEF FoundLeft, Removing, FoundInv, PasswordInv, DevicesDiffer, IsVolumeDevice
    <3> QED
      BY <2>0, <2>3, <3>2, <3>3, FoundStep
  <2> QED
    BY <1>3, <2>1, <2>2, <2>3 DEF OnStartDeviceCompleted
<1>4. CASE MergeDevice(d)
  <2> DEFINE value == [ddDevice[d] EXCEPT !.dispatch = @ \ {"drive"}]
  <2>0. /\ ddPnp[d] = "merging" /\ Goto(d, "release")
        /\ UNCHANGED <<ddArgs, ddPassword, ddBoot, ddFaults>>
    BY <1>4 DEF MergeDevice, Others
  <2>1. /\ value.keys = ddDevice[d].keys /\ value.boot = ddDevice[d].boot
        /\ value.mounted = ddDevice[d].mounted
    BY <1>0, Fields
  <2>2. Device(d, value)
    BY <1>4, DeviceChanged DEF MergeDevice
  <2> HIDE DEF value
  <2>3. FoundLeft(d, value, "release")
    BY <1>0, <2>0, <2>1, SystemFacts DEF FoundLeft, Removing, FoundInv, PasswordInv
  <2> QED
    BY <2>0, <2>2, <2>3, FoundStep
<1>5. CASE AcquireMountMutex(d)
  <2>1. /\ ddPnp[d] = "waiting" /\ UNCHANGED <<ddDevice, ddArgs, ddPassword, ddBoot, ddFaults>>
        /\ Goto(d, IF ddBoot.found THEN "unlock" ELSE "signature")
    BY <1>5 DEF AcquireMountMutex
  <2>2. CASE ddBoot.found
    BY <1>0, <2>1, <2>2, FoundGoes DEF Removing
  <2>3. CASE ~ddBoot.found
    BY <1>0, <2>1, <2>3, FoundGoes DEF Removing
  <2> QED
    BY <2>2, <2>3
<1>6. CASE CheckSignature(d)
  <2>1. ddPnp[d] = "signature" /\ UNCHANGED <<ddDevice, ddArgs, ddPassword, ddBoot>>
    BY <1>6 DEF CheckSignature
  <2>2. CASE Goto(d, "unlock") /\ UNCHANGED ddFaults /\ d # System
    BY <1>0, <2>1, <2>2, FoundGoes DEF Removing
  <2>3. CASE Goto(d, "header") /\ UNCHANGED ddFaults /\ (d = System \/ ~ddArgs.signature)
    BY <1>0, <2>1, <2>3, FoundGoes DEF Removing, DevicesDiffer
  <2>4. CASE Fault /\ Goto(d, "header")
    <3>1. ddFaults' = ddFaults + 1
      BY <2>4 DEF Fault
    <3> QED
      BY <1>0, <2>1, <2>4, <3>1, FoundGoes DEF Removing
  <2> QED
    BY <1>6, <2>2, <2>3, <2>4 DEF CheckSignature
<1> QED
  BY <1>1, <1>2, <1>3, <1>4, <1>5, <1>6

LEMMA FoundMount ==
    ASSUME DevicesDiffer, DInv, FoundInv, NEW d \in Devices,
           \/ MountDrive(d) \/ PublishDrive(d) \/ StartQueue(d) \/ ReleaseMountMutex(d)
           \/ ReleaseStart(d)
    PROVE  FoundInv'
<1>0. /\ ddFaults \in Nat /\ DOMAIN ddDevice[d] = DOMAIN NoDevice
      /\ System \in Devices /\ Restored \in Devices
  BY DEF FoundInv, DInv, Shapes, Devices
<1>1. CASE MountDrive(d)
  <2>0. /\ ddPnp[d] = "header" /\ UNCHANGED <<ddArgs, ddPassword, ddBoot>>
        /\ ~ddBoot.found /\ ddMutex = d
        /\ d = Restored => ~ddArgs.signature \/ ddFaults > 0
    BY <1>1, DeviceFacts DEF MountDrive, FoundInv, Searching
  <2>1. CASE /\ ddDevice' = [ddDevice EXCEPT ![d].keys = TRUE] /\ Goto(d, "found")
             /\ HasHeader(d) /\ ddPassword = "typed" /\ UNCHANGED ddFaults
    <3> DEFINE value == [ddDevice[d] EXCEPT !.keys = TRUE]
    <3>1. /\ value.keys /\ value.boot = ddDevice[d].boot
          /\ value.mounted = ddDevice[d].mounted
          /\ value.dispatch = ddDevice[d].dispatch
      BY <1>0, Fields
    <3>2. Device(d, value)
      BY <2>1, DeviceChanged
    <3> HIDE DEF value
    <3>3. /\ ddDevice'[d] = value /\ ddPnp'[d] = "found"
          /\ \A e \in Devices : e # d => ddDevice'[e] = ddDevice[e] /\ ddPnp'[e] = ddPnp[e]
      BY <2>1, <3>2 DEF DInv, Shapes, Device, Goto
    <3>4. \A e \in Devices : /\ ~ddDevice[e].boot /\ ~ddDevice[e].mounted
                             /\ e # d => ~ddDevice[e].keys
      <4> TAKE e \in Devices
      <4>1. ddPnp[e] = "found" => ddMutex = e
        BY DeviceFacts DEF Searching
      <4> QED
        BY <2>0, <2>1, <4>1 DEF FoundInv, PasswordInv
    <3>5. PasswordInv'
      <4> SUFFICES ASSUME NEW e \in Devices
                   PROVE  /\ ~ddDevice'[e].boot /\ ~ddDevice'[e].mounted
                          /\ ddDevice'[e].keys <=> e = d
                          /\ ddPnp'[e] = "found" => ddDevice'[e].keys
        BY <2>0, <2>1, <3>3 DEF PasswordInv, HasHeader
      <4>1. ddPnp[e] = "found" => ddDevice[e].keys
        BY DEF FoundInv, PasswordInv
      <4> QED
        BY <3>1, <3>3, <3>4, <4>1
    <3>6. ddFaults' = 0 => FaultlessInv'
      BY <1>0, <2>0, <2>1, <3>1, <3>3 DEF FoundInv, FaultlessInv, Removing
    <3>7. ddPnp'[Restored] \in {"header", "found"} \/ ddDevice'[Restored].mounted =>
              ~ddArgs'.signature \/ ddFaults' > 0
      <4>1. CASE d = Restored
        BY <2>0, <2>1, <4>1
      <4>2. CASE d # Restored
        BY <1>0, <2>0, <2>1, <3>3, <4>2 DEF FoundInv
      <4> QED
        BY <4>1, <4>2
    <3> QED
      BY <2>0, <2>1, <3>5, <3>6, <3>7 DEF FoundInv
  <2>2. CASE ~(HasHeader(d) /\ ddPassword = "typed") /\ UNCHANGED <<ddFaults, ddDevice>>
             /\ Goto(d, "unlock")
    BY <1>0, <2>0, <2>2, FoundGoes, SystemFacts DEF Removing
  <2>3. CASE Fault /\ UNCHANGED ddDevice /\ Goto(d, "unlock")
    <3>1. ddFaults' = ddFaults + 1
      BY <2>3 DEF Fault
    <3> QED
      BY <1>0, <2>0, <2>3, <3>1, FoundGoes DEF Removing
  <2> QED
    BY <1>1, <2>1, <2>2, <2>3 DEF MountDrive, Unmounted
<1>2. CASE PublishDrive(d)
  <2> DEFINE value == [ddDevice[d] EXCEPT !.boot = TRUE, !.mounted = TRUE]
  <2>0. /\ ddPnp[d] = "found" /\ UNCHANGED <<ddArgs, ddFaults>> /\ Goto(d, "queue")
        /\ ddBoot' = [found |-> TRUE, extension |-> d] /\ ddPassword' = "burnt"
        /\ ddMutex = d /\ ddDevice[d].keys /\ HasHeader(d) /\ ddPassword = "typed"
        /\ d = Restored => ~ddArgs.signature \/ ddFaults > 0
    BY <1>2, DeviceFacts DEF PublishDrive, FoundInv, PasswordInv, Searching
  <2>1. /\ value.keys = ddDevice[d].keys /\ value.mounted
        /\ value.dispatch = ddDevice[d].dispatch
    BY <1>0, Fields
  <2>2. Device(d, value)
    <3>1. ddDevice' = [ddDevice EXCEPT ![d] = value]
      BY <1>2 DEF PublishDrive, DInv, Shapes
    <3> HIDE DEF value
    <3> QED
      BY <3>1, DeviceChanged
  <2> HIDE DEF value
  <2>3. /\ ddDevice'[d] = value /\ ddPnp'[d] = "queue"
        /\ \A e \in Devices : e # d => ddDevice'[e] = ddDevice[e] /\ ddPnp'[e] = ddPnp[e]
    BY <2>0, <2>2 DEF DInv, Shapes, Device, Goto
  <2>4. \A e \in Devices : ddDevice'[e].keys <=> ddDevice[e].keys
    BY <2>1, <2>3
  <2>5. PasswordInv'
    <3> SUFFICES ASSUME NEW e \in Devices
                 PROVE  /\ ddPnp'[e] # "found"
                        /\ ddDevice'[e].mounted => ddDevice'[e].keys /\ ddPnp'[e] # "absent"
                        /\ ddDevice'[e].keys => HasHeader(e)
                        /\ \A f \in Devices : ddDevice'[e].keys /\ ddDevice'[f].keys => e = f
      BY <2>0 DEF PasswordInv, HasHeader
    <3>1. ddPnp[e] = "found" => e = d
      BY <2>0, DeviceFacts DEF Searching
    <3>2. ddPnp'[e] # "found"
      BY <2>3, <3>1
    <3>3. ddDevice'[e].mounted => ddDevice'[e].keys /\ ddPnp'[e] # "absent"
      BY <2>0, <2>1, <2>3 DEF FoundInv, PasswordInv
    <3> QED
      BY <2>4, <3>2, <3>3 DEF FoundInv, PasswordInv
  <2>6. ddFaults' = 0 => FaultlessInv'
    <3>1. d \in {System, Restored}
      BY <2>0 DEF HasHeader
    <3> QED
      BY <1>0, <2>0, <2>1, <2>3, <3>1 DEF FoundInv, FaultlessInv, Removing
  <2>7. ddPnp'[Restored] \in {"header", "found"} \/ ddDevice'[Restored].mounted =>
            ~ddArgs'.signature \/ ddFaults' > 0
    <3>1. CASE d = Restored
      BY <2>0, <3>1
    <3>2. CASE d # Restored
      BY <1>0, <2>0, <2>3, <3>2 DEF FoundInv
    <3> QED
      BY <3>1, <3>2
  <2>8. ddBoot' = [found |-> ddBoot'.found, extension |-> ddBoot'.extension]
        /\ ddBoot'.found \in BOOLEAN
    BY <2>0
  <2> QED
    BY <1>0, <2>0, <2>5, <2>6, <2>7, <2>8 DEF FoundInv
<1>3. CASE StartQueue(d)
  <2> DEFINE value == [ddDevice[d] EXCEPT !.queue = TRUE]
  <2>0. /\ ddPnp[d] = "queue" /\ Goto(d, "unlock") /\ ddBoot.found
        /\ UNCHANGED <<ddArgs, ddPassword, ddBoot, ddFaults>>
    BY <1>3, DeviceFacts DEF StartQueue, Others
  <2>1. /\ value.keys = ddDevice[d].keys /\ value.boot = ddDevice[d].boot
        /\ value.mounted = ddDevice[d].mounted
    BY <1>0, Fields
  <2>2. Device(d, value)
    BY <1>3, DeviceChanged DEF StartQueue
  <2> HIDE DEF value
  <2>3. FoundLeft(d, value, "unlock")
    BY <1>0, <2>0, <2>1 DEF FoundLeft, Removing, FoundInv, PasswordInv
  <2> QED
    BY <2>0, <2>2, <2>3, FoundStep
<1>4. CASE ReleaseMountMutex(d)
  <2>1. /\ ddPnp[d] = "unlock" /\ Goto(d, "release")
        /\ UNCHANGED <<ddDevice, ddArgs, ddPassword, ddBoot, ddFaults>>
    BY <1>4 DEF ReleaseMountMutex
  <2> QED
    BY <1>0, <2>1, FoundGoes, SystemFacts DEF Removing
<1>5. CASE ReleaseStart(d)
  <2>1. /\ ddPnp[d] = "release" /\ Goto(d, "started")
        /\ UNCHANGED <<ddDevice, ddArgs, ddPassword, ddBoot, ddFaults>>
    BY <1>5 DEF ReleaseStart, Others
  <2> QED
    BY <1>0, <2>1, FoundGoes, SystemFacts DEF Removing
<1> QED
  BY <1>1, <1>2, <1>3, <1>4, <1>5

LEMMA FoundRemove ==
    ASSUME DevicesDiffer, DInv, FoundInv, NEW d \in Devices,
           \/ RemoveDevice(d) \/ ReleaseRemoveLockAndWait(d) \/ DismountDrive(d) \/ ForgetDrive(d)
           \/ DeleteDevice(d)
    PROVE  FoundInv'
<1>0. ddFaults \in Nat /\ DOMAIN ddDevice[d] = DOMAIN NoDevice
  BY DEF FoundInv, DInv, Shapes
<1>1. CASE RemoveDevice(d)
  <2>1. /\ ddPnp[d] \in {"added", "started"} /\ Goto(d, "drain") /\ ddFaults' = ddFaults + 1
        /\ UNCHANGED <<ddDevice, ddArgs, ddPassword, ddBoot>>
    BY <1>1 DEF RemoveDevice
  <2> QED
    BY <1>0, <2>1, FoundGoes
\* Whatever follows, something has been removed.
<1>2. ddPnp[d] \in Removing => ddFaults > 0
  BY <1>0 DEF FoundInv, FaultlessInv
<1>3. ASSUME NEW value, NEW pc, ddPnp[d] \in Removing, Device(d, value), Goto(d, pc),
             UNCHANGED <<ddArgs, ddPassword, ddBoot, ddFaults>>,
             value.keys => ddDevice[d].keys, value.boot => ddDevice[d].boot,
             value.mounted => ddDevice[d].mounted /\ value.keys, pc \notin {"found", "header"},
             value.mounted => pc # "absent"
      PROVE  FoundInv'
  <2>1. FoundLeft(d, value, pc)
    BY <1>0, <1>2, <1>3 DEF FoundLeft
  <2> QED
    BY <1>3, <2>1, FoundStep DEF Removing
<1>4. CASE ReleaseRemoveLockAndWait(d)
  <2> DEFINE value == [ddDevice[d] EXCEPT !.attached = FALSE]
             pc == IF ddDevice[d].mounted THEN "stop" ELSE "forget"
  <2>0. /\ ddPnp[d] = "drain" /\ Goto(d, pc)
        /\ UNCHANGED <<ddArgs, ddPassword, ddBoot, ddFaults>>
    BY <1>4 DEF ReleaseRemoveLockAndWait, Others
  <2>1. /\ value.keys = ddDevice[d].keys /\ value.boot = ddDevice[d].boot
        /\ value.mounted = ddDevice[d].mounted /\ pc \in {"stop", "forget"}
    BY <1>0, Fields
  <2>2. Device(d, value)
    BY <1>4, DeviceChanged DEF ReleaseRemoveLockAndWait
  <2>3. ddDevice[d].mounted => ddDevice[d].keys
    BY DEF FoundInv, PasswordInv
  <2> HIDE DEF value, pc
  <2> QED
    BY <1>3, <2>0, <2>1, <2>2, <2>3 DEF Removing
<1>5. CASE DismountDrive(d)
  <2>0. /\ ddPnp[d] \in {"stop", "close"}
        /\ UNCHANGED <<ddArgs, ddPassword, ddBoot, ddFaults>>
        /\ ddDevice[d].mounted => ddDevice[d].keys
    BY <1>5 DEF DismountDrive, Others, FoundInv, PasswordInv
  <2>1. CASE Goto(d, "close") /\ ddDevice' = [ddDevice EXCEPT ![d].queue = FALSE]
    <3> DEFINE value == [ddDevice[d] EXCEPT !.queue = FALSE]
    <3>1. /\ value.keys = ddDevice[d].keys /\ value.boot = ddDevice[d].boot
          /\ value.mounted = ddDevice[d].mounted
      BY <1>0, Fields
    <3>2. Device(d, value)
      BY <2>1, DeviceChanged
    <3> HIDE DEF value
    <3> QED
      BY <1>3, <2>0, <2>1, <3>1, <3>2 DEF Removing
  <2>2. CASE /\ Goto(d, "forget")
             /\ ddDevice' = [ddDevice EXCEPT ![d].keys = FALSE, ![d].mounted = FALSE]
    <3> DEFINE value == [ddDevice[d] EXCEPT !.keys = FALSE, !.mounted = FALSE]
    <3>1. ~value.keys /\ ~value.mounted /\ value.boot = ddDevice[d].boot
      BY <1>0, Fields
    <3>2. Device(d, value)
      <4>1. ddDevice' = [ddDevice EXCEPT ![d] = value]
        BY <2>2 DEF DInv, Shapes
      <4> HIDE DEF value
      <4> QED
        BY <4>1, DeviceChanged
    <3> HIDE DEF value
    <3> QED
      BY <1>3, <2>0, <2>2, <3>1, <3>2 DEF Removing
  <2> QED
    BY <1>5, <2>1, <2>2 DEF DismountDrive
<1>6. CASE ForgetDrive(d)
  <2>0. /\ ddPnp[d] = "forget" /\ Goto(d, "delete") /\ ddFaults > 0
        /\ UNCHANGED <<ddDevice, ddArgs, ddPassword, ddFaults>>
        /\ ddBoot' = IF ddDevice[d].boot THEN [found |-> FALSE, extension |-> None] ELSE ddBoot
    BY <1>2, <1>6 DEF ForgetDrive, Removing
  <2>1. /\ ddPnp'[d] = "delete" /\ Restored \in Devices
        /\ \A e \in Devices : e # d => ddPnp'[e] = ddPnp[e]
    BY <2>0 DEF Goto, DInv, Shapes, Devices
  <2>2. PasswordInv'
    BY <2>0, <2>1 DEF FoundInv, PasswordInv, HasHeader
  <2>3. ddPnp'[Restored] \in {"header", "found"} \/ ddDevice'[Restored].mounted =>
            ~ddArgs'.signature \/ ddFaults' > 0
    BY <2>0
  <2>4. ddBoot' = [found |-> ddBoot'.found, extension |-> ddBoot'.extension]
        /\ ddBoot'.found \in BOOLEAN
    BY <2>0 DEF FoundInv
  <2>5. ddFaults' \in Nat /\ ddFaults' # 0
    BY <1>0, <2>0
  <2> QED
    BY ONLY <2>2, <2>3, <2>4, <2>5 DEF FoundInv
<1>7. CASE DeleteDevice(d)
  <2>1. /\ Device(d, NoDevice) /\ Goto(d, "absent") /\ ddPnp[d] = "delete"
        /\ UNCHANGED <<ddArgs, ddPassword, ddBoot, ddFaults>>
    BY <1>7, DeviceChanged DEF DeleteDevice, Others
  <2>2. ~NoDevice.keys /\ ~NoDevice.boot /\ ~NoDevice.mounted
    BY DEF NoDevice
  <2> QED
    BY <1>3, <2>1, <2>2 DEF Removing
<1> QED
  BY <1>1, <1>4, <1>5, <1>6, <1>7

LEMMA FoundNext == ASSUME DevicesDiffer, DInv, FoundInv, [Next]_ddVars PROVE FoundInv'
<1>1. ASSUME UNCHANGED <<ddArgs, ddPassword, ddDevice, ddPnp, ddBoot, ddFaults>> PROVE FoundInv'
  BY <1>1 DEF FoundInv, PasswordInv, FaultlessInv, HasHeader
<1>2. CASE UNCHANGED ddVars
  BY <1>1, <1>2 DEF ddVars
<1>3. ASSUME NEW d \in Devices, DriverAddDevice(d) \/ DispatchPnp(d) PROVE FoundInv'
  BY <1>3, FoundStart, FoundMount, FoundRemove DEF DispatchPnp
<1>4. ASSUME NEW d \in Devices,
             PassIrp(d) \/ Returned(d) \/ DriveFilterDispatchIrp(d) \/ ReadCompleted(d)
      PROVE  FoundInv'
  BY <1>1, <1>4 DEF PassIrp, Returned, DriveFilterDispatchIrp, ReadCompleted, Others
<1> QED
  BY <1>2, <1>3, <1>4 DEF Next

(* Of drives that start at the same time at most one is taken for the system drive, and it is
   the one that the driver's requests go to. It is another than the one that was started only
   if the boot loader told no signature or something failed; and if nothing fails, there is one
   when the start of the system drive ends (CheckDeviceTypeAndMount, MountDrive, DispatchPnp). *)
THEOREM OneSystemDrive == ASSUME DevicesDiffer PROVE Spec => []SystemDriveFound
<1>1. ASSUME DInv, FoundInv PROVE SystemDriveFound
  <2>1. \A d, e \in Devices : ddDevice[d].keys /\ ddDevice[e].keys => d = e
    BY <1>1 DEF FoundInv, PasswordInv
  <2>2. ASSUME NEW d \in Devices, ddDevice[d].boot, ddPnp[d] # "delete"
        PROVE  ddBoot = [found |-> TRUE, extension |-> d]
    BY <1>1, <2>2, DeviceFacts DEF FoundInv
  <2>3. ddDevice[Restored].mounted => ~ddArgs.signature \/ ddFaults > 0
    BY <1>1 DEF FoundInv
  <2>4. ddPnp[System] = "started" /\ ddArgs.valid /\ ddFaults = 0 =>
            ddDevice[System].mounted \/ ddDevice[Restored].mounted
    BY <1>1 DEF FoundInv, FaultlessInv
  <2> QED
    BY <2>1, <2>2, <2>3, <2>4 DEF SystemDriveFound
<1>2. Init => DInv /\ FoundInv
  BY DevicesInit, FoundInit
<1>3. DInv /\ FoundInv /\ [Next]_ddVars => (DInv /\ FoundInv)'
  BY DevicesStep, FoundNext DEF DevicesDiffer
<1> QED
  BY <1>1, <1>2, <1>3, PTL DEF Spec
===============================================================================
