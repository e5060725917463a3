----------------------------- MODULE DriveDevices -----------------------------
(* Filter devices of the driver in the stacks of drives and volumes (Driver/DriveFilter.c,
   Driver/VolumeFilter.c): they are added, started and removed by the plug-and-play manager,
   several at a time, and the system drive is found among them by the header that the boot
   loader opened and mounted. *)
EXTENDS Integers, FiniteSets

CONSTANTS
    System,        \* the drive that the boot loader started
    Restored,      \* a drive to which the header of the system drive was restored
    Merged,        \* a removable drive whose device is merged with that of its volume
    Volume,        \* a device with the interface of a volume
    None,
    MaxHolders,    \* bounds the requests that hold a device's remove lock
    MaxFaults      \* bounds failed reads of a drive and failed starts

VARIABLES
    ddArgs,        \* what of BootArgs does not change, VolumeClassFilterRegistered
    ddPassword,    \* BootArgs.BootPassword
    ddDevice,      \* the filter devices and their extensions
    ddPnp,         \* per device, the plug-and-play request being processed
    ddLock,        \* Queue.RemoveLock: the requests that hold it
    ddBoot,        \* BootDriveFound, BootDriveFilterExtension
    ddMutex,       \* who holds MountMutex
    ddFaults

ddVars == <<ddArgs, ddPassword, ddDevice, ddPnp, ddLock, ddBoot, ddMutex, ddFaults>>

Devices == {System, Restored, Merged, Volume}
Drives == Devices \ {Volume}

NoDevice == [attached |-> FALSE, dispatch |-> {}, boot |-> FALSE, mounted |-> FALSE,
             keys |-> FALSE, queue |-> FALSE]
Unlocked == [removing |-> FALSE, passing |-> 0, reading |-> 0, pnp |-> 0]

\* A loader since 7.1 (BootDriveSignatureValid) tells the signature of its drive.
Init ==
    /\ ddArgs \in [valid : BOOLEAN, hidden : BOOLEAN, signature : BOOLEAN, filters : BOOLEAN]
    /\ ~ddArgs.valid => ~ddArgs.hidden /\ ~ddArgs.signature
    /\ ddPassword = "typed"
    /\ ddDevice = [d \in Devices |-> NoDevice] /\ ddPnp = [d \in Devices |-> "absent"]
    /\ ddLock = [d \in Devices |-> Unlocked]
    /\ ddBoot = [found |-> FALSE, extension |-> None]
    /\ ddMutex = None /\ ddFaults = 0

Holders(d) == ddLock[d].passing + ddLock[d].reading + ddLock[d].pnp
Others == <<ddArgs, ddPassword, ddBoot, ddMutex, ddFaults>>

-----------------------------------------------------------------------------
(* AddDevice. A volume is told from a drive only where a hidden system may run. *)
VolumeFiltered == ddArgs.filters /\ ddArgs.valid /\ ddArgs.hidden

DriveFilterAddDevice(d) == [NoDevice EXCEPT !.attached = TRUE, !.dispatch = {"drive"}]
VolumeFilterAddDevice(d) == [NoDevice EXCEPT !.attached = TRUE, !.dispatch = {"volume"}]

DriverAddDevice(d) ==
    /\ ddPnp[d] = "absent" /\ (d = Volume => VolumeFiltered)
    /\ ddDevice' = [ddDevice EXCEPT ![d] = IF d = Volume THEN VolumeFilterAddDevice(d)
                                           ELSE DriveFilterAddDevice(d)]
    /\ ddPnp' = [ddPnp EXCEPT ![d] = "added"]
    /\ ddLock' = [ddLock EXCEPT ![d] = Unlocked]
    /\ UNCHANGED Others

-----------------------------------------------------------------------------
(* IRP_MN_START_DEVICE. *)
Goto(d, pc) == ddPnp' = [ddPnp EXCEPT ![d] = pc]
AcquireForPnp(d) == ~ddLock[d].removing /\ ddLock' = [ddLock EXCEPT ![d].pnp = 1]

StartDevice(d) ==
    /\ ddPnp[d] = "added" /\ ddDevice[d].dispatch # {}
    /\ AcquireForPnp(d) /\ Goto(d, "starting")
    /\ UNCHANGED <<ddDevice, Others>>

\* The lower drivers have started the device; a volume filter has nothing else to do.
\* Whether a drive's device supports volume requests tells a merged one.
IsVolumeDevice(d) == d = Merged

FaultyOnStartDeviceCompleted(d) ==
    /\ ddPnp[d] = "starting"
    /\ IF "drive" \notin ddDevice[d].dispatch \/ ~ddArgs.valid
       THEN Goto(d, "release") /\ UNCHANGED ddDevice
       ELSE IF VolumeFiltered /\ IsVolumeDevice(d)
            THEN /\ Goto(d, "merging")
                 /\ ddDevice' = [ddDevice EXCEPT ![d].dispatch = {}]
            ELSE Goto(d, "waiting") /\ UNCHANGED ddDevice
    /\ UNCHANGED <<ddLock, Others>>
OnStartDeviceCompleted(d) ==
    /\ ddPnp[d] = "starting"
    /\ IF "drive" \notin ddDevice[d].dispatch \/ ~ddArgs.valid
       THEN Goto(d, "release") /\ UNCHANGED ddDevice
       ELSE IF VolumeFiltered /\ IsVolumeDevice(d)
            THEN /\ Goto(d, "merging")
                 /\ ddDevice' = [ddDevice EXCEPT ![d].dispatch = @ \cup {"volume"}]
            ELSE Goto(d, "waiting") /\ UNCHANGED ddDevice
    /\ UNCHANGED <<ddLock, Others>>

\* Both kinds of dispatch are on for a moment, never neither.
MergeDevice(d) ==
    /\ ddPnp[d] = "merging"
    /\ ddDevice' = [ddDevice EXCEPT ![d].dispatch = @ \ {"drive"}]
    /\ Goto(d, "release") /\ UNCHANGED <<ddLock, Others>>

\* BootDriveFound is read under the mutex, and set before the mutex is released.
FaultyAcquireMountMutex(d) ==
    /\ ddPnp[d] = "waiting"
    /\ Goto(d, IF ddBoot.found THEN "release" ELSE "signature")
    /\ UNCHANGED <<ddArgs, ddPassword, ddDevice, ddLock, ddBoot, ddMutex, ddFaults>>
AcquireMountMutex(d) ==
    /\ ddPnp[d] = "waiting" /\ ddMutex = None /\ ddMutex' = d
    /\ Goto(d, IF ddBoot.found THEN "unlock" ELSE "signature")
    /\ UNCHANGED <<ddArgs, ddPassword, ddDevice, ddLock, ddBoot, ddFaults>>

-----------------------------------------------------------------------------
(* MountDrive. The system drive and one its header was restored to have the header that
   the loader opened; only the first has the signature it told. *)
HasHeader(d) == d \in {System, Restored}
Fault == ddFaults < MaxFaults /\ ddFaults' = ddFaults + 1
Unmounted(d) == Goto(d, "unlock") /\ UNCHANGED ddDevice

\* A master boot record that cannot be read is taken for the right one.
FaultyCheckSignature(d) ==
    /\ ddPnp[d] = "signature"
    /\ Goto(d, "header")
    /\ UNCHANGED <<ddArgs, ddPassword, ddDevice, ddLock, ddBoot, ddMutex, ddFaults>>
CheckSignature(d) ==
    /\ ddPnp[d] = "signature"
    /\ \/ /\ Goto(d, IF ddArgs.signature /\ d # System THEN "unlock" ELSE "header")
          /\ UNCHANGED ddFaults
       \/ ddArgs.signature /\ Fault /\ Goto(d, "header")
    /\ UNCHANGED <<ddArgs, ddPassword, ddDevice, ddLock, ddBoot, ddMutex>>

\* The header is read, compared with the salt that the loader told and decrypted.
MountDrive(d) ==
    /\ ddPnp[d] = "header"
    /\ \/ /\ HasHeader(d) /\ ddPassword = "typed" /\ UNCHANGED ddFaults
          /\ ddDevice' = [ddDevice EXCEPT ![d].keys = TRUE]
          /\ Goto(d, "found")
       \/ ~(HasHeader(d) /\ ddPassword = "typed") /\ Unmounted(d) /\ UNCHANGED ddFaults
       \/ Fault /\ Unmounted(d)
    /\ UNCHANGED <<ddArgs, ddPassword, ddLock, ddBoot, ddMutex>>

\* The extension is published, the password burnt, ...
PublishDrive(d) ==
    /\ ddPnp[d] = "found"
    /\ ddBoot' = [found |-> TRUE, extension |-> d]
    /\ ddDevice' = [ddDevice EXCEPT ![d].boot = TRUE, ![d].mounted = TRUE]
    /\ ddPassword' = "burnt"
    /\ Goto(d, "queue")
    /\ UNCHANGED <<ddArgs, ddLock, ddMutex, ddFaults>>

\* ... and the queue started. (Without the thread of the queue the system is stopped.)
StartQueue(d) ==
    /\ ddPnp[d] = "queue"
    /\ ddDevice' = [ddDevice EXCEPT ![d].queue = TRUE]
    /\ Goto(d, "unlock")
    /\ UNCHANGED <<ddLock, Others>>

ReleaseMountMutex(d) ==
    /\ ddPnp[d] = "unlock" /\ ddMutex' = None
    /\ Goto(d, "release")
    /\ UNCHANGED <<ddArgs, ddPassword, ddDevice, ddLock, ddBoot, ddFaults>>

ReleaseStart(d) ==
    /\ ddPnp[d] = "release"
    /\ ddLock' = [ddLock EXCEPT ![d].pnp = 0]
    /\ Goto(d, "started")
    /\ UNCHANGED <<ddDevice, Others>>

-----------------------------------------------------------------------------
(* Requests to a device. Reads and writes of the system drive go to the queue and keep the
   remove lock until they complete; others keep it while they are passed down, and a device
   that is being removed refuses both. *)
Passed(d) == ddPnp[d] \in {"added", "starting", "merging", "waiting", "release", "started", "drain"}
Room(d) == Holders(d) < MaxHolders

PassIrp(d) ==
    /\ Passed(d) /\ Room(d) /\ ddDevice[d].dispatch # {} /\ ~ddLock[d].removing
    /\ ddLock' = [ddLock EXCEPT ![d].passing = @ + 1]
    /\ UNCHANGED <<ddDevice, ddPnp, Others>>

Returned(d) ==
    /\ ddLock[d].passing > 0
    /\ ddLock' = [ddLock EXCEPT ![d].passing = @ - 1]
    /\ UNCHANGED <<ddDevice, ddPnp, Others>>

\* A drive is read from above once it has started.
DriveFilterDispatchIrp(d) ==
    /\ ddPnp[d] \in {"started", "drain"} /\ Room(d)
    /\ "drive" \in ddDevice[d].dispatch /\ ddDevice[d].boot
    /\ ddDevice[d].queue /\ ~ddLock[d].removing
    /\ ddLock' = [ddLock EXCEPT ![d].reading = @ + 1]
    /\ UNCHANGED <<ddDevice, ddPnp, Others>>

ReadCompleted(d) ==
    /\ ddLock[d].reading > 0
    /\ ddLock' = [ddLock EXCEPT ![d].reading = @ - 1]
    /\ UNCHANGED <<ddDevice, ddPnp, Others>>

-----------------------------------------------------------------------------
(* IRP_MN_REMOVE_DEVICE, of a device that has started or whose start failed above. *)
RemoveDevice(d) ==
    /\ ddPnp[d] \in {"added", "started"} /\ ddDevice[d].dispatch # {}
    /\ ddFaults < MaxFaults /\ ddFaults' = ddFaults + 1
    /\ ddLock' = [ddLock EXCEPT ![d].removing = TRUE]
    /\ Goto(d, "drain")
    /\ UNCHANGED <<ddArgs, ddPassword, ddDevice, ddBoot, ddMutex>>

FaultyReleaseRemoveLockAndWait(d) ==
    /\ ddPnp[d] = "drain"
    /\ Goto(d, IF ddDevice[d].mounted THEN "stop" ELSE "forget")
    /\ ddDevice' = [ddDevice EXCEPT ![d].attached = FALSE]
    /\ UNCHANGED <<ddLock, Others>>
ReleaseRemoveLockAndWait(d) ==
    /\ ddPnp[d] = "drain" /\ Holders(d) = 0
    /\ Goto(d, IF ddDevice[d].mounted THEN "stop" ELSE "forget")
    /\ ddDevice' = [ddDevice EXCEPT ![d].attached = FALSE]
    /\ UNCHANGED <<ddLock, Others>>

DismountDrive(d) ==
    \/ /\ ddPnp[d] = "stop" /\ Goto(d, "close")
       /\ ddDevice' = [ddDevice EXCEPT ![d].queue = FALSE]
       /\ UNCHANGED <<ddLock, Others>>
    \/ /\ ddPnp[d] = "close" /\ Goto(d, "forget")
       /\ ddDevice' = [ddDevice EXCEPT ![d].keys = FALSE, ![d].mounted = FALSE]
       /\ UNCHANGED <<ddLock, Others>>

ForgetDrive(d) ==
    /\ ddPnp[d] = "forget" /\ Goto(d, "delete")
    /\ ddBoot' = IF ddDevice[d].boot THEN [found |-> FALSE, extension |-> None] ELSE ddBoot
    /\ UNCHANGED <<ddArgs, ddPassword, ddDevice, ddLock, ddMutex, ddFaults>>

DeleteDevice(d) ==
    /\ ddPnp[d] = "delete" /\ Goto(d, "absent")
    /\ ddDevice' = [ddDevice EXCEPT ![d] = NoDevice]
    /\ ddLock' = [ddLock EXCEPT ![d] = Unlocked]
    /\ UNCHANGED Others

DispatchPnp(d) ==
    \/ StartDevice(d) \/ OnStartDeviceCompleted(d) \/ MergeDevice(d) \/ AcquireMountMutex(d)
    \/ CheckSignature(d) \/ MountDrive(d) \/ PublishDrive(d) \/ StartQueue(d)
    \/ ReleaseMountMutex(d) \/ ReleaseStart(d)
    \/ RemoveDevice(d) \/ ReleaseRemoveLockAndWait(d) \/ DismountDrive(d) \/ ForgetDrive(d)
    \/ DeleteDevice(d)

Next ==
    \E d \in Devices :
        \/ DriverAddDevice(d) \/ DispatchPnp(d) \/ PassIrp(d) \/ Returned(d)
        \/ DriveFilterDispatchIrp(d) \/ ReadCompleted(d)

Spec == Init /\ [][Next]_ddVars

-----------------------------------------------------------------------------
TypeOK ==
    /\ ddArgs \in [valid : BOOLEAN, hidden : BOOLEAN, signature : BOOLEAN, filters : BOOLEAN]
    /\ ddPassword \in {"typed", "burnt"}
    /\ ddDevice \in [Devices -> [attached : BOOLEAN, dispatch : SUBSET {"drive", "volume"},
                                 boot : BOOLEAN, mounted : BOOLEAN, keys : BOOLEAN,
                                 queue : BOOLEAN]]
    /\ ddPnp \in [Devices -> {"absent", "added", "starting", "merging", "waiting", "signature",
                              "header", "found", "queue", "unlock", "release", "started",
                              "drain", "stop", "close", "forget", "delete"}]
    /\ ddLock \in [Devices -> [removing : BOOLEAN, passing : 0..MaxHolders,
                               reading : 0..MaxHolders, pnp : {0, 1}]]
    /\ ddBoot \in [found : BOOLEAN, extension : Devices \cup {None}]
    /\ ddMutex \in Devices \cup {None} /\ ddFaults \in 0..MaxFaults

(* A device is not taken out of its stack under a request, nor its keys and its queue from
   a read of the system drive; and a request always finds a handler, also while the device
   turns out to be that of a volume (DispatchPnp, DismountDrive, CheckDeviceTypeAndMount). *)
RequestsHandled ==
    \A d \in Devices :
        /\ ddLock[d].passing > 0 => ddDevice[d].attached
        /\ ddLock[d].reading > 0 =>
              ddDevice[d].keys /\ ddDevice[d].queue /\ ddBoot.extension = d
        /\ ddPnp[d] # "absent" => ddDevice[d].dispatch # {}

(* Drives that start at the same time: at most one of them is taken for the system drive,
   it is the one that the driver's requests go to, and only a loader that tells no signature,
   or a drive that could not be read, makes it another than the one that was started
   (CheckDeviceTypeAndMount, MountDrive, DispatchPnp). *)
SystemDriveFound ==
    /\ \A d, e \in Devices : ddDevice[d].keys /\ ddDevice[e].keys => d = e
    /\ \A d \in Devices : ddDevice[d].boot => ddBoot = [found |-> TRUE, extension |-> d]
                                            \/ ddPnp[d] = "delete"
    /\ ddDevice[Restored].mounted => ~ddArgs.signature \/ ddFaults > 0
    /\ ddPnp[System] = "started" /\ ddArgs.valid /\ ddFaults = 0 =>
          ddDevice[System].mounted \/ ddDevice[Restored].mounted
===============================================================================
