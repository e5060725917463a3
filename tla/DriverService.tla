--------------------------- MODULE DriverService ---------------------------
(* How instances of the application come by the driver when it is not installed, and let go of it
   (Common/Dlgcode.c): the first one creates a service for it, starts it and marks the service for
   deletion; the last one stops it. Instances of different versions may run side by side.

   The service manager and the I/O manager are external: a driver that is told to stop while it
   has open handles goes on for their owners, but cannot be opened any more, and ends with the
   last one. *)
EXTENDS Naturals, FiniteSets

CONSTANTS
    Instances, \* processes of the application
    Versions,  \* the versions of the application, and of the driver that comes with it
    MaxStarts  \* how often processes are started

VARIABLES
    dsDriver,   \* [state, version, portable, noUnload]: the driver in the system
    dsService,  \* its service: "none", "installed" or "marked" for deletion
    dsMounted,  \* whether a volume is mounted
    dsMutex,    \* the instances that hold the mutex of the driver's setup
    dsInstance, \* [pc, version, handle, portable, retries] of each instance
    dsConfig,   \* whether the configuration says that the system is encrypted
    dsStarts

dsVars == <<dsDriver, dsService, dsMounted, dsMutex, dsInstance, dsConfig, dsStarts>>

Stopped == [state |-> "stopped", version |-> 0, portable |-> FALSE, noUnload |-> FALSE]
Ended == [pc |-> "ended", version |-> 0, handle |-> FALSE, portable |-> FALSE, retries |-> 0]
Holders == {i \in Instances : dsInstance[i].handle}

\* The driver is installed and runs, or is not in the system at all.
Init ==
    /\ dsService \in {"none", "installed"} /\ dsConfig \in BOOLEAN
    /\ IF dsService = "none" THEN dsDriver = Stopped
       ELSE \E v \in Versions : dsDriver = [Stopped EXCEPT !.state = "running", !.version = v]
    /\ dsMounted = FALSE /\ dsMutex = {} /\ dsStarts = 0
    /\ dsInstance = [i \in Instances |-> Ended]

At(i, pc) == dsInstance[i].pc = pc
Become(i, value) == dsInstance' = [dsInstance EXCEPT ![i] = value]
Goto(i, pc) == Become(i, [dsInstance[i] EXCEPT !.pc = pc])
Release(i) == dsMutex' = dsMutex \ {i}

\* The driver and its service once the last handle is closed.
Close(i) ==
    /\ dsDriver' = IF dsDriver.state = "stopping" /\ Holders \subseteq {i} /\ ~dsMounted THEN Stopped ELSE dsDriver
    /\ dsService' = IF dsDriver'.state = "stopped" /\ dsService = "marked" THEN "none" ELSE dsService

\* The process ends; what it still holds is closed.
End(i) == Become(i, Ended) /\ Release(i) /\ Close(i)

Start(i) ==
    /\ At(i, "ended") /\ dsStarts < MaxStarts /\ dsStarts' = dsStarts + 1
    /\ \E v \in Versions : Become(i, [Ended EXCEPT !.pc = "open", !.version = v])
    /\ UNCHANGED <<dsDriver, dsService, dsMounted, dsMutex, dsConfig>>

-----------------------------------------------------------------------------
(* DriverAttach *)

\* The first attempt to open the driver, repeated after waiting for another instance.
OpenDriver(i) ==
    /\ At(i, "open")
    /\ IF dsDriver.state = "running"
       THEN Become(i, [dsInstance[i] EXCEPT !.pc = "version", !.handle = TRUE]) /\ Release(i)
       ELSE Goto(i, "mutex") /\ UNCHANGED dsMutex
    /\ UNCHANGED <<dsDriver, dsService, dsMounted, dsConfig, dsStarts>>

\* A bug: a mutex that exists already is taken for one's own.
FaultyCanOwnMutex(i) == TRUE
CanOwnMutex(i) == dsMutex \subseteq {i}

\* CreateDriverSetupMutex: free, its own already, or another's, for which the instance waits.
CreateDriverSetupMutex(i) ==
    /\ At(i, "mutex")
    /\ IF CanOwnMutex(i) THEN dsMutex' = dsMutex \cup {i} /\ Goto(i, "load")
       ELSE Goto(i, "wait") /\ UNCHANGED dsMutex
    /\ UNCHANGED <<dsDriver, dsService, dsMounted, dsConfig, dsStarts>>

AwaitDriverSetupMutex(i) ==
    /\ At(i, "wait") /\ dsMutex = {} /\ dsMutex' = {i} /\ Goto(i, "open")
    /\ UNCHANGED <<dsDriver, dsService, dsMounted, dsConfig, dsStarts>>

\* The configuration says that the system is encrypted, but its driver does not run: it is
\* installed and started, and registered for the start of the system.
ReinstallDriver(i) ==
    /\ At(i, "load") /\ dsConfig /\ Release(i)
    /\ \/ /\ dsService' = "installed"
          /\ dsDriver' = IF dsDriver.state # "stopped" THEN dsDriver
                         ELSE [Stopped EXCEPT !.state = "running", !.version = dsInstance[i].version]
          /\ IF dsDriver'.state = "running"
             THEN Become(i, [dsInstance[i] EXCEPT !.pc = "version", !.handle = TRUE]) ELSE Goto(i, "failed")
       \/ Goto(i, "failed") /\ UNCHANGED <<dsDriver, dsService>>
    /\ UNCHANGED <<dsMounted, dsConfig, dsStarts>>

\* DriverLoad: a service that is there is removed...
RemoveStaleService(i) ==
    /\ At(i, "reload") \/ (At(i, "load") /\ ~dsConfig)
    /\ Goto(i, "create")
    /\ dsService' = IF dsService = "none" \/ dsDriver.state = "stopped" THEN "none" ELSE "marked"
    /\ UNCHANGED <<dsDriver, dsMounted, dsMutex, dsConfig, dsStarts>>

\* ...and another one created, started and marked for deletion.
CreateAndStartService(i) ==
    /\ At(i, "create") /\ Release(i)
    /\ IF dsService # "none" THEN Goto(i, "failed") /\ UNCHANGED <<dsDriver, dsService>>
       ELSE \/ /\ dsService' = "marked" /\ Become(i, [dsInstance[i] EXCEPT !.pc = "reopen", !.portable = TRUE])
               /\ dsDriver' = [Stopped EXCEPT !.state = "running", !.version = dsInstance[i].version]
            \/ Goto(i, "failed") /\ UNCHANGED <<dsDriver, dsService>>
    /\ UNCHANGED <<dsMounted, dsConfig, dsStarts>>

\* The driver just loaded is opened, and told that it was not installed.
ReopenDriver(i) ==
    /\ At(i, "reopen")
    /\ IF dsDriver.state = "running"
       THEN /\ Become(i, [dsInstance[i] EXCEPT !.pc = "version", !.handle = TRUE])
            /\ dsDriver' = [dsDriver EXCEPT !.portable = TRUE]
       ELSE Goto(i, "failed") /\ UNCHANGED dsDriver
    /\ UNCHANGED <<dsService, dsMounted, dsMutex, dsConfig, dsStarts>>

\* IsNonInstallMode
IsNonInstallMode(i) == dsInstance[i].portable \/ dsDriver.portable

\* A bug: a driver that was loaded is taken to be the right one.
FaultyCompatible(i) == dsInstance[i].portable \/ dsDriver.version = dsInstance[i].version
Compatible(i) == dsDriver.version = dsInstance[i].version

\* The version is compared; a driver of another version that is not installed is exchanged.
CheckVersion(i) ==
    /\ At(i, "version")
    /\ IF Compatible(i) THEN Goto(i, "attached") /\ UNCHANGED dsMutex
       ELSE IF IsNonInstallMode(i) /\ CanOwnMutex(i)
            THEN /\ dsMutex' = dsMutex \cup {i}
                 /\ Become(i, [dsInstance[i] EXCEPT !.pc = "unloadToExchange", !.portable = TRUE])
            ELSE Goto(i, "failed") /\ Release(i)
    /\ UNCHANGED <<dsDriver, dsService, dsMounted, dsConfig, dsStarts>>

\* The instance reports the failure, and ends.
Fail(i) == At(i, "failed") /\ End(i) /\ UNCHANGED <<dsMounted, dsConfig, dsStarts>>

-----------------------------------------------------------------------------
(* DriverUnload, in cleanup or to exchange the driver *)

Unloading == {"unload", "count", "stop", "unloadToExchange", "countToExchange", "stopToExchange"}
Exchanges(i) == dsInstance[i].pc \in {"unloadToExchange", "countToExchange", "stopToExchange"}
Step(i, plain, exchange) == Goto(i, IF Exchanges(i) THEN exchange ELSE plain)

\* cleanup: a driver that is not installed is stopped unless a dismount was forced or a volume is there.
Cleanup(i) ==
    /\ At(i, "attached") /\ UNCHANGED <<dsMounted, dsConfig, dsStarts>>
    /\ IF IsNonInstallMode(i) /\ ~dsDriver.noUnload /\ ~dsMounted
       THEN Goto(i, "unload") /\ UNCHANGED <<dsDriver, dsService, dsMutex>>
       ELSE End(i)

TestForVolumes(i) ==
    /\ dsInstance[i].pc \in {"unload", "unloadToExchange"}
    /\ IF dsMounted THEN Goto(i, "failed") ELSE Step(i, "count", "countToExchange")
    /\ UNCHANGED <<dsDriver, dsService, dsMounted, dsMutex, dsConfig, dsStarts>>

\* A bug: the handles of others are not looked at.
FaultyInUse(i) == FALSE
InUse(i) == Holders # {i}

\* Test for any applications attached to the driver; the handle is closed when there are none.
TestForApplications(i) ==
    /\ dsInstance[i].pc \in {"count", "countToExchange"}
    /\ IF InUse(i) THEN Goto(i, "failed") /\ UNCHANGED <<dsDriver, dsService>>
       ELSE /\ Become(i, [dsInstance[i] EXCEPT !.handle = FALSE,
                                               !.pc = IF Exchanges(i) THEN "stopToExchange" ELSE "stop"])
            /\ Close(i)
    /\ UNCHANGED <<dsMounted, dsMutex, dsConfig, dsStarts>>

\* The service is stopped; to exchange the driver, a few times at most.
StopService(i) ==
    /\ dsInstance[i].pc \in {"stop", "stopToExchange"} /\ UNCHANGED <<dsMounted, dsConfig, dsStarts>>
    /\ dsDriver' = IF dsDriver.state = "stopped" \/ (Holders = {} /\ ~dsMounted) THEN Stopped
                   ELSE [dsDriver EXCEPT !.state = "stopping"]
    /\ dsService' = IF dsDriver'.state = "stopped" /\ dsService = "marked" THEN "none" ELSE dsService
    /\ IF Exchanges(i) /\ dsDriver'.state = "stopped" /\ dsInstance[i].retries < 3
       THEN Become(i, [dsInstance[i] EXCEPT !.pc = "reload", !.retries = @ + 1]) /\ UNCHANGED dsMutex
       ELSE Become(i, Ended) /\ Release(i)

\* An attached instance mounts a volume, or dismounts it, by force perhaps.
Mount(i) ==
    /\ At(i, "attached") /\ ~dsMounted /\ dsMounted' = TRUE
    /\ UNCHANGED <<dsDriver, dsService, dsMutex, dsInstance, dsConfig, dsStarts>>

Dismount(i) ==
    /\ At(i, "attached") /\ dsMounted /\ dsMounted' = FALSE
    /\ dsDriver' = [dsDriver EXCEPT !.noUnload = TRUE] \/ dsDriver' = dsDriver
    /\ UNCHANGED <<dsService, dsMutex, dsInstance, dsConfig, dsStarts>>

Next == \E i \in Instances :
    \/ Start(i) \/ OpenDriver(i) \/ CreateDriverSetupMutex(i) \/ AwaitDriverSetupMutex(i)
    \/ ReinstallDriver(i) \/ RemoveStaleService(i) \/ CreateAndStartService(i) \/ ReopenDriver(i)
    \/ CheckVersion(i) \/ Fail(i) \/ Cleanup(i) \/ TestForVolumes(i) \/ TestForApplications(i)
    \/ StopService(i) \/ Mount(i) \/ Dismount(i)

Spec == Init /\ [][Next]_dsVars

-----------------------------------------------------------------------------
Pcs == {"ended", "open", "mutex", "wait", "load", "reload", "create", "reopen", "version", "failed", "attached"} \cup Unloading

TypeOK ==
    /\ dsDriver \in [state : {"stopped", "running", "stopping"}, version : Versions \cup {0},
                     portable : BOOLEAN, noUnload : BOOLEAN]
    /\ dsService \in {"none", "installed", "marked"} /\ dsMounted \in BOOLEAN /\ Cardinality(dsMutex) <= 1
    /\ dsInstance \in [Instances -> [pc : Pcs, version : Versions \cup {0}, handle : BOOLEAN,
                                     portable : BOOLEAN, retries : 0..3]]

\* An instance that works with the driver has the driver of its own version, whatever the other
\* instances load, exchange and stop meanwhile.
AttachedVersion == \A i \in Instances :
    At(i, "attached") => dsDriver.state # "stopped" /\ dsDriver.version = dsInstance[i].version

\* A driver that holds mounted volumes is not told to stop.
VolumesKeepDriver == dsMounted => dsDriver.state # "stopping"

\* "Remove stale service (driver is not loaded but service exists)": an instance that sets out to
\* load the driver finds it not loaded.
LoadsWhenNotLoaded == \A i \in Instances :
    At(i, "load") /\ ~dsConfig => dsDriver.state # "running"
=============================================================================
