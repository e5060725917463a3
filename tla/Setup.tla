------------------------------- MODULE Setup -------------------------------
(* The installer (Setup/Setup.c, Setup/Wizard.c): the wizard's pages, the thread that installs,
   the dialog that uninstalls, and the roll-back of a failed installation by uninstalling.

   A version is a number: LegacyVersion (before 7.0) < OlderVersion < This < NewerVersion, and 0
   is no version. Restore points, paging files, developer mode, the question about a hidden
   system and the messages that change nothing are left out. *)
EXTENDS Integers

CONSTANTS
    MaxFaults,  \* how many calls fail
    MaxLaunches \* how often the installer is started

VARIABLES
    instDisk,   \* [service, filters, driver, programs, registered, data, loader]: what is installed
    instDriver, \* [version, portable]: the running driver
    instSystem, \* "plain" or "encrypted": whether the system drive is (DriveMounted)
    instFlags,  \* the global flags of the installer
    instPage,   \* nCurPageNo, "uninstall" for the uninstaller's dialog
    instThread, \* [pc, ok, before]: DoInstall or DoUninstall, bOK, and instDisk when it began
    instTold,   \* the files the user was told could not be written
    instLeft    \* [faults, launches, examined]: what the bounds still allow, and whether every
                \* examination of the boot-start driver could be finished

instVars == <<instDisk, instDriver, instSystem, instFlags, instPage, instThread, instTold, instLeft>>

LegacyVersion == 1
OlderVersion == 2
This == 3
NewerVersion == 4

NoFlags == [upgrade |-> FALSE, downgrade |-> FALSE, update |-> FALSE, unload |-> TRUE, portable |-> FALSE,
            repair |-> FALSE, uninstall |-> FALSE, inProgress |-> FALSE, rollback |-> FALSE,
            extractOnly |-> FALSE, done |-> FALSE, restart |-> FALSE]

Nothing == [service |-> "none", filters |-> FALSE, driver |-> 0, programs |-> 0,
            registered |-> FALSE, data |-> FALSE, loader |-> 0]

Installed(version, use) ==
    [service |-> IF use = "encrypted" THEN "boot" ELSE "system", filters |-> use = "encrypted",
     driver |-> version, programs |-> version, registered |-> TRUE, data |-> TRUE,
     loader |-> IF use = "encrypted" THEN version ELSE 0]

\* A system without TrueCrypt, perhaps with a portable driver running, or with some version
\* installed. The driver may start at boot before the system drive is encrypted.
Init ==
    /\ \/ /\ instSystem = "plain" /\ instDisk = Nothing
          /\ instDriver \in {[version |-> 0, portable |-> FALSE], [version |-> OlderVersion, portable |-> TRUE]}
       \/ \E version \in {LegacyVersion, OlderVersion, This, NewerVersion} :
             /\ instSystem \in {"plain", "encrypted"}
             /\ instDisk \in {Installed(version, "encrypted"), Installed(version, instSystem)}
             /\ instDriver = [version |-> version, portable |-> FALSE]
    /\ instFlags = NoFlags /\ instPage = "closed" /\ instTold = {}
    /\ instThread = [pc |-> "idle", ok |-> TRUE, before |-> instDisk]
    /\ instLeft = [faults |-> MaxFaults, launches |-> MaxLaunches, examined |-> TRUE]

Running == instThread.pc # "idle"
Fault == instLeft.faults > 0 /\ instLeft' = [instLeft EXCEPT !.faults = @ - 1]
Unexamined == instLeft.faults > 0 /\ instLeft' = [instLeft EXCEPT !.faults = @ - 1, !.examined = FALSE]
Fine == UNCHANGED instLeft

At(pc) == instThread.pc = pc
Goto(pc) == instThread' = [instThread EXCEPT !.pc = pc]
FailTo(pc) == instThread' = [instThread EXCEPT !.pc = pc, !.ok = FALSE]

\* A step of the chain: it succeeds, or fails and the chain ends with the outcome.
Succeeds(next) == Goto(next) /\ Fine
Fails(outcome) == Fault /\ FailTo(outcome)

\* DetermineUpgradeDowngradeStatus
DetermineUpgradeDowngradeStatus(flags) ==
    IF instDriver.version = 0 THEN flags
    ELSE [flags EXCEPT !.upgrade = instDriver.version < This, !.downgrade = instDriver.version > This,
                       !.portable = instDriver.portable]

-----------------------------------------------------------------------------
(* The pages. *)
Open(flags, page) ==
    /\ instFlags' = flags /\ instPage' = page
    /\ instLeft' = [instLeft EXCEPT !.launches = @ - 1]
    /\ UNCHANGED <<instDisk, instDriver, instSystem, instThread, instTold>>

\* WinMain: the package installs, what was installed with it asks whether to repair or uninstall.
Launch ==
    /\ instPage = "closed" /\ instLeft.launches > 0
    /\ \/ Open(NoFlags, "intro")
       \/ instDisk.registered /\ Open([NoFlags EXCEPT !.repair = TRUE], "intro")
       \/ instDisk.registered /\ Open([NoFlags EXCEPT !.uninstall = TRUE], "uninstall")

Turn(from, to, flags) ==
    /\ instPage = from /\ ~Running /\ instPage' = to /\ instFlags' = flags
    /\ UNCHANGED <<instDisk, instDriver, instSystem, instThread, instTold, instLeft>>

Next_intro == Turn("intro", "mode", DetermineUpgradeDowngradeStatus(instFlags))
Next_mode ==
    \/ Turn("mode", "options", [DetermineUpgradeDowngradeStatus(instFlags) EXCEPT !.extractOnly = FALSE])
    \/ ~instFlags.repair /\ Turn("mode", "extract", [instFlags EXCEPT !.extractOnly = TRUE])
Prev ==
    \/ Turn("mode", "intro", instFlags)
    \/ \E page \in {"options", "extract"} : Turn(page, "mode", DetermineUpgradeDowngradeStatus(instFlags))

Begin(pc) ==
    /\ ~Running
    /\ instThread' = [pc |-> pc, ok |-> TRUE, before |-> instDisk]
    /\ UNCHANGED <<instDisk, instDriver, instSystem, instTold, instLeft>>

\* The progress page starts the thread that extracts or installs.
StartInstall == instPage = "options" /\ instPage' = "progress" /\ UNCHANGED instFlags /\ Begin("folder")
StartExtraction == instPage = "extract" /\ instPage' = "progress" /\ UNCHANGED instFlags /\ Begin("extract")

\* IDC_UNINSTALL, which closes the dialog once the uninstallation is done.
StartUninstall ==
    /\ instPage = "uninstall" /\ UNCHANGED instPage /\ ~instFlags.done
    /\ instFlags' = [instFlags EXCEPT !.inProgress = TRUE] /\ Begin("uUnload")

\* WM_CLOSE: while the thread runs the user is asked, and the process ends with the thread.
Close ==
    /\ instPage # "closed" /\ instPage' = "closed"
    /\ instThread' = [instThread EXCEPT !.pc = "idle"] /\ instFlags' = NoFlags
    /\ UNCHANGED <<instDisk, instDriver, instSystem, instTold, instLeft>>

Installing == UNCHANGED <<instSystem, instPage>>
Page(page) == instPage' = page /\ UNCHANGED instSystem

\* TC_APPMSG_INSTALL_FAILURE, after which only closing is possible.
Failed == FailTo("idle") /\ Page("failed")

Extract ==
    /\ At("extract") /\ UNCHANGED <<instDisk, instDriver, instFlags, instTold>>
    /\ \/ Succeeds("idle") /\ Page("donations")
       \/ Fault /\ Failed

-----------------------------------------------------------------------------
(* DoDriverUnload *)

\* A bug: only a finished encryption keeps the driver from being uninstalled.
FaultyKeepsBootDriver(flags) == flags.downgrade
\* An encrypted system drive forbids to uninstall or downgrade the driver.
KeepsBootDriver(flags) == flags.inProgress \/ flags.downgrade

\* What the driver's part of a boot-start driver leads to: an uninstallation deregisters it when
\* the drive is not encrypted.
Deregister(disk) ==
    instDisk' = [disk EXCEPT !.filters = FALSE, !.service = "system"]

UnloadFlags(flags) ==
    LET keep == ~flags.uninstall /\ (flags.upgrade \/ flags.update)
    IN [flags EXCEPT !.unload = (flags.portable /\ ~flags.update) \/ (flags.unload /\ ~keep)]

\* The volumes mounted and the programs attached to the driver may prevent it from being unloaded.
Unload(flags, proceed, refuse) ==
    /\ instFlags' = UnloadFlags(flags)
    /\ \/ proceed
       \/ instFlags'.unload /\ refuse
       \/ ~flags.upgrade /\ refuse

\* The whole examination of a boot-start driver is lost when a query of it throws.
DoDriverUnload(proceed, refuse) ==
    LET flags == DetermineUpgradeDowngradeStatus(instFlags)
        boot == instDisk.service = "boot"
    IN \/ /\ instDriver.version = 0
          /\ UNCHANGED <<instDisk, instFlags>> /\ Fine /\ proceed
       \/ /\ instDriver.version # 0 /\ ~boot
          /\ UNCHANGED instDisk /\ Fine /\ Unload(flags, proceed, refuse)
       \/ /\ instDriver.version # 0 /\ boot /\ Unexamined
          /\ UNCHANGED instDisk /\ Unload(flags, proceed, refuse)
       \/ /\ instDriver.version # 0 /\ boot /\ Fine
          /\ \/ /\ flags.inProgress /\ instSystem = "plain"
                /\ Deregister(instDisk) /\ Unload(flags, proceed, refuse)
             \/ /\ instSystem = "encrypted" \/ ~flags.inProgress
                /\ KeepsBootDriver(flags)
                /\ refuse /\ instFlags' = flags /\ UNCHANGED instDisk
             \/ /\ instSystem = "encrypted" \/ ~flags.inProgress
                /\ ~KeepsBootDriver(flags) /\ UNCHANGED instDisk
                /\ Unload([flags EXCEPT !.update = TRUE, !.portable = FALSE], proceed, refuse)

\* DoServiceUninstall: a driver that does not stop is only marked for deletion, and deleting what
\* is marked already fails.
DoServiceUninstall(next, outcome) ==
    \/ /\ instDisk.service = "none" /\ Succeeds(next)
       /\ UNCHANGED <<instDisk, instDriver>>
    \/ /\ instDisk.service = "marked" /\ FailTo(outcome) /\ Fine
       /\ UNCHANGED <<instDisk, instDriver>>
    \/ /\ instDisk.service \in {"system", "boot"} /\ Succeeds(next)
       /\ \E stopped \in {instDriver.version = 0, instDisk.service = "system"} :
             /\ instDisk' = [instDisk EXCEPT !.service = IF stopped THEN "none" ELSE "marked",
                                             !.filters = IF instDisk.service = "boot" THEN FALSE ELSE @]
             /\ instDriver' = IF stopped THEN [version |-> 0, portable |-> FALSE] ELSE instDriver
    \/ /\ instDisk.service \in {"system", "boot"} /\ Fails(outcome)
       /\ instDisk' = [instDisk EXCEPT !.filters = IF instDisk.service = "boot" THEN FALSE ELSE @]
       /\ UNCHANGED instDriver

\* A file of DoFilesInstall: what cannot be written is removed or stays as it was, and the user
\* may go on. A roll-back goes on without asking.
WriteFile(file, version, next, outcome) ==
    \/ instDisk' = [instDisk EXCEPT ![file] = version] /\ Succeeds(next) /\ instTold' = instTold \ {file}
    \/ /\ Fault
       /\ \E content \in {instDisk[file], 0} : instDisk' = [instDisk EXCEPT ![file] = content]
       /\ instTold' = IF instFlags.rollback THEN instTold ELSE instTold \cup {file}
       /\ Goto(next) \/ (~instFlags.rollback /\ FailTo(outcome))

-----------------------------------------------------------------------------
(* DoInstall *)
InstallFolder ==
    /\ At("folder") /\ UNCHANGED <<instDisk, instDriver, instFlags, instTold>>
    /\ \/ Succeeds("unload") /\ Installing
       \/ Fault /\ Failed

InstallUnload ==
    /\ At("unload") /\ DoDriverUnload(Goto("inUse") /\ Installing, Failed)
    /\ UNCHANGED <<instDriver, instTold>>

\* On an upgrade the programs must not be running.
InstallInUse ==
    /\ At("inUse") /\ UNCHANGED <<instDisk, instDriver, instFlags, instTold>>
    /\ \/ Succeeds("old") /\ Installing
       \/ instFlags.upgrade /\ Fine /\ Failed

\* DoRegUninstall of what earlier versions registered; a version before 7.0 has not registered
\* the filter for memory dumps, and when that fails nothing has been changed yet.
InstallOld ==
    /\ At("old") /\ Installing /\ UNCHANGED <<instDriver, instFlags, instTold>>
    /\ instDisk' = [instDisk EXCEPT !.registered = @ /\ instFlags.update]
    /\ \/ Succeeds("service")
       \/ instFlags.update /\ instDriver.version = LegacyVersion /\ Fails("result")

InstallService ==
    /\ At("service") /\ Installing /\ UNCHANGED <<instFlags, instTold>>
    /\ IF instFlags.unload THEN DoServiceUninstall("driverFile", "outcome")
       ELSE Succeeds("driverFile") /\ UNCHANGED <<instDisk, instDriver>>

InstallDriverFile ==
    /\ At("driverFile") /\ Installing /\ UNCHANGED <<instDriver, instFlags>>
    /\ WriteFile("driver", This, "programs", "outcome")

InstallPrograms ==
    /\ At("programs") /\ Installing /\ UNCHANGED <<instDriver, instFlags>>
    /\ WriteFile("programs", This, "registry", "outcome")

\* DoRegInstall, which during the update of an encrypted system only renews the version.
InstallRegistry ==
    /\ At("registry") /\ Installing /\ UNCHANGED <<instDriver, instFlags, instTold>>
    /\ \/ instDisk' = [instDisk EXCEPT !.registered = TRUE] /\ Succeeds("driver")
       \/ ~instFlags.update /\ UNCHANGED instDisk /\ Fails("outcome")

\* DoDriverInstall creates the service and starts the driver.
InstallDriver ==
    /\ At("driver") /\ Installing /\ UNCHANGED <<instFlags, instTold>>
    /\ \/ /\ ~instFlags.unload \/ instFlags.update
          /\ Succeeds("loader") /\ UNCHANGED <<instDisk, instDriver>>
       \/ /\ instFlags.unload /\ ~instFlags.update /\ instDisk.service = "none"
          /\ instDisk' = [instDisk EXCEPT !.service = "system"]
          /\ \/ /\ instDisk.driver # 0 /\ instDriver.version = 0 /\ Succeeds("loader")
                /\ instDriver' = [version |-> instDisk.driver, portable |-> FALSE]
             \/ instDisk.driver = 0 /\ FailTo("outcome") /\ Fine /\ UNCHANGED instDriver
             \/ instDriver.version # 0 /\ Succeeds("loader") /\ UNCHANGED instDriver
             \/ Fails("outcome") /\ UNCHANGED instDriver
       \/ /\ instFlags.unload /\ ~instFlags.update /\ instDisk.service # "none"
          /\ FailTo("outcome") /\ Fine /\ UNCHANGED <<instDisk, instDriver>>

\* UpgradeBootLoader
UpgradeBootLoader ==
    /\ At("loader") /\ Installing /\ UNCHANGED <<instDriver, instFlags, instTold>>
    /\ \/ /\ instDisk' = [instDisk EXCEPT !.loader = IF instFlags.update /\ @ < This THEN This ELSE @]
          /\ Succeeds("shortcuts")
       \/ instFlags.update /\ UNCHANGED instDisk /\ Fails("outcome")

InstallShortcuts ==
    /\ At("shortcuts") /\ Installing /\ UNCHANGED <<instDisk, instDriver, instFlags, instTold>>
    /\ Succeeds("outcome") \/ Fails("outcome")

\* A bug: the failed update of an encrypted system is rolled back like any other.
FaultyRollsBack == ~instThread.ok
\* A failed installation is rolled back by uninstalling, but never on an encrypted system.
RollsBack == ~instThread.ok /\ ~instFlags.update

InstallOutcome ==
    /\ At("outcome") /\ Installing /\ Fine
    /\ instFlags' = IF RollsBack THEN [instFlags EXCEPT !.uninstall = TRUE, !.rollback = TRUE]
                    ELSE [instFlags EXCEPT !.restart = @ \/ ~instFlags.unload]
    /\ instTold' = IF ~instThread.ok /\ ~RollsBack THEN instTold \cup {"update"} ELSE instTold \ {"update"}
    /\ Goto(IF RollsBack THEN "uUnload" ELSE "result")
    /\ UNCHANGED <<instDisk, instDriver>>

\* OutcomePrompt, and the message to the wizard.
InstallResult ==
    /\ At("result") /\ Fine /\ Goto("idle") /\ UNCHANGED instSystem
    /\ instPage' = IF instThread.ok THEN "donations" ELSE "failed"
    /\ UNCHANGED <<instDisk, instDriver, instFlags, instTold>>

-----------------------------------------------------------------------------
(* DoUninstall: the first step that fails ends it. *)
UninstallUnload ==
    /\ At("uUnload") /\ Installing /\ UNCHANGED <<instDriver, instTold>>
    /\ DoDriverUnload(Goto("uService"), FailTo("uEnd"))

UninstallService ==
    /\ At("uService") /\ Installing /\ UNCHANGED <<instFlags, instTold>>
    /\ DoServiceUninstall("uRegistry", "uEnd")

UninstallRegistry ==
    /\ At("uRegistry") /\ Installing /\ UNCHANGED <<instDriver, instFlags, instTold>>
    /\ instDisk' = [instDisk EXCEPT !.registered = FALSE]
    /\ Succeeds("uDriverFile") \/ Fails("uEnd")

UninstallDriverFile ==
    /\ At("uDriverFile") /\ Installing /\ UNCHANGED <<instDriver, instFlags>>
    /\ WriteFile("driver", 0, "uPrograms", "uEnd")

UninstallPrograms ==
    /\ At("uPrograms") /\ Installing /\ UNCHANGED <<instDriver, instFlags>>
    /\ WriteFile("programs", 0, "uShortcuts", "uEnd")

UninstallShortcuts ==
    /\ At("uShortcuts") /\ Installing /\ UNCHANGED <<instDisk, instDriver, instFlags, instTold>>
    /\ Succeeds("uData") \/ Fails("uEnd")

\* DoApplicationDataUninstall, which ignores the files it cannot remove.
UninstallData ==
    /\ At("uData") /\ Installing /\ UNCHANGED <<instDriver, instFlags, instTold>>
    /\ instDisk' = [instDisk EXCEPT !.data = FALSE]
    /\ Succeeds("uEnd") \/ Fails("uEnd")

UninstallEnd ==
    /\ At("uEnd") /\ Fine /\ UNCHANGED <<instDisk, instDriver, instSystem, instTold>>
    /\ IF instFlags.rollback
       THEN /\ instFlags' = [instFlags EXCEPT !.uninstall = FALSE, !.rollback = FALSE]
            /\ FailTo("result") /\ UNCHANGED instPage
       ELSE /\ instFlags' = [instFlags EXCEPT !.done = instThread.ok, !.inProgress = instThread.ok]
            /\ Goto("idle") /\ UNCHANGED instPage

-----------------------------------------------------------------------------
\* What an encrypted system needs to start.
Starts == instDisk.service = "boot" /\ instDisk.filters /\ instDisk.driver # 0

\* Windows restarts: what is marked is deleted and the installed driver is started.
Reboot ==
    /\ instPage = "closed" /\ (instSystem = "encrypted" => Starts)
    /\ instDisk' = [instDisk EXCEPT !.service = IF @ = "marked" THEN "none" ELSE @]
    /\ instDriver' = [version |-> IF instDisk'.service = "none" THEN 0 ELSE instDisk.driver, portable |-> FALSE]
    /\ UNCHANGED <<instSystem, instFlags, instPage, instThread, instTold, instLeft>>

Pages == Launch \/ Next_intro \/ Next_mode \/ Prev \/ StartInstall \/ StartExtraction \/ StartUninstall \/ Close
Install ==
    \/ Extract \/ InstallFolder \/ InstallUnload \/ InstallInUse \/ InstallOld \/ InstallService
    \/ InstallDriverFile \/ InstallPrograms \/ InstallRegistry \/ InstallDriver \/ UpgradeBootLoader
    \/ InstallShortcuts \/ InstallOutcome \/ InstallResult
Uninstall ==
    \/ UninstallUnload \/ UninstallService \/ UninstallRegistry \/ UninstallDriverFile
    \/ UninstallPrograms \/ UninstallShortcuts \/ UninstallData \/ UninstallEnd

Next == Pages \/ Install \/ Uninstall \/ Reboot

-----------------------------------------------------------------------------
(* What is installed, what runs and the pages keep their shapes. *)
TypeOK ==
    /\ instDisk.service \in {"none", "system", "boot", "marked"} /\ instDisk.driver \in 0..NewerVersion
    /\ instDriver.version \in 0..NewerVersion /\ instSystem \in {"plain", "encrypted"}
    /\ instPage \in {"closed", "intro", "mode", "options", "extract", "progress", "donations", "failed", "uninstall"}
    /\ instTold \subseteq {"driver", "programs", "update"}

(* An encrypted system keeps the boot-start driver and the filters it needs to start, whatever
   the installer does and wherever it fails or is closed, unless the user has been told that a
   file could not be written or that the update failed, or a query of the driver failed, which
   skips the whole examination silently (Setup.c, DoDriverUnload and DoInstall). *)
EncryptedSystemStarts ==
    instSystem = "encrypted" => Starts \/ instTold # {} \/ ~instLeft.examined

(* "The installation has been rolled back": nothing that was there before is gone. The code rolls
   back by uninstalling, the previous version and the user's settings with it. *)
RolledBack ==
    instPage = "failed" /\ instThread.before.data => instDisk.data
=============================================================================
