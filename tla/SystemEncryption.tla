-------------------------- MODULE SystemEncryption --------------------------
(* Installation, pretest, encryption, decryption and removal of the encryption of the system
   drive, as carried out by the wizard (Format/Tcformat.c) with the class BootEncryption
   (Common/BootEncryption.cpp), and the change of its password and the making of further
   Rescue Disks by the main application (Mount/Mount.c): what is written to the first track
   of the drive, to the registry and to the file with the status, across power failures and
   restarts. The two programs exclude each other by a mutex.

   The area to be encrypted has two units. The system lies in the first one, or, when
   SystemFirst is false, in the second one, behind another partition. No hidden operating
   system is involved; the phase of its creation is a field of the boot sector all the same.
   What a loader does with the drive is the subject of SystemBoot, the setup thread in the
   driver that of DriveFilter. *)
EXTENDS Integers, Sequences

CONSTANTS
    SystemFirst,    \* the system partition is the first one in the area to be encrypted
    Keys,           \* master keys, positive numbers
    Passwords,      \* passwords the user has for the system drive
    MaxFaults       \* bounds failed steps, and losses of the status file

VARIABLES
    seDisk,     \* first track [mbr, loader, header, password, phase] and data [length, key]:
                \* the key in the header and the password that opens it; 0 is no key
    seBackup,   \* the backup of the original system loader
    seRescue,   \* Rescue Disks, each with a header [key, password]
    seRegistry, \* [start, filter]: start type of the driver, and class filter registered
    seGood,     \* the Last Known Good Configuration of the registry
    seConfig,   \* [status, startup]: status file, and the wizard's entry in the startup sequence
    seOs,       \* the system running: [on, filter, mounted, password, setup], with the password
                \* whose keys the driver rewrites the header with
    seWizard,   \* [page, key, password]: page displayed by the owner of the mutex, and the
                \* header being prepared, or the new password
    seTask,     \* [todo, trying, after]: the steps being carried out for the wizard
    seFaults

seVars == <<seDisk, seBackup, seRescue, seRegistry, seGood, seConfig, seOs, seWizard, seTask,
            seFaults>>

NoPassword == "none"
Off == [on |-> FALSE, filter |-> FALSE, mounted |-> FALSE, password |-> NoPassword, setup |-> "none"]
Closed == [page |-> "closed", key |-> 0, password |-> NoPassword]
NoTask == [todo |-> << >>, trying |-> FALSE, after |-> "closed"]
Area == 2

Init ==
    /\ seDisk = [mbr |-> "system", loader |-> "system", header |-> 0, password |-> NoPassword,
                 phase |-> "none", length |-> 0, key |-> 0]
    /\ seBackup = "none" /\ seRescue = {}
    /\ seRegistry = [start |-> "system", filter |-> FALSE] /\ seGood = seRegistry
    /\ seConfig = [status |-> "none", startup |-> FALSE]
    /\ seOs = Off /\ seWizard = Closed /\ seTask = NoTask /\ seFaults = 0

Fault == seFaults < MaxFaults /\ seFaults' = seFaults + 1

-----------------------------------------------------------------------------
(* Power on. The loader asks for the password or is skipped with Esc; the user may also
   start from the Rescue Disk, or select the Last Known Good Configuration. *)
SystemPlain == seDisk.length = 0 \/ (~SystemFirst /\ seDisk.length = 1)
LoaderStarts == seDisk.mbr = "loader" /\ seDisk.loader = "loader"
HeaderFits == seDisk.header # 0 /\ (seDisk.length = 0 \/ seDisk.header = seDisk.key)

Boot(password, lastKnownGood) ==
    LET registry == IF lastKnownGood THEN seGood ELSE seRegistry
        mounted == password /\ registry.filter
    IN /\ ~seOs.on
       /\ seRescue # {} \/ LoaderStarts \/ (seDisk.mbr = "system" /\ ~password)
       /\ password => HeaderFits
       /\ registry.filter => registry.start = "boot"
       /\ SystemPlain \/ mounted
       /\ seOs' = [Off EXCEPT !.on = TRUE, !.filter = registry.filter, !.mounted = mounted,
                                !.password = IF mounted THEN seDisk.password ELSE NoPassword]
       /\ seRegistry' = registry /\ seGood' = registry
       /\ UNCHANGED <<seDisk, seBackup, seRescue, seConfig, seWizard, seTask, seFaults>>

\* The menu of a Rescue Disk: the drive is decrypted, the loader put back, or the header, with
\* the password of the disk and unless that password opens the header there, or all of the
\* first track as it was. The user takes a disk that was made for this key.
UseRescueDisk ==
    /\ ~seOs.on
    /\ \E rescue \in seRescue :
         \/ HeaderFits /\ seDisk' = [seDisk EXCEPT !.length = 0, !.key = 0]
         \/ seDisk' = [seDisk EXCEPT !.mbr = "loader", !.loader = "loader"]
         \/ /\ seDisk.key \in {0, rescue.key} /\ seDisk.password # rescue.password
            /\ seDisk' = [seDisk EXCEPT !.header = rescue.key, !.password = rescue.password]
         \/ /\ seDisk.length = 0 /\ seBackup = "system"
            /\ seDisk' = [seDisk EXCEPT !.mbr = "system", !.loader = "system", !.header = 0,
                                        !.password = NoPassword, !.phase = "none"]
    /\ UNCHANGED <<seBackup, seRescue, seRegistry, seGood, seConfig, seOs, seWizard, seTask, seFaults>>

\* What a step that is broken off has done.
StepBrokenOff ==
    \/ UNCHANGED seDisk
    \/ /\ seTask.todo # << >> /\ Head(seTask.todo) = "restore loader"
       /\ seDisk' = [seDisk EXCEPT !.mbr = "system"]
    \/ /\ seTask.todo # << >> /\ Head(seTask.todo) = "wipe phase"
       /\ \E phase \in {"cloning", "wiping", "wiped"} : seDisk' = [seDisk EXCEPT !.phase = phase]

\* The computer is restarted, or crashes.
PowerOff ==
    /\ seOs.on
    /\ seOs' = Off /\ seWizard' = Closed /\ seTask' = NoTask
    /\ StepBrokenOff
    /\ UNCHANGED <<seBackup, seRescue, seRegistry, seGood, seConfig, seFaults>>

\* The wizard is terminated, while the driver goes on with what it does.
Rewriting == \E i \in DOMAIN seTask.todo : seTask.todo[i] = "reopen"
WizardDies ==
    /\ seWizard.page \notin {"closed", "password"} /\ ~Rewriting
    /\ seWizard' = Closed /\ seTask' = NoTask /\ StepBrokenOff
    /\ UNCHANGED <<seBackup, seRescue, seRegistry, seGood, seConfig, seOs, seFaults>>

LoseStatusFile ==
    /\ seOs.on /\ seWizard.page = "closed" /\ seConfig.status # "none"
    /\ seConfig' = [seConfig EXCEPT !.status = "none"] /\ Fault
    /\ UNCHANGED <<seDisk, seBackup, seRescue, seRegistry, seGood, seOs, seWizard, seTask>>

-----------------------------------------------------------------------------
(* The steps of BootEncryption. The volume and dump filters are registered and unregistered
   after that of the drive, and nothing depends on them. *)
LoaderSteps == <<"mbr", "loader", "header">>

\* A bug: the start type is changed after the filters have been registered.
FaultyRegisterSteps == <<"unregister", "register", "others", "start boot">>

RegisterSteps == <<"start boot", "unregister", "register", "others">>

\* Deinstall refuses a drive that is mounted, or encrypted, which an unmounted one never is
\* according to the driver.
Removable == ~seOs.mounted

RemoveSteps == <<"unregister", "start system", "phase none", "restore loader">>

\* BootEncryption::ChangePassword: the header is written as often as a wiping takes, with the
\* new password each time, and the driver is then told to read it again.
RewriteSteps == <<"rewrite", "rewrite again", "reopen">>

\* ChangeSystemEncryptionStatus
StatusSteps(status) ==
    IF status = "none" THEN <<"phase none", "wipe phase", "save none">>
    ELSE IF status = "encrypting" THEN <<"wipe phase", "save encrypting">>
    ELSE IF status = "pretest" THEN <<"save pretest">> ELSE <<"save decrypting">>

\* What is still done when a step fails.
AfterFailure(step, rest) ==
    IF step \in {"mbr", "loader", "header"} THEN <<"restore loader">>
    ELSE IF step \in {"register", "others"} THEN
         <<"unregister", "start system">> \o (IF seTask.after = "pretest" THEN <<"restore loader">> ELSE << >>)
    ELSE IF step = "start boot" THEN IF seTask.after = "pretest" THEN <<"restore loader">> ELSE << >>
    ELSE IF step \in {"unregister", "start system"} THEN IF seTask.trying THEN RegisterSteps ELSE rest
    ELSE IF step \in {"wipe phase", "rewrite again"} THEN rest
    ELSE << >>

Effect(step) ==
    /\ seOs' = IF step = "reopen" THEN [seOs EXCEPT !.password = seDisk.password] ELSE seOs
    /\ seDisk' = IF step = "mbr" THEN [seDisk EXCEPT !.mbr = "loader"]
                 ELSE IF step = "loader" THEN [seDisk EXCEPT !.loader = "loader"]
                 ELSE IF step = "header" THEN [seDisk EXCEPT !.header = seWizard.key, !.password = seWizard.password]
                 ELSE IF step = "rewrite" THEN [seDisk EXCEPT !.password = seWizard.password]
                 ELSE IF step = "restore loader"
                 THEN [seDisk EXCEPT !.mbr = seBackup, !.loader = seBackup, !.header = 0, !.password = NoPassword]
                 ELSE IF step \in {"phase none", "wipe phase"} THEN [seDisk EXCEPT !.phase = "none"]
                 ELSE seDisk
    /\ seRegistry' = IF step = "start boot" THEN [seRegistry EXCEPT !.start = "boot"]
                     ELSE IF step = "start system" THEN [seRegistry EXCEPT !.start = "system"]
                     ELSE IF step = "register" THEN [seRegistry EXCEPT !.filter = TRUE]
                     ELSE IF step = "unregister" THEN [seRegistry EXCEPT !.filter = FALSE]
                     ELSE seRegistry
    /\ seConfig' = IF step = "startup on" THEN [seConfig EXCEPT !.startup = TRUE]
                   ELSE IF step = "startup off" THEN [seConfig EXCEPT !.startup = FALSE]
                   ELSE IF step = "save none" THEN [seConfig EXCEPT !.status = "none"]
                   ELSE IF step = "save pretest" THEN [seConfig EXCEPT !.status = "pretest"]
                   ELSE IF step = "save encrypting" THEN [seConfig EXCEPT !.status = "encrypting"]
                   ELSE IF step = "save decrypting" THEN [seConfig EXCEPT !.status = "decrypting"]
                   ELSE seConfig

\* What the wizard does once all steps have been carried out (done) or one has failed.
Continue(done) ==
    LET Do(todo, after) == seTask' = [todo |-> todo, trying |-> FALSE, after |-> after] /\ UNCHANGED seWizard
        Show(page) == seTask' = NoTask /\ seWizard' = [seWizard EXCEPT !.page = page]
    IN IF seTask.after = "pretest"
       THEN IF done THEN Do(StatusSteps("pretest") \o <<"startup on">>, "closed") ELSE Show("ready")
       ELSE IF seTask.after = "decrypted"
       THEN Do(<<"startup off">> \o StatusSteps("none"), "finished")
       ELSE IF seTask.after = "terminate" /\ done
       THEN Do(<<"startup off">> \o StatusSteps("none"), "closed")
       ELSE IF seTask.after \in {"terminate", "closed"} THEN seTask' = NoTask /\ seWizard' = Closed
       ELSE Show(seTask.after)

Advance(todo, trying, done) ==
    IF todo = << >> THEN Continue(done)
    ELSE seTask' = [seTask EXCEPT !.todo = todo, !.trying = trying] /\ UNCHANGED seWizard

Step ==
    /\ seTask.todo # << >>
    /\ LET step == Head(seTask.todo) rest == Tail(seTask.todo) IN
       \/ /\ Effect(step)
          /\ Advance(rest, seTask.trying /\ step # "start system", TRUE) /\ UNCHANGED seFaults
       \/ /\ step # "reopen" \* the header has just been written
          /\ Fault /\ UNCHANGED <<seDisk, seRegistry, seConfig, seOs>>
          /\ Advance(AfterFailure(step, rest), FALSE, FALSE)
    /\ UNCHANGED <<seBackup, seRescue, seGood>>

Perform(todo, after) == seTask' = [todo |-> todo, trying |-> FALSE, after |-> after]

\* Deinstall
Remove(after) == seTask' = [todo |-> RemoveSteps, trying |-> TRUE, after |-> after]

-----------------------------------------------------------------------------
(* The wizard is started: by the user, by the startup sequence or by the main application.
   AfterWMInitTasks decides from the status file and that of the driver what to do. The
   driver reports an area of zeros for a drive that is not mounted. *)
Idle == seOs.on /\ seTask.todo = << >>
FullyEncrypted == seOs.setup = "none" /\ seOs.mounted /\ seDisk.length = Area
AppearsComplete == seOs.mounted => seDisk.length = Area
Underway == seConfig.status \in {"encrypting", "decrypting"}
EncryptionOrDecryptionRequired == Underway \/ (seOs.mounted /\ seDisk.length # Area)
Commands == {"none", "startup", "resume", "encrypt", "decrypt"}
Open(page) == seWizard' = [Closed EXCEPT !.page = page]

MayLaunch(command) ==
    CASE command = "startup" -> seConfig.startup
      [] command = "encrypt" -> ~(seOs.mounted /\ ~EncryptionOrDecryptionRequired)
      [] command = "decrypt" -> seOs.mounted \/ seOs.filter \/ EncryptionOrDecryptionRequired
      [] OTHER -> TRUE

LaunchToDecrypt ==
    /\ Open("encryption") /\ Perform(<<"startup on">> \o StatusSteps("decrypting"), "encryption")
    /\ seOs' = [seOs EXCEPT !.setup = "none"]

\* ResolveUnknownSysEncDirection
Direction == IF Underway THEN {seConfig.status}
             ELSE IF seOs.setup # "none" THEN {IF seOs.setup = "encrypt" THEN "encrypting" ELSE "decrypting"}
             ELSE {"encrypting", "decrypting"}

ResumeOrCancel ==
    \/ \E status \in Direction :
         /\ Open("encryption")
         /\ IF Underway THEN UNCHANGED seTask ELSE Perform(StatusSteps(status), "encryption")
    \/ UNCHANGED <<seWizard, seTask>>

\* SwitchWizardToSysEncMode
SwitchToSystemMode ==
    IF seOs.mounted \/ EncryptionOrDecryptionRequired
    THEN IF FullyEncrypted THEN UNCHANGED <<seWizard, seTask>> ELSE ResumeOrCancel
    ELSE Open("keys") /\ UNCHANGED seTask

\* The drive is not mounted: the pretest has failed. It is retried, given up, or, while a
\* hidden system is being created, put off.
AskWhetherToRetry ==
    \/ Perform(RegisterSteps, "closed") /\ Open("busy")
    \/ Remove("terminate") /\ Open("busy")
    \/ seDisk.phase # "none" /\ UNCHANGED <<seWizard, seTask>>

HandlePretest ==
    IF seOs.mounted
    THEN /\ IF seDisk.phase = "none" THEN Open("pretest") ELSE UNCHANGED seWizard
         /\ UNCHANGED seTask
    ELSE AskWhetherToRetry

LaunchWizard(command) ==
    /\ Idle /\ seWizard.page = "closed" /\ MayLaunch(command)
    /\ IF command = "decrypt" THEN LaunchToDecrypt
       ELSE /\ UNCHANGED seOs
            /\ IF Underway /\ ~seOs.mounted /\ ~seOs.filter
               THEN Open("busy") /\ Perform(<<"startup off">> \o StatusSteps("none"), "closed")
               ELSE IF Underway /\ ~seOs.mounted /\ command # "none" THEN UNCHANGED <<seWizard, seTask>>
               ELSE IF seConfig.status = "pretest" THEN HandlePretest
               ELSE IF command \in {"startup", "resume"}
               THEN IF EncryptionOrDecryptionRequired THEN ResumeOrCancel ELSE UNCHANGED <<seWizard, seTask>>
               ELSE IF command = "encrypt"
               THEN IF FullyEncrypted THEN UNCHANGED <<seWizard, seTask>>
                    ELSE IF EncryptionOrDecryptionRequired
                    THEN Open("encryption") /\ Perform(StatusSteps("encrypting"), "encryption")
                    ELSE SwitchToSystemMode
               ELSE IF Underway
               THEN (Open("encryption") \/ Open("intro")) /\ UNCHANGED seTask
               ELSE IF seConfig.status = "none" /\ seOs.mounted /\ seDisk.length = 0
               THEN Open("force") /\ UNCHANGED seTask
               ELSE Open("intro") /\ UNCHANGED seTask
    /\ UNCHANGED <<seDisk, seBackup, seRescue, seRegistry, seGood, seConfig, seFaults>>

\* Whatever the driver is doing is aborted, the drive decrypted, if only to remove the header,
\* and the loader and the driver are removed.
ForceRemoveSysEnc ==
    /\ Idle /\ seWizard.page = "force"
    /\ seOs' = [seOs EXCEPT !.setup = IF seOs.mounted THEN "decrypt" ELSE "none"]
    /\ Open("forced")
    /\ UNCHANGED <<seDisk, seBackup, seRescue, seRegistry, seGood, seConfig, seTask, seFaults>>
ForceDeinstall ==
    /\ Idle /\ seWizard.page = "forced" /\ seOs.setup = "none" /\ Removable
    /\ Remove("intro")
    /\ UNCHANGED <<seDisk, seBackup, seRescue, seRegistry, seGood, seConfig, seOs, seWizard, seFaults>>

ChooseSystemMode ==
    /\ Idle /\ seWizard.page = "intro" /\ SwitchToSystemMode
    /\ UNCHANGED <<seDisk, seBackup, seRescue, seRegistry, seGood, seConfig, seOs, seFaults>>

\* PrepareInstallation, with BackupSystemLoader, which leaves the backup alone when a
\* loader of TrueCrypt is found anywhere in the track.
LoaderFound == seDisk.mbr = "loader" \/ seDisk.loader = "loader"

\* CreateVolumeHeader: a key nobody has seen, and a password.
NewHeaders ==
    [key : Keys \ ({rescue.key : rescue \in seRescue} \cup {seDisk.header}), password : Passwords]
\* BootEncryption::CreateRescueIsoImage: the loader and a header as of a fully encrypted drive.
RescueImage(header, password) == [key |-> header, password |-> password]

\* A bug: a Rescue Disk made for an earlier key is taken for one with the new key.
FaultyPrepareInstallation ==
    /\ Idle /\ seWizard.page = "keys" /\ ~seOs.mounted
    /\ seBackup' = IF LoaderFound THEN seBackup ELSE "system"
    /\ \E header \in NewHeaders : seWizard' = [key |-> header.key, password |-> header.password, page |-> IF seRescue = {} THEN "rescue" ELSE "ready"]
    /\ UNCHANGED <<seDisk, seRescue, seRegistry, seGood, seConfig, seOs, seTask, seFaults>>

PrepareInstallation ==
    /\ Idle /\ seWizard.page = "keys" /\ ~seOs.mounted
    /\ seBackup' = IF LoaderFound THEN seBackup ELSE "system"
    /\ \E header \in NewHeaders : seWizard' = [key |-> header.key, password |-> header.password, page |-> "rescue"]
    /\ UNCHANGED <<seDisk, seRescue, seRegistry, seGood, seConfig, seOs, seTask, seFaults>>

\* The image of a Rescue Disk is made, to be burned.
CreateRescueIsoImage ==
    /\ Idle /\ seWizard.page = "rescue" /\ seWizard' = [seWizard EXCEPT !.page = "burn"]
    /\ UNCHANGED <<seDisk, seBackup, seRescue, seRegistry, seGood, seConfig, seOs, seTask, seFaults>>

\* The disk is found in a drive with all that the image has; or the user declines, to keep the
\* image. Without either the page stays, and its button back is disabled.
VerifyRescueDisk ==
    /\ Idle /\ seWizard.page = "burn" /\ seWizard' = [seWizard EXCEPT !.page = "ready"]
    /\ seRescue' = seRescue \cup {RescueImage(seWizard.key, seWizard.password)}
    /\ UNCHANGED <<seDisk, seBackup, seRegistry, seGood, seConfig, seOs, seTask, seFaults>>

GoBack ==
    /\ Idle /\ seWizard.page = "rescue" /\ seWizard' = [seWizard EXCEPT !.page = "keys"]
    /\ UNCHANGED <<seDisk, seBackup, seRescue, seRegistry, seGood, seConfig, seOs, seTask, seFaults>>

Install ==
    /\ Idle /\ seWizard.page = "ready" /\ ~seOs.mounted
    /\ Perform(LoaderSteps \o RegisterSteps, "pretest")
    /\ UNCHANGED <<seDisk, seBackup, seRescue, seRegistry, seGood, seConfig, seOs, seWizard, seFaults>>

\* Next on the page with the result of the pretest.
BeginEncryption ==
    /\ Idle /\ seWizard.page = "pretest"
    /\ Perform(StatusSteps("encrypting"), "encryption")
    /\ UNCHANGED <<seDisk, seBackup, seRescue, seRegistry, seGood, seConfig, seOs, seWizard, seFaults>>

-----------------------------------------------------------------------------
(* The page that controls encryption and decryption: AfterSysEncProgressWMInitTasks, and
   SysEncResume. *)
ShowEncryptionPage ==
    /\ Idle /\ seWizard.page = "encryption"
    /\ IF ~Underway
       THEN Open("busy") /\ Perform(<<"startup off">> \o StatusSteps("none"), "closed") /\ UNCHANGED seOs
       ELSE IF seConfig.status = "encrypting"
       THEN /\ ~AppearsComplete
            /\ seOs' = [seOs EXCEPT !.setup = IF @ = "none" THEN "encrypt" ELSE @]
            /\ Open("progress") /\ UNCHANGED seTask
       ELSE /\ seOs' = [seOs EXCEPT !.setup = IF seOs.mounted /\ @ = "none" THEN "decrypt" ELSE @]
            /\ Open("progress") /\ UNCHANGED seTask
    /\ UNCHANGED <<seDisk, seBackup, seRescue, seRegistry, seGood, seConfig, seFaults>>

\* Nothing is left to encrypt: found when the page is shown or when the driver has stopped.
FinishEncryption ==
    /\ Idle /\ seWizard.page \in {"encryption", "progress"} /\ seConfig.status = "encrypting"
    /\ seOs.setup = "none" /\ AppearsComplete
    /\ Perform(<<"startup off", "wipe phase">> \o StatusSteps("none"), "finished")
    /\ Open("busy")
    /\ UNCHANGED <<seDisk, seBackup, seRescue, seRegistry, seGood, seConfig, seOs, seFaults>>

FinishDecryption ==
    /\ Idle /\ seWizard.page = "progress" /\ seConfig.status = "decrypting"
    /\ seOs.setup = "none"
    /\ ~(seOs.mounted /\ seDisk.length > 0)
    /\ IF Removable THEN Remove("decrypted")
       ELSE Perform(<<"startup off">> \o StatusSteps("none"), "finished")
    /\ Open("busy")
    /\ UNCHANGED <<seDisk, seBackup, seRescue, seRegistry, seGood, seConfig, seOs, seFaults>>

\* Pausing (SysEncPause), after which it may be resumed, and deferring.
PauseSetup ==
    /\ Idle /\ seWizard.page = "progress" /\ seOs.setup # "none"
    /\ seOs' = [seOs EXCEPT !.setup = "none"]
    /\ \/ Open("encryption") \/ seWizard' = Closed
    /\ UNCHANGED <<seDisk, seBackup, seRescue, seRegistry, seGood, seConfig, seTask, seFaults>>

CloseWizard ==
    /\ Idle /\ seWizard.page \in {"intro", "keys", "rescue", "burn", "ready", "pretest", "encryption", "finished"}
    /\ seWizard' = Closed
    /\ UNCHANGED <<seDisk, seBackup, seRescue, seRegistry, seGood, seConfig, seOs, seTask, seFaults>>

\* The setup thread of the driver. Having decrypted all, it removes the header and dismounts.
SetupStep ==
    /\ seOs.setup # "none" /\ seOs.mounted
    /\ IF seOs.setup = "encrypt"
       THEN /\ seDisk' = IF seDisk.length = Area THEN seDisk
                         ELSE [seDisk EXCEPT !.length = @ + 1, !.key = seDisk.header]
            /\ seOs' = [seOs EXCEPT !.setup = IF seDisk'.length = Area THEN "none" ELSE @]
       ELSE IF seDisk.length > 0
       THEN seDisk' = [seDisk EXCEPT !.length = @ - 1, !.key = IF seDisk.length = 1 THEN 0 ELSE @]
            /\ UNCHANGED seOs
       ELSE /\ seDisk' = [seDisk EXCEPT !.header = 0, !.password = NoPassword]
            /\ seOs' = [seOs EXCEPT !.setup = "none", !.mounted = FALSE, !.password = NoPassword]
    /\ UNCHANGED <<seBackup, seRescue, seRegistry, seGood, seConfig, seWizard, seTask, seFaults>>

-----------------------------------------------------------------------------
(* The main application. It leaves the system drive to an instance of the wizard that has
   the mutex, and to the driver while that encrypts or decrypts. *)
\* A bug: only what the wizard has recorded is looked at.
FaultySystemChangeable == Idle /\ seWizard.page = "closed" /\ seOs.mounted /\ ~Underway

SystemChangeable ==
    /\ Idle /\ seWizard.page = "closed" /\ seOs.mounted
    /\ ~EncryptionOrDecryptionRequired /\ seOs.setup = "none"

ChangeSysEncPassword ==
    /\ SystemChangeable /\ Open("password")
    /\ UNCHANGED <<seDisk, seBackup, seRescue, seRegistry, seGood, seConfig, seOs, seTask, seFaults>>

\* OK in the dialog, with the password that opens the header, or cancel.
ChangePassword ==
    /\ Idle /\ seWizard.page = "password"
    /\ \/ /\ \E password \in Passwords \ {seDisk.password} : seWizard' = [seWizard EXCEPT !.password = password]
          /\ Perform(RewriteSteps, "closed")
       \/ seWizard' = Closed /\ UNCHANGED seTask
    /\ UNCHANGED <<seDisk, seBackup, seRescue, seRegistry, seGood, seConfig, seOs, seFaults>>

CreateRescueDisk ==
    /\ SystemChangeable
    /\ seRescue' = seRescue \cup {RescueImage(seDisk.header, seDisk.password)}
    /\ UNCHANGED <<seDisk, seBackup, seRegistry, seGood, seConfig, seOs, seWizard, seTask, seFaults>>

Next ==
    \/ \E password, lastKnownGood \in BOOLEAN : Boot(password, lastKnownGood)
    \/ UseRescueDisk \/ PowerOff \/ WizardDies \/ LoseStatusFile \/ Step
    \/ \E command \in Commands : LaunchWizard(command)
    \/ ForceRemoveSysEnc \/ ForceDeinstall \/ ChooseSystemMode \/ PrepareInstallation \/ CreateRescueIsoImage \/ VerifyRescueDisk
    \/ GoBack
    \/ Install \/ BeginEncryption \/ ShowEncryptionPage \/ FinishEncryption \/ FinishDecryption
    \/ PauseSetup \/ CloseWizard \/ SetupStep
    \/ ChangeSysEncPassword \/ ChangePassword \/ CreateRescueDisk

-----------------------------------------------------------------------------
\* Type invariant.
TypeOK ==
    /\ seDisk.length \in 0..Area /\ (seDisk.length = 0) <=> (seDisk.key = 0)
    /\ {seDisk.key, seDisk.header} \subseteq Keys \cup {0} /\ (seDisk.header = 0) <=> (seDisk.password = NoPassword)
    /\ seRescue \subseteq [key : Keys, password : Passwords]
    /\ seOs.mounted \/ seOs.setup # "none" => seOs.on /\ seOs.filter
    /\ ~seOs.on => seWizard = Closed /\ seTask = NoTask

\* As long as anything is encrypted, whatever has failed or crashed: the header in the first
\* track and a Rescue Disk, from which the drive can be started even without the loader,
\* have the key, and Windows will load the driver.
EncryptedUsable ==
    seDisk.length > 0 =>
        /\ seDisk.header = seDisk.key /\ \E rescue \in seRescue : rescue.key = seDisk.key
        /\ seRegistry = [start |-> "boot", filter |-> TRUE]

\* The filter is never registered without the driver being started at boot, in either
\* configuration (a disk whose filter is not loaded cannot be booted from), and what is
\* restored is never the loader of TrueCrypt.
SystemStarts ==
    /\ \A registry \in {seRegistry, seGood} : registry.filter => registry.start = "boot"
    /\ seBackup # "loader"

\* The driver rewrites the header, as it does while it encrypts or decrypts, with keys of the
\* password that the header has: whatever fails during a change of the password, the driver is
\* told, and neither changes the header while the other does.
HeaderKeysCurrent ==
    /\ seOs.mounted => seOs.password = seDisk.password \/ Rewriting
    /\ Rewriting => seOs.setup = "none"
=============================================================================
