---------------------------- MODULE VolumeWizard ----------------------------
(* The wizard that creates volumes (Format/Tcformat.c): its pages, the global flags they set,
   which outlive the page when the user goes back, and the thread that formats or encrypts
   while the pages go on working.

   The pages from the random data for system encryption onwards belong to SystemEncryption,
   what the thread does to a volume to VolumeFormatting and InPlaceEncryption. Questions a
   page asks before it goes on are left out where refusing changes nothing. *)
EXTENDS Integers

CONSTANTS
    File,           \* the path of a container
    Partition,      \* a partition other than the system one
    HiddenPartition \* the partition for the hidden system (GetPartitionForHiddenOS)

VARIABLES
    vwPage,     \* nCurPageNo
    vwMode,     \* WizardMode
    vwFlags,    \* bHiddenVol, bHiddenVolHost, bHiddenVolDirect, bHiddenVolFinished, bHiddenOS,
                \* bInPlaceEncNonSys, bInPlaceEncNonSysResumed, bWholeSysDrive
    vwTarget,   \* [path, size]: szDiskFile and nVolumeSize
    vwHost,     \* [drive, scanned]: hiddenVolHostDriveNo, as the path mounted, and the path
                \* for which nMaximumHiddenVolSize has been found
    vwThread,   \* [state, cancel, asking]: the thread, bVolTransformThreadCancel, and whether
                \* the user is being asked to confirm that the thread be stopped
    vwVolumes   \* what is stored at each path

vwVars == <<vwPage, vwMode, vwFlags, vwTarget, vwHost, vwThread, vwVolumes>>

Devices == {Partition, HiddenPartition}
Paths == {File} \cup Devices
NoFlags == [hidden |-> FALSE, host |-> FALSE, direct |-> FALSE, finished |-> FALSE, hiddenOS |-> FALSE,
            inPlace |-> FALSE, resumed |-> FALSE, whole |-> FALSE]
NoTarget == [path |-> "none", size |-> "none"]
NoHost == [drive |-> "none", scanned |-> "none"]
NoThread == [state |-> "idle", cancel |-> FALSE, asking |-> FALSE]

Init ==
    /\ vwPage = "closed" /\ vwMode = "file" /\ vwFlags = NoFlags
    /\ vwTarget = NoTarget /\ vwHost = NoHost /\ vwThread = NoThread
    /\ vwVolumes = [p \in Paths |-> "data"]

Inner == vwFlags.hidden /\ ~vwFlags.host
CreatingHiddenSysVol == vwFlags.hiddenOS /\ Inner
SysEncInEffect == vwMode = "system" \/ CreatingHiddenSysVol
ThreadActive == vwThread.state \in {"toRun", "running"}

\* The page takes a command: no message box is open, and the buttons are enabled.
At(page) == vwPage = page /\ ~vwThread.asking /\ ~ThreadActive
Stay == UNCHANGED vwPage

\* A bug: the path chosen in another mode is kept.
FaultyChangeMode(mode, flags) ==
    /\ vwMode' = mode /\ UNCHANGED vwTarget
    /\ vwFlags' = IF mode # vwMode /\ mode # "device" THEN [flags EXCEPT !.inPlace = FALSE] ELSE flags

\* ChangeWizardMode
ChangeMode(mode, flags) ==
    /\ vwMode' = mode
    /\ vwFlags' = IF mode # vwMode /\ mode # "device" THEN [flags EXCEPT !.inPlace = FALSE] ELSE flags
    /\ vwTarget' = IF mode = vwMode THEN vwTarget ELSE NoTarget

\* The page on which the type of system encryption is chosen, and what showing it sets.
ToSystemType(flags) ==
    /\ vwPage' = "sysType"
    /\ ChangeMode("system", [flags EXCEPT !.host = flags.hiddenOS, !.hidden = flags.hiddenOS])

\* A click on a radio button takes effect at once.
Set(page, flags) ==
    /\ At(page) /\ vwFlags' = flags
    /\ UNCHANGED <<vwPage, vwMode, vwTarget, vwHost, vwThread, vwVolumes>>

Go(page, next) ==
    /\ At(page) /\ vwPage' = next
    /\ UNCHANGED <<vwMode, vwFlags, vwTarget, vwHost, vwThread, vwVolumes>>

-----------------------------------------------------------------------------
(* Start and end of the wizard. *)
Launch ==
    /\ vwPage = "closed"
    /\ \/ vwPage' = "intro" /\ UNCHANGED <<vwMode, vwFlags>>
       \/ /\ vwPage' = "resumePassword" /\ vwMode' = "device"
          /\ vwFlags' = [NoFlags EXCEPT !.inPlace = TRUE, !.resumed = TRUE]
    /\ UNCHANGED <<vwTarget, vwHost, vwThread, vwVolumes>>

\* The process ends; a thread creating a volume ends with it.
Reset(volumes) ==
    /\ vwPage' = "closed" /\ vwMode' = "file" /\ vwFlags' = NoFlags
    /\ vwTarget' = NoTarget /\ vwHost' = NoHost /\ vwThread' = NoThread
    /\ vwVolumes' = volumes

Quit ==
    /\ vwPage # "closed" /\ ~vwThread.asking
    /\ Reset(IF vwThread.state = "running" /\ vwPage = "format" /\ ~Inner
             THEN [vwVolumes EXCEPT ![vwTarget.path] = "damaged"] ELSE vwVolumes)

-----------------------------------------------------------------------------
(* The pages of the modes, and those of system encryption. *)
ChooseWizardMode(mode) ==
    /\ At("intro")
    /\ IF mode = "system"
       THEN ToSystemType([vwFlags EXCEPT !.hidden = FALSE, !.inPlace = FALSE])
       ELSE /\ vwPage' = "type"
            /\ ChangeMode(mode, [vwFlags EXCEPT !.hiddenOS = FALSE, !.inPlace = mode = "device" /\ @])
    /\ UNCHANGED <<vwHost, vwThread, vwVolumes>>

SetHiddenSystem(b) == Set("sysType", [vwFlags EXCEPT !.hiddenOS = b, !.hidden = b, !.host = b])

SystemTypeNext ==
    /\ At("sysType")
    /\ IF vwFlags.hiddenOS
       THEN vwPage' = "requirements" /\ vwFlags' = [vwFlags EXCEPT !.whole = FALSE, !.direct = FALSE]
       ELSE vwPage' = "span" /\ UNCHANGED vwFlags
    /\ UNCHANGED <<vwMode, vwTarget, vwHost, vwThread, vwVolumes>>

SetWholeDrive(b) == Set("span", [vwFlags EXCEPT !.whole = b])

\* The other pages about several operating systems only ask and refuse.
MultiBootNext ==
    /\ At("multiBoot")
    /\ IF vwFlags.hiddenOS
       THEN vwPage' = "hostPreCipher" /\ vwMode' = "device" /\ UNCHANGED vwFlags
            /\ vwTarget' = [NoTarget EXCEPT !.path = HiddenPartition]
       ELSE vwPage' = "cipher" /\ UNCHANGED <<vwMode, vwFlags, vwTarget>>
    /\ UNCHANGED <<vwHost, vwThread, vwVolumes>>

SystemPages ==
    \/ Go("requirements", "multiBoot")
    \/ Go("span", IF vwFlags.whole THEN "analysis" ELSE "multiBoot")
    \/ Go("analysis", "multiBoot") \/ Go("sysType", "intro") \/ Go("analysis", "span")
    \/ Go("multiBoot", IF vwFlags.hiddenOS THEN "requirements" ELSE IF vwFlags.whole THEN "analysis" ELSE "span")
    \/ /\ At("requirements") \/ At("span")
       /\ ToSystemType(vwFlags) /\ UNCHANGED <<vwHost, vwThread, vwVolumes>>

-----------------------------------------------------------------------------
(* The pages of a volume: its type, place, size and password. *)
SetHiddenVolume(b) ==
    Set("type", [vwFlags EXCEPT !.hidden = b, !.host = b, !.inPlace = @ /\ ~b])

TypeNext ==
    /\ At("type")
    /\ IF vwFlags.hidden
       THEN vwPage' = "wizardMode" /\ vwFlags' = [vwFlags EXCEPT !.host = TRUE, !.inPlace = FALSE]
       ELSE vwPage' = "location" /\ vwFlags' = [vwFlags EXCEPT !.host = FALSE, !.direct = FALSE]
    /\ UNCHANGED <<vwMode, vwTarget, vwHost, vwThread, vwVolumes>>

SetDirect(b) == Set("wizardMode", [vwFlags EXCEPT !.direct = b])

SelectPath(path) ==
    /\ At("location") /\ path \in (IF vwMode = "device" THEN Devices ELSE {File})
    /\ vwTarget' = [vwTarget EXCEPT !.path = path]
    /\ vwFlags' = [vwFlags EXCEPT !.inPlace = FALSE]
    /\ UNCHANGED <<vwPage, vwMode, vwHost, vwThread, vwVolumes>>

LocationNext ==
    /\ At("location") /\ vwTarget.path # "none" /\ vwTarget.path # vwHost.drive
    /\ vwPage' = IF vwFlags.direct /\ vwFlags.host THEN "hostPassword"
                 ELSE IF vwFlags.hidden THEN (IF vwFlags.host THEN "hostPreCipher" ELSE "hiddenPreCipher")
                 ELSE IF vwMode = "file" THEN "cipher" ELSE "transform"
    /\ UNCHANGED <<vwMode, vwFlags, vwTarget, vwHost, vwThread, vwVolumes>>

\* A device has been selected in the mode for containers, or the system partition in the
\* one for devices.
LocationSwitch ==
    /\ At("location")
    /\ IF vwMode = "file" THEN vwPage' = "type" /\ ChangeMode("device", vwFlags)
       ELSE IF vwFlags.hidden THEN ToSystemType(vwFlags)
       ELSE vwPage' = "multiBoot" /\ ChangeMode("system", [vwFlags EXCEPT !.whole = FALSE])
    /\ UNCHANGED <<vwHost, vwThread, vwVolumes>>

SetInPlace(b) ==
    Set("transform", IF b THEN [vwFlags EXCEPT !.inPlace = TRUE, !.hidden = FALSE, !.direct = FALSE, !.host = FALSE]
                     ELSE [vwFlags EXCEPT !.inPlace = FALSE])

TransformNext ==
    /\ At("transform") /\ vwPage' = "cipher"
    /\ vwTarget' = IF vwFlags.inPlace THEN [vwTarget EXCEPT !.size = "device"] ELSE vwTarget
    /\ UNCHANGED <<vwMode, vwFlags, vwHost, vwThread, vwVolumes>>

\* The pages before the choice of the ciphers for an outer and for a hidden volume.
HostPreCipherBack ==
    /\ At("hostPreCipher")
    /\ IF vwFlags.hiddenOS THEN vwPage' = "multiBoot" /\ ChangeMode("system", vwFlags)
       ELSE vwPage' = "location" /\ UNCHANGED <<vwMode, vwFlags, vwTarget>>
    /\ UNCHANGED <<vwHost, vwThread, vwVolumes>>

ToHiddenPreCipher ==
    /\ vwPage' = "hiddenPreCipher"
    /\ vwTarget' = [vwTarget EXCEPT !.size = IF vwFlags.hiddenOS THEN "system" ELSE "none"]

\* The page with the size has that of the device (QueryFreeSpace), except for a hidden volume.
ShownSize == IF vwMode = "device" /\ ~Inner THEN "device" ELSE vwTarget.size

CipherNext ==
    /\ At("cipher")
    /\ IF SysEncInEffect \/ vwFlags.inPlace THEN vwPage' = "password" /\ UNCHANGED vwTarget
       ELSE vwPage' = "size" /\ vwTarget' = [vwTarget EXCEPT !.size = ShownSize]
    /\ UNCHANGED <<vwMode, vwFlags, vwHost, vwThread, vwVolumes>>

CipherBack ==
    Go("cipher", IF vwMode = "system" THEN "multiBoot"
                 ELSE IF ~vwFlags.hidden THEN (IF vwMode = "device" THEN "transform" ELSE "location")
                 ELSE IF vwFlags.host THEN "hostPreCipher" ELSE "hiddenPreCipher")

\* VerifySizeAndUpdate lets a size pass that a container may have, or that fits in the
\* largest hidden volume.
VerifiedSize == IF Inner THEN "inner" ELSE IF vwMode = "file" THEN "container" ELSE vwTarget.size

SizeNext ==
    /\ At("size") /\ vwPage' = "password" /\ vwTarget' = [vwTarget EXCEPT !.size = VerifiedSize]
    /\ UNCHANGED <<vwMode, vwFlags, vwHost, vwThread, vwVolumes>>

PasswordNext ==
    \E next \in (IF vwFlags.inPlace THEN {"random"}
                 ELSE IF CreatingHiddenSysVol THEN {"format"}
                 ELSE IF SysEncInEffect THEN {"system"} ELSE {"fileSystem", "format"}) :
        Go("password", next)

VolumePagesNext ==
    \/ Go("wizardMode", "location") \/ Go("hostPreCipher", "cipher") \/ Go("hiddenPreCipher", "cipher")
    \/ Go("fileSystem", "format") \/ Go("random", "inPlace")

VolumePagesBack ==
    \/ Go("type", "intro") \/ Go("wizardMode", "type") \/ Go("transform", "location")
    \/ Go("location", IF vwFlags.hidden THEN "wizardMode" ELSE "type")
    \/ Go("size", "cipher") \/ Go("fileSystem", "password") \/ Go("system", "password")
    \/ Go("password", IF SysEncInEffect \/ vwFlags.inPlace THEN "cipher" ELSE "size")
    \/ Go("random", "password") \/ (~vwFlags.resumed /\ Go("inPlace", "random"))
    \/ Go("format", "password") \/ (~CreatingHiddenSysVol /\ Go("format", "fileSystem"))
    \/ Go("hostPassword", "location") \/ Go("select", "resumePassword")

-----------------------------------------------------------------------------
(* The volume that is to hold a hidden one is mounted read-only and its free clusters are
   counted; then it is dismounted. *)
Dismounted == vwHost.drive \in {"none", "failed"}

\* The result: not mounted, not suitable, not dismounted for the user gives up, or scanned.
\* The page of a newly created outer volume leaves one that is not suitable mounted.
Examine(page, mounted) ==
    \/ mounted = "failed" /\ Stay /\ vwHost' = [vwHost EXCEPT !.drive = "failed"] /\ UNCHANGED <<vwFlags, vwTarget>>
    \/ /\ mounted # "failed"
       /\ \/ /\ Stay /\ UNCHANGED <<vwFlags, vwTarget>>
             /\ vwHost' \in {[vwHost EXCEPT !.drive = mounted], [drive |-> mounted, scanned |-> mounted]}
                \cup (IF page = "hostPassword" THEN {[vwHost EXCEPT !.drive = "none"]} ELSE {})
          \/ /\ vwHost' = [drive |-> "none", scanned |-> mounted]
             /\ vwFlags' = [vwFlags EXCEPT !.host = FALSE, !.finished = FALSE]
             /\ ToHiddenPreCipher

\* Next on the page for the password of an existing outer volume.
HostPasswordNext ==
    /\ At("hostPassword")
    /\ \E mounted \in {"failed"} \cup (IF vwVolumes[vwTarget.path] \in {"outer", "both"}
                                       THEN {vwTarget.path} ELSE {}) :
         \/ Examine("hostPassword", mounted)
         \/ ~Dismounted /\ UNCHANGED <<vwPage, vwFlags, vwTarget, vwHost>>
    /\ UNCHANGED <<vwMode, vwThread, vwVolumes>>

\* Next on the page shown when a volume has been created. After an outer volume, its drive
\* is dismounted and mounted again; a failed mounting leaves no drive that could be
\* dismounted the next time.
FormatFinishedNext ==
    /\ At("formatFinished")
    /\ IF ~vwFlags.hidden \/ vwFlags.finished
       THEN /\ IF vwFlags.hiddenOS
               THEN /\ ChangeMode("system", [vwFlags EXCEPT !.hidden = FALSE, !.finished = FALSE])
                    /\ vwPage' = "pretest"
               ELSE /\ vwPage' = "intro" /\ vwFlags' = [vwFlags EXCEPT !.finished = FALSE]
                    /\ UNCHANGED <<vwMode, vwTarget>>
            /\ UNCHANGED vwHost
       ELSE /\ vwHost.drive # "failed"
            /\ \E mounted \in {"failed", vwTarget.path} : Examine("formatFinished", mounted)
            /\ UNCHANGED vwMode
    /\ UNCHANGED <<vwThread, vwVolumes>>

\* PrepareHiddenOSCreation fails, after the mode has been changed.
PrepareFails ==
    /\ At("formatFinished") /\ vwFlags.hidden /\ vwFlags.finished /\ vwFlags.hiddenOS
    /\ ChangeMode("system", vwFlags)
    /\ UNCHANGED <<vwPage, vwHost, vwThread, vwVolumes>>

FormatFinishedBack ==
    /\ ~vwFlags.hidden \/ vwFlags.finished
    /\ ~vwFlags.hiddenOS /\ ~vwFlags.inPlace
    /\ Go("formatFinished", "format")

-----------------------------------------------------------------------------
(* Encryption in place that was interrupted: the volumes that the password fits are found. *)
ResumePasswordNext ==
    /\ At("resumePassword")
    /\ \E found \in SUBSET {p \in Devices : vwVolumes[p] = "partial"} :
         IF found = {} THEN UNCHANGED <<vwPage, vwTarget>>
         ELSE IF \E p \in found : found = {p}
         THEN vwPage' = "inPlace" /\ vwTarget' = [path |-> CHOOSE p \in found : TRUE, size |-> "device"]
         ELSE vwPage' = "select" /\ UNCHANGED vwTarget
    /\ UNCHANGED <<vwMode, vwFlags, vwHost, vwThread, vwVolumes>>

SelectPartition ==
    /\ At("select") /\ vwPage' = "inPlace"
    /\ \E p \in Devices : vwVolumes[p] = "partial" /\ vwTarget' = [path |-> p, size |-> "device"]
    /\ UNCHANGED <<vwMode, vwFlags, vwHost, vwThread, vwVolumes>>

-----------------------------------------------------------------------------
(* The thread. *)
FormatNext ==
    /\ At("format") /\ vwThread' = [vwThread EXCEPT !.state = "toRun", !.cancel = FALSE]
    /\ vwHost' = IF vwFlags.host THEN NoHost ELSE vwHost
    /\ UNCHANGED <<vwPage, vwMode, vwFlags, vwTarget, vwVolumes>>

\* NonSysInplaceEncResume: nothing happens while the flag of a pause is still set.
InPlaceNext ==
    /\ At("inPlace") /\ ~vwThread.cancel
    /\ vwThread' = [vwThread EXCEPT !.state = "toRun"]
    /\ UNCHANGED <<vwPage, vwMode, vwFlags, vwTarget, vwHost, vwVolumes>>

Run ==
    /\ vwThread.state = "toRun" /\ vwThread' = [vwThread EXCEPT !.state = "running"]
    /\ UNCHANGED <<vwPage, vwMode, vwFlags, vwTarget, vwHost, vwVolumes>>

Stopped == vwThread' = [vwThread EXCEPT !.state = "idle", !.cancel = FALSE]

\* The user refuses the last questions, stops the thread, or it fails. An outer volume may
\* have been created and mounted before the request to stop is seen.
TransformEnds ==
    /\ vwThread.state = "running" /\ vwPage = "format" /\ Stopped
    /\ \E after \in {vwVolumes[vwTarget.path]} \cup (IF Inner THEN {} ELSE {"damaged", "outer"}) :
         /\ vwVolumes' = [vwVolumes EXCEPT ![vwTarget.path] = after]
         /\ vwHost' \in {vwHost} \cup (IF vwFlags.host /\ vwThread.cancel /\ after = "outer"
                                       THEN {[vwHost EXCEPT !.drive = vwTarget.path]} ELSE {})
    /\ UNCHANGED <<vwPage, vwMode, vwFlags, vwTarget>>

\* The volume has been created; an outer one is mounted, or else the wizard ends.
TransformSucceeds ==
    /\ vwThread.state = "running" /\ vwPage = "format"
    /\ LET volumes == [vwVolumes EXCEPT ![vwTarget.path] = IF Inner THEN "both" ELSE "outer"] IN
       \/ /\ vwFlags.host => ~vwThread.cancel
          /\ Stopped /\ vwPage' = "formatFinished" /\ vwVolumes' = volumes
          /\ vwFlags' = IF vwFlags.host THEN [vwFlags EXCEPT !.host = FALSE, !.finished = FALSE]
                        ELSE IF vwFlags.hidden THEN [vwFlags EXCEPT !.finished = TRUE] ELSE vwFlags
          /\ vwHost' = IF vwFlags.host THEN [vwHost EXCEPT !.drive = vwTarget.path] ELSE vwHost
          /\ UNCHANGED <<vwMode, vwTarget>>
       \/ vwFlags.host /\ ~vwThread.asking /\ Reset([volumes EXCEPT ![File] = IF @ = vwVolumes[File] THEN @ ELSE "damaged"])

\* EncryptPartitionInPlaceBegin has made the volume one that can be resumed.
InPlaceBegins ==
    /\ vwThread.state = "running" /\ vwPage = "inPlace" /\ ~vwFlags.resumed
    /\ vwVolumes' = [vwVolumes EXCEPT ![vwTarget.path] = "partial"]
    /\ vwFlags' = [vwFlags EXCEPT !.resumed = TRUE]
    /\ UNCHANGED <<vwPage, vwMode, vwTarget, vwHost, vwThread>>

InPlaceEnds ==
    /\ vwThread.state = "running" /\ vwPage = "inPlace" /\ Stopped
    /\ \/ UNCHANGED <<vwPage, vwVolumes>>
       \/ /\ vwFlags.resumed /\ vwPage' = "inPlaceFinished"
          /\ vwVolumes' = [vwVolumes EXCEPT ![vwTarget.path] = "outer"]
    /\ UNCHANGED <<vwMode, vwFlags, vwTarget, vwHost>>

\* Abort asks first, while the thread goes on, and pausing waits for the thread: between a
\* look at the thread and the setting of the flag it may have ended (NonSysInplaceEncPause).
AskToStop ==
    /\ ThreadActive /\ ~vwThread.asking /\ vwThread' = [vwThread EXCEPT !.asking = TRUE]
    /\ UNCHANGED <<vwPage, vwMode, vwFlags, vwTarget, vwHost, vwVolumes>>

ConfirmStop ==
    /\ vwThread.asking
    /\ vwThread' \in {[vwThread EXCEPT !.asking = FALSE, !.cancel = c] : c \in {TRUE, vwThread.cancel}}
    /\ UNCHANGED <<vwPage, vwMode, vwFlags, vwTarget, vwHost, vwVolumes>>

Next ==
    \/ Launch \/ Quit \/ \E mode \in {"file", "device", "system"} : ChooseWizardMode(mode)
    \/ \E b \in BOOLEAN : \/ SetHiddenSystem(b) \/ SetWholeDrive(b) \/ SetHiddenVolume(b)
                          \/ SetDirect(b) \/ SetInPlace(b)
    \/ SystemTypeNext \/ MultiBootNext \/ SystemPages \/ TypeNext
    \/ \E path \in Paths : SelectPath(path)
    \/ LocationNext \/ LocationSwitch \/ TransformNext \/ HostPreCipherBack \/ CipherNext \/ CipherBack
    \/ SizeNext \/ PasswordNext \/ VolumePagesNext \/ VolumePagesBack
    \/ HostPasswordNext \/ FormatFinishedNext
    \/ PrepareFails \/ FormatFinishedBack \/ ResumePasswordNext \/ SelectPartition
    \/ FormatNext \/ InPlaceNext \/ Run \/ TransformEnds \/ TransformSucceeds
    \/ InPlaceBegins \/ InPlaceEnds \/ AskToStop \/ ConfirmStop

-----------------------------------------------------------------------------
\* Type invariant.
TypeOK ==
    /\ vwMode \in {"file", "device", "system"} /\ vwTarget.path \in Paths \cup {"none"}
    /\ vwHost.drive \in Paths \cup {"none", "failed"} /\ vwHost.scanned \in Paths \cup {"none"}
    /\ ThreadActive => vwPage \in {"format", "inPlace"}

\* When the thread starts, whatever pages the user has gone back to before: a hidden volume
\* is created only in the volume that was scanned and is no longer mounted, with a size that
\* fits; what is resumed has been begun; and the computer is prepared for a hidden system
\* only when its volume has been created where the loader looks for it.
TransformAsPlanned ==
    /\ vwThread.state = "running" /\ vwPage = "format" =>
         /\ ~vwFlags.inPlace /\ vwTarget.path # "none" /\ (vwTarget.path \in Devices <=> vwMode = "device")
         /\ Inner => /\ vwHost = [drive |-> "none", scanned |-> vwTarget.path]
                     /\ vwTarget.size \in {"inner", "system"} /\ vwVolumes[vwTarget.path] \in {"outer", "both"}
         /\ ~Inner => vwTarget.size \in {"device", "container"}
    /\ vwThread.state = "running" /\ vwPage = "inPlace" =>
         /\ vwFlags.inPlace /\ ~vwFlags.hidden /\ vwTarget.path \in Devices
         /\ vwFlags.resumed => vwVolumes[vwTarget.path] = "partial"
    /\ vwPage = "pretest" => vwVolumes[HiddenPartition] = "both"

\* The button that resumes the encryption works whenever no thread runs.
PausedCanResume == At("inPlace") => ~vwThread.cancel
=============================================================================
