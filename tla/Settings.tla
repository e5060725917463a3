------------------------------- MODULE Settings -------------------------------
(* The settings of the main application: Configuration.xml, which the Volume   *)
(* Creation Wizard writes too, the volume history, the system-wide hotkeys and *)
(* the entry in the system startup sequence.  Each process reads the file once *)
(* and keeps its own copy; whoever saves writes its own settings as it         *)
(* remembers them and, for the wizard, the other ones as it read them.         *)
(* (src/Mount/Mount.c, src/Mount/Hotkeys.c, src/Format/Tcformat.c,             *)
(* src/Common/Dlgcode.c, src/Common/Combo.c)                                   *)
EXTENDS Integers, FiniteSets

CONSTANTS Actions,     \* what a hotkey can be assigned to
          Combos,      \* key combinations
          Reserved,    \* combinations kept for the system
          MaxEvents    \* things the user and the other programs do

NoCombo == "none"
Unassigned == [a \in Actions |-> NoCombo]
Defaults == [history |-> FALSE, startup |-> FALSE, devices |-> FALSE, detect |-> FALSE,
             hotkeys |-> Unassigned]

VARIABLES file,        \* Configuration.xml
          names,       \* History.xml holds names of volumes
          run,         \* what the startup sequence launches: "devices" with /a devices
          main,        \* the main application: off, or the dialog in front
          mem,         \* its settings in memory
          neverBox,    \* "Never save history" is checked in its window
          combo,       \* its list of volumes holds a name
          tmpHotkeys,  \* the hotkeys being edited
          registered,  \* the combination registered for each action
          foreign,     \* combinations registered by other programs
          wizard,      \* the wizard: off, idle, or analysing the system drive
          wmem,        \* its settings in memory
          cache,       \* the configuration as it read it
          posted,      \* SYSENC_CONFIG_UPDATE is in the application's queue
          announced,   \* settings it was told of and that nobody has changed since
          raced,       \* the application saved before it got the message
          reverted,    \* the wizard wrote settings back that had been changed
          events
stVars == <<file, names, run, main, mem, neverBox, combo, tmpHotkeys, registered, foreign,
            wizard, wmem, cache, posted, announced, raced, reverted, events>>

Event == events < MaxEvents /\ events' = events + 1
Used(hotkeys) == {hotkeys[a] : a \in Actions} \ {NoCombo}
ShortcutInUse(c, hotkeys) == c \in Used(hotkeys)

----------------------------------------------------------------------------
(* Saving.  SaveSettings asks the dialog it is called from for the checkbox    *)
(* and the list, which only the main window has: from another dialog the box   *)
(* counts as not checked and the list as empty.                                *)
SaveSettings(m, inMainWindow) ==
  LET never == inMainWindow /\ neverBox
  IN /\ file' = [m EXCEPT !.history = ~never]
     /\ names' = (inMainWindow /\ ~never /\ combo)
     /\ raced' = (raced \/ posted)

(* ManageStartupSeq, with what the process knows of MountDevicesOnLogon *)
StartupSeq(startup, devices) ==
  IF ~startup /\ ~devices THEN "none" ELSE IF devices THEN "devices" ELSE "logon"

(* Each hotkey that is set is registered unless another program has it *)
RegisterAllHotkeys(hotkeys, old) ==
  [a \in Actions |-> IF hotkeys[a] = NoCombo THEN old[a]
                     ELSE IF hotkeys[a] \in foreign \cup {old[b] : b \in Actions \ {a}}
                          THEN old[a] ELSE hotkeys[a]]
UnregisterAllHotkeys(hotkeys) ==
  [a \in Actions |-> IF hotkeys[a] = NoCombo THEN registered[a] ELSE NoCombo]

----------------------------------------------------------------------------
(* The main application *)
StartMain ==
  /\ main = "off" /\ Event
  /\ main' = "window" /\ mem' = file /\ neverBox' = ~file.history
  /\ combo' = names
  /\ registered' = RegisterAllHotkeys(file.hotkeys, Unassigned)
  /\ UNCHANGED <<file, names, run, tmpHotkeys, foreign, wizard, wmem, cache, posted, announced,
                 raced, reverted>>

(* Selecting a volume puts its name in the list if the history is kept *)
SelectVolume ==
  /\ main = "window" /\ Event
  /\ combo' = mem.history
  /\ UNCHANGED <<file, names, run, main, mem, neverBox, tmpHotkeys, registered, foreign,
                 wizard, wmem, cache, posted, announced, raced, reverted>>

(* The checkbox: the history is deleted at once when it is no longer wanted *)
ToggleHistory ==
  /\ main = "window" /\ Event
  /\ neverBox' = ~neverBox
  /\ mem' = [mem EXCEPT !.history = neverBox]
  /\ IF neverBox THEN UNCHANGED <<names, combo>> ELSE names' = FALSE /\ combo' = FALSE
  /\ UNCHANGED <<file, run, main, tmpHotkeys, registered, foreign, wizard, wmem, cache, posted,
                 announced, raced, reverted>>

(* EndMainDlg; the application goes on without its window, or ends *)
EndMainDlg(ends) ==
  /\ main = "window" /\ Event
  /\ SaveSettings(mem, TRUE)
  /\ combo' = (mem.history /\ combo)
  /\ IF ends THEN main' = "off" /\ registered' = Unassigned /\ posted' = FALSE
             ELSE UNCHANGED <<main, registered, posted>>
  /\ UNCHANGED <<run, mem, neverBox, tmpHotkeys, foreign, wizard, wmem, cache, announced, reverted>>

(* The preferences: the boxes show the settings of when the dialog was opened *)
OpenPreferences ==
  /\ main = "window" /\ Event
  /\ main' = "preferences"
  /\ UNCHANGED <<file, names, run, mem, neverBox, combo, tmpHotkeys, registered, foreign,
                 wizard, wmem, cache, posted, announced, raced, reverted>>
PreferencesOK(startup, devices) ==
  /\ main = "preferences" /\ main' = "window"
  /\ mem' = [mem EXCEPT !.startup = startup, !.devices = devices]
  /\ run' = StartupSeq(startup, devices)
  /\ SaveSettings(mem', FALSE)
  /\ announced' = announced \ {"startup"}
  /\ UNCHANGED <<neverBox, combo, tmpHotkeys, registered, foreign, wizard, wmem, cache, posted,
                 reverted, events>>

(* The hotkeys dialog *)
OpenHotkeys ==
  /\ main = "window" /\ Event
  /\ main' = "hotkeys" /\ tmpHotkeys' = mem.hotkeys
  /\ UNCHANGED <<file, names, run, mem, neverBox, combo, registered, foreign,
                 wizard, wmem, cache, posted, announced, raced, reverted>>

(* A combination is tried out, unless it is one of those set at present *)
FaultyTaken(c) == ShortcutInUse(c, mem.hotkeys) \/ c \in Reserved
Taken(c) == ShortcutInUse(c, tmpHotkeys) \/ c \in Reserved
Free(c) == ShortcutInUse(c, mem.hotkeys) \/ c \notin foreign \cup Used(registered)
AssignHotkey(a, c) ==
  /\ main = "hotkeys" /\ Event
  /\ ~Taken(c) /\ Free(c)
  /\ tmpHotkeys' = [tmpHotkeys EXCEPT ![a] = c]
  /\ UNCHANGED <<file, names, run, main, mem, neverBox, combo, registered, foreign,
                 wizard, wmem, cache, posted, announced, raced, reverted>>
RemoveHotkeys(set) ==
  /\ main = "hotkeys" /\ Event
  /\ tmpHotkeys' = [a \in Actions |-> IF a \in set THEN NoCombo ELSE tmpHotkeys[a]]
  /\ UNCHANGED <<file, names, run, main, mem, neverBox, combo, registered, foreign,
                 wizard, wmem, cache, posted, announced, raced, reverted>>
FaultyHotkeysSet == tmpHotkeys
HotkeysSet == mem.hotkeys
HotkeysOK ==
  /\ main = "hotkeys" /\ main' = "window"
  /\ registered' = RegisterAllHotkeys(tmpHotkeys, UnregisterAllHotkeys(HotkeysSet))
  /\ mem' = [mem EXCEPT !.hotkeys = tmpHotkeys]
  /\ SaveSettings(mem', FALSE)
  /\ UNCHANGED <<run, neverBox, combo, tmpHotkeys, foreign, wizard, wmem, cache, posted,
                 announced, reverted, events>>

CancelDialog ==
  /\ main \in {"preferences", "hotkeys"} /\ main' = "window"
  /\ UNCHANGED <<file, names, run, mem, neverBox, combo, tmpHotkeys, registered, foreign,
                 wizard, wmem, cache, posted, announced, raced, reverted, events>>

(* SYSENC_CONFIG_UPDATE: the settings are loaded again, whatever dialog is open *)
FaultyReload == mem
Reload == file
ConfigUpdate ==
  /\ posted /\ posted' = FALSE
  /\ mem' = Reload
  /\ combo' = (combo \/ names)
  /\ UNCHANGED <<file, names, run, main, neverBox, tmpHotkeys, registered, foreign,
                 wizard, wmem, cache, announced, raced, reverted, events>>

(* Another program registers a combination or gives it up *)
ForeignHotkey(c) ==
  /\ Event /\ c \notin Used(registered)
  /\ foreign' = IF c \in foreign THEN foreign \ {c} ELSE foreign \cup {c}
  /\ UNCHANGED <<file, names, run, main, mem, neverBox, combo, tmpHotkeys, registered,
                 wizard, wmem, cache, posted, announced, raced, reverted>>

----------------------------------------------------------------------------
(* The wizard.  Of the settings here it loads and writes the history, startup  *)
(* and detection ones; the others go back to the file as it was when read.     *)
StartWizard ==
  /\ wizard = "off" /\ Event
  /\ wizard' = "idle" /\ wmem' = file /\ cache' = file
  /\ UNCHANGED <<file, names, run, main, mem, neverBox, combo, tmpHotkeys, registered, foreign,
                 posted, announced, raced, reverted>>

WizardSave(m) ==
  LET new == [cache EXCEPT !.history = m.history, !.startup = m.startup, !.detect = m.detect]
  IN /\ file' = new /\ cache' = new
     /\ reverted' = (reverted \/ file.hotkeys # new.hotkeys)

Posts == posted' = (main # "off") /\ UNCHANGED raced

(* sysEncDriveAnalysisThread: marked as in progress before the drive is probed *)
BeginAnalysis ==
  /\ wizard = "idle" /\ Event
  /\ wizard' = "analysing" /\ wmem' = [wmem EXCEPT !.detect = TRUE]
  /\ WizardSave(wmem') /\ Posts
  /\ announced' = announced \cup {"detect"}
  /\ UNCHANGED <<names, run, main, mem, neverBox, combo, tmpHotkeys, registered, foreign>>
EndAnalysis ==
  /\ wizard = "analysing"
  /\ wizard' = "idle" /\ wmem' = [wmem EXCEPT !.detect = FALSE]
  /\ WizardSave(wmem') /\ Posts
  /\ announced' = announced \ {"detect"}
  /\ UNCHANGED <<names, run, main, mem, neverBox, combo, tmpHotkeys, registered, foreign, events>>

(* Beginning system encryption adds the application to the startup sequence.   *)
(* The wizard never loads MountDevicesOnLogon.                                 *)
RequireStartup ==
  /\ wizard = "idle" /\ Event
  /\ wmem' = [wmem EXCEPT !.startup = TRUE]
  /\ WizardSave(wmem') /\ Posts
  /\ run' = StartupSeq(TRUE, FALSE)
  /\ announced' = announced \cup {"startup"}
  /\ UNCHANGED <<names, main, mem, neverBox, combo, tmpHotkeys, registered, foreign, wizard>>

(* Leaving the wizard saves again; a name is recorded if the history is kept *)
EndWizard(named) ==
  /\ wizard = "idle" /\ wizard' = "off"
  /\ WizardSave(wmem)
  /\ names' = (IF wmem.history THEN names \/ named ELSE IF named THEN FALSE ELSE names)
  /\ UNCHANGED <<run, main, mem, neverBox, combo, tmpHotkeys, registered, foreign, wmem,
                 posted, announced, raced, events>>

(* The system freezes, as the probing of the drive may make it *)
Freeze ==
  /\ Event /\ (main # "off" \/ wizard # "off")
  /\ main' = "off" /\ wizard' = "off" /\ posted' = FALSE
  /\ registered' = Unassigned /\ foreign' = {}
  /\ UNCHANGED <<file, names, run, mem, neverBox, combo, tmpHotkeys, wmem, cache, announced,
                 raced, reverted>>

Init ==
  /\ file = Defaults /\ mem = Defaults /\ wmem = Defaults /\ cache = Defaults
  /\ names = FALSE /\ combo = FALSE /\ run = "none"
  /\ main = "off" /\ wizard = "off" /\ neverBox = TRUE
  /\ tmpHotkeys = Unassigned /\ registered = Unassigned /\ foreign = {}
  /\ posted = FALSE /\ announced = {} /\ raced = FALSE /\ reverted = FALSE /\ events = 0

Next ==
  \/ StartMain \/ SelectVolume \/ ToggleHistory
  \/ \E ends \in BOOLEAN : EndMainDlg(ends)
  \/ OpenPreferences \/ \E s, d \in BOOLEAN : PreferencesOK(s, d)
  \/ OpenHotkeys \/ HotkeysOK \/ CancelDialog
  \/ \E a \in Actions, c \in Combos : AssignHotkey(a, c)
  \/ \E set \in {Actions} \cup {{a} : a \in Actions} : RemoveHotkeys(set)
  \/ ConfigUpdate \/ \E c \in Combos : ForeignHotkey(c)
  \/ StartWizard \/ BeginAnalysis \/ EndAnalysis \/ RequireStartup
  \/ \E named \in BOOLEAN : EndWizard(named)
  \/ Freeze

Spec == Init /\ [][Next]_stVars

----------------------------------------------------------------------------
Config == [history : BOOLEAN, startup : BOOLEAN, devices : BOOLEAN, detect : BOOLEAN,
           hotkeys : [Actions -> Combos \cup {NoCombo}]]
TypeOK ==
  /\ {file, mem, wmem, cache} \subseteq Config
  /\ main \in {"off", "window", "preferences", "hotkeys"} /\ wizard \in {"off", "idle", "analysing"}
  /\ {names, combo, neverBox, posted, raced, reverted} \subseteq BOOLEAN
  /\ run \in {"none", "logon", "devices"} /\ announced \subseteq {"startup", "detect"}
  /\ {tmpHotkeys, registered} \subseteq [Actions -> Combos \cup {NoCombo}]
  /\ foreign \subseteq Combos /\ events \in 0..MaxEvents

(* What the wizard announced stays in the file, through freezes and restarts and *)
(* whatever the application saves, until it is changed on purpose: an analysis   *)
(* that froze the system is remembered, and the background task is started at    *)
(* the next logon.  The one exception: the application saved its old settings    *)
(* before it took the message from its queue.                                    *)
AnnouncedStays ==
  ~raced => /\ "detect" \in announced => file.detect
            /\ "startup" \in announced => file.startup

(* No combination is ever set for two actions, and none is registered for an     *)
(* action other than the one it is set for, unless the wizard wrote an older     *)
(* set of hotkeys back and the application loaded it.                            *)
HotkeysAsSet ==
  /\ \A a, b \in Actions : (a # b /\ mem.hotkeys[a] # NoCombo) => mem.hotkeys[a] # mem.hotkeys[b]
  /\ ~reverted => \A a \in Actions : registered[a] \in {NoCombo, mem.hotkeys[a]}

(* "Never save history" (src/Common/Language.xml:56): what the application saves  *)
(* about the history is what the box in its window says.                         *)
NeverSavedIsStored ==
  [][(file' # file /\ UNCHANGED <<wizard, wmem>>) => file'.history = ~neverBox]_stVars
=============================================================================
