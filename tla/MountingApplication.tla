------------------------- MODULE MountingApplication -------------------------
(* The main window of the program that mounts volumes (Mount/Mount.c) and the calls it makes
   in Common/Dlgcode.c. There is one thread, but a password dialog or a question takes
   messages: the timer, hot keys, the tray menu and device notifications run their handlers
   inside a pending operation, and all of them share the global mountOptions, VolumePassword
   and MultipleMountOperationInProgress. maStack holds the pending operations.

   A volume has a drive letter of its own; message boxes that only inform are left out, but
   for the one in DismountAll. Auto-dismount also wipes the cache (bWipeCacheOnAutoDismount),
   and the background task ends when it has nothing to do (bCloseBkgTaskWhenNoVolumes). *)
EXTENDS Integers, Sequences

CONSTANTS
    Volumes,    \* the volumes there are
    Favorites,  \* the favourites, on devices and mounted on arrival
    OptionSets, \* the mount options a user may choose, as sets of "readOnly", "protect" and
                \* "protPassword", the password that protects the hidden volume
    Retries,    \* UNMOUNT_MAX_AUTO_RETRIES
    MaxEvents   \* bound: what happens while an operation is pending

VARIABLES
    maMounted,  \* what the driver has mounted, oldest first: [volume, options, chosen]
    maDriver,   \* [cache, triggered]: the volumes whose password is cached, and those whose
                \* hidden volume protection has denied a write
    maStack,    \* the operations pending, the running one last; the first one counts
                \* what has happened since it started
    maGlobals,  \* mountOptions, VolumePassword, MultipleMountOperationInProgress,
                \* MainWindowHidden, and whether the process runs
    maKnown,    \* [mounted, reported]: LastKnownMountList and bHidVolDamagePrevReported
    maArrival,  \* [connected, done, tries]: devices, FavoritesMountedOnArrivalStillConnected
                \* and, for the properties, the mounts on arrival since the device came
    maSaid      \* DismountAll has just returned TRUE

maVars == <<maMounted, maDriver, maStack, maGlobals, maKnown, maArrival, maSaid>>

None == "none"
NoGlobals == [options |-> {}, password |-> None, multiple |-> FALSE,
              hidden |-> FALSE, running |-> TRUE]
NewFrame(op) == [op |-> op, at |-> "run", volume |-> None, rest |-> {}, chosen |-> {}, answer |-> None,
                 ask |-> FALSE, force |-> FALSE, retries |-> 0, readOnly |-> FALSE, ok |-> TRUE,
                 events |-> 0]

Init ==
    /\ maMounted = <<>> /\ maStack = <<>> /\ maGlobals = NoGlobals /\ maSaid = FALSE
    /\ maDriver = [cache |-> {}, triggered |-> {}]
    /\ maKnown = [mounted |-> {}, reported |-> {}]
    /\ maArrival = [connected |-> Volumes \ Favorites, done |-> {}, tries |-> [v \in Favorites |-> 0]]

Top == IF maStack = <<>> THEN NewFrame(None) ELSE maStack[Len(maStack)]
Running(op) == Top.op = op /\ Top.at = "run"
Set(frame) == [maStack EXCEPT ![Len(maStack)] = frame]
Pop == SubSeq(maStack, 1, Len(maStack) - 1)

\* The operation ends with this result, which the one that called it sees.
Return(ok) ==
    IF Len(maStack) > 1 /\ maStack[Len(maStack) - 1].at = "call"
    THEN [Pop EXCEPT ![Len(maStack) - 1] = [@ EXCEPT !.at = "run", !.ok = @ /\ ok]]
    ELSE Pop
Call(caller, frame) == Append(Set([caller EXCEPT !.at = "call"]), frame)

\* A handler may run: nothing is pending, or what is pending takes messages.
TakesMessages == maGlobals.running /\ (maStack # <<>> => (Top.at \in {"prompt", "box", "ask"} /\ Top.answer = None))
Event == maStack # <<>> => maStack[1].events < MaxEvents
Counted == IF maStack = <<>> THEN <<>> ELSE [maStack EXCEPT ![1].events = @ + 1]
Handler == TakesMessages /\ Event

Mounted(list) == {list[i].volume : i \in 1..Len(list)}
Triggered(list) == maDriver.triggered \cap Mounted(list)
Free(v) == v \in maArrival.connected \ Mounted(maMounted)

\* LoadDriveLetters: the list is taken from the driver, and a new triggering reported.
Refresh(list) ==
    maKnown' = [mounted |-> Mounted(list), reported |-> (maKnown.reported \ Mounted(list)) \cup Triggered(list)]

-----------------------------------------------------------------------------
(* The driver and the devices. *)
\* A write to an outer volume would have damaged the hidden one, and is denied.
WriteDenied ==
    /\ \E i \in 1..Len(maMounted) :
         /\ "protect" \in maMounted[i].options
         /\ maDriver' = [maDriver EXCEPT !.triggered = @ \cup {maMounted[i].volume}]
    /\ Event /\ maStack' = Counted /\ maSaid' = FALSE
    /\ UNCHANGED <<maMounted, maGlobals, maKnown, maArrival>>

PlugOrUnplug ==
    /\ \E v \in Favorites :
         maArrival' = IF v \in maArrival.connected THEN [maArrival EXCEPT !.connected = @ \ {v}]
                      ELSE [maArrival EXCEPT !.connected = @ \cup {v}, !.tries[v] = 0]
    /\ Event /\ maStack' = Counted /\ maSaid' = FALSE
    /\ UNCHANGED <<maMounted, maDriver, maGlobals, maKnown>>

Without(set) == SelectSeq(maMounted, LAMBDA m : m.volume \notin set)
ForgetFiles(set) == [maDriver EXCEPT !.triggered = @ \ set]

\* WM_DEVICECHANGE: volumes whose host device is gone are dismounted by force.
DeviceRemoved ==
    LET gone == Mounted(maMounted) \ maArrival.connected IN
    /\ Handler /\ gone # {}
    /\ maMounted' = Without(gone) /\ maDriver' = ForgetFiles(gone)
    /\ maKnown' = [mounted |-> Mounted(maMounted), reported |-> maKnown.reported \cup Triggered(maMounted)]
    /\ maStack' = Counted /\ maSaid' = FALSE
    /\ UNCHANGED <<maGlobals, maArrival>>

-----------------------------------------------------------------------------
(* Mount: cached passwords, the password of the previous volume, then the user's. *)
\* MountVolume: the driver takes the options as they are now, and protects a hidden volume
\* only when its password is right too.
Opens(v, password) ==
    /\ Free(v) /\ (password = v \/ (password = None /\ v \in maDriver.cache))
    /\ ("readOnly" \in maGlobals.options \/ "protect" \notin maGlobals.options \/ "protPassword" \in maGlobals.options)
Entry(v, chosen) ==
    [volume |-> v, chosen |-> chosen,
     options |-> maGlobals.options \ (IF "readOnly" \in maGlobals.options THEN {"protect", "protPassword"} ELSE {"protPassword"})]

Burnt(globals) == [globals EXCEPT !.options = @ \ {"protPassword"}]
\* A bug: the password is kept for the next volume whether or not there is to be one.
FaultyForgetPassword(globals) == Burnt(globals)
\* What Mount forgets after an attempt.
ForgetPassword(globals) == Burnt([globals EXCEPT !.password = IF @ # None /\ globals.multiple THEN @ ELSE None])

MountSucceeds(v, chosen, password) ==
    /\ maMounted' = Append(maMounted, Entry(v, chosen))
    /\ \E b \in BOOLEAN : maDriver' = [maDriver EXCEPT !.cache = IF b /\ password = v THEN @ \cup {v} ELSE @]
    /\ Refresh(maMounted')
    /\ maStack' = Return(TRUE)
    /\ maGlobals' = ForgetPassword(maGlobals)

MountFails(globals) ==
    /\ maStack' = Return(FALSE)
    /\ maGlobals' = ForgetPassword(globals)
    /\ UNCHANGED <<maMounted, maDriver, maKnown>>

MountFrame(v) == [NewFrame("mount") EXCEPT !.volume = v]

Mount ==
    LET v == Top.volume
        globals == [maGlobals EXCEPT !.password = IF maGlobals.multiple THEN @ ELSE None]
    IN
    /\ Running("mount")
    /\ \/ ~Free(v) /\ MountFails(globals)
       \/ Free(v) /\ Opens(v, None) /\ MountSucceeds(v, maGlobals.options \ {"protPassword"}, None)
       \/ /\ Free(v) /\ ~Opens(v, None) /\ maGlobals.multiple /\ maGlobals.password # None
          /\ Opens(v, maGlobals.password)
          /\ MountSucceeds(v, maGlobals.options \ {"protPassword"}, maGlobals.password)
       \/ /\ Free(v) /\ ~Opens(v, None)
          /\ ~(maGlobals.multiple /\ maGlobals.password # None /\ Opens(v, maGlobals.password))
          /\ maStack' = Set([Top EXCEPT !.at = "prompt", !.chosen = maGlobals.options, !.answer = None])
          /\ maGlobals' = globals
          /\ UNCHANGED <<maMounted, maDriver, maKnown>>
    /\ maSaid' = FALSE
    /\ UNCHANGED <<maArrival>>

\* The dialogs stay enabled when another opens over them. The options are set from the
\* password dialog, in the global mountOptions.
ChooseOptions(i, options) ==
    /\ i \in 1..Len(maStack) /\ maStack[i].at = "prompt" /\ maStack[i].answer = None
    /\ maGlobals.options # options
    /\ maGlobals' = [maGlobals EXCEPT !.options = options]
    /\ maStack' = [maStack EXCEPT ![i].chosen = options]
    /\ maSaid' = FALSE
    /\ UNCHANGED <<maMounted, maDriver, maKnown, maArrival>>

AnswerPassword(i, password) ==
    /\ i \in 1..Len(maStack) /\ maStack[i].at = "prompt" /\ maStack[i].answer = None
    /\ maStack' = [maStack EXCEPT ![i].answer = IF password = None THEN "cancel" ELSE "ok"]
    /\ IF password = None THEN UNCHANGED maGlobals
       ELSE maGlobals' = [maGlobals EXCEPT !.password = password]
    /\ maSaid' = FALSE
    /\ UNCHANGED <<maMounted, maDriver, maKnown, maArrival>>

\* A dialog returns to its caller once those opened over it have.
Answered(op) == Top.op = op /\ Top.at = "prompt" /\ Top.answer # None
AskAgain == Set([Top EXCEPT !.answer = None, !.chosen = maGlobals.options \ {"protPassword"}])

MountAnswered ==
    LET v == Top.volume IN
    /\ Answered("mount")
    /\ \/ Top.answer = "cancel" /\ MountFails([maGlobals EXCEPT !.password = None])
       \/ Top.answer = "ok" /\ ~Free(v) /\ MountFails(maGlobals)
       \/ /\ Top.answer = "ok" /\ Free(v) /\ Opens(v, maGlobals.password)
          /\ MountSucceeds(v, Top.chosen \ {"protPassword"}, maGlobals.password)
       \/ /\ Top.answer = "ok" /\ Free(v) /\ ~Opens(v, maGlobals.password)
          /\ maStack' = AskAgain /\ maGlobals' = ForgetPassword(maGlobals)
          /\ UNCHANGED <<maMounted, maDriver, maKnown>>
    /\ maSaid' = FALSE
    /\ UNCHANGED <<maArrival>>

\* MountSelectedVolume, from the main window, which is disabled while a dialog is open.
MountSelectedVolume(v, options) ==
    /\ maGlobals.running /\ maStack = <<>> /\ ~maGlobals.hidden
    /\ maGlobals' = [maGlobals EXCEPT !.options = options]
    /\ maStack' = <<MountFrame(v)>> /\ maSaid' = FALSE
    /\ UNCHANGED <<maMounted, maDriver, maKnown, maArrival>>

-----------------------------------------------------------------------------
(* MountAllDevices. *)
MountAllDevices ==
    /\ Handler
    /\ \E ask \in {TRUE} \cup {maDriver.cache = {}} :
         maStack' = Append(Counted, [NewFrame("mountAll") EXCEPT !.ask = ask, !.at = IF ask THEN "prompt" ELSE "run"])
    /\ maGlobals' = [maGlobals EXCEPT !.password = None, !.options = {}, !.multiple = TRUE]
    /\ maSaid' = FALSE
    /\ UNCHANGED <<maMounted, maDriver, maKnown, maArrival>>

MountAllEnds(list) ==
    /\ maStack' = Return(list # maMounted)
    /\ maGlobals' = Burnt([maGlobals EXCEPT !.multiple = FALSE, !.password = None])

\* Every device is tried with the user's password, then with the cached ones.
MountAllTries ==
    LET opened == {v \in Favorites : Opens(v, maGlobals.password) \/ Opens(v, None)}
        list == IF opened = {} THEN maMounted
                ELSE Append(maMounted, Entry(CHOOSE v \in opened : TRUE, maGlobals.options \ {"protPassword"}))
    IN
    /\ \/ Running("mountAll") \/ (Answered("mountAll") /\ Top.answer = "ok")
    /\ maMounted' = list
    /\ \E b \in BOOLEAN :
         maDriver' = [maDriver EXCEPT !.cache = IF b THEN @ \cup ({maGlobals.password} \cap opened) ELSE @]
    /\ \/ /\ opened # {} /\ Refresh(list)
          /\ maStack' = Set([Top EXCEPT !.at = "run", !.answer = None, !.ask = FALSE])
          /\ UNCHANGED maGlobals
       \/ /\ opened = {} /\ ~Top.ask /\ MountAllEnds(list) /\ UNCHANGED maKnown
       \/ /\ opened = {} /\ Top.ask /\ UNCHANGED maKnown
          /\ maStack' = AskAgain
          /\ maGlobals' = Burnt([maGlobals EXCEPT !.password = None])
    /\ maSaid' = FALSE
    /\ UNCHANGED <<maArrival>>

MountAllCancelled ==
    /\ Answered("mountAll") /\ Top.answer = "cancel"
    /\ MountAllEnds(maMounted) /\ maSaid' = FALSE
    /\ UNCHANGED <<maMounted, maDriver, maKnown, maArrival>>

-----------------------------------------------------------------------------
(* MountFavoriteVolumes, for all favourites or one. *)
StartFavorites(multiple) ==
    [maGlobals EXCEPT !.options = {}, !.password = None, !.multiple = multiple]

\* From the menu, the tray icon or a hot key.
MountFavorites ==
    /\ Handler
    /\ \E rest \in {Favorites} \cup {{v} : v \in Favorites} :
         /\ maStack' = Append(Counted, [NewFrame("favorites") EXCEPT !.rest = rest])
         /\ maGlobals' = StartFavorites(rest = Favorites)
    /\ maSaid' = FALSE
    /\ UNCHANGED <<maMounted, maDriver, maKnown, maArrival>>

\* Read-only, once the user has set it for a favourite, stays for those that follow.
FavoriteNext(v) ==
    LET readOnly == IF Top.volume # None /\ Top.ok THEN "readOnly" \in maGlobals.options ELSE Top.readOnly
        frame == [Top EXCEPT !.rest = @ \ {v}, !.readOnly = readOnly]
    IN
    /\ Running("favorites") /\ v \in Top.rest
    /\ maGlobals' = [maGlobals EXCEPT !.options = IF readOnly THEN @ \cup {"readOnly"} ELSE @ \ {"readOnly"}]
    /\ maStack' = IF v \in maKnown.mounted THEN Set(frame) ELSE Call([frame EXCEPT !.volume = v], MountFrame(v))
    /\ maSaid' = FALSE
    /\ UNCHANGED <<maMounted, maDriver, maKnown, maArrival>>

FavoritesEnd ==
    /\ Running("favorites") /\ Top.rest = {}
    /\ maGlobals' = [maGlobals EXCEPT !.multiple = FALSE, !.password = None]
    /\ maStack' = Return(Top.ok) /\ maSaid' = FALSE
    /\ Refresh(maMounted)
    /\ UNCHANGED <<maMounted, maDriver, maArrival>>

-----------------------------------------------------------------------------
(* DismountAll and the driver's UnmountAllDevices: newest first, until a volume whose
   protection was triggered has been dismounted, or the end. *)
RECURSIVE Unmount(_, _, _, _)
Unmount(i, list, busy, code) ==
    IF i = 0 THEN [list |-> list, code |-> code, triggered |-> None]
    ELSE LET v == maMounted[i].volume IN
         IF v \in busy THEN Unmount(i - 1, list, busy, "filesOpen")
         ELSE LET left == SelectSeq(list, LAMBDA m : m.volume # v) IN
              IF v \in maDriver.triggered THEN [list |-> left, code |-> code, triggered |-> v]
              ELSE Unmount(i - 1, left, busy, code)

DismountFrame(force, ask, retries) ==
    [NewFrame("dismountAll") EXCEPT !.force = force, !.ask = ask, !.retries = retries]

\* Menu, tray icon, hot keys, log off or power saving.
DismountAll ==
    /\ Handler
    /\ \E force, ask, wipe, exit \in BOOLEAN :
         /\ (exit => wipe) /\ (force => ~ask)
         /\ maStack' = Append(Counted, DismountFrame(force, ask, IF ~force /\ ~ask THEN 1 ELSE Retries))
         /\ maDriver' = [maDriver EXCEPT !.cache = IF wipe THEN {} ELSE @]
    /\ maSaid' = FALSE
    /\ UNCHANGED <<maMounted, maGlobals, maKnown, maArrival>>

\* `busy` are the volumes with open files.
DismountCall(busy) ==
    LET result == Unmount(Len(maMounted), maMounted, busy, "none")
        new == result.code = "none" /\ result.triggered # None /\ result.triggered \notin maKnown.reported
        again == Top.retries > 1
    IN
    /\ Running("dismountAll") /\ busy \subseteq Mounted(maMounted) /\ (Top.force => busy = {})
    /\ maMounted' = result.list
    /\ maDriver' = ForgetFiles(Mounted(maMounted) \ Mounted(result.list))
    /\ \/ maMounted = <<>> /\ maStack' = Return(TRUE) /\ maSaid' = TRUE /\ UNCHANGED maKnown
       \/ /\ maMounted # <<>> /\ new /\ maSaid' = FALSE
          /\ maKnown' = [maKnown EXCEPT !.reported = @ \cup {result.triggered}]
          /\ maStack' = Set([Top EXCEPT !.at = "box", !.retries = @ - 1])
       \/ /\ maMounted # <<>> /\ ~new /\ result.code # "none" /\ again /\ maSaid' = FALSE
          /\ maStack' = Set([Top EXCEPT !.retries = @ - 1]) /\ UNCHANGED maKnown
       \/ /\ maMounted # <<>> /\ ~new /\ result.code # "none" /\ ~again /\ maSaid' = FALSE
          /\ Refresh(result.list)
          /\ maStack' = IF Top.ask THEN Set([Top EXCEPT !.at = "ask"]) ELSE Return(FALSE)
       \/ /\ maMounted # <<>> /\ ~new /\ result.code = "none" /\ maSaid' = TRUE
          /\ Refresh(result.list) /\ maStack' = Return(TRUE)
    /\ UNCHANGED <<maGlobals, maArrival>>

\* The warning that damage was prevented is closed: the loop goes on if it has tries left.
DismountWarned ==
    /\ Top.op = "dismountAll" /\ Top.at = "box"
    /\ IF Top.retries > 0
       THEN maStack' = Set([Top EXCEPT !.at = "run"]) /\ maSaid' = FALSE /\ UNCHANGED maKnown
       ELSE maStack' = Return(TRUE) /\ maSaid' = TRUE /\ Refresh(maMounted)
    /\ UNCHANGED <<maMounted, maDriver, maGlobals, maArrival>>

DismountForced(yes) ==
    /\ Top.op = "dismountAll" /\ Top.at = "ask"
    /\ maStack' = IF yes THEN Set([Top EXCEPT !.at = "run", !.force = TRUE]) ELSE Return(FALSE)
    /\ maSaid' = FALSE
    /\ UNCHANGED <<maMounted, maDriver, maGlobals, maKnown, maArrival>>

-----------------------------------------------------------------------------
(* WM_TIMER: CheckMountList, idle volumes, the screen saver, favourites that have arrived,
   and the end of a background task that has nothing left to do. *)
TickFrame == [NewFrame("tick") EXCEPT !.at = "run"]

\* The changes of the system encryption's status that it also reports are left out.
CheckMountList == Refresh(maMounted)

\* A volume that was idle long enough; one that is in use is tried again later.
DismountIdleVolumes ==
    \E v \in Mounted(maMounted) :
      /\ maMounted' = Without({v})
      /\ maDriver' = [ForgetFiles({v}) EXCEPT !.cache = {}]

Tick ==
    /\ Handler /\ CheckMountList
    /\ \/ maStack' = Append(Counted, TickFrame) /\ UNCHANGED <<maMounted, maDriver>>
       \/ maStack' = Append(Counted, TickFrame) /\ DismountIdleVolumes
       \/ \E force \in BOOLEAN :    \* the screen saver has started
            /\ maStack' = Append(Append(Counted, [TickFrame EXCEPT !.at = "call"]), DismountFrame(force, FALSE, Retries))
            /\ maDriver' = [maDriver EXCEPT !.cache = {}]
            /\ UNCHANGED maMounted
    /\ maSaid' = FALSE
    /\ UNCHANGED <<maGlobals, maArrival>>

\* The static `reentry`: a tick within the mounting of a favourite leaves at once.
Reentry == \E i \in 1..Len(maStack) - 1 : maStack[i].op = "tick" /\ maStack[i].volume # None
TickLeaves ==
    /\ Running("tick") /\ Reentry
    /\ maStack' = Pop /\ maSaid' = FALSE
    /\ UNCHANGED <<maMounted, maDriver, maGlobals, maKnown, maArrival>>

\* A bug: only a mount that succeeded is remembered.
FaultyArrivalDone(frame, done) == IF frame.ok /\ frame.volume # None THEN done \cup {frame.volume} ELSE done
\* Whatever the mount came to, the favourite is not offered again while its device is there.
ArrivalDone(frame, done) == IF frame.volume # None THEN done \cup {frame.volume} ELSE done

Arrived == {v \in Favorites : Free(v) /\ v \notin ArrivalDone(Top, maArrival.done) /\ v \notin Top.rest}

ArrivalMount(v) ==
    /\ Running("tick") /\ ~Reentry /\ v \in Arrived
    /\ maArrival' = [maArrival EXCEPT !.done = ArrivalDone(Top, @), !.tries[v] = @ + 1]
    /\ maGlobals' = StartFavorites(TRUE)
    /\ maStack' = Call([Top EXCEPT !.volume = v, !.rest = @ \cup {v}, !.ok = TRUE],
                       [NewFrame("favorites") EXCEPT !.rest = {v}])
    /\ maSaid' = FALSE
    /\ UNCHANGED <<maMounted, maDriver, maKnown>>

\* The favourites whose device is gone are forgotten; the background task may end.
Idle == maKnown.mounted = {} /\ maGlobals.hidden
TickEnds ==
    LET done == ArrivalDone(Top, maArrival.done)
        kept == {v \in done : v \in Mounted(maMounted) \/ v \in maArrival.connected} IN
    /\ Running("tick") /\ ~Reentry /\ Arrived = {}
    /\ maArrival' = [maArrival EXCEPT !.done = kept]
    /\ maGlobals' = [maGlobals EXCEPT !.running = ~Idle]
    /\ maStack' = Pop /\ maSaid' = FALSE
    /\ UNCHANGED <<maMounted, maDriver, maKnown>>

ChangeMainWindowVisibility ==
    /\ Handler
    /\ maGlobals' = [maGlobals EXCEPT !.hidden = ~@] /\ maStack' = Counted /\ maSaid' = FALSE
    /\ UNCHANGED <<maMounted, maDriver, maKnown, maArrival>>

\* The process has ended and is started again.
Restart ==
    /\ ~maGlobals.running /\ maStack = <<>>
    /\ maGlobals' = NoGlobals /\ maSaid' = FALSE
    /\ maKnown' = [mounted |-> Mounted(maMounted), reported |-> {}]
    /\ maArrival' = [maArrival EXCEPT !.done = Mounted(maMounted) \cap Favorites, !.tries = [v \in Favorites |-> 0]]
    /\ UNCHANGED <<maMounted, maDriver, maStack>>

-----------------------------------------------------------------------------
Next ==
    \/ WriteDenied \/ PlugOrUnplug \/ DeviceRemoved
    \/ Mount \/ MountAnswered
    \/ \E i \in 1..Len(maStack), options \in OptionSets : ChooseOptions(i, options)
    \/ \E i \in 1..Len(maStack), password \in Volumes \cup {None} : AnswerPassword(i, password)
    \/ \E v \in Volumes, options \in OptionSets : MountSelectedVolume(v, options)
    \/ MountAllDevices \/ MountAllTries \/ MountAllCancelled
    \/ MountFavorites \/ (\E v \in Favorites : FavoriteNext(v) \/ ArrivalMount(v)) \/ FavoritesEnd
    \/ DismountAll \/ (\E busy \in SUBSET Volumes : DismountCall(busy)) \/ DismountWarned \/ (\E yes \in BOOLEAN : DismountForced(yes))
    \/ Tick \/ TickLeaves \/ TickEnds
    \/ ChangeMainWindowVisibility \/ Restart

-----------------------------------------------------------------------------
\* The variables have the types their comments give.
TypeOK ==
    /\ Mounted(maMounted) \subseteq Volumes
    /\ maDriver \in [cache : SUBSET Volumes, triggered : SUBSET Volumes]
    /\ Len(maStack) <= 3 * (MaxEvents + 1) /\ maKnown \in [mounted : SUBSET Volumes, reported : SUBSET Volumes]
    /\ maGlobals.password \in Volumes \cup {None}

\* Once no operation is pending, no password the user has entered is left in memory, in
\* whatever order dialogs were opened over one another and answered.
PasswordsForgotten ==
    maStack = <<>> => maGlobals.password = None

\* A favourite is offered on arrival once for each time its device is connected: not again
\* when the user declined, when the password dialog is still open, or after a dismount.
ArrivalMountsOnce == \A v \in Favorites : maArrival.tries[v] <= 1

\* The background task does not end by itself while a volume it mounted is mounted.
BackgroundTaskStays == ~maGlobals.running => maMounted = <<>>

\* A volume is mounted with the options set in the dialog its password was entered in.
MountedAsChosen ==
    \A i \in 1..Len(maMounted) : maMounted[i].options = maMounted[i].chosen \ {"protPassword"}

\* When DismountAll reports success, everything has been dismounted.
DismountedMeansAll == maSaid => maMounted = <<>>
=============================================================================
