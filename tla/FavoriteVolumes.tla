-------------------------- MODULE FavoriteVolumes --------------------------
(* The lists of favorite volumes and their dialog (Mount/Favorites.cpp), and the mounting of the
   system favorites when an encrypted system starts: the service that does it
   (Common/BootEncryption.cpp, Mount/Mount.c), the flags that make the driver keep the password
   given to the boot loader (Driver/Ntdriver.c), and what is left of that password afterwards. *)
EXTENDS Naturals, Sequences, SequencesExt

CONSTANTS
    Options,   \* what may be wished for a favorite: "onLogon", "onArrival"
    Paths,     \* volumes
    Letters,   \* drive letters
    MaxLength, \* the length of a list
    MaxFaults, \* bounds failing calls
    MaxBoots   \* bounds starts of the system

VARIABLES
    fvStored,   \* the lists in the files: normal, system
    fvLists,    \* FavoriteVolumes and SystemFavoriteVolumes
    fvDialog,   \* [mode, list, selected]: the dialog; mode "closed", "normal" or "system"
    fvFlags,    \* the driver's flags in the registry: "cache", "cacheForFavorites", "adminOnly"
    fvService,  \* what there is of the service: "service", "program", "safeBoot"
    fvWork,     \* what is left to do: [op, tag, arg], tag: what an exception ends
    fvPhase,    \* "user", or "service" while the service runs at the start of the system
    fvCached,   \* whether the driver has the password of the boot loader in its cache
    fvLetters,  \* the drive letters in use
    fvBoot,     \* [wanted, attached]: of this start of the system
    fvStatus,   \* [ok, displaced]: the status of MountFavoriteVolumes, and the volume moved away
    fvCount     \* [faults, boots]

fvVars == <<fvStored, fvLists, fvDialog, fvFlags, fvService, fvWork, fvPhase, fvCached, fvLetters,
            fvBoot, fvStatus, fvCount>>

Favorite == [path : Paths, letter : Letters, options : SUBSET Options]
Partition == "partition" \* an ordinary partition, to which the system gives a letter when it starts
Free == "free"
Kinds == {"normal", "system"}
Empty == [k \in Kinds |-> <<>>]
Closed == [mode |-> "closed", list |-> <<>>, selected |-> 0]
Do(ops, tag) == [i \in DOMAIN ops |-> [op |-> ops[i], tag |-> tag]]
Doing(op) == fvWork # <<>> /\ Head(fvWork).op = op
Idle == fvPhase = "user" /\ fvWork = <<>>

Init ==
    /\ fvStored = Empty /\ fvLists = Empty /\ fvDialog = Closed /\ fvFlags = {} /\ fvService = {}
    /\ fvWork = <<>> /\ fvPhase = "user" /\ fvCached = FALSE
    /\ fvLetters = [l \in Letters |-> Free] /\ fvBoot = [wanted |-> FALSE, attached |-> TRUE]
    /\ fvStatus = [ok |-> TRUE, displaced |-> Free] /\ fvCount = [faults |-> 0, boots |-> 0]

CanFail == fvCount.faults < MaxFaults
Count(what) == fvCount' = [fvCount EXCEPT ![what] = @ + 1]
Registers == UNCHANGED <<fvStored, fvLists, fvDialog, fvPhase, fvCached, fvLetters, fvBoot, fvStatus>>

-----------------------------------------------------------------------------
(* The dialog *)

Open(kind, added) ==
    /\ Idle /\ fvDialog.mode = "closed"
    /\ LET list == IF kind = "system" THEN fvStored.system ELSE fvLists.normal
       IN fvDialog' = [mode |-> kind, list |-> list \o added, selected |-> Len(added) * (Len(list) + 1)]
    /\ UNCHANGED <<fvStored, fvLists, fvFlags, fvService, fvWork, fvPhase, fvCached, fvLetters, fvBoot, fvStatus, fvCount>>

\* AddMountedVolumeToFavorites, and the menu's commands that organize the favorites.
AddMountedVolumeToFavorites == \E kind \in Kinds, f \in Favorite :
    /\ f.options = {} /\ Len(fvLists[kind]) < MaxLength /\ Len(fvStored[kind]) < MaxLength
    /\ Open(kind, <<f>>)
OrganizeFavoriteVolumes == \E kind \in Kinds : Open(kind, <<>>)

Swap(list, i, j) == [list EXCEPT ![i] = list[j], ![j] = list[i]]

\* FavoriteVolumesDlgProc: an entry is selected, changed, moved or removed, or all is cancelled.
EditFavorites ==
    /\ fvDialog.mode # "closed" /\ fvWork = <<>>
    /\ LET list == fvDialog.list
           at == fvDialog.selected
       IN \/ \E i \in DOMAIN list : fvDialog' = [fvDialog EXCEPT !.selected = i]
          \/ \E options \in SUBSET Options :
                /\ at # 0 /\ fvDialog.mode = "normal"
                /\ fvDialog' = [fvDialog EXCEPT !.list[at].options = options]
          \/ at # 0 /\ at < Len(list) /\ fvDialog' = [fvDialog EXCEPT !.list = Swap(list, at, at + 1), !.selected = at + 1]
          \/ at > 1 /\ fvDialog' = [fvDialog EXCEPT !.list = Swap(list, at, at - 1), !.selected = at - 1]
          \/ at # 0 /\ fvDialog' = [fvDialog EXCEPT !.list = RemoveAt(list, at), !.selected = 0]
          \/ fvDialog' = Closed
    /\ UNCHANGED <<fvStored, fvLists, fvFlags, fvService, fvWork, fvPhase, fvCached, fvLetters, fvBoot, fvStatus, fvCount>>

\* A bug: the flag is cleared last.
FaultyUnregister == <<"deleteSafeBoot", "deleteService", "deleteProgram", "clearFlag">>
\* RegisterSystemFavoritesService (FALSE)
Unregister == <<"clearFlag", "deleteSafeBoot", "deleteService", "deleteProgram">>
\* RegisterSystemFavoritesService (TRUE)
Register == Do(Unregister, "ignored") \o Do(<<"copyProgram", "createService", "addSafeBoot", "setFlag">>, "settings")

\* SaveFavoriteVolumes: the file is written, and for system favorites copied to where only
\* administrators can write; then the dialog closes.
Save == Do(<<"writeFile", "deleteStored", "copyStored", "close">>, "save")

\* OK: the settings of the system favorites first, whose failure does not keep the list from being saved.
Confirm ==
    /\ fvDialog.mode # "closed" /\ fvWork = <<>>
    /\ \/ fvDialog.mode = "normal" /\ fvWork' = Save
       \/ fvDialog.mode = "system" /\ \E onBoot, adminOnly \in BOOLEAN :
             fvWork' = (IF onBoot = ("cacheForFavorites" \in fvFlags) THEN <<>>
                        ELSE IF onBoot THEN Register ELSE Do(Unregister, "settings"))
                       \o Do(<<IF adminOnly THEN "setAdminOnly" ELSE "clearAdminOnly">>, "settings") \o Save
    /\ UNCHANGED <<fvStored, fvLists, fvDialog, fvFlags, fvService, fvPhase, fvCached, fvLetters, fvBoot, fvStatus, fvCount>>

\* BootLoaderPreferencesDlgProc: whether the driver is to keep the password of the boot loader.
BootLoaderPreferences ==
    /\ Idle /\ fvDialog.mode = "closed"
    /\ fvFlags' \in {fvFlags \cup {"cache"}, fvFlags \ {"cache"}}
    /\ UNCHANGED <<fvStored, fvLists, fvDialog, fvService, fvWork, fvPhase, fvCached, fvLetters, fvBoot, fvStatus, fvCount>>

-----------------------------------------------------------------------------
(* The steps of the registration and of the saving *)

\* An exception ends what it is caught around; a registration that got as far as the registry is
\* undone first.
Throw ==
    LET rest == SelectSeq(Tail(fvWork), LAMBDA w : w.tag # Head(fvWork).tag)
    IN /\ CanFail /\ Count("faults")
       /\ fvWork' = (IF Head(fvWork).op \in {"addSafeBoot", "setFlag"} THEN Do(Unregister, "ignored") ELSE <<>>) \o rest
Done == fvWork' = Tail(fvWork) /\ UNCHANGED fvCount

SetFlag(op, flags) ==
    /\ Doing(op) /\ Registers /\ UNCHANGED fvService
    /\ \/ fvFlags' = flags /\ Done
       \/ UNCHANGED fvFlags /\ Throw
ChangeFlags ==
    \/ SetFlag("setFlag", fvFlags \cup {"cacheForFavorites"}) \/ SetFlag("clearFlag", fvFlags \ {"cacheForFavorites"})
    \/ SetFlag("setAdminOnly", fvFlags \cup {"adminOnly"}) \/ SetFlag("clearAdminOnly", fvFlags \ {"adminOnly"})

SetService(op, possible, service) ==
    /\ Doing(op) /\ Registers /\ UNCHANGED fvFlags
    /\ \/ possible /\ fvService' = service /\ Done
       \/ UNCHANGED fvService /\ Throw
ChangeService ==
    \/ SetService("copyProgram", TRUE, fvService \cup {"program"})
    \/ SetService("createService", "service" \notin fvService, fvService \cup {"service"})
    \/ SetService("addSafeBoot", TRUE, fvService \cup {"safeBoot"})
    \/ SetService("deleteSafeBoot", TRUE, fvService \ {"safeBoot"})
    \/ SetService("deleteService", "service" \in fvService, fvService \ {"service"})
    \/ SetService("deleteProgram", TRUE, fvService \ {"program"})
    \/ \* there is no service to open
       /\ Doing("deleteService") /\ "service" \notin fvService /\ Registers /\ UNCHANGED <<fvFlags, fvService, fvCount>>
       /\ fvWork' = SelectSeq(Tail(fvWork), LAMBDA w : w.tag # Head(fvWork).tag)

Dialog == UNCHANGED <<fvFlags, fvService, fvPhase, fvCached, fvLetters, fvBoot, fvStatus>>
Mode == fvDialog.mode

\* The file is written anew; when that fails its old contents are gone, and the dialog stays.
WriteFile ==
    /\ Doing("writeFile") /\ UNCHANGED <<fvLists, fvDialog>> /\ Dialog
    /\ \/ Done /\ fvStored' = IF Mode = "normal" THEN [fvStored EXCEPT !.normal = fvDialog.list] ELSE fvStored
       \/ /\ CanFail /\ Count("faults") /\ fvWork' = <<>>
          /\ fvStored' \in {fvStored, IF Mode = "normal" THEN [fvStored EXCEPT !.normal = <<>>] ELSE fvStored}

\* The stored system favorites are deleted, which the user may refuse...
DeleteStored ==
    /\ Doing("deleteStored") /\ UNCHANGED <<fvLists, fvDialog>> /\ Dialog
    /\ \/ Done /\ fvStored' = IF Mode = "system" THEN [fvStored EXCEPT !.system = <<>>] ELSE fvStored
       \/ Mode = "system" /\ CanFail /\ Count("faults") /\ fvWork' = <<>> /\ UNCHANGED fvStored
       \/ Mode = "system" /\ CanFail /\ Count("faults") /\ fvWork' = Tail(fvWork) /\ UNCHANGED fvStored

\* ...and the new ones copied; a failure is shown, but counts as saved.
CopyStored ==
    /\ Doing("copyStored") /\ UNCHANGED <<fvLists, fvDialog>> /\ Dialog
    /\ \/ Done /\ fvStored' = IF Mode = "system" THEN [fvStored EXCEPT !.system = fvDialog.list] ELSE fvStored
       \/ Mode = "system" /\ CanFail /\ Count("faults") /\ fvWork' = Tail(fvWork) /\ UNCHANGED fvStored

CloseDialog ==
    /\ Doing("close") /\ Done /\ UNCHANGED fvStored /\ Dialog
    /\ fvLists' = [fvLists EXCEPT ![Mode] = fvDialog.list] /\ fvDialog' = Closed

-----------------------------------------------------------------------------
(* The start of the system *)

\* ReadRegistryConfigFlags, when the driver starts.
CacheBootPassword == fvFlags \cap {"cache", "cacheForFavorites"} # {}

\* The driver keeps the password if a flag says so; the partition gets some letter; the service runs.
Boot ==
    /\ fvCount.boots < MaxBoots /\ Count("boots")
    /\ fvCached' = CacheBootPassword
    /\ \E l \in Letters : fvLetters' = [m \in Letters |-> IF m = l THEN Partition ELSE Free]
    /\ fvDialog' = Closed /\ fvStatus' = [ok |-> TRUE, displaced |-> Free]
    /\ fvLists' = [fvLists EXCEPT !.normal = fvStored.normal, !.system = fvStored.system]
    /\ IF {"service", "program"} \subseteq fvService
       THEN /\ fvPhase' = "service"
            /\ fvWork' = [i \in DOMAIN fvStored.system |-> [op |-> "mount", tag |-> "mount", arg |-> fvStored.system[i]]]
                         \o Do(<<"wipe">>, "mount")
       ELSE fvPhase' = "user" /\ fvWork' = <<>>
    /\ fvBoot' = [wanted |-> "cache" \in fvFlags, attached |-> TRUE]
    /\ UNCHANGED <<fvStored, fvFlags, fvService>>

Service == UNCHANGED <<fvStored, fvLists, fvDialog, fvFlags, fvService>>

\* StartSystemFavoritesService: without the driver the service ends.
DriverMissing ==
    /\ fvPhase = "service" /\ fvStatus = [ok |-> TRUE, displaced |-> Free] /\ CanFail /\ Count("faults")
    /\ fvPhase' = "user" /\ fvWork' = <<>> /\ fvBoot' = [fvBoot EXCEPT !.attached = FALSE]
    /\ Service /\ UNCHANGED <<fvCached, fvLetters, fvStatus>>

FreeLetters == {l \in Letters : fvLetters[l] = Free}

\* MountFavoriteVolumes asks the status, which is that of all the favorites so far.
PutBack(status) == status.ok

\* MountFavoriteVolumes, one favorite: a volume that has its letter is moved away before, and gets
\* another letter after, or its own one back.
MountFavorite ==
    /\ Doing("mount") /\ Service /\ UNCHANGED <<fvPhase, fvCached, fvBoot>> /\ fvWork' = Tail(fvWork)
    /\ \E ok \in BOOLEAN :
         LET favorite == Head(fvWork).arg
             l == favorite.letter
             displaced == fvLetters[l] = Partition
             mounted == fvLetters[l] \in Paths
             status == [fvStatus EXCEPT !.ok = @ /\ ok]
             after == [fvLetters EXCEPT ![l] = IF ok THEN favorite.path ELSE Free]
             free == {m \in Letters : after[m] = Free}
         IN /\ ok \/ (CanFail /\ ~mounted)
            /\ IF mounted THEN UNCHANGED <<fvLetters, fvStatus, fvCount>>
               ELSE /\ fvStatus' = status
                    /\ fvCount' = IF ok THEN fvCount ELSE [fvCount EXCEPT !.faults = @ + 1]
                    /\ IF ~displaced THEN fvLetters' = after
                       ELSE IF PutBack(status)
                            THEN IF free = {} THEN fvLetters' = after
                                 ELSE \E m \in free : fvLetters' = [after EXCEPT ![m] = Partition]
                            ELSE fvLetters' = IF after[l] = Free THEN [after EXCEPT ![l] = Partition] ELSE after

\* The service ends, and the passwords are wiped unless they are to be kept.
WipeCache ==
    /\ Doing("wipe") /\ Service /\ UNCHANGED <<fvLetters, fvBoot, fvStatus, fvCount>>
    /\ fvWork' = <<>> /\ fvPhase' = "user" /\ fvCached' = (fvCached /\ "cache" \in fvFlags)

Next ==
    \/ AddMountedVolumeToFavorites \/ OrganizeFavoriteVolumes \/ EditFavorites \/ Confirm \/ BootLoaderPreferences
    \/ ChangeFlags \/ ChangeService \/ WriteFile \/ DeleteStored \/ CopyStored \/ CloseDialog
    \/ Boot \/ DriverMissing \/ MountFavorite \/ WipeCache

-----------------------------------------------------------------------------
TypeOK ==
    /\ \A k \in Kinds : Len(fvStored[k]) <= MaxLength /\ ToSet(fvStored[k]) \subseteq Favorite
    /\ fvFlags \subseteq {"cache", "cacheForFavorites", "adminOnly"}
    /\ fvService \subseteq {"service", "program", "safeBoot"} /\ fvPhase \in {"user", "service"}
    /\ fvLetters \in [Letters -> Paths \cup {Partition, Free}]

\* Once the system has started, the driver keeps the password of the boot loader only when the user
\* asked for that: kept for the system favorites alone, it was wiped by the service, however often
\* its registration failed in the middle or was cut short. (Unless the service found no driver.)
CachedOnlyIfWanted == fvPhase = "user" /\ fvCached => fvBoot.wanted \/ ~fvBoot.attached

\* "Each partition (using the same drive letter as a system favorite volume) is assigned another
\* free drive letter."
DisplacedReassigned ==
    fvPhase = "user" /\ FreeLetters # {} /\ fvCount.boots > 0 => \E l \in Letters : fvLetters[l] = Partition

\* A list of favorites that was saved, as far as the user can tell, is the one stored.
SavedIsStored == fvDialog.mode = "closed" => fvLists = fvStored
=============================================================================
