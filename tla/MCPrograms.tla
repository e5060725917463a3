-------------------------------- MODULE MCPrograms --------------------------------
(* The programs the user runs and what they keep on the computer: the wizard,   *)
(* the main application, Setup, and the loading of the driver, each in a small  *)
(* instance.  A behaviour of this module is a behaviour of one of them, the one *)
(* in component, so they share the variables s1, s2, ...                        *)
EXTENDS Integers, Sequences

VARIABLES component, s1, s2, s3, s4, s5, s6, s7, s8, s9, s10, s11, s12, s13, s14, s15, s16, s17, s18

SystemEnc == INSTANCE SystemEncryption WITH
  SystemFirst <- TRUE, Keys <- {1, 2}, Passwords <- {"p", "q"}, MaxFaults <- 1,
  seDisk <- s1, seBackup <- s2, seRescue <- s3, seRegistry <- s4, seGood <- s5,
  seConfig <- s6, seOs <- s7, seWizard <- s8, seTask <- s9, seFaults <- s10
Application == INSTANCE MountingApplication WITH
  Volumes <- {"f"}, Favorites <- {"f"}, OptionSets <- {{}, {"protect", "protPassword"}},
  Retries <- 2, MaxEvents <- 1,
  maMounted <- s1, maDriver <- s2, maStack <- s3, maGlobals <- s4, maKnown <- s5,
  maArrival <- s6, maSaid <- s7
Dialog == INSTANCE PasswordDialog WITH
  Words <- {"w"}, Files <- {"f"},
  pdVolume <- s1, pdDefault <- s2, pdKeys <- s3, pdDialog <- s4, pdLayout <- s5,
  pdEntered <- s6
Favorite == INSTANCE FavoriteVolumes WITH
  Options <- {}, Paths <- {"p"}, Letters <- {"X", "Y"}, MaxLength <- 1, MaxFaults <- 1,
  MaxBoots <- 2,
  fvStored <- s1, fvLists <- s2, fvDialog <- s3, fvFlags <- s4, fvService <- s5,
  fvWork <- s6, fvPhase <- s7, fvCached <- s8, fvLetters <- s9, fvBoot <- s10,
  fvStatus <- s11, fvCount <- s12
Config == INSTANCE Settings WITH
  Actions <- {"a", "b"}, Combos <- {"x", "y"}, Reserved <- {"y"}, MaxEvents <- 7,
  file <- s1, names <- s2, run <- s3, main <- s4, mem <- s5, neverBox <- s6, combo <- s7,
  tmpHotkeys <- s8, registered <- s9, foreign <- s10, wizard <- s11, wmem <- s12,
  cache <- s13, posted <- s14, announced <- s15, raced <- s16, reverted <- s17,
  events <- s18
Installer == INSTANCE Setup WITH
  MaxFaults <- 1, MaxLaunches <- 2,
  instDisk <- s1, instDriver <- s2, instSystem <- s3, instFlags <- s4, instPage <- s5,
  instThread <- s6, instTold <- s7, instLeft <- s8
Package == INSTANCE SelfExtract WITH
  NumFiles <- 2, Sizes <- {1, 2}, BufSize <- 5, MaxSignature <- 3, MaxFaults <- 2,
  size <- s1, maker <- s2, package <- s3, sum <- s4, signed <- s5, setup <- s6,
  memory <- s7, dest <- s8, faults <- s9
Loader == INSTANCE DriverService WITH
  Instances <- {"a", "b"}, Versions <- {1, 2}, MaxStarts <- 3,
  dsDriver <- s1, dsService <- s2, dsMounted <- s3, dsMutex <- s4, dsInstance <- s5,
  dsConfig <- s6, dsStarts <- s7

Init ==
  \/ component = "systemEncryption" /\ SystemEnc!Init
     /\ s11 = 0 /\ s12 = 0 /\ s13 = 0 /\ s14 = 0 /\ s15 = 0 /\ s16 = 0 /\ s17 = 0 /\ s18 = 0
  \/ component = "application" /\ Application!Init
     /\ s8 = 0 /\ s9 = 0 /\ s10 = 0 /\ s11 = 0 /\ s12 = 0 /\ s13 = 0 /\ s14 = 0 /\ s15 = 0 /\ s16 = 0 /\ s17 = 0 /\ s18 = 0
  \/ component = "passwordDialog" /\ Dialog!Init
     /\ s7 = 0 /\ s8 = 0 /\ s9 = 0 /\ s10 = 0 /\ s11 = 0 /\ s12 = 0 /\ s13 = 0 /\ s14 = 0 /\ s15 = 0 /\ s16 = 0 /\ s17 = 0 /\ s18 = 0
  \/ component = "favorites" /\ Favorite!Init
     /\ s13 = 0 /\ s14 = 0 /\ s15 = 0 /\ s16 = 0 /\ s17 = 0 /\ s18 = 0
  \/ component = "settings" /\ Config!Init
  \/ component = "setup" /\ Installer!Init
     /\ s9 = 0 /\ s10 = 0 /\ s11 = 0 /\ s12 = 0 /\ s13 = 0 /\ s14 = 0 /\ s15 = 0 /\ s16 = 0 /\ s17 = 0 /\ s18 = 0
  \/ component = "package" /\ Package!Init
     /\ s10 = 0 /\ s11 = 0 /\ s12 = 0 /\ s13 = 0 /\ s14 = 0 /\ s15 = 0 /\ s16 = 0 /\ s17 = 0 /\ s18 = 0
  \/ component = "driver" /\ Loader!Init
     /\ s8 = 0 /\ s9 = 0 /\ s10 = 0 /\ s11 = 0 /\ s12 = 0 /\ s13 = 0 /\ s14 = 0 /\ s15 = 0 /\ s16 = 0 /\ s17 = 0 /\ s18 = 0

Next ==
  \/ component = "systemEncryption" /\ SystemEnc!Next /\ UNCHANGED <<component, s11, s12, s13, s14, s15, s16, s17, s18>>
  \/ component = "application" /\ Application!Next /\ UNCHANGED <<component, s8, s9, s10, s11, s12, s13, s14, s15, s16, s17, s18>>
  \/ component = "passwordDialog" /\ Dialog!Next /\ UNCHANGED <<component, s7, s8, s9, s10, s11, s12, s13, s14, s15, s16, s17, s18>>
  \/ component = "favorites" /\ Favorite!Next /\ UNCHANGED <<component, s13, s14, s15, s16, s17, s18>>
  \/ component = "settings" /\ Config!Next /\ UNCHANGED <<component>>
  \/ component = "setup" /\ Installer!Next /\ UNCHANGED <<component, s9, s10, s11, s12, s13, s14, s15, s16, s17, s18>>
  \/ component = "package" /\ Package!Next /\ UNCHANGED <<component, s10, s11, s12, s13, s14, s15, s16, s17, s18>>
  \/ component = "driver" /\ Loader!Next /\ UNCHANGED <<component, s8, s9, s10, s11, s12, s13, s14, s15, s16, s17, s18>>

Spec == Init /\ [][Next]_<<component, s1, s2, s3, s4, s5, s6, s7, s8, s9, s10, s11, s12, s13, s14, s15, s16, s17, s18>>

TypeOK ==
  /\ component = "systemEncryption" => SystemEnc!TypeOK
  /\ component = "application" => Application!TypeOK
  /\ component = "passwordDialog" => Dialog!TypeOK
  /\ component = "favorites" => Favorite!TypeOK
  /\ component = "settings" => Config!TypeOK
  /\ component = "setup" => Installer!TypeOK
  /\ component = "package" => Package!TypeOK
  /\ component = "driver" => Loader!TypeOK

(* Setting up system encryption: encrypted data can be decrypted with a key that the user
   has, and the system starts from every state of the set-up. *)
SystemUsable ==
  component = "systemEncryption" => SystemEnc!EncryptedUsable /\ SystemEnc!SystemStarts /\ SystemEnc!HeaderKeysCurrent

(* The main application forgets passwords once an operation is over, and mounts a
   favorite that arrives once; what its password dialog changed opens with what the user
   entered there. *)
MountedByUser ==
  /\ component = "application" => Application!PasswordsForgotten /\ Application!ArrivalMountsOnce
  /\ component = "passwordDialog" => Dialog!OpensAsEntered /\ Dialog!LoaderCanOpen

(* What the user has set is what is done: what the wizard announced stays stored, hotkeys
   work as they are set, and the driver caches the boot loader's password only while the
   user wants that for system favorites. *)
SettingsKept ==
  /\ component = "settings" => Config!AnnouncedStays /\ Config!HotkeysAsSet
  /\ component = "favorites" => Favorite!CachedOnlyIfWanted

(* Installation: an encrypted system drive always finds its driver at the next start; what
   the package reports as extracted is whole, and a genuine package is accepted; a process
   works only with a driver of its own version. *)
InstallationSound ==
  /\ component = "setup" => Installer!EncryptedSystemStarts
  /\ component = "package" => Package!ExtractedWhole /\ Package!GenuineVerifies
  /\ component = "driver" => Loader!AttachedVersion
====================================================================================
