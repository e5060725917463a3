------------------------------ MODULE KeyFiles ------------------------------
(* Key files (Common/Keyfiles.c) and the security token that may hold them
   (Common/SecurityToken.cpp, the dialogs of Common/Dlgcode.c).

   Applying a list of key files to a password adds what is read of each to a pool, which is then
   mixed into the password; the order does not matter. A key file of a token is looked up by its
   name, which yields a handle, and read by the handle; both calls log the user in when the token
   asks for it, and the dialog that asks for the PIN lets other messages of the application in.

   The slot holds one token at a time, with its objects numbered: the number is the handle. What
   the token does is external to the repository. *)
EXTENDS Naturals, Sequences, SequencesExt

CONSTANTS
    Files,      \* the key files on disks
    Names,      \* the names of the objects of the tokens
    Room,       \* how many objects a token has room for
    MaxEntries, \* the length of a list of key files
    MaxSwaps    \* how often a token is taken out or put in

VARIABLES
    kfReady,    \* SecurityToken::Initialized
    kfToken,    \* the token in the slot: [objects, user], user: whether it has a user logged in
    kfSession,  \* Sessions of the slot: [live, user], live: whether the library still knows it
    kfWork,     \* what the running call has left to do
    kfFound,    \* the key files the last search found, [name, handle] each
    kfEdited,   \* the dialog of the key files: [open, edited, kept, enable], edited: its copy of the list
    kfCall,     \* [kind, list, pool, ok, excuse, swapped]: the call that runs or ran last
    kfPassword, \* the password the caller goes on with, as what was mixed into it, or NoPassword
    kfSwaps

kfVars == <<kfReady, kfToken, kfSession, kfWork, kfFound, kfEdited, kfCall, kfPassword, kfSwaps>>

None == [none |-> TRUE]
NoPassword == <<"none">>
Gone == "gone"
Lists == UNION {[1..n -> Files \cup Names \cup {"directory"}] : n \in 0..MaxEntries}
NoCall == [kind |-> "none", list |-> <<>>, pool |-> <<>>, ok |-> TRUE, excuse |-> FALSE, swapped |-> FALSE]
Work(op) == <<[op |-> op]>>
Idle == kfWork = <<>>
Doing(op) == kfWork # <<>> /\ Head(kfWork).op = op

Init ==
    /\ kfToken \in {None} \cup {[objects |-> <<name>>, user |-> FALSE] : name \in Names}
    /\ kfReady = FALSE /\ kfSession = None /\ kfWork = <<>> /\ kfFound = <<>>
    /\ kfEdited = [open |-> FALSE, edited |-> <<>>, kept |-> <<>>, enable |-> FALSE]
    /\ kfCall = NoCall /\ kfPassword = NoPassword /\ kfSwaps = 0

-----------------------------------------------------------------------------
(* The token. *)

Swapped(call) == [call EXCEPT !.excuse = TRUE, !.swapped = TRUE]
Swap ==
    /\ kfSwaps < MaxSwaps /\ kfSwaps' = kfSwaps + 1
    /\ kfSession' = IF kfSession = None THEN None ELSE [live |-> FALSE, user |-> kfSession.user]
    /\ kfCall' = IF Idle THEN kfCall ELSE Swapped(kfCall)
    /\ UNCHANGED <<kfReady, kfWork, kfFound, kfEdited, kfPassword>>

TakeOut == kfToken # None /\ kfToken' = None /\ Swap
PutIn == kfToken = None /\ Swap /\ \E name \in Names : kfToken' = [objects |-> <<name>>, user |-> FALSE]

Logout == IF kfToken = None THEN None ELSE [kfToken EXCEPT !.user = FALSE]

-----------------------------------------------------------------------------
(* The library and its sessions. *)

\* InitLibrary, which closes the library that was loaded before; it may fail then.
InitSecurityTokenLibrary ==
    /\ Idle /\ kfReady' \in BOOLEAN /\ kfCall' = NoCall
    /\ IF kfReady THEN kfSession' = None /\ kfToken' = Logout ELSE UNCHANGED <<kfSession, kfToken>>
    /\ UNCHANGED <<kfWork, kfFound, kfEdited, kfPassword, kfSwaps>>

\* CloseLibrary: at the end, or when the preferences name no library any more.
CloseLibrary ==
    /\ Idle /\ kfReady /\ kfReady' = FALSE /\ kfSession' = None /\ kfToken' = Logout /\ kfCall' = NoCall
    /\ UNCHANGED <<kfWork, kfFound, kfEdited, kfPassword, kfSwaps>>

\* CloseAllSessions: by the menu, after a mount or with the cached passwords, as when the system
\* is about to sleep while the PIN is being asked for.
CloseAllSessions ==
    /\ kfReady /\ kfSession # None /\ (Idle \/ Doing("pin"))
    /\ kfSession' = None /\ kfToken' = Logout
    /\ UNCHANGED <<kfReady, kfWork, kfFound, kfEdited, kfCall, kfPassword, kfSwaps>>

\* The end of a call by an exception: nothing more of it is done.
Throw(excused) ==
    /\ kfWork' = <<>>
    /\ kfCall' = [kfCall EXCEPT !.ok = FALSE, !.excuse = @ \/ excused]
    /\ UNCHANGED <<kfReady, kfFound, kfEdited, kfPassword, kfSwaps>>

Next1(work) == kfWork' = work \o Tail(kfWork)
Keep == UNCHANGED <<kfReady, kfFound, kfEdited, kfPassword, kfSwaps>>

\* A bug: a session known to the application is taken for one the token still has.
FaultyIsStale == FALSE
\* C_GetSessionInfo does not know the session any more.
IsStale == kfSession # None /\ ~kfSession.live

\* What LoginUserIfRequired makes of the session: the user may have logged in, or out, elsewhere.
Refreshed ==
    IF kfSession = None \/ IsStale THEN [live |-> TRUE, user |-> FALSE]
    ELSE [kfSession EXCEPT !.user = IF kfSession.live THEN kfToken.user ELSE @]

\* LoginUserIfRequired, up to the dialog for the PIN.
LoginUserIfRequired ==
    /\ Doing("login")
    /\ IF ~kfReady THEN Throw(TRUE) /\ UNCHANGED <<kfSession, kfToken>>
       ELSE IF kfToken = None THEN
            /\ Throw(TRUE) /\ UNCHANGED kfToken
            /\ kfSession' = IF IsStale THEN None ELSE kfSession
       ELSE /\ kfSession' = Refreshed
            /\ Next1(IF Refreshed.user THEN <<>> ELSE Work("pin"))
            /\ UNCHANGED <<kfToken, kfCall>> /\ Keep

\* A bug: the session that was open before the dialog is taken for the one to log in with.
FaultyReopened == kfSession
\* Login opens a session again when none is left.
Reopened == IF kfSession = None THEN [live |-> TRUE, user |-> FALSE] ELSE kfSession

\* The PIN is entered: right, wrong, which warns and asks again, or not at all.
EnterPin ==
    /\ Doing("pin")
    /\ \E answer \in {"right", "wrong", "cancel"} :
       CASE answer = "cancel" -> Throw(TRUE) /\ UNCHANGED <<kfSession, kfToken>>
         [] kfToken = None -> Throw(TRUE) /\ UNCHANGED <<kfSession, kfToken>>
         [] Reopened = None \/ ~Reopened.live -> Throw(FALSE) /\ UNCHANGED <<kfSession, kfToken>>
         [] answer = "wrong" -> kfSession' = Reopened /\ UNCHANGED <<kfToken, kfWork, kfCall>> /\ Keep
         [] OTHER ->
              /\ kfSession' = [Reopened EXCEPT !.user = TRUE] /\ kfToken' = [kfToken EXCEPT !.user = TRUE]
              /\ Next1(<<>>) /\ UNCHANGED kfCall /\ Keep

Reachable == kfToken # None /\ kfSession # None /\ kfSession.live
Readable == Reachable /\ kfToken.user
Holds(handle) == handle \in DOMAIN kfToken.objects /\ kfToken.objects[handle] # Gone

\* GetAvailableKeyfiles, the user logged in: the objects of the token, or the one of that name.
GetAvailableKeyfiles ==
    /\ Doing("find")
    /\ LET named == Head(kfWork).name
           handles == {h \in DOMAIN kfToken.objects : Holds(h) /\ named \in {Gone, kfToken.objects[h]}}
       IN IF ~Readable THEN Throw(FALSE)
          ELSE IF named # Gone /\ handles = {} /\ Head(kfWork).must THEN Throw(TRUE)
          ELSE /\ kfFound' = [i \in 1..Len(SetToSeq(handles)) |->
                                 LET h == SetToSeq(handles)[i] IN [name |-> kfToken.objects[h], handle |-> h]]
               /\ Next1(<<>>) /\ UNCHANGED <<kfReady, kfEdited, kfCall, kfPassword, kfSwaps>>
    /\ UNCHANGED <<kfSession, kfToken>>

\* GetKeyfileData: what the handle denotes now.
GetKeyfileData ==
    /\ Doing("data")
    /\ LET handle == IF Head(kfWork).handle = 0 THEN kfFound[1].handle ELSE Head(kfWork).handle
       IN IF ~Readable THEN Throw(FALSE)
          ELSE IF ~Holds(handle) THEN Throw(TRUE)
          ELSE /\ kfCall' = [kfCall EXCEPT !.pool = Append(@, kfToken.objects[handle])]
               /\ Next1(<<>>) /\ Keep
    /\ UNCHANGED <<kfSession, kfToken>>

\* DeleteKeyfile
DeleteKeyfile ==
    /\ Doing("delete")
    /\ IF ~Readable THEN Throw(FALSE) /\ UNCHANGED kfToken
       ELSE IF ~Holds(Head(kfWork).handle) THEN Throw(TRUE) /\ UNCHANGED kfToken
       ELSE /\ kfToken' = [kfToken EXCEPT !.objects[Head(kfWork).handle] = Gone]
            /\ Next1(<<>>) /\ UNCHANGED kfCall /\ Keep
    /\ UNCHANGED kfSession

\* CreateKeyfile, the name not found: an object the token truncates is destroyed again.
CreateKeyfile ==
    /\ Doing("create")
    /\ IF ~Readable THEN Throw(FALSE) /\ UNCHANGED kfToken
       ELSE IF kfFound # <<>> THEN Throw(TRUE) /\ UNCHANGED kfToken
       ELSE \/ Throw(TRUE) /\ UNCHANGED kfToken
            \/ /\ Len(kfToken.objects) < Room
               /\ kfToken' = [kfToken EXCEPT !.objects = Append(@, Head(kfWork).name)]
               /\ Next1(<<>>) /\ UNCHANGED kfCall /\ Keep
    /\ UNCHANGED kfSession

Find(name, must) == <<[op |-> "login"], [op |-> "find", name |-> name, must |-> must]>>
At(op, handle) == <<[op |-> "login"], [op |-> op, handle |-> handle]>>

\* The dialog of the token's key files: the list, and what is done with one selected in it.
SecurityTokenKeyfileDlgProc ==
    /\ Idle /\ kfReady
    /\ \/ kfWork' = Find(Gone, FALSE) /\ kfCall' = [NoCall EXCEPT !.kind = "list"]
       \/ \E i \in DOMAIN kfFound : \E op \in {"data", "delete"} :
             /\ kfWork' = At(op, kfFound[i].handle) \o (IF op = "delete" THEN Find(Gone, FALSE) ELSE <<>>)
             /\ kfCall' = [NoCall EXCEPT !.kind = op]
       \/ \E name \in Names :
             /\ kfWork' = Work("login") \o Find(name, FALSE) \o <<[op |-> "create", name |-> name]>> \o Find(Gone, FALSE)
             /\ kfCall' = [NoCall EXCEPT !.kind = "create"]
    /\ UNCHANGED <<kfReady, kfToken, kfSession, kfFound, kfEdited, kfPassword, kfSwaps>>

-----------------------------------------------------------------------------
(* Lists of key files, and their application to a password. *)

\* KeyFilesDlgProc: the dialog works on a copy of the list, which it keeps or throws away.
KeyFilesDlgProc ==
    /\ Idle
    /\ \/ ~kfEdited.open /\ kfEdited' = [kfEdited EXCEPT !.open = TRUE, !.edited = kfEdited.kept]
       \/ /\ kfEdited.open
          /\ \/ \E path \in Files \cup Names \cup {"directory"} :
                   /\ Len(kfEdited.edited) < MaxEntries
                   /\ kfEdited' = [kfEdited EXCEPT !.edited = Append(@, path)]
             \/ \E i \in DOMAIN kfEdited.edited : kfEdited' = [kfEdited EXCEPT !.edited = RemoveAt(@, i)]
             \/ kfEdited.edited # <<>> /\ kfEdited' = [kfEdited EXCEPT !.edited = <<>>]
             \/ \E enable \in BOOLEAN :
                   kfEdited' = [open |-> FALSE, edited |-> <<>>, kept |-> kfEdited.edited, enable |-> enable]
             \/ kfEdited' = [kfEdited EXCEPT !.open = FALSE, !.edited = <<>>]
    /\ kfCall' = NoCall /\ kfPassword' = NoPassword /\ kfFound' = <<>>
    /\ UNCHANGED <<kfReady, kfToken, kfSession, kfWork, kfSwaps>>

\* What is to be done for an entry of the list.
Entry(path) ==
    IF path \in Names THEN Find(path, TRUE) \o At("data", 0)
    ELSE IF path = "directory" THEN Work("directory")
    ELSE <<[op |-> "file", path |-> path]>>

\* A caller of KeyFilesApply: one that checks the result goes on only when all were applied, one
\* that opens an existing volume does not look at it. A token's exception leaves the password
\* unmixed, any other failure does not.
KeyFilesApply ==
    /\ Idle /\ ~kfEdited.open /\ kfEdited.enable /\ kfEdited.kept # <<>>
    /\ \E kind \in {"newPassword", "existingPassword"} :
          kfCall' = [NoCall EXCEPT !.kind = kind, !.list = kfEdited.kept]
    /\ kfWork' = FlattenSeq([i \in DOMAIN kfEdited.kept |-> Entry(kfEdited.kept[i])]) \o Work("mix")
    /\ kfPassword' = NoPassword /\ kfFound' = <<>>
    /\ UNCHANGED <<kfReady, kfToken, kfSession, kfEdited, kfSwaps>>

\* A bug: a key file that cannot be read is only reported.
FaultyFailed(call) == [call EXCEPT !.excuse = TRUE]
Failed(call) == [call EXCEPT !.ok = FALSE, !.excuse = TRUE]

\* KeyFileProcess of one file, which may be missing, empty or unreadable from some point on.
KeyFileProcess ==
    /\ Doing("file")
    /\ \/ kfCall' = [kfCall EXCEPT !.pool = Append(@, Head(kfWork).path)]
       \/ kfCall' = Failed(kfCall)
       \/ kfCall' = Failed([kfCall EXCEPT !.pool = Append(@, "part of it")])
    /\ Next1(<<>>) /\ Keep /\ UNCHANGED <<kfSession, kfToken>>

\* A directory: all the files in it that are not hidden, but nothing of its subdirectories.
SearchDirectory ==
    /\ Doing("directory")
    /\ \/ \* none of them can be used
          kfCall' = Failed(kfCall) /\ Next1(<<>>)
       \/ kfCall' = kfCall /\ Next1(SetToSeq({[op |-> "file", path |-> f] : f \in Files}))
    /\ Keep /\ UNCHANGED <<kfSession, kfToken>>

Mix ==
    /\ Doing("mix")
    /\ kfPassword' = IF kfCall.ok \/ kfCall.kind = "existingPassword" THEN kfCall.pool ELSE NoPassword
    /\ Next1(<<>>) /\ UNCHANGED <<kfReady, kfToken, kfSession, kfFound, kfEdited, kfCall, kfSwaps>>

Next ==
    \/ TakeOut \/ PutIn
    \/ InitSecurityTokenLibrary \/ CloseLibrary \/ CloseAllSessions
    \/ LoginUserIfRequired \/ EnterPin \/ GetAvailableKeyfiles \/ GetKeyfileData \/ DeleteKeyfile \/ CreateKeyfile
    \/ SecurityTokenKeyfileDlgProc \/ KeyFilesDlgProc
    \/ KeyFilesApply \/ KeyFileProcess \/ SearchDirectory \/ Mix

-----------------------------------------------------------------------------
Sessions == [live : BOOLEAN, user : BOOLEAN] \cup {None}

TypeOK ==
    /\ kfReady \in BOOLEAN /\ kfSwaps \in 0..MaxSwaps /\ kfSession \in Sessions
    /\ kfToken # None => kfToken.user \in BOOLEAN /\ ToSet(kfToken.objects) \subseteq Names \cup {Gone}
    /\ kfEdited.kept \in Lists /\ kfEdited.edited \in Lists

\* A call that works with a token fails only for a reason that arose while it ran: the token was
\* not there or exchanged, the user gave no PIN, the object is not there or has no room. It never
\* fails because of what an earlier call, or another message while the PIN was asked for, has left
\* of the sessions.
CallsServed == Idle /\ ~kfCall.ok => kfCall.excuse

Expected(list) ==
    FlattenSeq([i \in DOMAIN list |-> IF list[i] = "directory" THEN SetToSeq(Files) ELSE <<list[i]>>])
SameBag(s, t) == \A x \in ToSet(s) \cup ToSet(t) :
    Len(SelectSeq(s, LAMBDA y : y = x)) = Len(SelectSeq(t, LAMBDA y : y = x))

\* A new password, or the password of a new volume, that is taken on has every key file of the
\* list mixed in, and nothing else, whatever happened on the way: the list opens the volume again.
\* (Unless the token was exchanged between the search and the reading.)
NewPasswordWhole ==
    Idle /\ kfCall.kind = "newPassword" /\ kfPassword # NoPassword /\ ~kfCall.swapped =>
        SameBag(kfPassword, Expected(kfCall.list))
=============================================================================
