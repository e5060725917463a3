---------------------------- MODULE PasswordDialog ----------------------------
(* The dialog in which the header key of a volume, or of the system drive, is changed: the
   password, the key files or the key derivation (PasswordChangeDlgProc in Mount/Mount.c). *)
EXTENDS Integers, FiniteSets

CONSTANTS
    Words,      \* passwords of a sufficient length
    Files       \* key files

VARIABLES
    pdVolume,   \* what opens the volume: password, key files, key derivation
    pdDefault,  \* defaultKeyFilesParam
    pdKeys,     \* KeyFilesEnable, FirstKeyFile
    pdDialog,   \* the dialog: its mode, fields and button
    pdLayout,   \* the keyboard layout
    pdEntered   \* what was in the dialog when it last succeeded

pdVars == <<pdVolume, pdDefault, pdKeys, pdDialog, pdLayout, pdEntered>>

Empty == ""
NoKeys == [enable |-> FALSE, files |-> {}]
Used(keys) == IF keys.enable THEN keys.files ELSE {}
Closed == [open |-> FALSE, mode |-> "none", old |-> Empty, new |-> Empty,
           verify |-> Empty, foreign |-> FALSE, newKeys |-> NoKeys, prf |-> 0, ok |-> FALSE]
Nothing == [pdDialog |-> Closed, pdKeys |-> NoKeys]

\* The kinds of key derivation are 1 and 2; the loader knows only the first.
Init ==
    /\ pdVolume \in [system : BOOLEAN, word : Words, foreign : {FALSE},
                    files : SUBSET Files, prf : {1}]
    /\ pdVolume.system => pdVolume.files = {}
    /\ pdDefault \in {NoKeys} \cup [enable : {TRUE}, files : (SUBSET Files) \ {{}}]
    /\ pdKeys = pdDefault /\ pdDialog = Closed /\ pdLayout = "other" /\ pdEntered = Nothing

-----------------------------------------------------------------------------
(* The button is enabled or disabled whenever a field or a list has changed. *)
SamePassword(dialog) == dialog.mode \in {"prf", "files", "remove"}
NewWord(dialog) == IF SamePassword(dialog) THEN dialog.old ELSE dialog.new
NewKeys(dialog, keys) == IF dialog.mode = "prf" THEN keys ELSE dialog.newKeys

FaultyPasswordChangeEnable(dialog, keys) ==
    [dialog EXCEPT !.ok =
        /\ Used(keys) # {} \/ dialog.old # Empty
        /\ SamePassword(dialog) \/ dialog.new = dialog.verify
        /\ dialog.newKeys.enable \/ NewWord(dialog) # Empty]
PasswordChangeEnable(dialog, keys) ==
    [dialog EXCEPT !.ok =
        /\ Used(keys) # {} \/ dialog.old # Empty
        /\ SamePassword(dialog) \/ dialog.new = dialog.verify
        /\ Used(NewKeys(dialog, keys)) # {} \/ NewWord(dialog) # Empty]

Update(dialog, keys) ==
    /\ pdDialog' = PasswordChangeEnable(dialog, keys) /\ pdKeys' = keys
    /\ UNCHANGED <<pdVolume, pdDefault, pdLayout, pdEntered>>

-----------------------------------------------------------------------------
(* ChangePassword and ChangeSysEncPassword open the dialog. *)
FaultyKeysOffered(mode) == IF mode = "remove" THEN [pdKeys EXCEPT !.enable = TRUE] ELSE pdKeys
KeysOffered(mode) ==
    IF pdVolume.system THEN [pdKeys EXCEPT !.enable = FALSE]
    ELSE IF mode = "remove" THEN [pdKeys EXCEPT !.enable = TRUE] ELSE pdKeys

\* The commands of the menu, two of which the system drive has, too.
Modes == IF pdVolume.system THEN {"password", "prf"} ELSE {"password", "prf", "files", "remove"}

OpenDialog(mode) ==
    /\ ~pdDialog.open
    /\ pdDialog' = [Closed EXCEPT !.open = TRUE, !.mode = mode, !.newKeys.enable = (mode = "files")]
    /\ pdKeys' = KeysOffered(mode)
    /\ pdLayout' = IF pdVolume.system THEN "us" ELSE pdLayout
    /\ UNCHANGED <<pdVolume, pdDefault, pdEntered>>

\* The fields of a new password are disabled where the old one is kept.
EnterPassword(field, word) ==
    /\ pdDialog.open /\ (SamePassword(pdDialog) => field = "old")
    /\ Update([pdDialog EXCEPT ![field] = word,
                               !.foreign = @ \/ (pdVolume.system /\ pdLayout = "other")], pdKeys)

\* The lists of key files, which system encryption does not have.
SelectKeyFiles(keys) ==
    /\ pdDialog.open /\ ~pdVolume.system
    /\ Update(pdDialog, keys)

SelectNewKeyFiles(keys) ==
    /\ pdDialog.open /\ ~pdVolume.system /\ pdDialog.mode \in {"password", "files"}
    /\ Update([pdDialog EXCEPT !.newKeys = keys], pdKeys)

\* The combo box is disabled where all key files are removed; for the system any derivation
\* but the loader's is put back.
SelectDerivation(prf) ==
    /\ pdDialog.open /\ pdDialog.mode # "remove"
    /\ pdDialog' = [pdDialog EXCEPT !.prf = IF pdVolume.system /\ prf # 0 THEN 1 ELSE prf]
    /\ UNCHANGED <<pdVolume, pdDefault, pdKeys, pdLayout, pdEntered>>

-----------------------------------------------------------------------------
(* The password of the system is typed as at the loader, which knows the US layout only. The
   layout is looked at every few milliseconds: sooner than the user does anything else. *)
ChangeLayout ==
    /\ pdDialog.open /\ pdVolume.system /\ pdLayout = "us" /\ pdLayout' = "other"
    /\ UNCHANGED <<pdVolume, pdDefault, pdKeys, pdDialog, pdEntered>>

FaultyWipedFields(dialog) == dialog
WipedFields(dialog) == [dialog EXCEPT !.old = Empty, !.new = Empty, !.verify = Empty,
                                      !.foreign = FALSE]

\* The layout is put back, or the dialog given up.
KeyboardLayoutGuard ==
    /\ pdDialog.open /\ pdVolume.system /\ pdLayout = "other"
    /\ \/ pdDialog' = PasswordChangeEnable(WipedFields(pdDialog), pdKeys) /\ pdLayout' = "us"
       \/ pdDialog' = Closed /\ UNCHANGED pdLayout
    /\ UNCHANGED <<pdVolume, pdDefault, pdKeys, pdEntered>>
Guarded == pdVolume.system => pdLayout = "us"

-----------------------------------------------------------------------------
RestoreDefaultKeyFilesParam == pdKeys' = pdDefault

Cancel ==
    /\ pdDialog.open /\ Guarded /\ pdDialog' = Closed
    /\ RestoreDefaultKeyFilesParam
    /\ UNCHANGED <<pdVolume, pdDefault, pdLayout, pdEntered>>

\* KeyFilesApply may fail on the way, after some of the files were mixed in.
Mixed(word, files) == {[word |-> word, files |-> f] : f \in SUBSET files}

\* That all key files of the old password were applied is not asked, but only a key that
\* opens the volume gets any further; all new ones must be.
FaultyNewKeyFiles == Used(pdDialog.newKeys)
NewKeyFiles == Used(NewKeys(pdDialog, pdKeys))

Change ==
    /\ pdDialog.open /\ pdDialog.ok /\ Guarded
    /\ [word |-> pdVolume.word, files |-> pdVolume.files] \in Mixed(pdDialog.old, Used(pdKeys))
    /\ pdVolume' = [pdVolume EXCEPT
            !.word = NewWord(pdDialog), !.files = NewKeyFiles, !.foreign = pdDialog.foreign,
            !.prf = IF pdDialog.prf = 0 \/ pdVolume.system THEN @ ELSE pdDialog.prf]
    /\ pdEntered' = [pdDialog |-> pdDialog, pdKeys |-> pdKeys]
    /\ pdDialog' = Closed /\ RestoreDefaultKeyFilesParam
    /\ UNCHANGED <<pdDefault, pdLayout>>

Next ==
    \/ \E mode \in Modes : OpenDialog(mode)
    \/ \E field \in {"old", "new", "verify"}, word \in Words \cup {Empty} :
            EnterPassword(field, word)
    \/ \E keys \in [enable : BOOLEAN, files : SUBSET Files] :
            SelectKeyFiles(keys) \/ SelectNewKeyFiles(keys)
    \/ \E prf \in 0..2 : SelectDerivation(prf)
    \/ ChangeLayout \/ KeyboardLayoutGuard \/ Cancel \/ Change

-----------------------------------------------------------------------------
Keys == [enable : BOOLEAN, files : SUBSET Files]
Dialogs == [open : BOOLEAN,
            mode : {"none", "password", "prf", "files", "remove"}, old : Words \cup {Empty},
            new : Words \cup {Empty}, verify : Words \cup {Empty}, foreign : BOOLEAN,
            newKeys : Keys, prf : 0..2, ok : BOOLEAN]

TypeOK ==
    /\ pdVolume \in [system : BOOLEAN, word : Words \cup {Empty}, foreign : BOOLEAN,
                    files : SUBSET Files, prf : 1..2]
    /\ pdDefault \in Keys /\ pdKeys \in Keys /\ pdDialog \in Dialogs
    /\ pdLayout \in {"us", "other"} /\ pdEntered \in [pdDialog : Dialogs, pdKeys : Keys]

(* The volume opens with what the user entered and no other, whatever of it the mode of the
   dialog leaves as it was; and it is never left without a password and without key files
   (PasswordChangeDlgProc, PasswordChangeEnable). *)
OpensAsEntered ==
    LET entered == pdEntered.pdDialog
        keys == IF entered.mode = "prf" THEN pdEntered.pdKeys ELSE entered.newKeys
    IN /\ pdEntered # Nothing =>
            /\ pdVolume.files = IF entered.mode = "remove" THEN {} ELSE Used(keys)
            /\ entered.mode = "password" => pdVolume.word = entered.new /\ entered.new = entered.verify
            /\ entered.mode # "password" => pdVolume.word = entered.old
       /\ pdVolume.word # Empty \/ pdVolume.files # {}

(* A password of the system that the loader is to be given was typed, all of it, as it will
   be typed there, and is used without key files, with the loader's key derivation
   (PasswordChangeDlgProc). *)
LoaderCanOpen ==
    pdVolume.system => ~pdVolume.foreign /\ pdVolume.files = {} /\ pdVolume.prf = 1
===============================================================================
