--------------------------- MODULE VolumeHeaders ---------------------------
(* The headers of a volume, and what rewrites them while the volume is dismounted:
   changing a password (Common/Password.c), and backing up and restoring headers
   (Mount/Mount.c). A host holds a primary and a backup header area, each with a slot
   for the header of the outer volume and one for that of a hidden volume in it. *)
EXTENDS Integers

CONSTANTS
    Passwords,
    WipePassCount,  \* PRAND_DISK_WIPE_PASSES
    MaxFaults       \* bounds failed writes and crashes

VARIABLES
    vhHost,     \* [legacy, inPlace, hidden]: the kind of host
    vhSlot,     \* what the slots of each header area hold
    vhFile,     \* the slots of the external backup
    vhOp,       \* the operation in progress
    vhFaults

vhVars == <<vhHost, vhSlot, vhFile, vhOp, vhFaults>>

Volumes == {"outer", "hidden"}
Areas == {"primary", "backup"}
Random == [volume |-> "none", password |-> "none"]

\* CreateVolumeHeaderInMemory: the same master key under another password and salt.
Header(volume, password) == [volume |-> volume, password |-> password]
Headers == {Random} \cup {Header(v, p) : v \in Volumes, p \in Passwords}

NoBackup == [v \in Volumes |-> Random]
Idle == [pc |-> "idle", volume |-> "none", password |-> "none", area |-> "primary", pass |-> 0]

Init ==
    /\ vhHost \in {[legacy |-> l, inPlace |-> i, hidden |-> h] : l, i, h \in BOOLEAN}
    /\ vhHost.inPlace => ~vhHost.legacy /\ ~vhHost.hidden
    /\ \E outer, hidden \in Passwords :
         LET group == [v \in Volumes |->
                IF v = "outer" THEN Header(v, outer)
                ELSE IF vhHost.hidden THEN Header(v, hidden) ELSE Random]
         IN vhSlot = [a \in Areas |-> IF a = "backup" /\ vhHost.legacy THEN NoBackup ELSE group]
    /\ vhFile = NoBackup /\ vhOp = Idle /\ vhFaults = 0

\* The volume types are tried in turn.
FirstOpened(slots, password) ==
    LET opened == {v \in Volumes : slots[v] = Header(v, password)}
    IN IF "outer" \in opened THEN {"outer"} ELSE opened

OpenVolume(area, password) == FirstOpened(vhSlot[area], password)

Begin(pc, volume, password) ==
    vhOp' = [Idle EXCEPT !.pc = pc, !.volume = volume, !.password = password]

\* A write fails, or the computer crashes, and the slots may be lost.
WriteFault(slots) ==
    /\ vhFaults < MaxFaults /\ vhFaults' = vhFaults + 1
    /\ vhOp' = Idle
    /\ \E lost \in {{}, slots} :
         vhSlot' = [vhSlot EXCEPT ![vhOp.area] = [v \in Volumes |-> IF v \in lost THEN Random ELSE @[v]]]

\* WriteEffectiveVolumeHeader; on a device whose sectors are longer, the rest of the sector is kept.
WriteHeader ==
    /\ vhSlot' = [vhSlot EXCEPT ![vhOp.area][vhOp.volume] = Header(vhOp.volume, vhOp.password)]
    /\ UNCHANGED vhFaults

-----------------------------------------------------------------------------
(* ChangePwd. A header is rewritten many times, each time as a valid one. *)
ChangePwd(oldPassword, newPassword) ==
    /\ vhOp.pc = "idle"
    /\ \E v \in OpenVolume("primary", oldPassword) : Begin("change", v, newPassword)
    /\ UNCHANGED <<vhHost, vhSlot, vhFile, vhFaults>>

NextPass(op) ==
    IF op.pass + 1 < WipePassCount THEN [op EXCEPT !.pc = "change", !.pass = @ + 1]
    ELSE IF op.area = "backup" \/ vhHost.legacy THEN Idle
    ELSE [op EXCEPT !.pc = "change", !.pass = 0, !.area = "backup"]

\* A bug: also on hosts that may hold a hidden volume.
FaultyFillsReservedAreas == ~vhHost.legacy

FillsReservedAreas == vhHost.inPlace

RewriteHeader ==
    /\ vhOp.pc = "change"
    /\ \/ /\ WriteHeader
          /\ vhOp' = IF FillsReservedAreas THEN [vhOp EXCEPT !.pc = "fill"] ELSE NextPass(vhOp)
       \/ WriteFault({vhOp.volume})
    /\ UNCHANGED <<vhHost, vhFile>>

\* The whole area is read, all but the header in its first slot replaced, and written.
WriteRandomDataToReservedHeaderAreas ==
    /\ vhOp.pc = "fill"
    /\ \/ /\ vhSlot' = [vhSlot EXCEPT ![vhOp.area]["hidden"] = Random]
          /\ vhOp' = NextPass(vhOp) /\ UNCHANGED vhFaults
       \/ WriteFault(Volumes)
    /\ UNCHANGED <<vhHost, vhFile>>

-----------------------------------------------------------------------------
(* BackupVolumeHeader. The user may say that the volume holds no hidden one. The file is
   created, or emptied, before the headers are written to it. *)
BackupVolumeHeader(password, both, hiddenPassword) ==
    /\ vhOp.pc = "idle"
    /\ OpenVolume("primary", password) = {"outer"}
    /\ both => OpenVolume("primary", hiddenPassword) = {"hidden"}
    /\ \/ vhFile' = [v \in Volumes |-> IF v = "outer" THEN Header(v, password)
                                       ELSE IF both THEN Header(v, hiddenPassword) ELSE Random]
       \/ vhFile' = NoBackup
    /\ UNCHANGED <<vhHost, vhSlot, vhOp, vhFaults>>

(* RestoreVolumeHeader, from the backup area of the volume ... *)
RestoreInternalBackup(password) ==
    /\ vhOp.pc = "idle" /\ ~vhHost.legacy
    /\ \E v \in OpenVolume("backup", password) : Begin("internal", v, password)
    /\ UNCHANGED <<vhHost, vhSlot, vhFile, vhFaults>>

\* ... or from a file. It must be a backup of this volume.
RestoreExternalBackup(password) ==
    /\ vhOp.pc = "idle"
    /\ \E v \in FirstOpened(vhFile, password) : Begin("external", v, password)
    /\ UNCHANGED <<vhHost, vhSlot, vhFile, vhFaults>>

RestoreHeader ==
    /\ vhOp.pc \in {"internal", "external"}
    /\ \/ /\ WriteHeader
          /\ vhOp' = IF vhOp.pc = "external" /\ vhOp.area = "primary" /\ ~vhHost.legacy
                     THEN [vhOp EXCEPT !.area = "backup"] ELSE Idle
       \/ WriteFault({vhOp.volume})
    /\ UNCHANGED <<vhHost, vhFile>>

Next ==
    \/ \E p, q \in Passwords, both \in BOOLEAN : ChangePwd(p, q) \/ BackupVolumeHeader(p, both, q)
    \/ \E p \in Passwords : RestoreInternalBackup(p) \/ RestoreExternalBackup(p)
    \/ RewriteHeader \/ WriteRandomDataToReservedHeaderAreas \/ RestoreHeader

Spec == Init /\ [][Next]_vhVars

-----------------------------------------------------------------------------
\* Type invariant.
TypeOK ==
    /\ \A v \in Volumes : vhFile[v] \in Headers /\ \A a \in Areas : vhSlot[a][v] \in Headers
    /\ vhOp.pc \in {"idle", "change", "fill", "internal", "external"}
    /\ vhOp.pass \in 0..(WipePassCount - 1) /\ vhFaults \in 0..MaxFaults

\* However an operation is interrupted, and whichever of the two volumes it is about,
\* a header of each volume of the host remains (but for a legacy one, which has no backup
\* header).
HeaderAvailable ==
    ~vhHost.legacy =>
        \A v \in Volumes : v = "outer" \/ vhHost.hidden =>
            \E a \in Areas : vhSlot[a][v].volume = v
=============================================================================
