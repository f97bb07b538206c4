----------------------------- MODULE UsbStorage -----------------------------
(***************************************************************************)
(* USB sticks as the file system sees them: the storage slots and block    *)
(* transfers of usb_storage.cpp, the FatFs mounts of usb_fatfs.cpp and the *)
(* file and directory handles of rp_fs.cpp.                                *)
(*                                                                         *)
(* A FatFs call runs to its end inside one task of loop(), but every block *)
(* it transfers is waited for by running the USB host stack, and whatever  *)
(* the stack has to tell, a stick plugged in, a stick pulled out, the end  *)
(* of this or of an earlier transfer, is told by callbacks in that wait.   *)
(* The host stack and FatFs themselves are modelled as this code uses them.*)
(*                                                                         *)
(* Sticks are numbered in the order they are plugged in, so that one in    *)
(* the place of another is told apart.                                     *)
(***************************************************************************)
EXTENDS Integers, FiniteSets

CONSTANTS
  Addrs,       \* USB device addresses
  MaxDevices,  \* USB_STORAGE_MAX_DEVICES: slots, and FatFs drives
  MaxHandles,  \* RP_FS_MAX_HANDLES and RP_FS_MAX_DIR_HANDLES
  MaxPlugs,    \* bound: sticks plugged in
  MaxTimeouts  \* bound: transfers given up before they ended

ASSUME UsbAssumption ==
  /\ 0 \notin Addrs
  /\ MaxDevices \in Nat \ {0}
  /\ MaxHandles \in Nat \ {0}
  /\ MaxPlugs \in Nat
  /\ MaxTimeouts \in Nat

Devices == 0 .. MaxDevices - 1
Handles == 0 .. MaxHandles - 1
Sticks  == 1 .. MaxPlugs
Pools   == {"file", "dir"}
Kinds   == {"read", "write"}

VARIABLES
  stick,             \* the stick at an address, 0 for none
  inflight,          \* the transfer the host stack has queued for an address
  gUSBStorageSlots,
  gUSBFatFs,         \* the stick whose file system the drive's work area holds
  gUSBFatFsMounted,
  handles,           \* gRPFSHandles and gRPFSDirHandles
  op,                \* the FatFs call that is being made
  wait,              \* the transfer that is being waited for
  gDone,             \* gReadDone with gReadOK, gWriteDone with gWriteOK
  filled,            \* history: the blocks waited for have been transferred
  outlived,          \* history: drives on which a call succeeded after its stick was pulled
  plugs,             \* history, for the bound
  timeouts           \* history, for the bound

fatfs   == <<gUSBFatFs, gUSBFatFsMounted, handles>>
waiting == <<wait, filled, timeouts>>
usb     == <<stick, inflight, gUSBStorageSlots, plugs>>

vars == <<fatfs, waiting, usb, op, gDone, outlived>>

NoSlot == [present |-> FALSE, mount_pending |-> FALSE, dev_addr |-> 0]

(* stick: the one the open file or directory is on.                        *)
NoHandle == [in_use |-> FALSE, device |-> 0, stick |-> 0]

NoWait == [kind |-> "none", addr |-> 0]

(* A call: what it is, on which drive and, for a close, of which handle.   *)
(* next is what a mount is made for.  stick is the one its file system     *)
(* objects belong to; pulled, that this one was pulled out meanwhile.      *)
NoOp == [name |-> "none", device |-> 0, pool |-> "file", handle |-> 0,
         next |-> "none", stick |-> 0, failed |-> FALSE, pulled |-> FALSE]

TypeOK ==
  /\ stick \in [Addrs -> 0 .. MaxPlugs]
  /\ inflight \in [Addrs -> Kinds \union {"none"}]
  /\ gUSBStorageSlots \in [Devices -> [present : BOOLEAN, mount_pending : BOOLEAN,
                                       dev_addr : Addrs \union {0}]]
  /\ gUSBFatFs \in [Devices -> 0 .. MaxPlugs]
  /\ gUSBFatFsMounted \in [Devices -> BOOLEAN]
  /\ handles \in [Pools -> [Handles -> [in_use : BOOLEAN, device : Devices,
                                        stick : 0 .. MaxPlugs]]]
  /\ op \in [name : {"none", "mount", "open", "use", "close", "closeAll"},
             device : Devices, pool : Pools, handle : Handles,
             next : {"none", "open", "use"}, stick : 0 .. MaxPlugs, failed : BOOLEAN,
             pulled : BOOLEAN]
  /\ wait \in [kind : Kinds, addr : Addrs] \union {NoWait}
  /\ gDone \in [Kinds -> {"no", "ok", "failed"}]
  /\ filled \in BOOLEAN
  /\ outlived \subseteq Devices
  /\ plugs \in 0 .. MaxPlugs
  /\ timeouts \in 0 .. MaxTimeouts

Init ==
  /\ stick = [a \in Addrs |-> 0]
  /\ inflight = [a \in Addrs |-> "none"]
  /\ gUSBStorageSlots = [d \in Devices |-> NoSlot]
  /\ gUSBFatFs = [d \in Devices |-> 0]
  /\ gUSBFatFsMounted = [d \in Devices |-> FALSE]
  /\ handles = [p \in Pools |-> [h \in Handles |-> NoHandle]]
  /\ op = NoOp /\ wait = NoWait
  /\ gDone = [k \in Kinds |-> "no"]
  /\ filled = FALSE /\ outlived = {} /\ plugs = 0 /\ timeouts = 0

(* The first of a set of indexes, as the loops over slots and handles find *)
(* it.                                                                     *)
First(S) == CHOOSE i \in S : \A j \in S : i <= j

StickOf(d) == IF gUSBStorageSlots[d].present THEN stick[gUSBStorageSlots[d].dev_addr] ELSE 0

-----------------------------------------------------------------------------
(* The callbacks of the USB host stack, made by gUSBHost.task(): once a    *)
(* turn of loop(), and in the wait for a transfer.                         *)
HostTaskRuns == op = NoOp \/ wait # NoWait

(* Any stick in use is taken for the one of the callback. *)
MutantSlotsOf(a) == {d \in Devices : gUSBStorageSlots[d].present}

SlotsOf(a) == {d \in Devices : gUSBStorageSlots[d].present /\ gUSBStorageSlots[d].dev_addr = a}

FreeSlots == {d \in Devices : ~gUSBStorageSlots[d].present}

(* tuh_msc_mount_cb.  A stick for which no slot is free is not noted.      *)
tuh_msc_mount_cb(a) ==
  /\ HostTaskRuns
  /\ stick[a] = 0
  /\ plugs < MaxPlugs
  /\ plugs' = plugs + 1
  /\ stick' = [stick EXCEPT ![a] = plugs']
  /\ LET S == IF SlotsOf(a) # {} THEN SlotsOf(a) ELSE FreeSlots
     IN gUSBStorageSlots' =
          IF S = {} THEN gUSBStorageSlots
          ELSE [gUSBStorageSlots EXCEPT ![First(S)] =
                  [present |-> TRUE, mount_pending |-> TRUE, dev_addr |-> a]]
  /\ UNCHANGED <<fatfs, waiting, inflight, op, gDone, outlived>>

(* All handles, whatever their device. *)
MutantHandlesWithout(d) == [p \in Pools |-> [h \in Handles |-> NoHandle]]

(* Those of open directories are forgotten. *)
MutantFilesWithout(d) ==
  [handles EXCEPT !["file"] =
     [h \in Handles |-> IF handles["file"][h].device = d THEN NoHandle ELSE handles["file"][h]]]

(* rp_fs_close_all_for_device.                                             *)
HandlesWithout(d) ==
  [p \in Pools |-> [h \in Handles |->
     IF handles[p][h].in_use /\ handles[p][h].device = d THEN NoHandle ELSE handles[p][h]]]

(* Closing a file may try to write a last block: the flag of a write that  *)
(* is waited for, on this stick or another, is reset then.                 *)
FlagsAfterClosing(d) ==
  IF \E h \in Handles : handles["file"][h].in_use /\ handles["file"][h].device = d
  THEN {gDone, [gDone EXCEPT !["write"] = "no"]}
  ELSE {gDone}

(* The drive still counts as mounted. *)
Mutantusb_fatfs_unmount(d) ==
  /\ handles' = HandlesWithout(d)
  /\ gDone' \in FlagsAfterClosing(d)
  /\ gUSBFatFs' = [gUSBFatFs EXCEPT ![d] = 0]
  /\ outlived' = outlived \ {d}
  /\ UNCHANGED gUSBFatFsMounted

usb_fatfs_unmount(d) ==
  IF gUSBFatFsMounted[d]
  THEN /\ handles' = HandlesWithout(d)
       /\ gDone' \in FlagsAfterClosing(d)
       /\ gUSBFatFs' = [gUSBFatFs EXCEPT ![d] = 0]
       /\ gUSBFatFsMounted' = [gUSBFatFsMounted EXCEPT ![d] = FALSE]
       /\ outlived' = outlived \ {d}
  ELSE UNCHANGED <<fatfs, gDone, outlived>>

(* tuh_msc_umount_cb.  What was queued for the stick never ends.           *)
tuh_msc_umount_cb(a) ==
  /\ HostTaskRuns
  /\ stick[a] # 0
  /\ stick' = [stick EXCEPT ![a] = 0]
  /\ inflight' = [inflight EXCEPT ![a] = "none"]
  /\ IF SlotsOf(a) = {}
     THEN UNCHANGED <<fatfs, gDone, gUSBStorageSlots, op, outlived>>
     ELSE LET d == First(SlotsOf(a))
          IN /\ usb_fatfs_unmount(d)
             /\ gUSBStorageSlots' = [gUSBStorageSlots EXCEPT ![d] = NoSlot]
             /\ op' = IF op # NoOp /\ op.device = d THEN [op EXCEPT !.pulled = TRUE] ELSE op
  /\ UNCHANGED <<waiting, plugs>>

(* The read_complete and write_complete callbacks, which do not look at    *)
(* whose transfer has ended.                                               *)
TransferComplete(a) ==
  /\ HostTaskRuns
  /\ inflight[a] # "none"
  /\ inflight' = [inflight EXCEPT ![a] = "none"]
  /\ \E r \in {"ok", "failed"} :
       /\ gDone' = [gDone EXCEPT ![inflight[a]] = r]
       /\ filled' = (filled \/ (r = "ok" /\ wait = [kind |-> inflight[a], addr |-> a]))
  /\ UNCHANGED <<fatfs, wait, timeouts, stick, gUSBStorageSlots, plugs, op, outlived>>

-----------------------------------------------------------------------------
(* usb_storage_read_blocks and usb_storage_write_blocks.                   *)

(* The flags of the transfer before are still set. *)
MutantCleared(kind) == gDone

Cleared(kind) == [gDone EXCEPT ![kind] = "no"]

(* A device that is gone, or still busy with what was given up, fails the  *)
(* call; otherwise the transfer is queued.  A mount takes the stick it     *)
(* first reads for its own.                                                *)
StartTransfer(kind) ==
  /\ op # NoOp /\ wait = NoWait /\ ~op.failed
  /\ LET slot == gUSBStorageSlots[op.device]
     IN IF ~slot.present \/ inflight[slot.dev_addr] # "none"
        THEN /\ op' = [op EXCEPT !.failed = TRUE]
             /\ UNCHANGED <<waiting, inflight, gDone>>
        ELSE /\ inflight' = [inflight EXCEPT ![slot.dev_addr] = kind]
             /\ gDone' = Cleared(kind)
             /\ wait' = [kind |-> kind, addr |-> slot.dev_addr]
             /\ filled' = FALSE
             /\ op' = IF op.stick = 0 THEN [op EXCEPT !.stick = stick[slot.dev_addr]] ELSE op
             /\ UNCHANGED timeouts
  /\ UNCHANGED <<fatfs, stick, gUSBStorageSlots, plugs, outlived>>

EndWait(ok) ==
  /\ wait' = NoWait
  /\ filled' = FALSE
  /\ op' = [op EXCEPT !.failed = ~ok]
  /\ UNCHANGED <<fatfs, usb, gDone, outlived>>

TransferDone ==
  /\ wait # NoWait
  /\ gDone[wait.kind] # "no"
  /\ EndWait(gDone[wait.kind] = "ok")
  /\ UNCHANGED timeouts

(* The transfer stays queued: nothing takes it back.                       *)
TransferTimeout ==
  /\ wait # NoWait
  /\ IF inflight[wait.addr] = wait.kind
     THEN timeouts < MaxTimeouts /\ timeouts' = timeouts + 1
     ELSE UNCHANGED timeouts
  /\ EndWait(FALSE)

-----------------------------------------------------------------------------
(* FatFs calls begin.                                                      *)
Call(name, pool, d, h, s) ==
  op' = [NoOp EXCEPT !.name = name, !.pool = pool, !.device = d, !.handle = h, !.stick = s]

Mount(d, next, pool) ==
  op' = [NoOp EXCEPT !.name = "mount", !.device = d, !.next = next, !.pool = pool]

(* The search runs one handle too far. *)
MutantFreeHandles(pool) ==
  {h \in 0 .. MaxHandles : h = MaxHandles \/ ~handles[pool][h].in_use}

FreeHandles(pool) == {h \in Handles : ~handles[pool][h].in_use}

(* A call on a mounted drive whose work area holds s.  open and opendir    *)
(* take the first free handle, and fail without one.  FatFs gives up the   *)
(* file system of a drive whose stick is gone.                             *)
CallOn(name, pool, d, s) ==
  LET taken == name # "use" /\ FreeHandles(pool) = {}
      gone  == ~gUSBStorageSlots[d].present
  IN /\ gUSBFatFs' = [gUSBFatFs EXCEPT ![d] = IF gone /\ ~taken THEN 0 ELSE s]
     /\ IF taken \/ gone THEN op' = NoOp
        ELSE Call(name, pool, d, IF name = "use" THEN 0 ELSE First(FreeHandles(pool)), s)

Claimed(slot) ==
  [present |-> slot.present, mount_pending |-> FALSE, dev_addr |-> slot.dev_addr]

(* The mount of a stick that has been present for a while.  The times in   *)
(* usb_storage.cpp only say when; any pending stick may be due.            *)
taskUSBStorage ==
  /\ op = NoOp
  /\ \E d \in Devices :
       /\ gUSBStorageSlots[d].mount_pending
       /\ gUSBStorageSlots' = [gUSBStorageSlots EXCEPT ![d] = Claimed(@)]
       /\ IF gUSBStorageSlots[d].present /\ ~gUSBFatFsMounted[d]
          THEN Mount(d, "none", "file")
          ELSE UNCHANGED op
  /\ UNCHANGED <<fatfs, waiting, stick, inflight, plugs, gDone, outlived>>

(* open, opendir, and the calls with a path that need no handle: delete,   *)
(* rename, mkdir, rmdir.  A drive that is not mounted is mounted first.    *)
PathCall(name, pool) ==
  /\ op = NoOp
  /\ \E d \in Devices :
       \/ /\ ~gUSBFatFsMounted[d] /\ gUSBStorageSlots[d].present
          /\ Mount(d, name, pool)
          /\ UNCHANGED gUSBFatFs
       \/ gUSBFatFsMounted[d] /\ CallOn(name, pool, d, gUSBFatFs[d])
  /\ UNCHANGED <<waiting, usb, gUSBFatFsMounted, handles, gDone, outlived>>

(* FatFs refuses an object of a file system that is mounted no more.       *)
Valid(r) == r.stick = gUSBFatFs[r.device] /\ gUSBStorageSlots[r.device].present

(* read, write, seek, readdir.                                             *)
HandleCall ==
  /\ op = NoOp
  /\ \E p \in Pools, h \in Handles :
       /\ handles[p][h].in_use
       /\ Valid(handles[p][h])
       /\ Call("use", "file", handles[p][h].device, 0, handles[p][h].stick)
  /\ UNCHANGED <<fatfs, waiting, usb, gDone, outlived>>

(* The call that closes a handle of the table H; it is freed in any case.  *)
Close(name, H, p, h) ==
  [NoOp EXCEPT !.name = name, !.pool = p, !.device = H[p][h].device, !.handle = h,
               !.stick = H[p][h].stick, !.failed = ~Valid(H[p][h])]

CloseCall ==
  /\ op = NoOp
  /\ \E p \in Pools, h \in Handles :
       handles[p][h].in_use /\ op' = Close("close", handles, p, h)
  /\ UNCHANGED <<fatfs, waiting, usb, gDone, outlived>>

(* rp_fs_close_all, when the mailbox is initialised: files, then           *)
(* directories, each from the first.                                       *)
CloseFirst(H) ==
  LET InUse(p) == {h \in Handles : H[p][h].in_use}
  IN IF InUse("file") # {} THEN Close("closeAll", H, "file", First(InUse("file")))
     ELSE IF InUse("dir") # {} THEN Close("closeAll", H, "dir", First(InUse("dir")))
     ELSE NoOp

rp_fs_close_all ==
  /\ op = NoOp
  /\ op' = CloseFirst(handles)
  /\ UNCHANGED <<fatfs, waiting, usb, gDone, outlived>>

-----------------------------------------------------------------------------
(* FatFs calls end, well or with an error of the disk or of FatFs.         *)
Returns(name) == op.name = name /\ wait = NoWait

Succeeds == ~op.failed /\ op.stick # 0

Fails == op' = NoOp /\ UNCHANGED <<fatfs, outlived>>

Outlived == outlived' = IF op.pulled THEN outlived \union {op.device} ELSE outlived

(* The work area of a mounted drive is filled again by the call.           *)
Refilled == [gUSBFatFs EXCEPT ![op.device] =
               IF gUSBFatFsMounted[op.device] /\ @ = 0 THEN op.stick ELSE @]

(* usb_fatfs_mount after f_mount; the call it was made for follows.        *)
EndMount ==
  /\ Returns("mount")
  /\ \/ Fails
     \/ /\ Succeeds
        /\ gUSBFatFsMounted' = [gUSBFatFsMounted EXCEPT ![op.device] = TRUE]
        /\ IF op.next = "none"
           THEN op' = NoOp /\ gUSBFatFs' = [gUSBFatFs EXCEPT ![op.device] = op.stick]
           ELSE CallOn(op.next, op.pool, op.device, op.stick)
        /\ Outlived
        /\ UNCHANGED handles
  /\ UNCHANGED <<waiting, usb, gDone>>

(* The handle is marked in use only now.                                   *)
EndOpen ==
  /\ Returns("open")
  /\ \/ Fails
     \/ /\ Succeeds
        /\ gUSBFatFs' = Refilled
        /\ handles' = [handles EXCEPT ![op.pool][op.handle] =
                         [in_use |-> TRUE, device |-> op.device, stick |-> op.stick]]
        /\ op' = NoOp
        /\ Outlived
        /\ UNCHANGED gUSBFatFsMounted
  /\ UNCHANGED <<waiting, usb, gDone>>

EndUse ==
  /\ Returns("use")
  /\ \/ Fails
     \/ /\ Succeeds
        /\ gUSBFatFs' = Refilled
        /\ op' = NoOp
        /\ Outlived
        /\ UNCHANGED <<gUSBFatFsMounted, handles>>
  /\ UNCHANGED <<waiting, usb, gDone>>

EndClose ==
  /\ op.name \in {"close", "closeAll"} /\ wait = NoWait
  /\ handles' = [handles EXCEPT ![op.pool][op.handle] = NoHandle]
  /\ op' = IF op.name = "closeAll" THEN CloseFirst(handles') ELSE NoOp
  /\ UNCHANGED <<waiting, usb, gUSBFatFs, gUSBFatFsMounted, gDone, outlived>>

-----------------------------------------------------------------------------
HostTask ==
  \E a \in Addrs : tuh_msc_mount_cb(a) \/ tuh_msc_umount_cb(a) \/ TransferComplete(a)

FileSystem ==
  \/ PathCall("open", "file") \/ PathCall("open", "dir") \/ PathCall("use", "file")
  \/ HandleCall \/ CloseCall \/ rp_fs_close_all
  \/ EndMount \/ EndOpen \/ EndUse \/ EndClose

BlockIO == \/ \E k \in Kinds : StartTransfer(k)
           \/ TransferDone \/ TransferTimeout

Next == taskUSBStorage \/ HostTask \/ FileSystem \/ BlockIO

Spec == Init /\ [][Next]_vars

-----------------------------------------------------------------------------
(* Slots and sticks belong together: a present slot is that of a stick     *)
(* that is plugged in, and no stick has two; a stick is without one only   *)
(* when as many had come before it as there are slots.                     *)
SlotsTrackSticks ==
  /\ \A d \in Devices : gUSBStorageSlots[d].present => StickOf(d) # 0
  /\ \A d, e \in Devices : StickOf(d) # 0 /\ StickOf(d) = StickOf(e) => d = e
  /\ \A d \in Devices : gUSBStorageSlots[d].mount_pending => gUSBStorageSlots[d].present
  /\ \A a \in Addrs : stick[a] \in 1 .. MaxDevices => \E d \in Devices : StickOf(d) = stick[a]

(* usb_fatfs.cpp, 12, "maps USB storage slot N to FatFs logical drive N":  *)
(* a mounted drive has the file system of the stick in its slot.           *)
DriveIsSlot(d) == gUSBFatFsMounted[d] => StickOf(d) # 0 /\ gUSBFatFs[d] = StickOf(d)

(* So it is of every drive, but where a FatFs call succeeded on one whose  *)
(* stick had been pulled out during it, after the unmount; until the next  *)
(* unmount, of a drive that is mounted, sets it right.                     *)
CalmDrivesAreSlots == \A d \in Devices \ outlived : DriveIsSlot(d)

(* The same line, "and closes RP FS handles per device": what is open is   *)
(* on a stick that is plugged in and mounted, with the same exception.     *)
HandlesAreMounted ==
  \A p \in Pools, h \in Handles :
    LET r == handles[p][h]
    IN r.in_use /\ r.device \notin outlived =>
         gUSBFatFsMounted[r.device] /\ r.stick = StickOf(r.device)

(* "Other mounted USB sticks and their RP file handles remain valid"       *)
(* (usb_fatfs.cpp, 118): a handle is lost only by a close of that handle   *)
(* or with its own stick, and no call takes over one that is in use.       *)
HandlesRemain ==
  [][\A p \in Pools, h \in Handles, d \in Devices :
       handles[p][h].in_use /\ handles[p][h].device = d /\ handles'[p][h] # handles[p][h]
         => \/ op.name \in {"close", "closeAll"} /\ op.pool = p /\ op.handle = h
            \/ StickOf(d)' # StickOf(d)]_vars

(* A transfer that is waited for counts as done only when its own blocks   *)
(* have been transferred, as long as no earlier one was given up unended.  *)
OwnTransfer == wait # NoWait /\ gDone[wait.kind] = "ok" /\ timeouts = 0 => filled
=============================================================================
