-------------------------- MODULE UsbStorageProofs --------------------------
(***************************************************************************)
(* Proofs about the storage stack, for any number of addresses, slots,     *)
(* sticks and handles: slots and sticks belong together, so do drives,     *)
(* handles and slots, and a transfer is the one that is waited for.        *)
(***************************************************************************)
EXTENDS UsbStorage, FiniteSetTheorems, WellFoundedInduction, TLAPS

(* A set of numbers has a first one: the least of the intervals from 0 to  *)
(* its members.                                                            *)
LEMMA FirstIsIn ==
  ASSUME NEW S \in SUBSET Nat, S # {}
  PROVE  First(S) \in S
<1> DEFINE Below == {0 .. i : i \in S}
<1>1. Below \subseteq FiniteSubsetsOf(Nat)
  <2> SUFFICES ASSUME NEW i \in S
               PROVE  0 .. i \in FiniteSubsetsOf(Nat)
    OBVIOUS
  <2>1. IsFiniteSet(0 .. i)
    BY FS_Interval
  <2>2. (0 .. i) \subseteq Nat
    OBVIOUS
  <2> QED
    BY <2>1, <2>2 DEF FiniteSubsetsOf
<1>2. PICK X \in Below : \A Y \in Below : ~ (<<Y, X>> \in StrictSubsetOrdering(Nat))
  <2>1. Below # {}
    OBVIOUS
  <2>2. IsWellFoundedOn(StrictSubsetOrdering(Nat), FiniteSubsetsOf(Nat))
    BY FS_StrictSubsetOrderingWellFounded
  <2> HIDE DEF Below
  <2> QED
    BY <1>1, <2>1, <2>2, WFMin
<1>3. PICK i \in S : X = 0 .. i
  OBVIOUS
<1>4. \A j \in S : i <= j
  <2> SUFFICES ASSUME NEW j \in S, j < i
               PROVE  FALSE
    OBVIOUS
  <2>1. (0 .. j) \subseteq (0 .. i) /\ (0 .. j) # (0 .. i)
    <3>1. i \in 0 .. i /\ i \notin 0 .. j
      OBVIOUS
    <3> QED
      BY <3>1
  <2>2. 0 .. j \in Below
    OBVIOUS
  <2>3. 0 .. j \in SUBSET Nat /\ 0 .. i \in SUBSET Nat
    OBVIOUS
  <2>4. <<0 .. j, 0 .. i>> \in StrictSubsetOrdering(Nat)
    BY <2>1, <2>3 DEF StrictSubsetOrdering
  <2> HIDE DEF Below
  <2> QED
    BY <1>2, <1>3, <2>2, <2>4
<1> QED
  BY <1>4 DEF First

LEMMA FirstSlot ==
  ASSUME NEW S \in SUBSET Devices, S # {}
  PROVE  First(S) \in S
<1>1. S \in SUBSET Nat
  BY UsbAssumption DEF Devices
<1> QED
  BY <1>1, FirstIsIn

LEMMA UpTo ==
  ASSUME NEW n \in Nat
  PROVE  IsFiniteSet(1 .. n) /\ Cardinality(1 .. n) = n
<1>1. 1 \in Int /\ n \in Int
  OBVIOUS
<1>2. IsFiniteSet(1 .. n) /\ Cardinality(1 .. n) = IF 1 > n THEN 0 ELSE n - 1 + 1
  BY ONLY <1>1, FS_Interval
<1> QED
  BY <1>2

-----------------------------------------------------------------------------
(* The slots, as far as plugging in and pulling out is concerned.          *)
SlotTypes ==
  /\ stick \in [Addrs -> 0 .. MaxPlugs]
  /\ gUSBStorageSlots \in [Devices -> [present : BOOLEAN, mount_pending : BOOLEAN,
                                       dev_addr : Addrs \union {0}]]
  /\ plugs \in 0 .. MaxPlugs

Uses(d, a) == gUSBStorageSlots[d].present /\ gUSBStorageSlots[d].dev_addr = a

(* Sticks are numbered in order, and each is at one address.               *)
Numbered ==
  /\ \A a \in Addrs : stick[a] <= plugs
  /\ \A a, b \in Addrs : stick[a] # 0 /\ stick[a] = stick[b] => a = b

(* A present slot is that of an address with a stick, no other slot is,    *)
(* and only a present slot waits for a mount.                              *)
Tracked ==
  /\ \A d \in Devices : gUSBStorageSlots[d].present =>
       gUSBStorageSlots[d].dev_addr \in Addrs /\ stick[gUSBStorageSlots[d].dev_addr] # 0
  /\ \A d, e \in Devices, a \in Addrs : Uses(d, a) /\ Uses(e, a) => d = e
  /\ \A d \in Devices : gUSBStorageSlots[d].mount_pending => gUSBStorageSlots[d].present

(* The first sticks, as many as there are slots, have one each.            *)
Seated == \A a \in Addrs : stick[a] \in 1 .. MaxDevices => \E d \in Devices : Uses(d, a)

SlotInv == SlotTypes /\ Numbered /\ Tracked /\ Seated

LEMMA InitSlotInv == Init => SlotInv
BY UsbAssumption
   DEF Init, SlotInv, SlotTypes, Numbered, Tracked, Seated, Uses, NoSlot, Devices

LEMMA SlotInvTracks == SlotInv => SlotsTrackSticks
<1> SUFFICES ASSUME SlotInv PROVE SlotsTrackSticks
  OBVIOUS
<1> USE UsbAssumption DEF SlotInv, SlotTypes, Numbered, Tracked, Seated, Uses
<1>1. ASSUME NEW d \in Devices, gUSBStorageSlots[d].present
      PROVE  StickOf(d) # 0
  BY <1>1 DEF StickOf
<1>2. ASSUME NEW d \in Devices, NEW e \in Devices, StickOf(d) # 0, StickOf(d) = StickOf(e)
      PROVE  d = e
  BY <1>2 DEF StickOf
<1>3. ASSUME NEW a \in Addrs, stick[a] \in 1 .. MaxDevices
      PROVE  \E d \in Devices : StickOf(d) = stick[a]
  BY <1>3 DEF StickOf
<1> QED
  BY <1>1, <1>2, <1>3 DEF SlotsTrackSticks

(* While at most as many sticks were plugged in as there are slots, a slot *)
(* is free for the next one: all taken, they would hold different sticks.  *)
LEMMA RoomForFirst ==
  ASSUME SlotInv, NEW a \in Addrs, stick[a] = 0, plugs < MaxDevices
  PROVE  FreeSlots # {}
<1> USE UsbAssumption DEF SlotInv, SlotTypes
<1> SUFFICES ASSUME FreeSlots = {}
             PROVE  FALSE
  OBVIOUS
<1> DEFINE f == [d \in Devices |-> stick[gUSBStorageSlots[d].dev_addr]]
<1>1. \A d \in Devices : gUSBStorageSlots[d].present
  BY DEF FreeSlots
<1>2. f \in [Devices -> 1 .. plugs]
  BY <1>1 DEF Tracked, Numbered
<1>3. \A d, e \in Devices : f[d] = f[e] => d = e
  BY <1>1 DEF Tracked, Numbered, Uses
<1>4. IsFiniteSet(Devices) /\ Cardinality(Devices) = MaxDevices
  BY FS_Interval DEF Devices
<1>5. IsFiniteSet(1 .. plugs) /\ Cardinality(1 .. plugs) = plugs
  <2>1. plugs \in Nat
    OBVIOUS
  <2> QED
    BY <2>1, UpTo
<1> HIDE DEF f
<1>6. PICK d \in Devices, e \in Devices : d # e /\ f[d] = f[e]
  BY <1>2, <1>4, <1>5, FS_PigeonHole
<1> QED
  BY <1>3, <1>6

-----------------------------------------------------------------------------
LEMMA PlugSlotInv ==
  ASSUME SlotInv, NEW a \in Addrs, tuh_msc_mount_cb(a)
  PROVE  SlotInv'
<1> USE UsbAssumption DEF SlotInv, SlotTypes
<1>1. stick[a] = 0 /\ plugs < MaxPlugs /\ plugs' = plugs + 1 /\ stick' = [stick EXCEPT ![a] = plugs']
  BY DEF tuh_msc_mount_cb
<1>2. SlotsOf(a) = {}
  BY <1>1 DEF SlotsOf, Tracked
<1>3. gUSBStorageSlots' = IF FreeSlots = {} THEN gUSBStorageSlots
                          ELSE [gUSBStorageSlots EXCEPT ![First(FreeSlots)] =
                                  [present |-> TRUE, mount_pending |-> TRUE, dev_addr |-> a]]
  BY <1>2 DEF tuh_msc_mount_cb
<1>4. Numbered'
  BY <1>1 DEF Numbered
<1>5. CASE FreeSlots = {}
  <2>1. gUSBStorageSlots' = gUSBStorageSlots
    BY <1>3, <1>5
  <2>2. SlotTypes'
    BY <1>1, <2>1
  <2>3. Tracked'
    BY <1>1, <2>1 DEF Tracked, Uses
  <2>4. plugs >= MaxDevices
    BY <1>1, <1>5, RoomForFirst
  <2>5. Seated'
    BY <1>1, <2>1, <2>4 DEF Seated, Uses
  <2> QED
    BY <1>4, <2>2, <2>3, <2>5
<1>6. CASE FreeSlots # {}
  <2> DEFINE n == First(FreeSlots)
  <2>1. n \in Devices /\ ~gUSBStorageSlots[n].present
    <3>1. FreeSlots \in SUBSET Devices
      BY DEF FreeSlots
    <3>2. n \in FreeSlots
      BY <1>6, <3>1, FirstSlot
    <3> QED
      BY <3>2 DEF FreeSlots
  <2> HIDE DEF n
  <2>2. gUSBStorageSlots' = [gUSBStorageSlots EXCEPT ![n] =
                               [present |-> TRUE, mount_pending |-> TRUE, dev_addr |-> a]]
    BY <1>3, <1>6 DEF n
  <2>3. SlotTypes'
    BY <1>1, <2>1, <2>2
  <2>4. Tracked'
    BY <1>1, <2>1, <2>2 DEF Tracked, Uses
  <2>5. Seated'
    BY <1>1, <2>1, <2>2 DEF Seated, Uses
  <2> QED
    BY <1>4, <2>3, <2>4, <2>5
<1> QED
  BY <1>5, <1>6

LEMMA PullSlotInv ==
  ASSUME SlotInv, NEW a \in Addrs, tuh_msc_umount_cb(a)
  PROVE  SlotInv'
<1> USE UsbAssumption DEF SlotInv, SlotTypes
<1>1. stick' = [stick EXCEPT ![a] = 0] /\ plugs' = plugs
  BY DEF tuh_msc_umount_cb
<1>2. Numbered'
  BY <1>1 DEF Numbered
<1>3. CASE SlotsOf(a) = {}
  <2>1. gUSBStorageSlots' = gUSBStorageSlots
    BY <1>3 DEF tuh_msc_umount_cb
  <2> QED
    BY <1>1, <1>2, <1>3, <2>1 DEF SlotsOf, Tracked, Seated, Uses
<1>4. CASE SlotsOf(a) # {}
  <2> DEFINE n == First(SlotsOf(a))
  <2>1. n \in Devices /\ Uses(n, a)
    <3>1. SlotsOf(a) \in SUBSET Devices
      BY DEF SlotsOf
    <3>2. n \in SlotsOf(a)
      BY <1>4, <3>1, FirstSlot
    <3> QED
      BY <3>2 DEF SlotsOf, Uses
  <2> HIDE DEF n
  <2>2. gUSBStorageSlots' = [gUSBStorageSlots EXCEPT ![n] = NoSlot]
    BY <1>4 DEF tuh_msc_umount_cb, n
  <2>3. SlotTypes'
    BY <1>1, <2>1, <2>2 DEF NoSlot
  <2>4. Tracked'
    BY <1>1, <2>1, <2>2 DEF Tracked, Uses, NoSlot
  <2>5. Seated'
    BY <1>1, <2>1, <2>2 DEF Seated, Tracked, Uses, NoSlot
  <2> QED
    BY <1>2, <2>3, <2>4, <2>5
<1> QED
  BY <1>3, <1>4

LEMMA StepSlotInv == SlotInv /\ [Next]_vars => SlotInv'
<1> SUFFICES ASSUME SlotInv, [Next]_vars
             PROVE  SlotInv'
  OBVIOUS
<1>1. ASSUME NEW a \in Addrs, tuh_msc_mount_cb(a)
      PROVE  SlotInv'
  BY <1>1, PlugSlotInv
<1>2. ASSUME NEW a \in Addrs, tuh_msc_umount_cb(a)
      PROVE  SlotInv'
  BY <1>2, PullSlotInv
<1>3. ASSUME taskUSBStorage
      PROVE  SlotInv'
  <2>1. PICK d \in Devices :
               gUSBStorageSlots' = [gUSBStorageSlots EXCEPT ![d] = Claimed(gUSBStorageSlots[d])]
    BY <1>3 DEF taskUSBStorage, SlotInv, SlotTypes
  <2>2. UNCHANGED <<stick, plugs>>
    BY <1>3 DEF taskUSBStorage
  <2> QED
    BY <2>1, <2>2 DEF SlotInv, SlotTypes, Numbered, Tracked, Seated, Uses, Claimed
<1>4. ASSUME UNCHANGED <<stick, gUSBStorageSlots, plugs>>
      PROVE  SlotInv'
  BY <1>4 DEF SlotInv, SlotTypes, Numbered, Tracked, Seated, Uses
<1>5. ASSUME NEW a \in Addrs, TransferComplete(a)
      PROVE  SlotInv'
  BY <1>4, <1>5 DEF TransferComplete
<1>6. ASSUME FileSystem
      PROVE  SlotInv'
  BY <1>4, <1>6
     DEF FileSystem, PathCall, HandleCall, CloseCall, rp_fs_close_all,
         EndMount, EndOpen, EndUse, EndClose, usb
<1>7. ASSUME BlockIO
      PROVE  SlotInv'
  <2>1. ASSUME NEW k \in Kinds, StartTransfer(k)
        PROVE  SlotInv'
    BY <1>4, <2>1 DEF StartTransfer
  <2>2. ASSUME TransferDone \/ TransferTimeout
        PROVE  SlotInv'
    BY <1>4, <2>2 DEF TransferDone, TransferTimeout, EndWait, usb
  <2> QED
    BY <1>7, <2>1, <2>2 DEF BlockIO
<1>8. ASSUME UNCHANGED vars
      PROVE  SlotInv'
  BY <1>4, <1>8 DEF vars, usb
<1> QED
  BY <1>1, <1>2, <1>3, <1>5, <1>6, <1>7, <1>8 DEF Next, HostTask

(* usb_storage.cpp: however sticks are plugged in and pulled out, in the   *)
(* middle of file system calls too, a present slot is that of a stick that *)
(* is there, no stick has two, and a stick is without a slot only if as    *)
(* many had come before it as there are slots.                             *)
THEOREM SlotsFollowSticks == Spec => []SlotsTrackSticks
<1> QED
  BY InitSlotInv, StepSlotInv, SlotInvTracks, PTL DEF Spec

-----------------------------------------------------------------------------
(* Types.                                                                  *)
HandleRecords == [in_use : BOOLEAN, device : Devices, stick : 0 .. MaxPlugs]

HandleTables == [Pools -> [Handles -> HandleRecords]]

Calls == [name : {"none", "mount", "open", "use", "close", "closeAll"},
          device : Devices, pool : Pools, handle : Handles,
          next : {"none", "open", "use"}, stick : 0 .. MaxPlugs, failed : BOOLEAN,
          pulled : BOOLEAN]

DriveTypes ==
  /\ gUSBFatFs \in [Devices -> 0 .. MaxPlugs]
  /\ gUSBFatFsMounted \in [Devices -> BOOLEAN]
  /\ handles \in HandleTables
  /\ op \in Calls
  /\ outlived \subseteq Devices

BlockTypes ==
  /\ inflight \in [Addrs -> Kinds \union {"none"}]
  /\ wait \in [kind : Kinds, addr : Addrs] \union {NoWait}
  /\ gDone \in [Kinds -> {"no", "ok", "failed"}]
  /\ filled \in BOOLEAN
  /\ timeouts \in 0 .. MaxTimeouts

LEMMA TypesAgree == TypeOK <=> SlotTypes /\ DriveTypes /\ BlockTypes
BY DEF TypeOK, SlotTypes, DriveTypes, BlockTypes, HandleTables, HandleRecords, Calls

(* There is a first drive and a first handle.                              *)
LEMMA Zeros == 0 \in Devices /\ 0 \in Handles /\ 0 \in 0 .. MaxPlugs
BY UsbAssumption DEF Devices, Handles

LEMMA FirstHandle ==
  ASSUME NEW S \in SUBSET Handles, S # {}
  PROVE  First(S) \in S
<1>1. S \in SUBSET Nat
  BY UsbAssumption DEF Handles
<1> QED
  BY <1>1, FirstIsIn

LEMMA NoOpType == NoOp \in Calls /\ NoOp.name = "none" /\ NoOp.stick = 0 /\ ~NoOp.pulled
BY Zeros DEF NoOp, Calls, Pools

(* The fields of a call that begins.                                       *)
LEMMA CallType ==
  ASSUME NEW name \in {"open", "use"}, NEW pool \in Pools, NEW d \in Devices, NEW h \in Handles,
         NEW t \in 0 .. MaxPlugs, Call(name, pool, d, h, t)
  PROVE  /\ op' \in Calls
         /\ op'.name = name /\ op'.pool = pool /\ op'.device = d /\ op'.handle = h
         /\ op'.stick = t /\ ~op'.pulled
BY Zeros DEF Call, NoOp, Calls

LEMMA MountType ==
  ASSUME NEW d \in Devices, NEW next \in {"none", "open", "use"}, NEW pool \in Pools,
         Mount(d, next, pool)
  PROVE  /\ op' \in Calls
         /\ op'.name = "mount" /\ op'.device = d /\ op'.stick = 0
BY Zeros DEF Mount, NoOp, Calls

LEMMA CloseType ==
  ASSUME NEW name \in {"close", "closeAll"}, NEW H \in HandleTables,
         NEW p \in Pools, NEW h \in Handles
  PROVE  /\ Close(name, H, p, h) \in Calls
         /\ Close(name, H, p, h).name = name
<1>1. H[p][h].device \in Devices /\ H[p][h].stick \in 0 .. MaxPlugs
  BY DEF HandleTables, HandleRecords
<1> DEFINE f == ~Valid(H[p][h])
<1>2. f \in BOOLEAN
  OBVIOUS
<1> HIDE DEF f
<1>3. Close(name, H, p, h) =
        [NoOp EXCEPT !.name = name, !.pool = p, !.device = H[p][h].device, !.handle = h,
                     !.stick = H[p][h].stick, !.failed = f]
  BY DEF Close, f
<1> QED
  BY <1>1, <1>2, <1>3, Zeros DEF NoOp, Calls

LEMMA CloseFirstType ==
  ASSUME NEW H \in HandleTables
  PROVE  /\ CloseFirst(H) \in Calls
         /\ CloseFirst(H).name \in {"none", "closeAll"}
<1> DEFINE InUse(p) == {h \in Handles : H[p][h].in_use}
<1>1. CASE InUse("file") # {}
  <2>1. First(InUse("file")) \in Handles
    BY <1>1, FirstHandle
  <2>2. CloseFirst(H) = Close("closeAll", H, "file", First(InUse("file")))
    BY <1>1 DEF CloseFirst
  <2> QED
    BY <2>1, <2>2, CloseType DEF Pools
<1>2. CASE InUse("file") = {} /\ InUse("dir") # {}
  <2>1. First(InUse("dir")) \in Handles
    BY <1>2, FirstHandle
  <2>2. CloseFirst(H) = Close("closeAll", H, "dir", First(InUse("dir")))
    BY <1>2 DEF CloseFirst
  <2> QED
    BY <2>1, <2>2, CloseType DEF Pools
<1>3. CASE InUse("file") = {} /\ InUse("dir") = {}
  BY <1>3, NoOpType DEF CloseFirst
<1> QED
  BY <1>1, <1>2, <1>3

(* A call on a mounted drive, with the handle it takes.                    *)
LEMMA CallOnType ==
  ASSUME DriveTypes, NEW name \in {"open", "use"}, NEW pool \in Pools, NEW d \in Devices,
         NEW t \in 0 .. MaxPlugs, CallOn(name, pool, d, t)
  PROVE  /\ gUSBFatFs' \in [Devices -> 0 .. MaxPlugs]
         /\ op' \in Calls
         /\ op' = NoOp \/ (/\ op'.name = name /\ op'.pool = pool /\ op'.device = d
                           /\ op'.stick = t /\ ~op'.pulled)
         /\ op'.name = "open" => ~handles[pool][op'.handle].in_use
         /\ gUSBStorageSlots[d].present => gUSBFatFs' = [gUSBFatFs EXCEPT ![d] = t]
<1> DEFINE taken == name # "use" /\ FreeHandles(pool) = {}
           gone == ~gUSBStorageSlots[d].present
           h == IF name = "use" THEN 0 ELSE First(FreeHandles(pool))
<1>1. /\ gUSBFatFs' = [gUSBFatFs EXCEPT ![d] = IF gone /\ ~taken THEN 0 ELSE t]
      /\ IF taken \/ gone THEN op' = NoOp ELSE Call(name, pool, d, h, t)
  BY DEF CallOn
<1>2. gUSBFatFs' \in [Devices -> 0 .. MaxPlugs]
  BY <1>1, Zeros DEF DriveTypes
<1>3. CASE taken \/ gone
  BY <1>1, <1>2, <1>3, NoOpType
<1>4. CASE ~taken /\ ~gone
  <2>1. FreeHandles(pool) \subseteq Handles
    BY DEF FreeHandles
  <2>2. h \in Handles /\ (name = "open" => h \in FreeHandles(pool))
    BY <1>4, <2>1, Zeros, FirstHandle
  <2>3. name = "open" => ~handles[pool][h].in_use
    BY <2>2 DEF FreeHandles
  <2> HIDE DEF h
  <2>4. /\ op' \in Calls
        /\ op'.name = name /\ op'.pool = pool /\ op'.device = d /\ op'.handle = h
        /\ op'.stick = t /\ ~op'.pulled
    BY <1>1, <1>4, <2>2, CallType
  <2> QED
    BY <1>1, <1>2, <1>4, <2>3, <2>4
<1> QED
  BY <1>3, <1>4

(* What an unmount leaves.                                                 *)
LEMMA WithoutType ==
  ASSUME handles \in HandleTables, NEW d \in Devices
  PROVE  HandlesWithout(d) \in HandleTables
<1>1. NoHandle \in HandleRecords
  BY Zeros DEF NoHandle, HandleRecords
<1> QED
  BY <1>1 DEF HandlesWithout, HandleTables

LEMMA UnmountType ==
  ASSUME DriveTypes, gDone \in [Kinds -> {"no", "ok", "failed"}], NEW d \in Devices,
         usb_fatfs_unmount(d)
  PROVE  /\ gUSBFatFs' \in [Devices -> 0 .. MaxPlugs]
         /\ gUSBFatFsMounted' \in [Devices -> BOOLEAN]
         /\ handles' \in HandleTables
         /\ outlived' \subseteq Devices
         /\ gDone' \in [Kinds -> {"no", "ok", "failed"}]
         /\ \A k \in Kinds : gDone'[k] = gDone[k] \/ gDone'[k] = "no"
<1>1. HandlesWithout(d) \in HandleTables
  BY WithoutType DEF DriveTypes
<1>2. gUSBFatFsMounted[d] => gDone' \in {gDone, [gDone EXCEPT !["write"] = "no"]}
  BY DEF usb_fatfs_unmount, FlagsAfterClosing
<1>3. ~gUSBFatFsMounted[d] => gDone' = gDone
  BY DEF usb_fatfs_unmount
<1>4. /\ gDone' \in [Kinds -> {"no", "ok", "failed"}]
      /\ \A k \in Kinds : gDone'[k] = gDone[k] \/ gDone'[k] = "no"
  BY <1>2, <1>3
<1> QED
  BY <1>1, <1>4, Zeros DEF usb_fatfs_unmount, DriveTypes, fatfs

(* A slot that is present is that of an address.                           *)
LEMMA SlotAddress ==
  ASSUME SlotInv, NEW d \in Devices, gUSBStorageSlots[d].present
  PROVE  /\ gUSBStorageSlots[d].dev_addr \in Addrs
         /\ StickOf(d) = stick[gUSBStorageSlots[d].dev_addr]
         /\ StickOf(d) \in 1 .. MaxPlugs
<1>1. /\ gUSBStorageSlots[d].dev_addr \in Addrs /\ stick[gUSBStorageSlots[d].dev_addr] # 0
  BY DEF SlotInv, Tracked
<1>2. stick[gUSBStorageSlots[d].dev_addr] \in 1 .. MaxPlugs
  BY <1>1, UsbAssumption DEF SlotInv, SlotTypes
<1> QED
  BY <1>1, <1>2 DEF StickOf

LEMMA StepBlockTypes ==
  SlotInv /\ DriveTypes /\ BlockTypes /\ [Next]_vars => BlockTypes'
<1> SUFFICES ASSUME SlotInv, DriveTypes, BlockTypes, [Next]_vars
             PROVE  BlockTypes'
  OBVIOUS
<1> USE UsbAssumption DEF BlockTypes, waiting, usb
<1>1. ASSUME NEW a \in Addrs, tuh_msc_mount_cb(a)
      PROVE  BlockTypes'
  BY <1>1 DEF tuh_msc_mount_cb
<1>2. ASSUME NEW a \in Addrs, tuh_msc_umount_cb(a)
      PROVE  BlockTypes'
  <2>1. inflight' = [inflight EXCEPT ![a] = "none"] /\ UNCHANGED waiting
    BY <1>2 DEF tuh_msc_umount_cb
  <2>2. gDone' \in [Kinds -> {"no", "ok", "failed"}]
    <3>1. CASE SlotsOf(a) = {}
      BY <1>2, <3>1 DEF tuh_msc_umount_cb
    <3>2. CASE SlotsOf(a) # {}
      <4>1. SlotsOf(a) \in SUBSET Devices
        BY DEF SlotsOf
      <4>2. First(SlotsOf(a)) \in Devices
        BY <3>2, <4>1, FirstSlot
      <4>3. usb_fatfs_unmount(First(SlotsOf(a)))
        BY <1>2, <3>2 DEF tuh_msc_umount_cb
      <4> QED
        BY <4>2, <4>3, UnmountType
    <3> QED
      BY <3>1, <3>2
  <2> QED
    BY <2>1, <2>2
<1>3. ASSUME NEW a \in Addrs, TransferComplete(a)
      PROVE  BlockTypes'
  <2>1. inflight[a] \in Kinds
    BY <1>3 DEF TransferComplete
  <2>2. filled' \in BOOLEAN
    BY <1>3 DEF TransferComplete
  <2> QED
    BY <1>3, <2>1, <2>2 DEF TransferComplete
<1>4. ASSUME NEW k \in Kinds, StartTransfer(k)
      PROVE  BlockTypes'
  <2>1. op.device \in Devices
    BY DEF DriveTypes, Calls
  <2> DEFINE slot == gUSBStorageSlots[op.device]
  <2>2. CASE ~slot.present \/ inflight[slot.dev_addr] # "none"
    BY <1>4, <2>2 DEF StartTransfer
  <2>3. CASE slot.present /\ inflight[slot.dev_addr] = "none"
    <3>1. slot.dev_addr \in Addrs
      BY <2>1, <2>3, SlotAddress
    <3>2. /\ inflight' = [inflight EXCEPT ![slot.dev_addr] = k]
          /\ gDone' = [gDone EXCEPT ![k] = "no"]
          /\ wait' = [kind |-> k, addr |-> slot.dev_addr]
          /\ filled' = FALSE /\ timeouts' = timeouts
      BY <1>4, <2>3 DEF StartTransfer, Cleared
    <3> QED
      BY <3>1, <3>2
  <2> QED
    BY <2>2, <2>3
<1>5. CASE TransferDone \/ TransferTimeout
  <2>1. wait' = NoWait /\ filled' = FALSE /\ UNCHANGED <<inflight, gDone>>
    BY <1>5 DEF TransferDone, TransferTimeout, EndWait
  <2>2. timeouts' = timeouts \/ (timeouts < MaxTimeouts /\ timeouts' = timeouts + 1)
    BY <1>5 DEF TransferDone, TransferTimeout
  <2>3. timeouts' \in 0 .. MaxTimeouts
    BY <2>2
  <2>4. filled' \in BOOLEAN
    BY <2>1
  <2> QED
    BY <2>1, <2>3, <2>4
<1>6. CASE taskUSBStorage
  BY <1>6 DEF taskUSBStorage
<1>7. CASE FileSystem
  BY <1>7 DEF FileSystem, PathCall, HandleCall, CloseCall, rp_fs_close_all,
              EndMount, EndOpen, EndUse, EndClose
<1>8. CASE UNCHANGED vars
  BY <1>8 DEF vars
<1> QED
  BY <1>1, <1>2, <1>3, <1>4, <1>5, <1>6, <1>7, <1>8 DEF Next, HostTask, BlockIO

LEMMA StepDriveTypes ==
  SlotInv /\ DriveTypes /\ BlockTypes /\ [Next]_vars => DriveTypes'
<1> SUFFICES ASSUME SlotInv, DriveTypes, BlockTypes, [Next]_vars
             PROVE  DriveTypes'
  OBVIOUS
<1>0. /\ op \in Calls /\ op.device \in Devices /\ op.stick \in 0 .. MaxPlugs
      /\ op.pool \in Pools /\ op.handle \in Handles
  BY DEF DriveTypes, Calls
<1> USE DEF fatfs, waiting, usb
<1>1. ASSUME NEW a \in Addrs, tuh_msc_mount_cb(a)
      PROVE  DriveTypes'
  BY <1>1 DEF tuh_msc_mount_cb, DriveTypes
<1>2. ASSUME NEW a \in Addrs, tuh_msc_umount_cb(a)
      PROVE  DriveTypes'
  <2>1. CASE SlotsOf(a) = {}
    BY <1>2, <2>1 DEF tuh_msc_umount_cb, DriveTypes
  <2>2. CASE SlotsOf(a) # {}
    <3>1. SlotsOf(a) \in SUBSET Devices
      BY DEF SlotsOf
    <3>2. First(SlotsOf(a)) \in Devices
      BY <2>2, <3>1, FirstSlot
    <3>3. /\ usb_fatfs_unmount(First(SlotsOf(a)))
          /\ op' = op \/ op' = [op EXCEPT !.pulled = TRUE]
      BY <1>2, <2>2 DEF tuh_msc_umount_cb
    <3>4. op' \in Calls
      BY <1>0, <3>3 DEF Calls
    <3> QED
      BY <3>2, <3>3, <3>4, UnmountType DEF DriveTypes, BlockTypes
  <2> QED
    BY <2>1, <2>2
<1>3. ASSUME NEW a \in Addrs, TransferComplete(a)
      PROVE  DriveTypes'
  BY <1>3 DEF TransferComplete, DriveTypes
<1>4. ASSUME NEW k \in Kinds, StartTransfer(k)
      PROVE  DriveTypes'
  <2> DEFINE slot == gUSBStorageSlots[op.device]
  <2>1. op' \in Calls
    <3>1. CASE ~slot.present \/ inflight[slot.dev_addr] # "none"
      BY <1>0, <1>4, <3>1 DEF StartTransfer, Calls
    <3>2. CASE slot.present /\ inflight[slot.dev_addr] = "none"
      <4>1. stick[slot.dev_addr] \in 0 .. MaxPlugs
        BY <1>0, <3>2, SlotAddress DEF SlotInv, SlotTypes
      <4>2. op' = op \/ op' = [op EXCEPT !.stick = stick[slot.dev_addr]]
        BY <1>4, <3>2 DEF StartTransfer
      <4> QED
        BY <1>0, <4>1, <4>2 DEF Calls
    <3> QED
      BY <3>1, <3>2
  <2> QED
    BY <1>4, <2>1 DEF StartTransfer, DriveTypes
<1>5. CASE TransferDone \/ TransferTimeout
  <2>1. \E b \in BOOLEAN : op' = [op EXCEPT !.failed = b]
    BY <1>5 DEF TransferDone, TransferTimeout, EndWait
  <2>2. op' \in Calls
    BY <1>0, <2>1 DEF Calls
  <2> QED
    BY <1>5, <2>2 DEF TransferDone, TransferTimeout, EndWait, DriveTypes
<1>6. CASE taskUSBStorage
  <2>1. op' \in Calls
    BY <1>0, <1>6, MountType DEF taskUSBStorage, Pools
  <2> QED
    BY <1>6, <2>1 DEF taskUSBStorage, DriveTypes
<1>7. ASSUME NEW name \in {"open", "use"}, NEW pool \in Pools, PathCall(name, pool)
      PROVE  DriveTypes'
  <2>1. UNCHANGED <<gUSBFatFsMounted, handles, outlived>>
    BY <1>7 DEF PathCall
  <2>2. ASSUME NEW d \in Devices, Mount(d, name, pool), UNCHANGED gUSBFatFs
        PROVE  DriveTypes'
    <3>1. op' \in Calls
      BY <2>2, MountType
    <3> QED
      BY <2>1, <2>2, <3>1 DEF DriveTypes
  <2>3. ASSUME NEW d \in Devices, CallOn(name, pool, d, gUSBFatFs[d])
        PROVE  DriveTypes'
    <3>1. gUSBFatFs[d] \in 0 .. MaxPlugs
      BY DEF DriveTypes
    <3>2. gUSBFatFs' \in [Devices -> 0 .. MaxPlugs] /\ op' \in Calls
      BY <2>3, <3>1, CallOnType
    <3> QED
      BY <2>1, <3>2 DEF DriveTypes
  <2> QED
    BY <1>7, <2>2, <2>3 DEF PathCall
<1>8. CASE HandleCall
  <2>1. PICK p \in Pools, h \in Handles :
          Call("use", "file", handles[p][h].device, 0, handles[p][h].stick)
    BY <1>8 DEF HandleCall
  <2>2. handles[p][h].device \in Devices /\ handles[p][h].stick \in 0 .. MaxPlugs
    BY DEF DriveTypes, HandleTables, HandleRecords
  <2>3. op' \in Calls
    BY <2>1, <2>2, CallType, Zeros DEF Pools
  <2> QED
    BY <1>8, <2>3 DEF HandleCall, DriveTypes
<1>9. CASE CloseCall
  <2>1. op' \in Calls
    BY <1>9, CloseType DEF CloseCall, DriveTypes
  <2> QED
    BY <1>9, <2>1 DEF CloseCall, DriveTypes
<1>10. CASE rp_fs_close_all
  <2>1. op' \in Calls
    BY <1>10, CloseFirstType DEF rp_fs_close_all, DriveTypes
  <2> QED
    BY <1>10, <2>1 DEF rp_fs_close_all, DriveTypes
<1>11. CASE Fails /\ UNCHANGED <<gUSBFatFsMounted, handles, gUSBFatFs>>
  BY <1>11, NoOpType DEF Fails, DriveTypes
<1>12. ASSUME Outlived
       PROVE  outlived' \subseteq Devices
  BY <1>0, <1>12 DEF Outlived, DriveTypes
<1>13. Refilled \in [Devices -> 0 .. MaxPlugs]
  BY <1>0 DEF Refilled, DriveTypes
<1>14. CASE EndMount
  <2>1. CASE Fails
    BY <1>11, <1>14, <2>1 DEF EndMount, Fails
  <2>2. CASE ~Fails
    <3>1. /\ gUSBFatFsMounted' = [gUSBFatFsMounted EXCEPT ![op.device] = TRUE]
          /\ handles' = handles /\ outlived' \subseteq Devices
      BY <1>12, <1>14, <2>2 DEF EndMount
    <3>2. op' \in Calls /\ gUSBFatFs' \in [Devices -> 0 .. MaxPlugs]
      <4>1. CASE op.next = "none"
        BY <1>0, <1>14, <2>2, <4>1, NoOpType DEF EndMount, DriveTypes
      <4>2. CASE op.next # "none"
        <5>1. op.next \in {"open", "use"} /\ CallOn(op.next, op.pool, op.device, op.stick)
          BY <1>0, <1>14, <2>2, <4>2 DEF EndMount, Calls
        <5> QED
          BY <1>0, <5>1, CallOnType
      <4> QED
        BY <4>1, <4>2
    <3> QED
      BY <3>1, <3>2, <1>0 DEF DriveTypes
  <2> QED
    BY <2>1, <2>2
<1>15. CASE EndOpen
  <2>1. CASE Fails
    BY <1>11, <1>15, <2>1 DEF EndOpen, Fails
  <2>2. CASE ~Fails
    <3>1. /\ gUSBFatFs' = Refilled /\ gUSBFatFsMounted' = gUSBFatFsMounted /\ op' = NoOp
          /\ handles' = [handles EXCEPT ![op.pool][op.handle] =
                           [in_use |-> TRUE, device |-> op.device, stick |-> op.stick]]
          /\ outlived' \subseteq Devices
      BY <1>12, <1>15, <2>2 DEF EndOpen
    <3>2. [in_use |-> TRUE, device |-> op.device, stick |-> op.stick] \in HandleRecords
      BY <1>0 DEF HandleRecords
    <3>3. handles' \in HandleTables
      BY <1>0, <3>1, <3>2 DEF HandleTables, DriveTypes
    <3> QED
      BY <1>13, <3>1, <3>3, NoOpType DEF DriveTypes
  <2> QED
    BY <2>1, <2>2
<1>16. CASE EndUse
  <2>1. CASE Fails
    BY <1>11, <1>16, <2>1 DEF EndUse, Fails
  <2>2. CASE ~Fails
    BY <1>12, <1>13, <1>16, <2>2, NoOpType DEF EndUse, DriveTypes
  <2> QED
    BY <2>1, <2>2
<1>17. CASE EndClose
  <2>1. NoHandle \in HandleRecords
    BY Zeros DEF NoHandle, HandleRecords
  <2>2. handles' \in HandleTables
    BY <1>0, <1>17, <2>1 DEF EndClose, HandleTables, DriveTypes
  <2>3. op' \in Calls
    BY <1>17, <2>2, NoOpType, CloseFirstType DEF EndClose
  <2> QED
    BY <1>17, <2>2, <2>3 DEF EndClose, DriveTypes
<1>18. CASE UNCHANGED vars
  BY <1>18 DEF vars, DriveTypes
<1>19. "file" \in Pools /\ "dir" \in Pools
  BY DEF Pools
<1> QED
  BY <1>1, <1>2, <1>3, <1>4, <1>5, <1>6, <1>7, <1>8, <1>9, <1>10, <1>14, <1>15, <1>16, <1>17,
     <1>18, <1>19
     DEF Next, HostTask, BlockIO, FileSystem

LEMMA InitTypes == Init => DriveTypes /\ BlockTypes
<1> SUFFICES ASSUME Init PROVE DriveTypes /\ BlockTypes
  OBVIOUS
<1>1. NoHandle \in HandleRecords
  BY Zeros DEF NoHandle, HandleRecords
<1>2. handles \in HandleTables
  BY <1>1 DEF Init, HandleTables
<1>3. gUSBFatFsMounted \in [Devices -> BOOLEAN] /\ filled \in BOOLEAN
  BY DEF Init
<1> QED
  BY <1>2, <1>3, NoOpType, Zeros, UsbAssumption DEF Init, DriveTypes, BlockTypes

(* Every variable of the storage stack keeps its type: an index that a     *)
(* search returns is that of a slot or a handle, an address that is used   *)
(* for a transfer is one of the bus.                                       *)
THEOREM StorageTypes == Spec => []TypeOK
<1>1. Init => SlotInv /\ DriveTypes /\ BlockTypes
  BY InitSlotInv, InitTypes
<1>2. /\ SlotInv /\ DriveTypes /\ BlockTypes /\ [Next]_vars
      => SlotInv' /\ DriveTypes' /\ BlockTypes'
  BY StepSlotInv, StepDriveTypes, StepBlockTypes
<1>3. SlotInv /\ DriveTypes /\ BlockTypes => TypeOK
  BY TypesAgree DEF SlotInv
<1> QED
  BY <1>1, <1>2, <1>3, PTL DEF Spec

-----------------------------------------------------------------------------
(* Drives, handles and the call that is being made.  A call that opens has *)
(* a free handle to fill and, unless the stick was pulled during it or     *)
(* outlived its drive before, the stick of the slot.                       *)
CallInv ==
  /\ op.name = "open" => ~handles[op.pool][op.handle].in_use
  /\ op.name = "open" /\ ~op.pulled => gUSBFatFsMounted[op.device]
  /\ op.name \in {"mount", "open"} /\ op.stick # 0 /\ ~op.pulled /\ op.device \notin outlived
       => op.stick = StickOf(op.device)

DriveInv == CalmDrivesAreSlots /\ HandlesAreMounted /\ CallInv

KeepsSticks == \A d \in Devices : StickOf(d) # 0 => StickOf(d)' = StickOf(d)

(* No call made, or one that neither mounts nor opens.                     *)
LEMMA NoCallInv ==
  ASSUME op'.name \notin {"mount", "open"}
  PROVE  CallInv'
BY DEF CallInv

(* The stick of a slot changes only with a plug or a pull.                 *)
LEMMA SameSticks == UNCHANGED <<stick, gUSBStorageSlots>> => KeepsSticks
BY DEF KeepsSticks, StickOf

LEMMA SameDrives ==
  ASSUME DriveTypes, CalmDrivesAreSlots, HandlesAreMounted, KeepsSticks,
         UNCHANGED <<gUSBFatFs, gUSBFatFsMounted, handles, outlived>>
  PROVE  CalmDrivesAreSlots' /\ HandlesAreMounted'
<1>1. CalmDrivesAreSlots'
  BY DEF CalmDrivesAreSlots, DriveIsSlot, KeepsSticks
<1>2. ASSUME NEW p \in Pools, NEW h \in Handles, handles[p][h].in_use,
             handles[p][h].device \notin outlived
      PROVE  /\ gUSBFatFsMounted[handles[p][h].device]
             /\ handles[p][h].stick = StickOf(handles[p][h].device)'
  <2>1. handles[p][h].device \in Devices
    BY DEF DriveTypes, HandleTables, HandleRecords
  <2>2. /\ gUSBFatFsMounted[handles[p][h].device]
        /\ handles[p][h].stick = StickOf(handles[p][h].device)
    BY <1>2 DEF HandlesAreMounted
  <2> QED
    BY <1>2, <2>1, <2>2 DEF CalmDrivesAreSlots, DriveIsSlot, KeepsSticks
<1>3. HandlesAreMounted'
  BY <1>2 DEF HandlesAreMounted
<1> QED
  BY <1>1, <1>3

(* A call that only moved on.                                              *)
LEMMA SameCall ==
  ASSUME DriveTypes, CallInv, KeepsSticks,
         UNCHANGED <<gUSBFatFsMounted, handles, outlived>>,
         op'.name = op.name, op'.pool = op.pool, op'.handle = op.handle,
         op'.device = op.device, op'.stick = op.stick, op'.pulled = op.pulled
  PROVE  CallInv'
<1>1. op.device \in Devices
  BY DEF DriveTypes, Calls
<1> QED
  BY <1>1 DEF CallInv, KeepsSticks

LEMMA PlugSticks ==
  ASSUME SlotInv, NEW a \in Addrs, tuh_msc_mount_cb(a)
  PROVE  KeepsSticks
<1>1. stick[a] = 0 /\ stick' = [stick EXCEPT ![a] = plugs']
  BY DEF tuh_msc_mount_cb
<1>2. SlotsOf(a) = {}
  BY <1>1 DEF SlotsOf, SlotInv, Tracked
<1>3. gUSBStorageSlots' = IF FreeSlots = {} THEN gUSBStorageSlots
                          ELSE [gUSBStorageSlots EXCEPT ![First(FreeSlots)] =
                                  [present |-> TRUE, mount_pending |-> TRUE, dev_addr |-> a]]
  BY <1>2 DEF tuh_msc_mount_cb
<1>4. FreeSlots # {} => First(FreeSlots) \in FreeSlots
  <2>1. FreeSlots \in SUBSET Devices
    BY DEF FreeSlots
  <2> QED
    BY <2>1, FirstSlot
<1> SUFFICES ASSUME NEW d \in Devices, StickOf(d) # 0
             PROVE  StickOf(d)' = StickOf(d)
  BY DEF KeepsSticks
<1>5. gUSBStorageSlots[d].present
  BY DEF StickOf
<1>6. gUSBStorageSlots[d].dev_addr \in Addrs /\ gUSBStorageSlots[d].dev_addr # a
  BY <1>5, <1>2, SlotAddress DEF SlotsOf
<1>7. gUSBStorageSlots'[d] = gUSBStorageSlots[d]
  <2>1. FreeSlots # {} => d # First(FreeSlots)
    BY <1>4, <1>5 DEF FreeSlots
  <2> QED
    BY <1>3, <2>1 DEF SlotInv, SlotTypes
<1>8. stick'[gUSBStorageSlots[d].dev_addr] = stick[gUSBStorageSlots[d].dev_addr]
  BY <1>1, <1>6 DEF SlotInv, SlotTypes
<1> QED
  BY <1>5, <1>7, <1>8 DEF StickOf

(* A pull empties the slot of its stick, if it had one, and no other.      *)
LEMMA PullSticks ==
  ASSUME SlotInv, NEW a \in Addrs, tuh_msc_umount_cb(a)
  PROVE  /\ SlotsOf(a) = {} => KeepsSticks
         /\ SlotsOf(a) # {} =>
              \E n \in Devices :
                 /\ n = First(SlotsOf(a)) /\ StickOf(n) # 0 /\ StickOf(n)' = 0
                 /\ \A d \in Devices \ {n} : StickOf(d) # 0 => StickOf(d)' = StickOf(d)
<1>1. stick[a] # 0 /\ stick' = [stick EXCEPT ![a] = 0]
  BY DEF tuh_msc_umount_cb
<1>2. ASSUME NEW d \in Devices, StickOf(d) # 0, d \notin SlotsOf(a)
      PROVE  /\ gUSBStorageSlots[d].present
             /\ stick'[gUSBStorageSlots[d].dev_addr] = StickOf(d)
  <2>1. gUSBStorageSlots[d].present
    BY <1>2 DEF StickOf
  <2>2. gUSBStorageSlots[d].dev_addr \in Addrs /\ gUSBStorageSlots[d].dev_addr # a
    BY <1>2, <2>1, SlotAddress DEF SlotsOf
  <2> QED
    BY <1>1, <2>1, <2>2 DEF StickOf, SlotInv, SlotTypes
<1>3. CASE SlotsOf(a) = {}
  <2>1. gUSBStorageSlots' = gUSBStorageSlots
    BY <1>3 DEF tuh_msc_umount_cb
  <2> QED
    BY <1>2, <1>3, <2>1 DEF KeepsSticks, StickOf
<1>4. CASE SlotsOf(a) # {}
  <2>0. First(SlotsOf(a)) \in SlotsOf(a)
    <3>1. SlotsOf(a) \in SUBSET Devices
      BY DEF SlotsOf
    <3> QED
      BY <1>4, <3>1, FirstSlot
  <2>1. PICK n \in SlotsOf(a) : n = First(SlotsOf(a))
    BY <2>0
  <2>2. n \in Devices /\ gUSBStorageSlots[n].present /\ gUSBStorageSlots[n].dev_addr = a
    BY <2>1 DEF SlotsOf
  <2>3. gUSBStorageSlots' = [gUSBStorageSlots EXCEPT ![n] = NoSlot]
    BY <1>4, <2>1 DEF tuh_msc_umount_cb
  <2>4. \A d \in SlotsOf(a) : d = n
    BY <2>2 DEF SlotsOf, SlotInv, Tracked, Uses
  <2>5. StickOf(n) # 0
    BY <1>1, <2>2 DEF StickOf
  <2>6. gUSBStorageSlots'[n] = NoSlot /\ \A d \in Devices \ {n} : gUSBStorageSlots'[d] = gUSBStorageSlots[d]
    BY <2>2, <2>3 DEF SlotInv, SlotTypes
  <2>7. StickOf(n)' = 0
    BY <2>6 DEF StickOf, NoSlot
  <2>8. \A d \in Devices \ {n} : StickOf(d) # 0 => StickOf(d)' = StickOf(d)
    BY <1>2, <2>4, <2>6 DEF StickOf
  <2> QED
    BY <1>4, <2>1, <2>2, <2>5, <2>7, <2>8
<1> QED
  BY <1>3, <1>4

(* The unmount of a drive closes what is open on it, and forgets that it   *)
(* was outlived.                                                           *)
LEMMA UnmountDrives ==
  ASSUME DriveTypes, CalmDrivesAreSlots, HandlesAreMounted,
         NEW n \in Devices, usb_fatfs_unmount(n),
         \A d \in Devices \ {n} : StickOf(d) # 0 => StickOf(d)' = StickOf(d)
  PROVE  /\ CalmDrivesAreSlots' /\ HandlesAreMounted'
         /\ \A d \in Devices \ {n} : /\ gUSBFatFsMounted'[d] = gUSBFatFsMounted[d]
                                     /\ (d \in outlived' <=> d \in outlived)
         /\ \A p \in Pools, h \in Handles :
              /\ ~handles[p][h].in_use => ~handles'[p][h].in_use
              /\ handles[p][h].in_use /\ handles'[p][h] # handles[p][h] => handles[p][h].device = n
<1>1. ~gUSBFatFsMounted'[n] /\ (n \in outlived' => n \in outlived /\ ~gUSBFatFsMounted[n])
  BY DEF usb_fatfs_unmount, DriveTypes, fatfs
<1>2. \A d \in Devices \ {n} : /\ gUSBFatFsMounted'[d] = gUSBFatFsMounted[d]
                               /\ gUSBFatFs'[d] = gUSBFatFs[d]
                               /\ (d \in outlived' <=> d \in outlived)
  BY DEF usb_fatfs_unmount, DriveTypes, fatfs
<1>3. CalmDrivesAreSlots'
  <2> SUFFICES ASSUME NEW d \in Devices, d \notin outlived', gUSBFatFsMounted'[d]
               PROVE  StickOf(d)' # 0 /\ gUSBFatFs'[d] = StickOf(d)'
    BY DEF CalmDrivesAreSlots, DriveIsSlot
  <2>1. d # n
    BY <1>1
  <2>2. d \notin outlived /\ gUSBFatFsMounted[d] /\ gUSBFatFs'[d] = gUSBFatFs[d]
    BY <1>2, <2>1
  <2>3. StickOf(d) # 0 /\ gUSBFatFs[d] = StickOf(d)
    BY <2>2 DEF CalmDrivesAreSlots, DriveIsSlot
  <2> QED
    BY <2>1, <2>2, <2>3
<1>4. ASSUME NEW p \in Pools, NEW h \in Handles
      PROVE  \/ handles'[p][h] = handles[p][h]
             \/ handles'[p][h] = NoHandle /\ handles[p][h].in_use /\ handles[p][h].device = n
  <2>1. CASE gUSBFatFsMounted[n]
    <3>1. handles' = HandlesWithout(n)
      BY <2>1 DEF usb_fatfs_unmount
    <3>2. handles'[p][h] = IF handles[p][h].in_use /\ handles[p][h].device = n
                           THEN NoHandle ELSE handles[p][h]
      BY <3>1 DEF HandlesWithout
    <3> QED
      BY <3>2
  <2>2. CASE ~gUSBFatFsMounted[n]
    BY <2>2 DEF usb_fatfs_unmount, fatfs
  <2> QED
    BY <2>1, <2>2
<1>5. gUSBFatFsMounted[n] =>
        \A p \in Pools, h \in Handles : handles'[p][h].in_use => handles'[p][h].device # n
  BY DEF usb_fatfs_unmount, HandlesWithout, NoHandle
<1>6. HandlesAreMounted'
  <2> SUFFICES ASSUME NEW p \in Pools, NEW h \in Handles, handles'[p][h].in_use,
                      handles'[p][h].device \notin outlived'
               PROVE  (/\ gUSBFatFsMounted[handles[p][h].device]
                       /\ handles[p][h].stick = StickOf(handles[p][h].device))'
    BY DEF HandlesAreMounted
  <2>1. handles'[p][h] = handles[p][h]
    BY <1>4 DEF NoHandle
  <2> DEFINE d == handles[p][h].device
  <2>2. d \in Devices
    BY DEF DriveTypes, HandleTables, HandleRecords
  <2>3. PICK e \in Devices : e = d
    BY <2>2
  <2>4. e \notin outlived' /\ handles[p][h].in_use
    BY <2>1, <2>3
  <2>5. e # n
    <3>1. ASSUME e = n
          PROVE  FALSE
      <4>1. ~gUSBFatFsMounted[n]
        BY <1>5, <2>1, <2>3, <3>1
      <4>2. outlived' = outlived
        BY <4>1 DEF usb_fatfs_unmount
      <4> QED
        BY <2>3, <2>4, <3>1, <4>1, <4>2 DEF HandlesAreMounted
    <3> QED
      BY <3>1
  <2>6. e \notin outlived
    BY <1>2, <2>4, <2>5
  <2>7. gUSBFatFsMounted[e] /\ handles[p][h].stick = StickOf(e)
    BY <2>3, <2>4, <2>6 DEF HandlesAreMounted
  <2>8. StickOf(e)' = StickOf(e)
    BY <2>5, <2>6, <2>7 DEF CalmDrivesAreSlots, DriveIsSlot
  <2>9. gUSBFatFsMounted'[e]
    BY <1>2, <2>5, <2>7
  <2>10. handles'[p][h].device = e
    BY <2>1, <2>3
  <2>11. StickOf(handles[p][h].device)' = StickOf(e)'
    BY <2>10 DEF StickOf
  <2> QED
    BY <2>1, <2>7, <2>8, <2>9, <2>10, <2>11
<1>7. ~NoHandle.in_use
  BY DEF NoHandle
<1> QED
  BY <1>2, <1>3, <1>4, <1>6, <1>7

LEMMA PullDriveInv ==
  ASSUME SlotInv, DriveTypes, DriveInv, NEW a \in Addrs, tuh_msc_umount_cb(a)
  PROVE  DriveInv'
<1>0. /\ op \in Calls /\ op.device \in Devices /\ op.pool \in Pools /\ op.handle \in Handles
  BY DEF DriveTypes, Calls
<1>1. CASE SlotsOf(a) = {}
  <2>1. UNCHANGED <<fatfs, op, outlived>>
    BY <1>1 DEF tuh_msc_umount_cb
  <2>2. KeepsSticks
    BY <1>1, PullSticks
  <2> QED
    BY <2>1, <2>2, SameDrives, SameCall DEF DriveInv, fatfs
<1>2. CASE SlotsOf(a) # {}
  <2>1. PICK n \in Devices :
          /\ n = First(SlotsOf(a)) /\ StickOf(n) # 0 /\ StickOf(n)' = 0
          /\ \A d \in Devices \ {n} : StickOf(d) # 0 => StickOf(d)' = StickOf(d)
    BY <1>2, PullSticks
  <2>2. /\ usb_fatfs_unmount(n)
        /\ op' = IF op # NoOp /\ op.device = n THEN [op EXCEPT !.pulled = TRUE] ELSE op
    BY <1>2, <2>1 DEF tuh_msc_umount_cb
  <2>5. \A d \in Devices \ {n} : /\ gUSBFatFsMounted'[d] = gUSBFatFsMounted[d]
                                 /\ (d \in outlived' <=> d \in outlived)
    BY <2>1, <2>2, UnmountDrives DEF DriveInv
  <2>3. /\ CalmDrivesAreSlots' /\ HandlesAreMounted'
        /\ \A p \in Pools, h \in Handles : ~handles[p][h].in_use => ~handles'[p][h].in_use
    BY <2>1, <2>2, UnmountDrives DEF DriveInv
  <2>4. CallInv'
    <3>1. CASE op = NoOp
      BY <2>2, <3>1, NoOpType, NoCallInv
    <3>2. CASE op # NoOp /\ op.device = n
      <4>1. /\ op'.pulled /\ op'.name = op.name /\ op'.pool = op.pool /\ op'.handle = op.handle
        BY <1>0, <2>2, <3>2 DEF Calls
      <4> QED
        BY <1>0, <2>3, <4>1 DEF DriveInv, CallInv
    <3>3. CASE op # NoOp /\ op.device # n
      <4>1. op' = op
        BY <2>2, <3>3
      <4>2. PICK e \in Devices \ {n} : e = op.device
        BY <1>0, <3>3
      <4>3. gUSBFatFsMounted'[e] = gUSBFatFsMounted[e] /\ (e \in outlived' <=> e \in outlived)
        BY <2>5
      <4>7. StickOf(e) # 0 => StickOf(e)' = StickOf(e)
        BY <2>1
      <4>4. op'.device = e /\ StickOf(op.device) = StickOf(e)
        BY <4>1, <4>2
      <4>5. op.name = "open" => ~handles'[op.pool][op.handle].in_use
        BY <1>0, <2>3 DEF DriveInv, CallInv
      <4>6. StickOf(op.device)' = StickOf(e)'
        BY <4>4 DEF StickOf
      <4> QED
        BY <4>1, <4>2, <4>3, <4>4, <4>5, <4>6, <4>7 DEF DriveInv, CallInv
    <3> QED
      BY <3>1, <3>2, <3>3
  <2> QED
    BY <2>3, <2>4 DEF DriveInv
<1> QED
  BY <1>1, <1>2

(* A drive is mounted, with the stick of its slot unless it is outlived.   *)
LEMMA MountedDrive ==
  ASSUME DriveTypes, CalmDrivesAreSlots, HandlesAreMounted, NEW d \in Devices,
         gUSBFatFsMounted' = [gUSBFatFsMounted EXCEPT ![d] = TRUE], handles' = handles,
         \A e \in Devices : e \notin outlived' => e \notin outlived,
         \A e \in Devices : StickOf(e)' = StickOf(e),
         \A e \in Devices \ {d} : gUSBFatFs'[e] = gUSBFatFs[e] /\ gUSBFatFsMounted'[e] = gUSBFatFsMounted[e],
         d \notin outlived' => StickOf(d) # 0 /\ gUSBFatFs'[d] = StickOf(d)
  PROVE  CalmDrivesAreSlots' /\ HandlesAreMounted'
<1>1. ASSUME NEW e \in Devices, e \notin outlived', gUSBFatFsMounted'[e]
      PROVE  StickOf(e)' # 0 /\ gUSBFatFs'[e] = StickOf(e)'
  <2>1. CASE e = d
    BY <1>1, <2>1
  <2>2. CASE e # d
    BY <1>1, <2>2 DEF CalmDrivesAreSlots, DriveIsSlot
  <2> QED
    BY <2>1, <2>2
<1>2. ASSUME NEW p \in Pools, NEW h \in Handles, handles[p][h].in_use,
             handles[p][h].device \notin outlived'
      PROVE  (/\ gUSBFatFsMounted[handles[p][h].device]
              /\ handles[p][h].stick = StickOf(handles[p][h].device))'
  <2>1. PICK e \in Devices : e = handles[p][h].device
    BY DEF DriveTypes, HandleTables, HandleRecords
  <2>2. gUSBFatFsMounted[e] /\ handles[p][h].stick = StickOf(e)
    BY <1>2, <2>1 DEF HandlesAreMounted
  <2>3. gUSBFatFsMounted'[e]
    BY <2>2 DEF DriveTypes
  <2>4. StickOf(handles[p][h].device)' = StickOf(e)'
    BY <2>1 DEF StickOf
  <2> QED
    BY <2>1, <2>2, <2>3, <2>4
<1>3. CalmDrivesAreSlots'
  BY <1>1 DEF CalmDrivesAreSlots, DriveIsSlot
<1>4. HandlesAreMounted'
  BY <1>2 DEF HandlesAreMounted
<1> QED
  BY <1>3, <1>4

LEMMA StepDriveInv ==
  SlotInv /\ DriveTypes /\ DriveInv /\ [Next]_vars => DriveInv'
<1> SUFFICES ASSUME SlotInv, DriveTypes, DriveInv, [Next]_vars
             PROVE  DriveInv'
  OBVIOUS
<1>0. /\ op \in Calls /\ op.device \in Devices /\ op.pool \in Pools /\ op.handle \in Handles
      /\ op.stick \in 0 .. MaxPlugs /\ CalmDrivesAreSlots /\ HandlesAreMounted /\ CallInv
  BY DEF DriveTypes, Calls, DriveInv
<1>1. ASSUME NEW a \in Addrs, tuh_msc_mount_cb(a)
      PROVE  DriveInv'
  BY <1>0, <1>1, PlugSticks, SameDrives, SameCall DEF tuh_msc_mount_cb, fatfs, DriveInv
<1>2. ASSUME NEW a \in Addrs, tuh_msc_umount_cb(a)
      PROVE  DriveInv'
  BY <1>2, PullDriveInv
(* A step that leaves sticks, drives and handles alone.                    *)
<1>3. ASSUME UNCHANGED <<stick, gUSBStorageSlots, fatfs, outlived>>
      PROVE  KeepsSticks /\ CalmDrivesAreSlots' /\ HandlesAreMounted'
  BY <1>0, <1>3, SameSticks, SameDrives DEF fatfs
<1>4. ASSUME UNCHANGED <<stick, gUSBStorageSlots, fatfs, outlived>>,
             op'.name \notin {"mount", "open"}
      PROVE  DriveInv'
  BY <1>3, <1>4, NoCallInv DEF DriveInv
<1>5. ASSUME UNCHANGED <<stick, gUSBStorageSlots, fatfs, outlived>>,
             op'.name = op.name, op'.pool = op.pool, op'.handle = op.handle,
             op'.device = op.device, op'.stick = op.stick, op'.pulled = op.pulled
      PROVE  DriveInv'
  BY <1>0, <1>3, <1>5, SameCall DEF DriveInv, fatfs
<1>6. ASSUME NEW a \in Addrs, TransferComplete(a)
      PROVE  DriveInv'
  BY <1>5, <1>6 DEF TransferComplete
<1>7. ASSUME NEW k \in Kinds, StartTransfer(k)
      PROVE  DriveInv'
  <2> DEFINE slot == gUSBStorageSlots[op.device]
  <2>1. UNCHANGED <<stick, gUSBStorageSlots, fatfs, outlived>>
    BY <1>7 DEF StartTransfer
  <2>2. CASE op' = op \/ op' = [op EXCEPT !.failed = TRUE]
    BY <1>0, <1>5, <2>1, <2>2 DEF Calls
  <2>3. CASE slot.present /\ op' = [op EXCEPT !.stick = stick[slot.dev_addr]]
    <3>1. /\ op'.name = op.name /\ op'.pool = op.pool /\ op'.handle = op.handle
          /\ op'.device = op.device /\ op'.pulled = op.pulled /\ op'.stick = StickOf(op.device)
      BY <1>0, <2>3 DEF Calls, StickOf
    <3>2. StickOf(op.device)' = StickOf(op.device)
      BY <2>1, <3>1 DEF StickOf
    <3>3. CallInv'
      BY <1>0, <2>1, <3>1, <3>2 DEF CallInv, fatfs
    <3> QED
      BY <1>3, <2>1, <3>3 DEF DriveInv
  <2>4. \/ op' = op \/ op' = [op EXCEPT !.failed = TRUE]
        \/ slot.present /\ op' = [op EXCEPT !.stick = stick[slot.dev_addr]]
    BY <1>7 DEF StartTransfer
  <2> QED
    BY <2>2, <2>3, <2>4
<1>8. CASE TransferDone \/ TransferTimeout
  <2>1. /\ UNCHANGED <<stick, gUSBStorageSlots, fatfs, outlived>>
        /\ \E b \in BOOLEAN : op' = [op EXCEPT !.failed = b]
    BY <1>8 DEF TransferDone, TransferTimeout, EndWait, usb
  <2> QED
    BY <1>0, <1>5, <2>1 DEF Calls
(* A mount begins: it has no stick yet.                                    *)
<1>9. ASSUME KeepsSticks, UNCHANGED <<fatfs, outlived>>,
             NEW d \in Devices, NEW next \in {"none", "open", "use"}, NEW pool \in Pools,
             Mount(d, next, pool)
      PROVE  DriveInv'
  <2>1. op'.name = "mount" /\ op'.stick = 0
    BY <1>9, MountType
  <2>2. CallInv'
    BY <2>1 DEF CallInv
  <2> QED
    BY <1>0, <1>9, <2>2, SameDrives DEF DriveInv, fatfs
<1>10. CASE taskUSBStorage
  <2>1. PICK d \in Devices :
          /\ gUSBStorageSlots' = [gUSBStorageSlots EXCEPT ![d] = Claimed(gUSBStorageSlots[d])]
          /\ Mount(d, "none", "file") \/ op' = op
    BY <1>10 DEF taskUSBStorage, SlotInv, SlotTypes
  <2>2. UNCHANGED <<stick, fatfs, outlived>>
    BY <1>10 DEF taskUSBStorage
  <2>3. \A e \in Devices : StickOf(e)' = StickOf(e)
    BY <2>1, <2>2 DEF StickOf, Claimed, SlotInv, SlotTypes
  <2>4. KeepsSticks
    BY <2>3 DEF KeepsSticks
  <2>5. CASE op' = op
    BY <1>0, <2>2, <2>4, <2>5, SameDrives, SameCall DEF DriveInv, fatfs
  <2> QED
    BY <1>9, <2>1, <2>2, <2>4, <2>5 DEF Pools
<1>11. ASSUME NEW name \in {"open", "use"}, NEW pool \in Pools, PathCall(name, pool)
       PROVE  DriveInv'
  <2>1. UNCHANGED <<stick, gUSBStorageSlots, gUSBFatFsMounted, handles, outlived>>
    BY <1>11 DEF PathCall, usb
  <2>2. KeepsSticks
    BY <2>1, SameSticks
  <2>3. ASSUME NEW d \in Devices, Mount(d, name, pool), UNCHANGED gUSBFatFs
        PROVE  DriveInv'
    BY <1>9, <2>1, <2>2, <2>3 DEF fatfs
  <2>4. ASSUME NEW d \in Devices, gUSBFatFsMounted[d], CallOn(name, pool, d, gUSBFatFs[d])
        PROVE  DriveInv'
    <3>1. gUSBFatFs[d] \in 0 .. MaxPlugs
      BY DEF DriveTypes
    <3>2. /\ op' = NoOp \/ (/\ op'.name = name /\ op'.pool = pool /\ op'.device = d
                           /\ op'.stick = gUSBFatFs[d] /\ ~op'.pulled)
          /\ op'.name = "open" => ~handles[pool][op'.handle].in_use
          /\ gUSBStorageSlots[d].present => gUSBFatFs' = [gUSBFatFs EXCEPT ![d] = gUSBFatFs[d]]
      BY <2>4, <3>1, CallOnType
    <3>3. d \notin outlived => StickOf(d) # 0 /\ gUSBFatFs[d] = StickOf(d)
      BY <1>0, <2>4 DEF CalmDrivesAreSlots, DriveIsSlot
    <3>4. d \notin outlived => gUSBFatFs' = gUSBFatFs
      <4>1. gUSBStorageSlots[d].present => gUSBFatFs' = gUSBFatFs
        BY <3>2 DEF DriveTypes
      <4> QED
        BY <3>3, <4>1 DEF StickOf
    <3>5. \A e \in Devices \ {d} : gUSBFatFs'[e] = gUSBFatFs[e]
      BY <2>4 DEF CallOn, DriveTypes
    <3>6. CalmDrivesAreSlots'
      <4> SUFFICES ASSUME NEW e \in Devices, e \notin outlived', gUSBFatFsMounted'[e]
                   PROVE  StickOf(e)' # 0 /\ gUSBFatFs'[e] = StickOf(e)'
        BY DEF CalmDrivesAreSlots, DriveIsSlot
      <4>1. e \notin outlived /\ gUSBFatFsMounted[e]
        BY <2>1
      <4>2. StickOf(e) # 0 /\ gUSBFatFs[e] = StickOf(e)
        BY <1>0, <4>1 DEF CalmDrivesAreSlots, DriveIsSlot
      <4>3. gUSBFatFs'[e] = gUSBFatFs[e]
        BY <3>4, <3>5, <4>1
      <4> QED
        BY <2>2, <4>2, <4>3 DEF KeepsSticks
    <3>7. HandlesAreMounted'
      BY <1>0, <2>1 DEF HandlesAreMounted, StickOf
    <3>8. CASE op' = NoOp
      BY <3>6, <3>7, <3>8, NoOpType, NoCallInv DEF DriveInv
    <3>9. CASE op' # NoOp
      <4>1. /\ op'.name = name /\ op'.pool = pool /\ op'.device = d
            /\ op'.stick = gUSBFatFs[d] /\ ~op'.pulled
        BY <3>2, <3>9
      <4>2. StickOf(op.device)' = StickOf(d)
        BY <2>1, <4>1 DEF StickOf
      <4>3. CallInv'
        BY <2>1, <2>4, <3>2, <3>3, <4>1, <4>2 DEF CallInv
      <4> QED
        BY <3>6, <3>7, <4>3 DEF DriveInv
    <3> QED
      BY <3>8, <3>9
  <2> QED
    BY <1>11, <2>3, <2>4 DEF PathCall
<1>12. CASE HandleCall
  <2>1. PICK p \in Pools, h \in Handles :
          Call("use", "file", handles[p][h].device, 0, handles[p][h].stick)
    BY <1>12 DEF HandleCall
  <2>2. op'.name = "use"
    BY <2>1 DEF Call, NoOp
  <2> QED
    BY <1>4, <1>12, <2>2 DEF HandleCall, usb
<1>13. CASE CloseCall
  <2>1. op'.name = "close"
    BY <1>13, CloseType DEF CloseCall, DriveTypes
  <2> QED
    BY <1>4, <1>13, <2>1 DEF CloseCall, usb
<1>14. CASE rp_fs_close_all
  <2>1. op'.name \in {"none", "closeAll"}
    BY <1>14, CloseFirstType DEF rp_fs_close_all, DriveTypes
  <2> QED
    BY <1>4, <1>14, <2>1 DEF rp_fs_close_all, usb
<1>15. CASE Fails /\ UNCHANGED <<usb>>
  BY <1>4, <1>15, NoOpType DEF Fails, usb
<1>16. CASE UNCHANGED vars
  BY <1>5, <1>16 DEF vars, usb
(* A call that succeeds: unless its drive is outlived now, it has the      *)
(* stick of the slot.                                                      *)
<1>17. ASSUME Outlived
       PROVE  /\ \A d \in Devices : d \notin outlived' => d \notin outlived
              /\ op.device \notin outlived' => ~op.pulled
  BY <1>17 DEF Outlived
<1>18. CASE EndMount
  <2>1. CASE Fails
    BY <1>15, <1>18, <2>1 DEF EndMount
  <2>2. CASE ~Fails
    <3>1. /\ op.name = "mount" /\ op.stick # 0 /\ Outlived
          /\ gUSBFatFsMounted' = [gUSBFatFsMounted EXCEPT ![op.device] = TRUE]
          /\ UNCHANGED <<handles, stick, gUSBStorageSlots>>
      BY <1>18, <2>2 DEF EndMount, Returns, Succeeds, usb
    <3>2. PICK d \in Devices : d = op.device
      BY <1>0
    <3>3. d \notin outlived' => op.stick = StickOf(d) /\ gUSBStorageSlots[d].present
      <4>1. d \notin outlived' => ~op.pulled /\ op.device \notin outlived
        BY <1>17, <3>1, <3>2
      <4>2. d \notin outlived' => op.stick = StickOf(op.device)
        BY <1>0, <3>1, <4>1 DEF CallInv
      <4> QED
        BY <3>1, <3>2, <4>2 DEF StickOf
    <3>4. \A e \in Devices : StickOf(e)' = StickOf(e)
      BY <3>1 DEF StickOf
    <3>5. CASE op.next = "none"
      <4>1. op' = NoOp /\ gUSBFatFs' = [gUSBFatFs EXCEPT ![op.device] = op.stick]
        BY <1>18, <2>2, <3>5 DEF EndMount
      <4>2. \A e \in Devices \ {d} : gUSBFatFs'[e] = gUSBFatFs[e] /\ gUSBFatFsMounted'[e] = gUSBFatFsMounted[e]
        BY <3>1, <3>2, <4>1 DEF DriveTypes
      <4>3. gUSBFatFs'[d] = op.stick /\ CallInv'
        BY <3>2, <4>1, NoOpType, NoCallInv DEF DriveTypes
      <4> QED
        BY <1>0, <1>17, <3>1, <3>2, <3>3, <3>4, <4>2, <4>3, MountedDrive DEF DriveInv
    <3>6. CASE op.next # "none"
      <4>1. op.next \in {"open", "use"} /\ CallOn(op.next, op.pool, op.device, op.stick)
        BY <1>0, <1>18, <2>2, <3>6 DEF EndMount, Calls
      <4>2. /\ op' = NoOp \/ (/\ op'.name = op.next /\ op'.pool = op.pool /\ op'.device = op.device
                             /\ op'.stick = op.stick /\ ~op'.pulled)
            /\ op'.name = "open" => ~handles[op.pool][op'.handle].in_use
            /\ gUSBStorageSlots[op.device].present => gUSBFatFs' = [gUSBFatFs EXCEPT ![op.device] = op.stick]
        BY <1>0, <4>1, CallOnType
      <4>3. \A e \in Devices \ {d} : gUSBFatFs'[e] = gUSBFatFs[e] /\ gUSBFatFsMounted'[e] = gUSBFatFsMounted[e]
        BY <3>1, <3>2, <4>1 DEF CallOn, DriveTypes
      <4>4. d \notin outlived' => gUSBFatFs'[d] = op.stick
        BY <3>2, <3>3, <4>2 DEF DriveTypes
      <4>5. CallInv'
        <5>1. CASE op' = NoOp
          BY <5>1, NoOpType, NoCallInv
        <5>2. CASE op' # NoOp
          <6>1. /\ op'.name = op.next /\ op'.pool = op.pool /\ op'.device = d
                /\ op'.stick = op.stick /\ ~op'.pulled
            BY <3>2, <4>2, <5>2
          <6>2. gUSBFatFsMounted'[d]
            BY <3>1, <3>2 DEF DriveTypes
          <6>3. StickOf(op.device)' = StickOf(d)'
            BY <6>1 DEF StickOf
          <6> QED
            BY <3>1, <3>3, <3>4, <4>2, <6>1, <6>2, <6>3 DEF CallInv
        <5> QED
          BY <5>1, <5>2
      <4> QED
        BY <1>0, <1>17, <3>1, <3>2, <3>3, <3>4, <4>3, <4>4, <4>5, MountedDrive DEF DriveInv
    <3> QED
      BY <3>5, <3>6
  <2> QED
    BY <2>1, <2>2
(* A call refills only a work area that was emptied.                       *)
<1>19. ASSUME Outlived, gUSBFatFs' = Refilled,
              UNCHANGED <<gUSBFatFsMounted, stick, gUSBStorageSlots>>
       PROVE  CalmDrivesAreSlots'
  <2> SUFFICES ASSUME NEW e \in Devices, e \notin outlived', gUSBFatFsMounted'[e]
               PROVE  StickOf(e)' # 0 /\ gUSBFatFs'[e] = StickOf(e)'
    BY DEF CalmDrivesAreSlots, DriveIsSlot
  <2>1. e \notin outlived /\ gUSBFatFsMounted[e]
    BY <1>17, <1>19
  <2>2. StickOf(e) # 0 /\ gUSBFatFs[e] = StickOf(e)
    BY <1>0, <2>1 DEF CalmDrivesAreSlots, DriveIsSlot
  <2>3. gUSBFatFs'[e] = gUSBFatFs[e]
    BY <1>0, <1>19, <2>2 DEF Refilled, DriveTypes
  <2>4. StickOf(e)' = StickOf(e)
    BY <1>19 DEF StickOf
  <2> QED
    BY <2>2, <2>3, <2>4
<1>20. CASE EndUse
  <2>1. CASE Fails
    BY <1>15, <1>20, <2>1 DEF EndUse
  <2>2. CASE ~Fails
    <3>1. /\ op' = NoOp /\ gUSBFatFs' = Refilled /\ Outlived
          /\ UNCHANGED <<gUSBFatFsMounted, handles, stick, gUSBStorageSlots>>
      BY <1>20, <2>2 DEF EndUse, usb
    <3>2. CalmDrivesAreSlots' /\ CallInv'
      BY <1>19, <3>1, NoOpType, NoCallInv
    <3>3. \A p \in Pools, h \in Handles :
            /\ handles[p][h].device \in Devices
            /\ StickOf(handles[p][h].device)' = StickOf(handles[p][h].device)
      BY <3>1 DEF StickOf, DriveTypes, HandleTables, HandleRecords
    <3>4. HandlesAreMounted'
      BY <1>0, <1>17, <3>1, <3>3 DEF HandlesAreMounted
    <3> QED
      BY <3>2, <3>4 DEF DriveInv
  <2> QED
    BY <2>1, <2>2
<1>21. CASE EndOpen
  <2>1. CASE Fails
    BY <1>15, <1>21, <2>1 DEF EndOpen
  <2>2. CASE ~Fails
    <3>1. /\ op' = NoOp /\ gUSBFatFs' = Refilled /\ Outlived /\ op.name = "open" /\ op.stick # 0
          /\ handles' = [handles EXCEPT ![op.pool][op.handle] =
                           [in_use |-> TRUE, device |-> op.device, stick |-> op.stick]]
          /\ UNCHANGED <<gUSBFatFsMounted, stick, gUSBStorageSlots>>
      BY <1>21, <2>2 DEF EndOpen, Returns, Succeeds, usb
    <3>2. CalmDrivesAreSlots' /\ CallInv'
      BY <1>19, <3>1, NoOpType, NoCallInv
    <3>3. HandlesAreMounted'
      <4> SUFFICES ASSUME NEW p \in Pools, NEW h \in Handles, handles'[p][h].in_use,
                          handles'[p][h].device \notin outlived'
                   PROVE  (/\ gUSBFatFsMounted[handles[p][h].device]
                           /\ handles[p][h].stick = StickOf(handles[p][h].device))'
        BY DEF HandlesAreMounted
      <4>1. CASE p = op.pool /\ h = op.handle
        <5>1. handles'[p][h] = [in_use |-> TRUE, device |-> op.device, stick |-> op.stick]
          BY <1>0, <3>1, <4>1 DEF DriveTypes, HandleTables
        <5>2. op.device \notin outlived /\ ~op.pulled
          BY <1>0, <1>17, <3>1, <5>1
        <5>3. op.stick = StickOf(op.device) /\ gUSBFatFsMounted[op.device]
          BY <1>0, <3>1, <5>2 DEF CallInv
        <5>4. StickOf(handles[p][h].device)' = StickOf(op.device)
          BY <3>1, <5>1 DEF StickOf
        <5> QED
          BY <3>1, <5>1, <5>3, <5>4
      <4>2. CASE ~(p = op.pool /\ h = op.handle)
        <5>1. handles'[p][h] = handles[p][h]
          BY <1>0, <3>1, <4>2 DEF DriveTypes, HandleTables
        <5>2. handles[p][h].device \in Devices
          BY DEF DriveTypes, HandleTables, HandleRecords
        <5>3. handles[p][h].in_use /\ handles[p][h].device \notin outlived
          BY <1>17, <3>1, <5>1, <5>2
        <5>4. gUSBFatFsMounted[handles[p][h].device] /\ handles[p][h].stick = StickOf(handles[p][h].device)
          BY <1>0, <5>3 DEF HandlesAreMounted
        <5>5. StickOf(handles[p][h].device)' = StickOf(handles[p][h].device)
          BY <3>1, <5>1 DEF StickOf
        <5> QED
          BY <3>1, <5>1, <5>4, <5>5
      <4> QED
        BY <4>1, <4>2
    <3> QED
      BY <3>2, <3>3 DEF DriveInv
  <2> QED
    BY <2>1, <2>2
<1>22. CASE EndClose
  <2>1. /\ handles' = [handles EXCEPT ![op.pool][op.handle] = NoHandle]
        /\ UNCHANGED <<gUSBFatFs, gUSBFatFsMounted, outlived, stick, gUSBStorageSlots>>
    BY <1>22 DEF EndClose, usb
  <2>2. CallInv'
    <3>1. NoHandle \in HandleRecords
      BY Zeros DEF NoHandle, HandleRecords
    <3>2. handles' \in HandleTables
      BY <1>0, <2>1, <3>1 DEF HandleTables, DriveTypes
    <3>3. op'.name \in {"none", "closeAll"}
      BY <1>22, <3>2, NoOpType, CloseFirstType DEF EndClose
    <3> QED
      BY <3>3, NoCallInv
  <2>3. CalmDrivesAreSlots'
    BY <1>0, <2>1 DEF CalmDrivesAreSlots, DriveIsSlot, StickOf
  <2>4. \A p \in Pools, h \in Handles : handles'[p][h] = handles[p][h] \/ ~handles'[p][h].in_use
    BY <1>0, <2>1 DEF DriveTypes, HandleTables, NoHandle
  <2>5. HandlesAreMounted'
    <3> SUFFICES ASSUME NEW p \in Pools, NEW h \in Handles, handles'[p][h].in_use,
                        handles'[p][h].device \notin outlived'
                 PROVE  (/\ gUSBFatFsMounted[handles[p][h].device]
                         /\ handles[p][h].stick = StickOf(handles[p][h].device))'
      BY DEF HandlesAreMounted
    <3>1. handles'[p][h] = handles[p][h]
      BY <2>4
    <3>2. StickOf(handles[p][h].device)' = StickOf(handles[p][h].device)
      BY <2>1, <3>1 DEF StickOf
    <3>3. gUSBFatFsMounted[handles[p][h].device] /\ handles[p][h].stick = StickOf(handles[p][h].device)
      BY <1>0, <2>1, <3>1 DEF HandlesAreMounted
    <3> QED
      BY <2>1, <3>1, <3>2, <3>3
  <2> QED
    BY <2>2, <2>3, <2>5 DEF DriveInv
<1> QED
  BY <1>1, <1>2, <1>6, <1>7, <1>8, <1>10, <1>11, <1>12, <1>13, <1>14, <1>16, <1>18, <1>20,
     <1>21, <1>22
     DEF Next, HostTask, BlockIO, FileSystem, Pools

-----------------------------------------------------------------------------
LEMMA InitDriveInv == Init => DriveInv
<1> SUFFICES ASSUME Init PROVE DriveInv
  OBVIOUS
<1>1. CalmDrivesAreSlots
  BY DEF Init, CalmDrivesAreSlots, DriveIsSlot
<1>2. HandlesAreMounted
  BY DEF Init, HandlesAreMounted, NoHandle
<1>3. CallInv
  BY NoOpType DEF Init, CallInv
<1> QED
  BY <1>1, <1>2, <1>3 DEF DriveInv

LEMMA DriveInvariance == Spec => [](SlotInv /\ DriveTypes /\ BlockTypes /\ DriveInv)
<1>1. Init => SlotInv /\ DriveTypes /\ BlockTypes /\ DriveInv
  BY InitSlotInv, InitTypes, InitDriveInv
<1>2. /\ SlotInv /\ DriveTypes /\ BlockTypes /\ DriveInv /\ [Next]_vars
      => SlotInv' /\ DriveTypes' /\ BlockTypes' /\ DriveInv'
  BY StepSlotInv, StepDriveTypes, StepBlockTypes, StepDriveInv
<1> QED
  BY <1>1, <1>2, PTL DEF Spec

(* usb_fatfs.cpp: drive N has the file system of the stick in slot N; the  *)
(* mounts, pulls and calls in between may come in any order.  The one way  *)
(* out is a call that succeeds on a stick pulled out during it.            *)
THEOREM DrivesAreSlots == Spec => []CalmDrivesAreSlots
<1>1. DriveInv => CalmDrivesAreSlots
  BY DEF DriveInv
<1> QED
  BY <1>1, DriveInvariance, PTL

(* rp_fs.cpp: an open file or directory is on a stick that is plugged in   *)
(* and mounted as the drive its handle names, with the same exception.     *)
THEOREM OpenIsMounted == Spec => []HandlesAreMounted
<1>1. DriveInv => HandlesAreMounted
  BY DEF DriveInv
<1> QED
  BY <1>1, DriveInvariance, PTL

Remaining ==
  \A p \in Pools, h \in Handles, d \in Devices :
    handles[p][h].in_use /\ handles[p][h].device = d /\ handles'[p][h] # handles[p][h]
      => \/ op.name \in {"close", "closeAll"} /\ op.pool = p /\ op.handle = h
         \/ StickOf(d)' # StickOf(d)

LEMMA StepRemaining ==
  SlotInv /\ DriveTypes /\ DriveInv /\ [Next]_vars => [Remaining]_vars
<1> SUFFICES ASSUME SlotInv, DriveTypes, DriveInv, Next
             PROVE  Remaining
  OBVIOUS
<1>0. op \in Calls /\ op.pool \in Pools /\ op.handle \in Handles
  BY DEF DriveTypes, Calls
<1>1. ASSUME handles' = handles
      PROVE  Remaining
  BY <1>1 DEF Remaining
<1>2. ASSUME NEW a \in Addrs, tuh_msc_umount_cb(a)
      PROVE  Remaining
  <2>1. CASE SlotsOf(a) = {}
    BY <1>1, <1>2, <2>1 DEF tuh_msc_umount_cb, fatfs
  <2>2. CASE SlotsOf(a) # {}
    <3>1. PICK n \in Devices :
            /\ n = First(SlotsOf(a)) /\ StickOf(n) # 0 /\ StickOf(n)' = 0
            /\ \A d \in Devices \ {n} : StickOf(d) # 0 => StickOf(d)' = StickOf(d)
      BY <1>2, <2>2, PullSticks
    <3>2. usb_fatfs_unmount(n)
      BY <1>2, <2>2, <3>1 DEF tuh_msc_umount_cb
    <3>3. \A p \in Pools, h \in Handles :
            handles[p][h].in_use /\ handles'[p][h] # handles[p][h] => handles[p][h].device = n
      BY <3>1, <3>2, UnmountDrives DEF DriveInv
    <3>4. StickOf(n)' # StickOf(n)
      BY <3>1
    <3> QED
      BY <3>3, <3>4 DEF Remaining
  <2> QED
    BY <2>1, <2>2
<1>3. CASE EndOpen
  <2>1. CASE Fails
    BY <1>1, <2>1 DEF Fails, fatfs
  <2>2. CASE ~Fails
    <3>1. /\ op.name = "open"
          /\ handles' = [handles EXCEPT ![op.pool][op.handle] =
                           [in_use |-> TRUE, device |-> op.device, stick |-> op.stick]]
      BY <1>3, <2>2 DEF EndOpen, Returns
    <3>2. ~handles[op.pool][op.handle].in_use
      BY <3>1 DEF DriveInv, CallInv
    <3>3. \A p \in Pools, h \in Handles :
            ~(p = op.pool /\ h = op.handle) => handles'[p][h] = handles[p][h]
      BY <1>0, <3>1 DEF DriveTypes, HandleTables
    <3> QED
      BY <3>2, <3>3 DEF Remaining
  <2> QED
    BY <2>1, <2>2
<1>4. CASE EndClose
  <2>1. \A p \in Pools, h \in Handles :
          ~(p = op.pool /\ h = op.handle) => handles'[p][h] = handles[p][h]
    BY <1>0, <1>4 DEF EndClose, DriveTypes, HandleTables
  <2>2. op.name \in {"close", "closeAll"}
    BY <1>4 DEF EndClose
  <2> QED
    BY <2>1, <2>2 DEF Remaining
<1>5. CASE EndMount \/ EndUse
  BY <1>1, <1>5 DEF EndMount, EndUse, Fails, fatfs
<1>6. ASSUME NEW a \in Addrs, tuh_msc_mount_cb(a) \/ TransferComplete(a)
      PROVE  Remaining
  BY <1>1, <1>6 DEF tuh_msc_mount_cb, TransferComplete, fatfs
<1>7. CASE BlockIO
  BY <1>1, <1>7 DEF BlockIO, StartTransfer, TransferDone, TransferTimeout, EndWait, fatfs
<1>8. CASE taskUSBStorage
  BY <1>1, <1>8 DEF taskUSBStorage, fatfs
<1>9. ASSUME NEW name, NEW pool, PathCall(name, pool)
      PROVE  Remaining
  BY <1>1, <1>9 DEF PathCall
<1>10. CASE HandleCall \/ CloseCall \/ rp_fs_close_all
  BY <1>1, <1>10 DEF HandleCall, CloseCall, rp_fs_close_all, fatfs
<1> QED
  BY <1>2, <1>3, <1>4, <1>5, <1>6, <1>7, <1>8, <1>9, <1>10 DEF Next, HostTask, FileSystem

(* "Other mounted USB sticks and their RP file handles remain valid"       *)
(* (usb_fatfs.cpp, 118): a handle is lost only by its own close or with    *)
(* its own stick, and an open never takes over a handle that is in use.    *)
THEOREM OtherHandlesRemain == Spec => HandlesRemain
<1>1. SlotInv /\ DriveTypes /\ DriveInv /\ [Next]_vars => [Remaining]_vars
  BY StepRemaining
<1>2. Spec => [][Remaining]_vars
  BY <1>1, DriveInvariance, PTL DEF Spec
<1>3. HandlesRemain <=> [][Remaining]_vars
  BY DEF HandlesRemain, Remaining
<1> QED
  BY <1>2, <1>3

-----------------------------------------------------------------------------
(* Until a transfer is given up, the only one the host stack has is the    *)
(* one that is waited for, and its flag is still down.                     *)
TransferInv ==
  timeouts = 0 =>
    /\ \A a \in Addrs : inflight[a] # "none" =>
         wait = [kind |-> inflight[a], addr |-> a] /\ gDone[inflight[a]] = "no"
    /\ wait # NoWait /\ gDone[wait.kind] = "ok" => filled

LEMMA StepTransferInv ==
  SlotInv /\ DriveTypes /\ BlockTypes /\ TransferInv /\ [Next]_vars => TransferInv'
<1> SUFFICES ASSUME SlotInv, DriveTypes, BlockTypes, TransferInv, [Next]_vars
             PROVE  TransferInv'
  OBVIOUS
<1>0. /\ inflight \in [Addrs -> Kinds \union {"none"}]
      /\ gDone \in [Kinds -> {"no", "ok", "failed"}] /\ timeouts \in Nat
      /\ wait \in [kind : Kinds, addr : Addrs] \union {NoWait}
  BY UsbAssumption DEF BlockTypes
<1>1. ASSUME UNCHANGED <<wait, filled, timeouts, inflight, gDone>>
      PROVE  TransferInv'
  BY <1>1 DEF TransferInv
<1>2. ASSUME NEW a \in Addrs, tuh_msc_umount_cb(a)
      PROVE  TransferInv'
  <2>1. inflight' = [inflight EXCEPT ![a] = "none"] /\ UNCHANGED <<wait, filled, timeouts>>
    BY <1>2 DEF tuh_msc_umount_cb, waiting
  <2>2. \A k \in Kinds : gDone'[k] = gDone[k] \/ gDone'[k] = "no"
    <3>1. CASE SlotsOf(a) = {}
      BY <1>2, <3>1 DEF tuh_msc_umount_cb
    <3>2. CASE SlotsOf(a) # {}
      <4>1. SlotsOf(a) \in SUBSET Devices
        BY DEF SlotsOf
      <4>2. First(SlotsOf(a)) \in Devices
        BY <3>2, <4>1, FirstSlot
      <4>3. usb_fatfs_unmount(First(SlotsOf(a)))
        BY <1>2, <3>2 DEF tuh_msc_umount_cb
      <4> QED
        BY <1>0, <4>2, <4>3, UnmountType
    <3> QED
      BY <3>1, <3>2
  <2>3. \A b \in Addrs : inflight'[b] # "none" => inflight'[b] = inflight[b] /\ inflight[b] \in Kinds
    BY <1>0, <2>1
  <2>4. wait # NoWait => wait.kind \in Kinds
    BY <1>0
  <2> QED
    BY <2>1, <2>2, <2>3, <2>4 DEF TransferInv
<1>3. ASSUME NEW a \in Addrs, TransferComplete(a)
      PROVE  TransferInv'
  <2>1. PICK r \in {"ok", "failed"} :
          /\ gDone' = [gDone EXCEPT ![inflight[a]] = r]
          /\ filled' = (filled \/ (r = "ok" /\ wait = [kind |-> inflight[a], addr |-> a]))
    BY <1>3 DEF TransferComplete
  <2>2. /\ inflight[a] # "none" /\ inflight' = [inflight EXCEPT ![a] = "none"]
        /\ UNCHANGED <<wait, timeouts>>
    BY <1>3 DEF TransferComplete
  <2>3. ASSUME timeouts = 0
        PROVE  /\ wait = [kind |-> inflight[a], addr |-> a]
               /\ \A b \in Addrs : inflight'[b] = "none"
    <3>1. wait = [kind |-> inflight[a], addr |-> a]
      BY <2>2, <2>3 DEF TransferInv
    <3>2. ASSUME NEW b \in Addrs, b # a, inflight[b] # "none"
          PROVE  FALSE
      <4>1. wait = [kind |-> inflight[b], addr |-> b]
        BY <2>3, <3>2 DEF TransferInv
      <4> QED
        BY <3>1, <3>2, <4>1
    <3> QED
      BY <1>0, <2>2, <3>1, <3>2
  <2>4. ASSUME timeouts = 0, gDone'[wait.kind] = "ok"
        PROVE  filled'
    <3>1. inflight[a] \in Kinds
      BY <1>0, <2>2
    <3>2. wait.kind = inflight[a]
      BY <2>3, <2>4
    <3>3. r = "ok"
      BY <1>0, <2>1, <2>4, <3>1, <3>2
    <3> QED
      BY <2>1, <2>3, <2>4, <3>3
  <2> QED
    BY <2>2, <2>3, <2>4 DEF TransferInv
<1>4. ASSUME NEW k \in Kinds, StartTransfer(k)
      PROVE  TransferInv'
  <2>1. op.device \in Devices
    BY DEF DriveTypes, Calls
  <2> DEFINE slot == gUSBStorageSlots[op.device]
  <2>2. CASE ~slot.present \/ inflight[slot.dev_addr] # "none"
    BY <1>1, <1>4, <2>2 DEF StartTransfer, waiting
  <2>3. CASE slot.present /\ inflight[slot.dev_addr] = "none"
    <3>1. PICK b \in Addrs : b = slot.dev_addr
      BY <2>1, <2>3, SlotAddress
    <3>2. /\ inflight' = [inflight EXCEPT ![b] = k] /\ wait = NoWait
          /\ gDone' = [gDone EXCEPT ![k] = "no"]
          /\ wait' = [kind |-> k, addr |-> b]
          /\ timeouts' = timeouts
      BY <1>4, <2>3, <3>1 DEF StartTransfer, Cleared
    <3>3. NoWait.kind = "none"
      BY DEF NoWait
    <3>4. timeouts = 0 => \A a \in Addrs : inflight[a] = "none"
      BY <3>2, <3>3 DEF TransferInv
    <3>5. timeouts = 0 => \A a \in Addrs \ {b} : inflight'[a] = "none"
      BY <1>0, <3>2, <3>4
    <3>6. inflight'[b] = k /\ gDone'[k] = "no"
      BY <1>0, <3>2
    <3> QED
      BY <3>2, <3>5, <3>6 DEF TransferInv
  <2> QED
    BY <2>2, <2>3
<1>5. CASE TransferDone \/ TransferTimeout
  <2>1. wait # NoWait /\ wait' = NoWait /\ UNCHANGED <<inflight, gDone>>
    BY <1>5 DEF TransferDone, TransferTimeout, EndWait, usb
  <2>2. ASSUME timeouts' = 0
        PROVE  \A a \in Addrs : inflight[a] = "none"
    <3>1. timeouts = 0 /\ (gDone[wait.kind] # "no" \/ inflight[wait.addr] # wait.kind)
      <4>1. CASE TransferDone
        BY <2>2, <4>1 DEF TransferDone
      <4>2. CASE TransferTimeout
        <5>1. inflight[wait.addr] = wait.kind => timeouts' = timeouts + 1
          BY <4>2 DEF TransferTimeout
        <5>2. inflight[wait.addr] # wait.kind => timeouts' = timeouts
          BY <4>2 DEF TransferTimeout
        <5>3. timeouts + 1 # 0
          BY <1>0
        <5> QED
          BY ONLY <2>2, <5>1, <5>2, <5>3
      <4> QED
        BY <1>5, <4>1, <4>2
    <3> SUFFICES ASSUME NEW a \in Addrs, inflight[a] # "none"
                 PROVE  FALSE
      OBVIOUS
    <3>2. wait = [kind |-> inflight[a], addr |-> a] /\ gDone[inflight[a]] = "no"
      BY <3>1 DEF TransferInv
    <3>3. wait.kind = inflight[a] /\ wait.addr = a
      BY <3>2
    <3> QED
      BY <3>1, <3>2, <3>3
  <2> QED
    BY <2>1, <2>2 DEF TransferInv
<1>6. ASSUME NEW a \in Addrs, tuh_msc_mount_cb(a)
      PROVE  TransferInv'
  BY <1>1, <1>6 DEF tuh_msc_mount_cb, waiting
<1>7. CASE taskUSBStorage
  BY <1>1, <1>7 DEF taskUSBStorage, waiting
<1>8. CASE FileSystem
  BY <1>1, <1>8 DEF FileSystem, PathCall, HandleCall, CloseCall, rp_fs_close_all,
              EndMount, EndOpen, EndUse, EndClose, waiting, usb
<1>9. CASE UNCHANGED vars
  BY <1>1, <1>9 DEF vars, waiting, usb
<1> QED
  BY <1>2, <1>3, <1>4, <1>5, <1>6, <1>7, <1>8, <1>9 DEF Next, HostTask, BlockIO

(* usb_storage.cpp: gReadDone and gWriteDone, which the callbacks set      *)
(* without a look at whose transfer has ended, speak of the transfer that  *)
(* is waited for, as long as none was given up before it ended.            *)
THEOREM FlagIsOwn == Spec => []OwnTransfer
<1>1. Init => TransferInv
  BY DEF Init, TransferInv
<1>2. SlotInv /\ DriveTypes /\ BlockTypes /\ TransferInv /\ [Next]_vars => TransferInv'
  BY StepTransferInv
<1>3. TransferInv => OwnTransfer
  BY DEF TransferInv, OwnTransfer
<1> QED
  BY <1>1, <1>2, <1>3, DriveInvariance, PTL DEF Spec
=============================================================================
