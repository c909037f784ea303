------------------------ MODULE StorageDeviceProofs ------------------------
(***************************************************************************)
(* Proofs about the storage device, for any number of threads, sectors,    *)
(* bytes, keys and requests.                                               *)
(*                                                                         *)
(* The first half shows who holds storage_mutex, that every range is       *)
(* inside the device and that locked sectors keep their bytes.  The second *)
(* adds how far each copy has got and what it has left in the buffer       *)
(* (DataInv): a write or an erasure lands whole, a read and GET_LOCK_INFO  *)
(* report one moment, a sector is opened with a key, and the device        *)
(* implements AtomicStorage.                                               *)
(***************************************************************************)
EXTENDS StorageHistory, TLAPS

----------------------------------------------------------------------------
(* Sectors and addresses                                                   *)

\* Integer division, as sector indices use it.
LEMMA DivisionBounds ==
    ASSUME NEW a \in Nat, NEW d \in Nat \ {0}
    PROVE  /\ a \div d \in Nat
           /\ d * (a \div d) <= a
           /\ a < d * (a \div d) + d
OBVIOUS

\* A larger address never lies in an earlier sector.
LEMMA DivisionMonotone ==
    ASSUME NEW a \in Nat, NEW b \in Nat, NEW d \in Nat \ {0}, a <= b
    PROVE  a \div d <= b \div d
BY DivisionBounds

\* The d addresses from q * d on form sector q.
LEMMA DivisionUnique ==
    ASSUME NEW a \in Nat, NEW d \in Nat \ {0}, NEW q \in Int,
           q * d <= a, a < q * d + d
    PROVE  a \div d = q
BY DivisionBounds

\* An address below n sectors lies in one of them.
LEMMA DivisionBelow ==
    ASSUME NEW a \in Nat, NEW n \in Nat, NEW d \in Nat \ {0}, a < n * d
    PROVE  a \div d < n
BY DivisionBounds

\* The sizes of the device are natural numbers, whatever STORAGE_SECTOR_SIZE
\* is.
LEMMA SizesAreNat ==
    /\ STORAGE_NUM_SECTORS \in Nat \ {0}
    /\ STORAGE_TOTAL_SIZE \in Nat \ {0}
BY SizeAssumption DEF STORAGE_NUM_SECTORS, STORAGE_TOTAL_SIZE

\* Every address belongs to a sector of the device.
LEMMA SectorOfAddress ==
    ASSUME NEW a \in Address
    PROVE  SectorOf(a) \in Sectors
<1>1. a \in Nat /\ a < STORAGE_NUM_SECTORS * SectorSize
  BY SizesAreNat DEF Address, STORAGE_TOTAL_SIZE
<1>2. a \div SectorSize \in Nat /\ a \div SectorSize < STORAGE_NUM_SECTORS
  BY <1>1, SizesAreNat, SizeAssumption, DivisionBelow, DivisionBounds
<1> QED
  BY <1>2, SizesAreNat DEF SectorOf, Sectors

\* The clamped length of a request that starts inside the device keeps it
\* inside.
LEMMA ClampInside ==
    ASSUME NEW off \in Nat, NEW len \in Nat, off < STORAGE_TOTAL_SIZE
    PROVE  /\ Clamp(off, len) \in Nat
           /\ off + Clamp(off, len) <= STORAGE_TOTAL_SIZE
BY SizesAreNat DEF Clamp

\* The sectors storage_write examines contain the sector of every byte it
\* stores: the sector range it computes is not too small.
LEMMA RangeCoversBytes ==
    ASSUME NEW off \in Nat, NEW len \in Nat, NEW a \in Nat,
           off <= a, a < off + len
    PROVE  SectorOf(a) \in SectorRange(off, len)
<1>1. /\ off \div SectorSize <= a \div SectorSize
      /\ a \div SectorSize <= (off + len - 1) \div SectorSize
  <2>1. off + len - 1 \in Nat /\ a <= off + len - 1
    OBVIOUS
  <2> QED
    BY <2>1, SizeAssumption, DivisionMonotone
<1>2. /\ off \div SectorSize \in Nat
      /\ a \div SectorSize \in Nat
      /\ (off + len - 1) \div SectorSize \in Nat
  BY SizeAssumption, DivisionBounds
<1>3. SectorEnd(off + len) = (off + len - 1) \div SectorSize
  BY DEF SectorEnd
<1> QED
  BY <1>1, <1>2, <1>3 DEF SectorOf, SectorRange

\* ... and not too large: every index its loop uses is inside the lock array.
LEMMA RangeInBounds ==
    ASSUME NEW off \in Nat, NEW len \in Nat, off + len <= STORAGE_TOTAL_SIZE
    PROVE  SectorRange(off, len) \subseteq Sectors
<1>1. off \div SectorSize \in Nat
  BY SizeAssumption, DivisionBounds
<1>2. SectorEnd(off + len) \in Int /\ SectorEnd(off + len) < STORAGE_NUM_SECTORS
  <2>1. CASE off + len = 0
    BY <2>1, SizesAreNat DEF SectorEnd
  <2>2. CASE off + len # 0
    <3>1. off + len - 1 \in Nat /\ off + len - 1 < STORAGE_NUM_SECTORS * SectorSize
      BY <2>2, SizesAreNat DEF STORAGE_TOTAL_SIZE
    <3>2. /\ (off + len - 1) \div SectorSize \in Nat
          /\ (off + len - 1) \div SectorSize < STORAGE_NUM_SECTORS
      BY <3>1, SizesAreNat, SizeAssumption, DivisionBounds, DivisionBelow
    <3> QED
      BY <2>2, <3>2 DEF SectorEnd
  <2> QED
    BY <2>1, <2>2
<1> QED
  BY <1>1, <1>2, SizesAreNat DEF SectorOf, SectorRange, Sectors

\* The bytes that erasing sector s clears are in the device and in sector s.
LEMMA EraseRange ==
    ASSUME NEW s \in Sectors
    PROVE  /\ s * SectorSize \in Nat
           /\ s * SectorSize + SectorSize <= STORAGE_TOTAL_SIZE
           /\ \A a \in Nat : s * SectorSize <= a /\ a < s * SectorSize + SectorSize
                                => SectorOf(a) = s
<1>1. s \in Nat /\ s + 1 <= STORAGE_NUM_SECTORS
  BY SizesAreNat DEF Sectors
<1>2. s * SectorSize \in Nat
  BY <1>1, SizeAssumption
<1>3. (s + 1) * SectorSize <= STORAGE_NUM_SECTORS * SectorSize
  BY <1>1, SizesAreNat, SizeAssumption
<1>4. s * SectorSize + SectorSize <= STORAGE_TOTAL_SIZE
  BY <1>1, <1>3, SizeAssumption DEF STORAGE_TOTAL_SIZE
<1>5. ASSUME NEW a \in Nat, s * SectorSize <= a, a < s * SectorSize + SectorSize
      PROVE  SectorOf(a) = s
  BY <1>1, <1>5, SizeAssumption, DivisionUnique DEF SectorOf
<1> QED
  BY <1>2, <1>4, <1>5

----------------------------------------------------------------------------
(* The inductive invariant                                                 *)

\* The locals of a thread outside the driver are of type Call.
LEMMA NoCallType == NoCall \in Call
BY SizesAreNat DEF NoCall, Call, AllOps, Sectors, Byte

\* The fields of those locals that the invariant looks at.
LEMMA NoCallFields == /\ NoCall.op = "none" /\ NoCall.off = 0 /\ NoCall.len = 0
BY DEF NoCall

\* The state storage_driver_init leaves satisfies the invariant.
LEMMA InitIndInv == Init => IndInv
<1> SUFFICES ASSUME Init PROVE IndInv
  OBVIOUS
<1>1. TypeOK
  BY NoCallType, ProcAssumption DEF Init, TypeOK, Byte, Critical
<1>2. MutexHeldInside
  BY ProcAssumption DEF Init, MutexHeldInside, Critical
<1>3. StepFitsOp
  BY DEF Init, StepFitsOp
<1>4. CallInRange
  <2>1. ASSUME NEW p \in Proc PROVE call[p] = NoCall
    BY DEF Init
  <2>2. 0 + 0 <= STORAGE_TOTAL_SIZE
    BY SizesAreNat
  <2> QED
    BY <2>1, <2>2, NoCallFields DEF CallInRange
<1>5. StoreTargetsOpen
  BY DEF Init, StoreTargetsOpen
<1> QED
  BY <1>1, <1>2, <1>3, <1>4, <1>5 DEF IndInv

\* A call rejected before it takes the mutex disturbs nothing.
LEMMA RejectInv ==
    ASSUME IndInv, NEW p \in Proc, NEW r \in Int, Reject(p, r)
    PROVE  IndInv'
BY DEF IndInv, TypeOK, MutexHeldInside, StepFitsOp, CallInRange,
       StoreTargetsOpen, Reject, CheckedSectors, SectorRange

\* A call that is let in with well-formed locals keeps the invariant.
LEMMA EnterInv ==
    ASSUME IndInv, NEW p \in Proc, NEW c \in Call,
           NEW label \in {"lock", "mirror", "backup"},
           Enter(p, c, label),
           c.off + c.len <= STORAGE_TOTAL_SIZE,
           c.op = "erase" => c.off = c.sector * SectorSize /\ c.len = SectorSize
    PROVE  IndInv'
<1> USE DEF IndInv, Enter
<1>1. TypeOK'
  BY DEF TypeOK
<1>2. MutexHeldInside'
  BY DEF TypeOK, MutexHeldInside, Critical
<1>3. StepFitsOp'
  BY DEF TypeOK, StepFitsOp
<1>4. CallInRange'
  BY DEF TypeOK, CallInRange
<1>5. StoreTargetsOpen'
  BY DEF TypeOK, StoreTargetsOpen
<1> QED
  BY <1>1, <1>2, <1>3, <1>4, <1>5

\* So does a call that leaves without having touched the shared state.
LEMMA ReturnInv ==
    ASSUME IndInv, NEW p \in Proc, NEW r \in Int,
           pc[p] \notin Critical,
           result' = [result EXCEPT ![p] = r],
           Return(p),
           UNCHANGED <<storage_buffer, sector_lock_state, storage_mutex>>
    PROVE  IndInv'
<1> USE DEF IndInv, Return
<1>1. TypeOK'
  BY NoCallType DEF TypeOK
<1>2. MutexHeldInside'
  BY DEF TypeOK, MutexHeldInside, Critical
<1>3. StepFitsOp'
  BY DEF TypeOK, StepFitsOp
<1>4. CallInRange'
  BY SizesAreNat, NoCallFields DEF TypeOK, CallInRange
<1>5. StoreTargetsOpen'
  BY DEF TypeOK, StoreTargetsOpen
<1> QED
  BY <1>1, <1>2, <1>3, <1>4, <1>5

----------------------------------------------------------------------------
(* The calls of the clients                                                *)

\* Every error code the driver returns is an integer.
LEMMA ReturnValues ==
    /\ EPERM \in Int /\ ENOENT \in Int /\ EIO \in Int /\ EFAULT \in Int
    /\ EINVAL \in Int /\ ENOTTY \in Int /\ ENOSPC \in Int
    /\ ERESTARTSYS \in Int
    /\ BackupResults \subseteq Int
BY DEF EPERM, ENOENT, EIO, EFAULT, EINVAL, ENOTTY, ENOSPC, ERESTARTSYS,
       BackupResults

\* storage_read clamps its range to the device before it waits for the mutex.
LEMMA ReadCallInv ==
    ASSUME IndInv, NEW p \in Proc, NEW off \in Nat, NEW len \in Nat,
           ReadCall(p, off, len)
    PROVE  IndInv'
<1>1. CASE Reject(p, 0)
  BY <1>1, RejectInv
<1>2. CASE off < STORAGE_TOTAL_SIZE /\ ~Reject(p, 0)
  <2> DEFINE c == [NoCall EXCEPT !.op = "read", !.off = off,
                                 !.len = Clamp(off, len)]
  <2>1. Clamp(off, len) \in Nat /\ off + Clamp(off, len) <= STORAGE_TOTAL_SIZE
    BY <1>2, ClampInside
  <2>2. c \in Call /\ c.op = "read" /\ c.off = off /\ c.len = Clamp(off, len)
    BY <2>1, NoCallType DEF Call, AllOps, NoCall
  <2>3. Enter(p, c, "lock")
    BY <1>2 DEF ReadCall
  <2> HIDE DEF c
  <2> QED
    BY <2>1, <2>2, <2>3, EnterInv
<1> QED
  BY <1>1, <1>2, SizesAreNat DEF ReadCall

\* storage_write clamps its range to the device before it waits for the mutex.
LEMMA WriteCallInv ==
    ASSUME IndInv, NEW p \in Proc, NEW off \in Nat, NEW len \in Nat,
           NEW v \in Payload, WriteCall(p, off, len, v)
    PROVE  IndInv'
<1>1. CASE Reject(p, ENOSPC)
  BY <1>1, RejectInv, ReturnValues
<1>2. CASE off < STORAGE_TOTAL_SIZE /\ ~Reject(p, ENOSPC)
  <2> DEFINE c == [NoCall EXCEPT !.op = "write", !.off = off, !.val = v,
                                 !.len = Clamp(off, len),
                                 !.good = Clamp(off, len)]
  <2>1. Clamp(off, len) \in Nat /\ off + Clamp(off, len) <= STORAGE_TOTAL_SIZE
    BY <1>2, ClampInside
  <2>2. c \in Call /\ c.op = "write" /\ c.off = off /\ c.len = Clamp(off, len)
    BY <2>1, NoCallType DEF Call, AllOps, NoCall, Byte
  <2>3. Enter(p, c, "lock")
    BY <1>2 DEF WriteCall
  <2> HIDE DEF c
  <2> QED
    BY <2>1, <2>2, <2>3, EnterInv
<1> QED
  BY <1>1, <1>2, SizesAreNat DEF WriteCall

\* An ioctl that is turned away changes nothing.
LEMMA IoctlRejectInv ==
    ASSUME IndInv, NEW p \in Proc, NEW op, IoctlReject(p, op)
    PROVE  IndInv'
<1>1. CASE Reject(p, EFAULT)
  BY <1>1, RejectInv, ReturnValues
<1>2. CASE Reject(p, ENOTTY)
  BY <1>2, RejectInv, ReturnValues
<1> QED
  BY <1>1, <1>2 DEF IoctlReject

\* LOCK, ERASE and MIRROR_SECTOR go on with a sector index in range only.
LEMMA SectorIoctlInv ==
    ASSUME IndInv, NEW p \in Proc, NEW op, NEW s, SectorIoctl(p, op, s)
    PROVE  IndInv'
<1>1. CASE Reject(p, EINVAL)
  BY <1>1, RejectInv, ReturnValues
<1>2. CASE s \in Sectors /\ ~Reject(p, EINVAL)
  <2> DEFINE c == SectorCall(op, s)
             l == IF op = "mirror" THEN "mirror" ELSE "lock"
  <2>1. op \in {"lock", "erase", "mirror"} /\ Enter(p, c, l)
    BY <1>2 DEF SectorIoctl
  <2>2. l \in {"lock", "mirror", "backup"}
    OBVIOUS
  <2>3. /\ c \in Call
        /\ c.off + c.len <= STORAGE_TOTAL_SIZE
        /\ c.op = "erase" => c.off = c.sector * SectorSize /\ c.len = SectorSize
    <3>1. CASE op = "erase"
      <4>1. /\ s * SectorSize \in Nat
            /\ s * SectorSize + SectorSize <= STORAGE_TOTAL_SIZE
        BY <1>2, EraseRange
      <4>2. /\ c \in Call
            /\ c.off = s * SectorSize /\ c.len = SectorSize /\ c.sector = s
        BY <1>2, <3>1, <4>1, NoCallType, SizeAssumption
           DEF SectorCall, Call, AllOps, NoCall
      <4> QED
        BY <4>1, <4>2
    <3>2. CASE op # "erase"
      <4>1. c \in Call /\ c.op # "erase" /\ c.off = 0 /\ c.len = 0
        BY <1>2, <2>1, <3>2, NoCallType DEF SectorCall, Call, AllOps, NoCall
      <4> QED
        BY <4>1, SizesAreNat
    <3> QED
      BY <3>1, <3>2
  <2> HIDE DEF c, l
  <2> QED
    BY <2>1, <2>2, <2>3, EnterInv
<1> QED
  BY <1>1, <1>2 DEF SectorIoctl

\* UNLOCK_SECTOR goes on with a sector index in range only.
LEMMA UnlockIoctlInv ==
    ASSUME IndInv, NEW p \in Proc, NEW f, NEW key \in KeyBytes,
           UnlockIoctl(p, f, key)
    PROVE  IndInv'
<1>1. CASE Reject(p, EINVAL) \/ Reject(p, EPERM)
  BY <1>1, RejectInv, ReturnValues
<1>2. CASE FieldValue(f) \in Sectors /\ ~(Reject(p, EINVAL) \/ Reject(p, EPERM))
  <2> DEFINE c == [NoCall EXCEPT !.op = "unlock", !.key = key,
                                 !.sector = FieldValue(f)]
  <2>1. c \in Call /\ c.op = "unlock" /\ c.off = 0 /\ c.len = 0
    BY <1>2, NoCallType DEF Call, AllOps, NoCall
  <2>2. Enter(p, c, "lock")
    BY <1>2 DEF UnlockIoctl
  <2> HIDE DEF c
  <2> QED
    BY <2>1, <2>2, EnterInv, SizesAreNat
<1> QED
  BY <1>1, <1>2 DEF UnlockIoctl

\* GET_LOCK_INFO and BACKUP_TO_FILE begin with empty locals.
LEMMA PlainIoctlInv ==
    ASSUME IndInv, NEW p \in Proc, InfoIoctl(p) \/ BackupIoctl(p)
    PROVE  IndInv'
<1> DEFINE c(op) == [NoCall EXCEPT !.op = op]
<1>1. ASSUME NEW op \in {"info", "backup"}
      PROVE  c(op) \in Call /\ c(op).op = op /\ c(op).off = 0 /\ c(op).len = 0
  BY NoCallType DEF Call, AllOps, NoCall
<1>2. Enter(p, c("info"), "lock") \/ Enter(p, c("backup"), "backup")
  BY DEF InfoIoctl, BackupIoctl
<1> HIDE DEF c
<1> QED
  BY <1>1, <1>2, EnterInv, SizesAreNat

\* Whatever a client asks for, entering the driver preserves the invariant.
LEMMA ClientCallInv ==
    ASSUME IndInv, NEW p \in Proc, ClientCall(p)
    PROVE  IndInv'
<1>1. ASSUME NEW off \in Offsets, NEW len \in Lengths, ReadCall(p, off, len)
      PROVE  IndInv'
  BY <1>1, ClientAssumption, ReadCallInv
<1>2. ASSUME NEW off \in Offsets, NEW len \in Lengths, NEW v \in Payload,
             WriteCall(p, off, len, v)
      PROVE  IndInv'
  BY <1>2, ClientAssumption, WriteCallInv
<1> QED
  BY <1>1, <1>2, IoctlRejectInv, SectorIoctlInv, UnlockIoctlInv, PlainIoctlInv
     DEF ClientCall

----------------------------------------------------------------------------
(* The steps of a call                                                     *)

\* The mutex goes to a thread outside every critical section.
LEMMA AcquireInv ==
    ASSUME IndInv, NEW p \in Proc, Acquire(p)
    PROVE  IndInv'
<1> USE DEF IndInv, Acquire, Goto
<1>1. TypeOK'
  BY DEF TypeOK, Critical, AfterLock
<1>2. MutexHeldInside'
  BY ProcAssumption DEF TypeOK, MutexHeldInside, Critical, AfterLock
<1>3. StepFitsOp'
  BY DEF TypeOK, StepFitsOp, AfterLock
<1>4. CallInRange'
  BY DEF TypeOK, CallInRange
<1>5. StoreTargetsOpen'
  BY DEF TypeOK, StoreTargetsOpen, AfterLock
<1> QED
  BY <1>1, <1>2, <1>3, <1>4, <1>5

\* A wait for storage_mutex that a signal ends leaves no trace.
LEMMA InterruptedInv ==
    ASSUME IndInv, NEW p \in Proc, Interrupted(p)
    PROVE  IndInv'
BY ReturnInv, ReturnValues DEF Interrupted, Critical

\* The only step that gives the mutex back is taken by its owner.
LEMMA ReleaseInv ==
    ASSUME IndInv, NEW p \in Proc, Release(p)
    PROVE  IndInv'
<1> USE DEF IndInv
<1>1. TypeOK'
  <2>1. CASE call[p].op = "info"
    BY <2>1 DEF Release, Goto, TypeOK, Critical
  <2>2. CASE call[p].op # "info"
    <3>1. /\ pc' = [pc EXCEPT ![p] = "idle"]
          /\ call' = [call EXCEPT ![p] = NoCall]
          /\ done' = [done EXCEPT ![p] = 0]
          /\ out' = [out EXCEPT ![p] = <<>>]
          /\ lock_info' = [lock_info EXCEPT ![p] = <<>>]
          /\ storage_mutex' = NoProc
          /\ UNCHANGED <<storage_buffer, sector_lock_state, result>>
      BY <2>2 DEF Release, Return
    <3> QED
      BY <3>1, NoCallType DEF TypeOK, Critical
  <2> QED
    BY <2>1, <2>2
<1> USE DEF Release, Goto, Return
<1>2. MutexHeldInside'
  BY ProcAssumption DEF TypeOK, MutexHeldInside, Critical
<1>3. StepFitsOp'
  BY DEF TypeOK, StepFitsOp
<1>4. CallInRange'
  <2>1. CASE call' = call
    BY <2>1 DEF CallInRange
  <2>2. CASE call' = [call EXCEPT ![p] = NoCall]
    BY <2>2, SizesAreNat, NoCallFields DEF TypeOK, CallInRange
  <2> QED
    BY <2>1, <2>2
<1>5. StoreTargetsOpen'
  BY DEF TypeOK, StoreTargetsOpen
<1> QED
  BY <1>1, <1>2, <1>3, <1>4, <1>5

\* A reader copies from inside the device.
LEMMA ReadByteInv ==
    ASSUME IndInv, NEW p \in Proc, ReadByte(p)
    PROVE  IndInv'
<1> USE DEF IndInv, ReadByte
<1>1. TypeOK'
  <2>1. call[p].off + Len(out[p]) \in Address
    BY SizesAreNat DEF TypeOK, Call, CallInRange, Address
  <2> QED
    BY <2>1 DEF TypeOK
<1>2. MutexHeldInside'
  BY ProcAssumption DEF TypeOK, MutexHeldInside, Critical
<1>3. StepFitsOp'
  BY DEF TypeOK, StepFitsOp
<1>4. CallInRange'
  BY DEF TypeOK, CallInRange
<1>5. StoreTargetsOpen'
  BY DEF TypeOK, StoreTargetsOpen
<1> QED
  BY <1>1, <1>2, <1>3, <1>4, <1>5

\* The end of copy_to_user in storage_read, with and without a fault.
LEMMA ReadEndInv ==
    ASSUME IndInv, NEW p \in Proc, ReadDone(p) \/ ReadFault(p)
    PROVE  IndInv'
<1> USE DEF IndInv, ReadDone, ReadFault, Goto
<1>1. TypeOK'
  <2>1. call[p].len \in Int
    BY DEF TypeOK, Call
  <2> QED
    BY <2>1, ReturnValues DEF TypeOK, Critical
<1>2. MutexHeldInside'
  BY ProcAssumption DEF TypeOK, MutexHeldInside, Critical
<1>3. StepFitsOp'
  BY DEF TypeOK, StepFitsOp
<1>4. CallInRange'
  BY DEF TypeOK, CallInRange
<1>5. StoreTargetsOpen'
  BY DEF TypeOK, StoreTargetsOpen
<1> QED
  BY <1>1, <1>2, <1>3, <1>4, <1>5

\* The check is what makes the targets of the stores open.
LEMMA CheckLocksInv ==
    ASSUME IndInv, NEW p \in Proc, CheckLocks(p)
    PROVE  IndInv'
<1> USE DEF IndInv, CheckLocks, Goto
<1>1. TypeOK'
  BY ReturnValues DEF TypeOK, Critical
<1>2. MutexHeldInside'
  BY ProcAssumption DEF TypeOK, MutexHeldInside, Critical
<1>3. StepFitsOp'
  BY DEF TypeOK, StepFitsOp
<1>4. CallInRange'
  BY DEF TypeOK, CallInRange
<1>5. StoreTargetsOpen'
  BY DEF TypeOK, StoreTargetsOpen
<1> QED
  BY <1>1, <1>2, <1>3, <1>4, <1>5

\* A stored byte lies inside the device.
LEMMA StoreByteInv ==
    ASSUME IndInv, NEW p \in Proc, StoreByte(p)
    PROVE  IndInv'
<1> USE DEF IndInv, StoreByte
<1>1. TypeOK'
  <2> DEFINE b == IF done[p] < call[p].good THEN call[p].val ELSE 0
  <2>1. b \in Byte
    BY DEF TypeOK, Call, Byte
  <2>2. storage_buffer' = [storage_buffer EXCEPT ![call[p].off + done[p]] = b]
    OBVIOUS
  <2> HIDE DEF b
  <2>3. storage_buffer' \in [Address -> Byte]
    BY <2>1, <2>2 DEF TypeOK
  <2>4. done' \in [Proc -> Nat]
    BY DEF TypeOK
  <2> QED
    BY <2>3, <2>4 DEF TypeOK
<1>2. MutexHeldInside'
  BY ProcAssumption DEF TypeOK, MutexHeldInside, Critical
<1>3. StepFitsOp'
  BY DEF TypeOK, StepFitsOp
<1>4. CallInRange'
  BY DEF TypeOK, CallInRange
<1>5. StoreTargetsOpen'
  BY DEF TypeOK, StoreTargetsOpen
<1> QED
  BY <1>1, <1>2, <1>3, <1>4, <1>5

\* A fault changes how much is copied, not where.
LEMMA WriteFaultInv ==
    ASSUME IndInv, NEW p \in Proc, WriteFault(p)
    PROVE  IndInv'
<1> USE DEF IndInv, WriteFault
<1>1. TypeOK'
  BY DEF TypeOK, Call
<1>2. MutexHeldInside'
  BY ProcAssumption DEF TypeOK, MutexHeldInside, Critical
<1>3. StepFitsOp'
  BY DEF TypeOK, Call, StepFitsOp
<1>4. CallInRange'
  BY DEF TypeOK, Call, CallInRange
<1>5. StoreTargetsOpen'
  BY DEF TypeOK, Call, StoreTargetsOpen, CheckedSectors
<1> QED
  BY <1>1, <1>2, <1>3, <1>4, <1>5

\* The end of copy_from_user or memset returns an integer and keeps the mutex.
LEMMA StoreDoneInv ==
    ASSUME IndInv, NEW p \in Proc, StoreDone(p)
    PROVE  IndInv'
<1> USE DEF IndInv, StoreDone, Goto
<1>1. TypeOK'
  <2>1. call[p].len \in Int /\ call[p].good \in Nat
    BY DEF TypeOK, Call
  <2> DEFINE r == CASE call[p].op # "write"       -> 0
                    [] call[p].good < call[p].len -> EFAULT
                    [] OTHER                      -> call[p].len
  <2>2. result' = [result EXCEPT ![p] = r]
    OBVIOUS
  <2>3. r \in Int
    BY <2>1, ReturnValues
  <2> HIDE DEF r
  <2>4. result' \in [Proc -> Int]
    BY <2>2, <2>3 DEF TypeOK
  <2> QED
    BY <2>4 DEF TypeOK, Critical
<1>2. MutexHeldInside'
  BY ProcAssumption DEF TypeOK, MutexHeldInside, Critical
<1>3. StepFitsOp'
  BY DEF TypeOK, StepFitsOp
<1>4. CallInRange'
  BY DEF TypeOK, CallInRange
<1>5. StoreTargetsOpen'
  BY DEF TypeOK, StoreTargetsOpen
<1> QED
  BY <1>1, <1>2, <1>3, <1>4, <1>5

\* The thread that sets a lock owns the mutex, so nobody is storing.
LEMMA SetLockInv ==
    ASSUME IndInv, NEW p \in Proc, SetLock(p)
    PROVE  IndInv'
<1> USE DEF IndInv, SetLock, Goto
<1>1. TypeOK'
  BY DEF TypeOK, Critical, Call
<1>2. MutexHeldInside'
  BY ProcAssumption DEF TypeOK, MutexHeldInside, Critical
<1>3. StepFitsOp'
  BY DEF TypeOK, StepFitsOp
<1>4. CallInRange'
  BY DEF TypeOK, CallInRange
<1>5. StoreTargetsOpen'
  BY ProcAssumption DEF TypeOK, StoreTargetsOpen, MutexHeldInside, Critical
<1> QED
  BY <1>1, <1>2, <1>3, <1>4, <1>5

\* GET_LOCK_INFO reads a flag inside sector_lock_state.
LEMMA InfoCopyInv ==
    ASSUME IndInv, NEW p \in Proc, InfoCopy(p)
    PROVE  IndInv'
<1> USE DEF IndInv, InfoCopy, Goto
<1>1. TypeOK'
  <2>1. CASE Len(lock_info[p]) < STORAGE_NUM_SECTORS /\ pc' = pc
    <3>1. Len(lock_info[p]) \in Sectors
      BY <2>1, SizesAreNat DEF TypeOK, Sectors
    <3>2. Append(lock_info[p], sector_lock_state[Len(lock_info[p])])
             \in Seq(BOOLEAN)
      BY <3>1 DEF TypeOK
    <3> QED
      BY <2>1, <3>2 DEF TypeOK
  <2>2. CASE UNCHANGED lock_info
    BY <2>2 DEF TypeOK, Critical
  <2> QED
    BY <2>1, <2>2
<1>2. MutexHeldInside'
  BY ProcAssumption DEF TypeOK, MutexHeldInside, Critical
<1>3. StepFitsOp'
  BY DEF TypeOK, StepFitsOp
<1>4. CallInRange'
  BY DEF TypeOK, CallInRange
<1>5. StoreTargetsOpen'
  BY DEF TypeOK, StoreTargetsOpen
<1> QED
  BY <1>1, <1>2, <1>3, <1>4, <1>5

\* The returns that hold no mutex: GET_LOCK_INFO after its copy, MIRROR and
\* BACKUP.
LEMMA LeaveInv ==
    ASSUME IndInv, NEW p \in Proc, InfoGive(p) \/ MirrorSide(p)
    PROVE  IndInv'
BY ReturnInv, ReturnValues
   DEF InfoGive, MirrorSide, MirrorReturn, BackupReturn, Critical

\* Every step preserves the invariant.
LEMMA NextIndInv == IndInv /\ [Next]_vars => IndInv'
<1> SUFFICES ASSUME IndInv, [Next]_vars PROVE IndInv'
  OBVIOUS
<1>1. CASE UNCHANGED vars
  BY <1>1 DEF vars, IndInv, TypeOK, MutexHeldInside, StepFitsOp, CallInRange,
              StoreTargetsOpen
<1>2. ASSUME NEW p \in Proc, ClientCall(p) PROVE IndInv'
  BY <1>2, ClientCallInv
<1>3. ASSUME NEW p \in Proc, Disturb(p) PROVE IndInv'
  BY <1>3, ReadEndInv, WriteFaultInv, InterruptedInv DEF Disturb
<1>4. ASSUME NEW p \in Proc, LocalStep(p) PROVE IndInv'
  BY <1>4, ReadByteInv, ReadEndInv, CheckLocksInv, StoreByteInv, StoreDoneInv,
     SetLockInv, InfoCopyInv, LeaveInv, ReleaseInv DEF LocalStep
<1>5. ASSUME NEW p \in Proc, Acquire(p) \/ MirrorSide(p) PROVE IndInv'
  BY <1>5, AcquireInv, LeaveInv
<1> QED
  BY <1>1, <1>2, <1>3, <1>4, <1>5 DEF Next

\* The inductive invariant holds in every reachable state.
THEOREM Invariance == Spec => []IndInv
BY InitIndInv, NextIndInv, PTL DEF Spec

\* Type correctness: every variable of the driver keeps its type.
THEOREM TypeCorrect == Spec => []TypeOK
<1>1. IndInv => TypeOK
  BY DEF IndInv
<1> QED
  BY <1>1, Invariance, PTL

\* storage_mutex is owned by exactly the thread inside a critical section, on
\* every path through read, write and ioctl.
THEOREM MutualExclusion == Spec => []MutexHeldInside
<1>1. IndInv => MutexHeldInside
  BY DEF IndInv
<1> QED
  BY <1>1, Invariance, PTL

\* No lock is set between the check of a write or an erase and its stores.
THEOREM TargetsStayOpen == Spec => []StoreTargetsOpen
<1>1. IndInv => StoreTargetsOpen
  BY DEF IndInv
<1> QED
  BY <1>1, Invariance, PTL

\* storage_write indexes neither the lock array nor the buffer out of bounds.
THEOREM WritesInBounds == Spec => []WriteInBounds
<1>1. ASSUME IndInv PROVE WriteInBounds
  <2> SUFFICES ASSUME NEW p \in Proc
               PROVE  /\ SectorRange(call[p].off, call[p].len) \subseteq Sectors
                      /\ call[p].off + call[p].len <= STORAGE_TOTAL_SIZE
    BY DEF WriteInBounds
  <2>1. call[p].off \in Nat /\ call[p].len \in Nat
    BY <1>1 DEF IndInv, TypeOK, Call
  <2>2. call[p].off + call[p].len <= STORAGE_TOTAL_SIZE
    BY <1>1 DEF IndInv, CallInRange
  <2> QED
    BY <2>1, <2>2, RangeInBounds
<1> QED
  BY <1>1, Invariance, PTL

\* Every byte of a write or an erase lies in a sector whose lock it examines.
LEMMA BytesAreChecked ==
    ASSUME IndInv, NEW p \in Proc, call[p].op \in {"write", "erase"},
           NEW a \in Nat, call[p].off <= a, a < call[p].off + call[p].len
    PROVE  SectorOf(a) \in CheckedSectors(call[p])
<1>1. call[p].off \in Nat /\ call[p].len \in Nat /\ call[p].sector \in Sectors
  BY DEF IndInv, TypeOK, Call
<1>2. CASE call[p].op = "write"
  BY <1>1, <1>2, RangeCoversBytes DEF CheckedSectors
<1>3. CASE call[p].op = "erase"
  <2>1. call[p].off = call[p].sector * SectorSize /\ call[p].len = SectorSize
    BY <1>3 DEF IndInv, CallInRange
  <2>2. SectorOf(a) = call[p].sector
    BY <1>1, <2>1, EraseRange
  <2> QED
    BY <1>3, <2>2 DEF CheckedSectors
<1> QED
  BY <1>2, <1>3

\* The byte a thread stores lies in a sector whose lock it has found open.
LEMMA StoredByteIsOpen ==
    ASSUME IndInv, NEW p \in Proc, pc[p] = "store", done[p] < call[p].len
    PROVE  ~sector_lock_state[SectorOf(call[p].off + done[p])]
<1>1. done[p] \in Nat /\ call[p].off \in Nat /\ call[p].len \in Nat
  BY DEF IndInv, TypeOK, Call
<1>2. call[p].op \in {"write", "erase"}
  BY DEF IndInv, StepFitsOp
<1>3. SectorOf(call[p].off + done[p]) \in CheckedSectors(call[p])
  BY <1>1, <1>2, BytesAreChecked
<1> QED
  BY <1>3 DEF IndInv, StoreTargetsOpen

\* A locked sector is immutable: whatever threads are doing when it is locked,
\* no step changes one of its bytes.
THEOREM LockedSectorsKeepTheirBytes == Spec => LockedSectorImmutable
<1> DEFINE Kept == \A a \in Address :
                     sector_lock_state[SectorOf(a)]
                        => storage_buffer'[a] = storage_buffer[a]
<1>1. ASSUME IndInv, [Next]_vars PROVE Kept
  <2>1. CASE UNCHANGED storage_buffer
    BY <2>1
  <2>2. ASSUME NEW p \in Proc, StoreByte(p) PROVE Kept
    <3>1. ~sector_lock_state[SectorOf(call[p].off + done[p])]
      BY <1>1, <2>2, StoredByteIsOpen DEF StoreByte
    <3>2. \A a \in Address : a # call[p].off + done[p]
                                => storage_buffer'[a] = storage_buffer[a]
      BY <1>1, <2>2 DEF StoreByte, IndInv, TypeOK
    <3> QED
      BY <3>1, <3>2
  <2>3. UNCHANGED storage_buffer \/ \E p \in Proc : StoreByte(p)
    <3>1. ASSUME NEW p \in Proc, ClientCall(p) PROVE UNCHANGED storage_buffer
      BY <3>1 DEF ClientCall, ReadCall, WriteCall, IoctlReject, SectorIoctl,
                  UnlockIoctl, InfoIoctl, BackupIoctl, Reject, Enter
    <3>2. ASSUME NEW p \in Proc, Disturb(p) PROVE UNCHANGED storage_buffer
      BY <3>2 DEF Disturb, ReadFault, WriteFault, Interrupted
    <3>3. ASSUME NEW p \in Proc, LocalStep(p), ~StoreByte(p)
          PROVE  UNCHANGED storage_buffer
      BY <3>3 DEF LocalStep, ReadByte, ReadDone, CheckLocks, StoreDone, SetLock,
                  InfoCopy, InfoGive, Release
    <3>4. ASSUME NEW p \in Proc, Acquire(p) \/ MirrorSide(p)
          PROVE  UNCHANGED storage_buffer
      BY <3>4 DEF Acquire, MirrorSide, MirrorReturn, BackupReturn
    <3> QED
      BY <1>1, <3>1, <3>2, <3>3, <3>4 DEF Next, vars
  <2> QED
    BY <2>1, <2>2, <2>3
<1>2. IndInv /\ [Next]_vars => [Kept]_vars
  BY <1>1
<1> QED
  BY <1>2, Invariance, PTL DEF Spec, LockedSectorImmutable

----------------------------------------------------------------------------
(* What is stored and handed out                                           *)

\* The byte that belongs at index i of a store with locals c.
Wanted(c, i) == IF i < c.good THEN c.val ELSE 0

\* A thread has stored bytes only inside its copy_from_user or memset, and as
\* many as it was asked to when that is over.
StoreProgress ==
    \A p \in Proc :
        /\ done[p] <= call[p].len
        /\ call[p].good <= call[p].len
        /\ done[p] # 0 => /\ pc[p] \in {"store", "unlock"}
                          /\ call[p].op \in {"write", "erase"}
        /\ pc[p] = "unlock" /\ call[p].op \in {"write", "erase"}
                            /\ result[p] # EPERM => done[p] = call[p].len

\* What it has stored is still there, in sectors that are still open.
StoredPrefix ==
    \A p \in Proc :
        /\ \A i \in 0 .. done[p] - 1 :
              storage_buffer[call[p].off + i] = Wanted(call[p], i)
        /\ done[p] # 0 =>
              \A s \in CheckedSectors(call[p]) : ~sector_lock_state[s]

\* A thread has copied something out only inside the matching loop.
CopyProgress ==
    \A p \in Proc :
        /\ out[p] # <<>> => /\ pc[p] \in {"load", "unlock"}
                            /\ call[p].op = "read"
        /\ lock_info[p] # <<>> => /\ pc[p] \in {"load", "unlock", "give"}
                                  /\ call[p].op = "info"

\* The key test of UNLOCK_SECTOR is behind a thread that goes on, and its sector
\* went through the bit-field.
KeyGiven == \A p \in Proc : call[p].op = "unlock" =>
                /\ call[p].key \in Keys
                /\ call[p].sector < HalfField

\* Inductive relative to IndInv.
DataInv == /\ StoreProgress
           /\ StoredPrefix
           /\ CopyProgress
           /\ ReadIsSnapshot
           /\ LockInfoIsSnapshot
           /\ KeyGiven

----------------------------------------------------------------------------
(* Entering and leaving a call                                             *)

\* Nothing has been stored or copied when the module is loaded.
LEMMA InitDataInv == Init => DataInv
<1> SUFFICES ASSUME Init PROVE DataInv
  OBVIOUS
<1>1. ASSUME NEW p \in Proc
      PROVE  /\ call[p].op = "none" /\ call[p].len = 0 /\ call[p].good = 0
             /\ done[p] = 0 /\ out[p] = <<>> /\ lock_info[p] = <<>>
             /\ pc[p] = "idle"
  BY DEF Init, NoCall
<1>2. StoreProgress /\ StoredPrefix
  BY <1>1 DEF StoreProgress, StoredPrefix
<1>3. CopyProgress /\ ReadIsSnapshot /\ LockInfoIsSnapshot /\ KeyGiven
  BY <1>1 DEF CopyProgress, ReadIsSnapshot, LockInfoIsSnapshot, KeyGiven, Critical
<1> QED
  BY <1>2, <1>3 DEF DataInv

\* A call rejected before it takes the mutex disturbs no copy.
LEMMA RejectData ==
    ASSUME IndInv, DataInv, NEW p \in Proc, NEW r \in Int, Reject(p, r)
    PROVE  DataInv'
<1> USE DEF IndInv, DataInv, Reject
<1>1. StoreProgress'
  BY DEF TypeOK, StoreProgress
<1>2. StoredPrefix'
  BY DEF StoredPrefix, Wanted, CheckedSectors, SectorRange
<1>3. CopyProgress' /\ ReadIsSnapshot' /\ LockInfoIsSnapshot' /\ KeyGiven'
  BY DEF CopyProgress, ReadIsSnapshot, LockInfoIsSnapshot, KeyGiven
<1> QED
  BY <1>1, <1>2, <1>3

\* A call that is let in has copied nothing yet.
LEMMA EnterData ==
    ASSUME IndInv, DataInv, NEW p \in Proc, NEW c \in Call,
           NEW label \in {"lock", "mirror", "backup"},
           Enter(p, c, label),
           c.good <= c.len,
           c.op = "unlock" => c.key \in Keys /\ c.sector < HalfField
    PROVE  DataInv'
<1> USE DEF IndInv, DataInv, Enter
<1>1. done[p] = 0 /\ out[p] = <<>> /\ lock_info[p] = <<>>
  BY DEF TypeOK, StoreProgress, CopyProgress
<1>2. c.len \in Nat
  BY DEF Call
<1>3. StoreProgress'
  BY <1>1, <1>2 DEF TypeOK, StoreProgress
<1>4. StoredPrefix'
  BY <1>1 DEF TypeOK, StoredPrefix
<1>5. CopyProgress' /\ KeyGiven'
  BY <1>1 DEF TypeOK, CopyProgress, KeyGiven
<1>6. ReadIsSnapshot' /\ LockInfoIsSnapshot'
  BY <1>1 DEF TypeOK, ReadIsSnapshot, LockInfoIsSnapshot, Critical
<1> QED
  BY <1>3, <1>4, <1>5, <1>6

\* A call that is over keeps nothing, whatever it returns.
LEMMA ReturnData ==
    ASSUME IndInv, DataInv, NEW p \in Proc, Return(p),
           result' = result \/ \E r \in Int : result' = [result EXCEPT ![p] = r],
           UNCHANGED <<storage_buffer, sector_lock_state>>
    PROVE  DataInv'
<1> USE DEF IndInv, DataInv, Return
<1>1. /\ NoCall.op = "none" /\ NoCall.len = 0 /\ NoCall.good = 0
      /\ NoCall.off = 0
  BY DEF NoCall
<1>2. StoreProgress'
  BY <1>1 DEF TypeOK, StoreProgress
<1>3. StoredPrefix'
  BY DEF TypeOK, StoredPrefix
<1>4. CopyProgress' /\ KeyGiven'
  BY <1>1 DEF TypeOK, CopyProgress, KeyGiven
<1>5. ReadIsSnapshot' /\ LockInfoIsSnapshot'
  BY DEF TypeOK, ReadIsSnapshot, LockInfoIsSnapshot, Critical
<1> QED
  BY <1>2, <1>3, <1>4, <1>5

----------------------------------------------------------------------------
(* The calls of the clients                                                *)

\* storage_read stores nothing.
LEMMA ReadCallData ==
    ASSUME IndInv, DataInv, NEW p \in Proc, NEW off \in Nat, NEW len \in Nat,
           ReadCall(p, off, len)
    PROVE  DataInv'
<1>1. CASE Reject(p, 0)
  BY <1>1, RejectData
<1>2. CASE off < STORAGE_TOTAL_SIZE /\ ~Reject(p, 0)
  <2> DEFINE c == [NoCall EXCEPT !.op = "read", !.off = off,
                                 !.len = Clamp(off, len)]
  <2>1. Clamp(off, len) \in Nat
    BY <1>2, ClampInside
  <2>2. c \in Call /\ c.op = "read" /\ c.good = 0 /\ c.len = Clamp(off, len)
    BY <2>1, NoCallType DEF Call, AllOps, NoCall
  <2>3. Enter(p, c, "lock")
    BY <1>2 DEF ReadCall
  <2> HIDE DEF c
  <2> QED
    BY <2>1, <2>2, <2>3, EnterData
<1> QED
  BY <1>1, <1>2, SizesAreNat DEF ReadCall

\* storage_write means to copy the whole clamped range.
LEMMA WriteCallData ==
    ASSUME IndInv, DataInv, NEW p \in Proc, NEW off \in Nat, NEW len \in Nat,
           NEW v \in Payload, WriteCall(p, off, len, v)
    PROVE  DataInv'
<1>1. CASE Reject(p, ENOSPC)
  BY <1>1, RejectData, ReturnValues
<1>2. CASE off < STORAGE_TOTAL_SIZE /\ ~Reject(p, ENOSPC)
  <2> DEFINE c == [NoCall EXCEPT !.op = "write", !.off = off, !.val = v,
                                 !.len = Clamp(off, len),
                                 !.good = Clamp(off, len)]
  <2>1. Clamp(off, len) \in Nat
    BY <1>2, ClampInside
  <2>2. c \in Call /\ c.op = "write" /\ c.good = c.len /\ c.len \in Nat
    BY <2>1, NoCallType DEF Call, AllOps, NoCall, Byte
  <2>3. Enter(p, c, "lock")
    BY <1>2 DEF WriteCall
  <2> HIDE DEF c
  <2> QED
    BY <2>2, <2>3, EnterData
<1> QED
  BY <1>1, <1>2, SizesAreNat DEF WriteCall

\* An ioctl that is turned away changes nothing.
LEMMA IoctlRejectData ==
    ASSUME IndInv, DataInv, NEW p \in Proc, NEW op, IoctlReject(p, op)
    PROVE  DataInv'
<1>1. CASE Reject(p, EFAULT)
  BY <1>1, RejectData, ReturnValues
<1>2. CASE Reject(p, ENOTTY)
  BY <1>2, RejectData, ReturnValues
<1> QED
  BY <1>1, <1>2 DEF IoctlReject

\* LOCK, ERASE and MIRROR_SECTOR: an erasure means to clear the whole sector.
LEMMA SectorIoctlData ==
    ASSUME IndInv, DataInv, NEW p \in Proc, NEW op, NEW s, SectorIoctl(p, op, s)
    PROVE  DataInv'
<1>1. CASE Reject(p, EINVAL)
  BY <1>1, RejectData, ReturnValues
<1>2. CASE s \in Sectors /\ ~Reject(p, EINVAL)
  <2> DEFINE c == SectorCall(op, s)
             l == IF op = "mirror" THEN "mirror" ELSE "lock"
  <2>1. op \in {"lock", "erase", "mirror"} /\ Enter(p, c, l)
    BY <1>2 DEF SectorIoctl
  <2>2. l \in {"lock", "mirror", "backup"}
    OBVIOUS
  <2>3. c \in Call /\ c.op = op /\ c.good = c.len /\ c.len \in Nat
    <3>1. CASE op = "erase"
      <4>1. s * SectorSize \in Nat
        BY <1>2, EraseRange
      <4> QED
        BY <1>2, <3>1, <4>1, NoCallType, SizeAssumption
           DEF SectorCall, Call, AllOps, NoCall
    <3>2. CASE op # "erase"
      BY <1>2, <2>1, <3>2, NoCallType DEF SectorCall, Call, AllOps, NoCall
    <3> QED
      BY <3>1, <3>2
  <2> HIDE DEF c, l
  <2> QED
    BY <2>1, <2>2, <2>3, EnterData
<1> QED
  BY <1>1, <1>2 DEF SectorIoctl

\* UNLOCK_SECTOR goes on with a valid key only.
LEMMA UnlockIoctlData ==
    ASSUME IndInv, DataInv, NEW p \in Proc, NEW f \in Sectors, NEW key \in KeyBytes,
           UnlockIoctl(p, f, key)
    PROVE  DataInv'
<1>1. CASE Reject(p, EINVAL) \/ Reject(p, EPERM)
  BY <1>1, RejectData, ReturnValues
<1>2. CASE ~(Reject(p, EINVAL) \/ Reject(p, EPERM))
  <2> DEFINE c == [NoCall EXCEPT !.op = "unlock", !.key = key,
                                 !.sector = FieldValue(f)]
  <2>1. FieldValue(f) \in Sectors /\ key \in Keys /\ Enter(p, c, "lock")
    BY <1>2 DEF UnlockIoctl
  <2>2. /\ c \in Call /\ c.key = key /\ c.good = 0 /\ c.len = 0
        /\ c.sector = FieldValue(f)
    BY <2>1, NoCallType DEF Call, AllOps, NoCall
  <2>3. FieldValue(f) < HalfField
    BY <2>1, SizeAssumption DEF FieldValue, Sectors, STORAGE_NUM_SECTORS
  <2> HIDE DEF c
  <2> QED
    BY <2>1, <2>2, <2>3, EnterData
<1> QED
  BY <1>1, <1>2

\* GET_LOCK_INFO and BACKUP_TO_FILE begin with empty locals.
LEMMA PlainIoctlData ==
    ASSUME IndInv, DataInv, NEW p \in Proc, InfoIoctl(p) \/ BackupIoctl(p)
    PROVE  DataInv'
<1> DEFINE c(op) == [NoCall EXCEPT !.op = op]
<1>1. ASSUME NEW op \in {"info", "backup"}
      PROVE  c(op) \in Call /\ c(op).op = op /\ c(op).good = 0 /\ c(op).len = 0
  BY NoCallType DEF Call, AllOps, NoCall
<1>2. Enter(p, c("info"), "lock") \/ Enter(p, c("backup"), "backup")
  BY DEF InfoIoctl, BackupIoctl
<1> HIDE DEF c
<1> QED
  BY <1>1, <1>2, EnterData

\* Whatever a client asks for, entering the driver keeps every copy in order.
LEMMA ClientCallData ==
    ASSUME IndInv, DataInv, NEW p \in Proc, ClientCall(p)
    PROVE  DataInv'
<1>1. ASSUME NEW off \in Offsets, NEW len \in Lengths, ReadCall(p, off, len)
      PROVE  DataInv'
  BY <1>1, ClientAssumption, ReadCallData
<1>2. ASSUME NEW off \in Offsets, NEW len \in Lengths, NEW v \in Payload,
             WriteCall(p, off, len, v)
      PROVE  DataInv'
  BY <1>2, ClientAssumption, WriteCallData
<1> QED
  BY <1>1, <1>2, IoctlRejectData, SectorIoctlData, UnlockIoctlData,
     PlainIoctlData DEF ClientCall

----------------------------------------------------------------------------
(* The steps of a call                                                     *)

\* A thread that gets the mutex has copied nothing yet.
LEMMA AcquireData ==
    ASSUME IndInv, DataInv, NEW p \in Proc, Acquire(p)
    PROVE  DataInv'
<1> USE DEF IndInv, DataInv, Acquire, Goto
<1>1. done[p] = 0 /\ out[p] = <<>> /\ lock_info[p] = <<>>
  BY DEF TypeOK, StoreProgress, CopyProgress
<1>2. AfterLock(call[p].op) = "unlock" => call[p].op \notin {"write", "erase"}
  BY DEF AfterLock
<1>3. StoreProgress'
  BY <1>1, <1>2 DEF TypeOK, StoreProgress
<1>4. StoredPrefix'
  BY DEF StoredPrefix
<1>5. CopyProgress' /\ KeyGiven'
  BY <1>1 DEF TypeOK, CopyProgress, KeyGiven
<1>6. ReadIsSnapshot' /\ LockInfoIsSnapshot'
  BY <1>1 DEF TypeOK, ReadIsSnapshot, LockInfoIsSnapshot
<1> QED
  BY <1>3, <1>4, <1>5, <1>6

\* A wait that a signal ends has copied nothing.
LEMMA InterruptedData ==
    ASSUME IndInv, DataInv, NEW p \in Proc, Interrupted(p)
    PROVE  DataInv'
BY ReturnData, ReturnValues DEF Interrupted

\* The release of the mutex keeps the flags GET_LOCK_INFO has copied.
LEMMA ReleaseData ==
    ASSUME IndInv, DataInv, NEW p \in Proc, Release(p)
    PROVE  DataInv'
<1>1. CASE call[p].op # "info"
  BY <1>1, ReturnData DEF Release
<1>2. CASE call[p].op = "info"
  <2> USE DEF IndInv, DataInv, Goto
  <2>0. /\ pc[p] = "unlock"
        /\ pc' = [pc EXCEPT ![p] = "give"]
        /\ UNCHANGED <<call, done, out, lock_info, storage_buffer,
                       sector_lock_state, result>>
    BY <1>2 DEF Release
  <2>1. StoreProgress'
    BY <1>2, <2>0 DEF TypeOK, StoreProgress
  <2>2. StoredPrefix'
    BY <2>0 DEF StoredPrefix
  <2>3. CopyProgress' /\ KeyGiven'
    BY <1>2, <2>0 DEF TypeOK, CopyProgress, KeyGiven
  <2>4. ReadIsSnapshot' /\ LockInfoIsSnapshot'
    BY <2>0 DEF TypeOK, ReadIsSnapshot, LockInfoIsSnapshot, Critical
  <2> QED
    BY <2>1, <2>2, <2>3, <2>4
<1> QED
  BY <1>1, <1>2

\* A byte inside a range that lies in the device has an address.
LEMMA Within ==
    ASSUME NEW off \in Nat, NEW n \in Nat, NEW i \in Nat,
           i < n, off + n <= STORAGE_TOTAL_SIZE
    PROVE  off + i \in Address
BY SizesAreNat DEF Address

\* One more byte of the device in the reader's buffer.
LEMMA ReadByteData ==
    ASSUME IndInv, DataInv, NEW p \in Proc, ReadByte(p)
    PROVE  DataInv'
<1> USE DEF IndInv, DataInv, ReadByte
<1>1. StoreProgress' /\ StoredPrefix'
  BY DEF StoreProgress, StoredPrefix
<1>2. CopyProgress' /\ KeyGiven'
  BY DEF TypeOK, CopyProgress, KeyGiven
<1>3. LockInfoIsSnapshot'
  BY DEF LockInfoIsSnapshot
<1>4. ReadIsSnapshot'
  <2> SUFFICES ASSUME NEW q \in Proc, pc[q] \in Critical, call[q].op = "read",
                      NEW i \in 1 .. Len(out'[q])
               PROVE  out'[q][i] = storage_buffer[call[q].off + i - 1]
    BY DEF ReadIsSnapshot
  <2>1. CASE q # p
    BY <2>1 DEF TypeOK, ReadIsSnapshot
  <2>2. CASE q = p
    <3> DEFINE b == storage_buffer[call[p].off + Len(out[p])]
    <3>0. /\ call[p].off \in Nat /\ call[p].len \in Nat /\ Len(out[p]) \in Nat
          /\ call[p].off + call[p].len <= STORAGE_TOTAL_SIZE
          /\ Len(out[p]) < call[p].len
      BY DEF TypeOK, Call, CallInRange
    <3>1. call[p].off + Len(out[p]) \in Address
      BY <3>0, Within
    <3>2. b \in Byte /\ out[p] \in Seq(Byte)
      BY <3>1 DEF TypeOK
    <3>3. out'[p] = Append(out[p], b)
      BY DEF TypeOK
    <3>4. \A j \in 1 .. Len(out[p]) :
             out[p][j] = storage_buffer[call[p].off + j - 1]
      BY DEF ReadIsSnapshot, Critical
    <3>5. call[p].off \in Nat
      BY DEF TypeOK, Call
    <3>6. b = storage_buffer[call[p].off + (Len(out[p]) + 1) - 1]
      BY <3>2, <3>5
    <3> HIDE DEF b
    <3> QED
      BY <2>2, <3>2, <3>3, <3>4, <3>6
  <2> QED
    BY <2>1, <2>2
<1> QED
  BY <1>1, <1>2, <1>3, <1>4

\* The end of copy_to_user in storage_read, with and without a fault.
LEMMA ReadEndData ==
    ASSUME IndInv, DataInv, NEW p \in Proc, ReadDone(p) \/ ReadFault(p)
    PROVE  DataInv'
<1> USE DEF IndInv, DataInv, ReadDone, ReadFault, Goto
<1>1. StoreProgress'
  BY DEF TypeOK, StoreProgress
<1>2. StoredPrefix'
  BY DEF StoredPrefix
<1>3. CopyProgress' /\ KeyGiven'
  BY DEF TypeOK, CopyProgress, KeyGiven
<1>4. ReadIsSnapshot' /\ LockInfoIsSnapshot'
  <2>1. /\ \A q \in Proc : pc'[q] \in Critical => pc[q] \in Critical
        /\ UNCHANGED <<storage_buffer, sector_lock_state, call, out, lock_info>>
    BY DEF TypeOK, Critical
  <2> QED
    BY <2>1 DEF ReadIsSnapshot, LockInfoIsSnapshot
<1> QED
  BY <1>1, <1>2, <1>3, <1>4

\* A request that is refused with EPERM has stored nothing.
LEMMA CheckLocksData ==
    ASSUME IndInv, DataInv, NEW p \in Proc, CheckLocks(p)
    PROVE  DataInv'
<1> USE DEF IndInv, DataInv, CheckLocks, Goto
<1>1. StoreProgress'
  BY ReturnValues DEF TypeOK, StoreProgress
<1>2. StoredPrefix'
  BY DEF StoredPrefix
<1>3. CopyProgress' /\ KeyGiven'
  BY DEF TypeOK, CopyProgress, KeyGiven
<1>4. ReadIsSnapshot' /\ LockInfoIsSnapshot'
  BY DEF TypeOK, ReadIsSnapshot, LockInfoIsSnapshot, Critical
<1> QED
  BY <1>1, <1>2, <1>3, <1>4

\* One more byte in the device.  Nobody else is inside a critical section, so
\* no other thread's stores or copies are touched.
LEMMA StoreByteData ==
    ASSUME IndInv, DataInv, NEW p \in Proc, StoreByte(p)
    PROVE  DataInv'
<1> DEFINE a == call[p].off + done[p]
<1>0. /\ pc[p] = "store" /\ done[p] < call[p].len
      /\ storage_buffer' = [storage_buffer EXCEPT ![a] = Wanted(call[p], done[p])]
      /\ done' = [done EXCEPT ![p] = done[p] + 1]
      /\ UNCHANGED <<sector_lock_state, storage_mutex, pc, call, out, lock_info,
                     result>>
  BY DEF StoreByte, Wanted
<1>1. /\ done[p] \in Nat /\ call[p].off \in Nat /\ call[p].len \in Nat
      /\ a \in Address /\ storage_buffer \in [Address -> Byte]
      /\ done \in [Proc -> Nat]
  BY <1>0, SizesAreNat DEF IndInv, TypeOK, Call, CallInRange, Address
<1>2. \A q \in Proc : q # p => pc[q] \notin Critical
  BY <1>0, ProcAssumption DEF IndInv, MutexHeldInside, Critical
<1>3. StoreProgress'
  BY <1>0, <1>1 DEF DataInv, IndInv, StepFitsOp, StoreProgress
<1>4. StoredPrefix'
  <2> SUFFICES ASSUME NEW q \in Proc
               PROVE  /\ \A i \in 0 .. done'[q] - 1 :
                            storage_buffer'[call[q].off + i] = Wanted(call[q], i)
                      /\ done'[q] # 0 =>
                           \A s \in CheckedSectors(call[q]) : ~sector_lock_state[s]
    BY <1>0 DEF StoredPrefix, Wanted, CheckedSectors, SectorRange
  <2>1. CASE q # p
    <3>1. done'[q] = 0
      BY <2>1, <1>0, <1>1, <1>2 DEF DataInv, StoreProgress, Critical
    <3> QED
      BY <3>1
  <2>2. CASE q = p
    <3>1. ASSUME NEW i \in 0 .. done[p] - 1
          PROVE  storage_buffer'[call[p].off + i] = Wanted(call[p], i)
      <4>1. storage_buffer[call[p].off + i] = Wanted(call[p], i)
        BY <3>1 DEF DataInv, StoredPrefix
      <4>2. call[p].off + i # a
        BY <1>1, <3>1
      <4> QED
        BY <4>1, <4>2, <1>0, <1>1
    <3>2. storage_buffer'[call[p].off + done[p]] = Wanted(call[p], done[p])
      BY <1>0, <1>1
    <3>3. \A s \in CheckedSectors(call[p]) : ~sector_lock_state[s]
      BY <1>0 DEF IndInv, StoreTargetsOpen
    <3>4. \A i \in 0 .. (done[p] + 1) - 1 : i \in 0 .. done[p] - 1 \/ i = done[p]
      BY <1>1
    <3>5. done'[p] = done[p] + 1
      BY <1>0, <1>1
    <3> QED
      BY <2>2, <3>1, <3>2, <3>3, <3>4, <3>5
  <2> QED
    BY <2>1, <2>2
<1>5. CopyProgress' /\ KeyGiven'
  BY <1>0 DEF DataInv, CopyProgress, KeyGiven
<1>6. ReadIsSnapshot' /\ LockInfoIsSnapshot'
  <2>1. call[p].op \notin {"read", "info"}
    BY <1>0 DEF IndInv, StepFitsOp
  <2> QED
    BY <2>1, <1>0, <1>2 DEF ReadIsSnapshot, LockInfoIsSnapshot
<1> QED
  BY <1>3, <1>4, <1>5, <1>6 DEF DataInv

\* What was stored before the fault is payload, and stays so.
LEMMA WriteFaultData ==
    ASSUME IndInv, DataInv, NEW p \in Proc, WriteFault(p)
    PROVE  DataInv'
<1>0. /\ pc[p] = "store" /\ call[p].op = "write"
      /\ done[p] < call[p].len /\ call[p].good = call[p].len
      /\ call' = [call EXCEPT ![p] = [call[p] EXCEPT !.good = done[p]]]
      /\ UNCHANGED <<storage_buffer, sector_lock_state, storage_mutex, pc, done,
                     out, lock_info, result>>
  BY DEF WriteFault
<1>1. /\ call \in [Proc -> Call] /\ done[p] \in Nat
      /\ call[p].len \in Nat
  BY DEF IndInv, TypeOK, Call
<1>2. /\ \A q \in Proc : q # p => call'[q] = call[q]
      /\ call'[p].good = done[p]
      /\ call'[p].op = call[p].op /\ call'[p].off = call[p].off
      /\ call'[p].len = call[p].len /\ call'[p].val = call[p].val
      /\ call'[p].sector = call[p].sector /\ call'[p].key = call[p].key
  BY <1>0, <1>1 DEF Call
<1>3. StoreProgress'
  BY <1>0, <1>1, <1>2 DEF DataInv, StoreProgress
<1>4. StoredPrefix'
  <2> SUFFICES ASSUME NEW q \in Proc
               PROVE  /\ \A i \in 0 .. done[q] - 1 :
                            storage_buffer[call'[q].off + i] = Wanted(call'[q], i)
                      /\ done[q] # 0 =>
                           \A s \in CheckedSectors(call'[q]) : ~sector_lock_state[s]
    BY <1>0 DEF StoredPrefix, Wanted, CheckedSectors, SectorRange
  <2>1. CASE q # p
    BY <2>1, <1>2 DEF DataInv, StoredPrefix
  <2>2. CASE q = p
    <3>1. CheckedSectors(call'[p]) = CheckedSectors(call[p])
      BY <1>2 DEF CheckedSectors
    <3>2. ASSUME NEW i \in 0 .. done[p] - 1
          PROVE  Wanted(call'[p], i) = Wanted(call[p], i)
      BY <1>0, <1>1, <1>2 DEF Wanted
    <3> QED
      BY <2>2, <1>2, <3>1, <3>2 DEF DataInv, StoredPrefix
  <2> QED
    BY <2>1, <2>2
<1>5. CopyProgress' /\ KeyGiven'
  BY <1>0, <1>2 DEF DataInv, CopyProgress, KeyGiven
<1>6. ReadIsSnapshot' /\ LockInfoIsSnapshot'
  BY <1>0, <1>2 DEF DataInv, ReadIsSnapshot, LockInfoIsSnapshot
<1> QED
  BY <1>3, <1>4, <1>5, <1>6 DEF DataInv

\* The copy or the memset is over when all bytes are stored.
LEMMA StoreDoneData ==
    ASSUME IndInv, DataInv, NEW p \in Proc, StoreDone(p)
    PROVE  DataInv'
<1>0. /\ pc[p] = "store" /\ done[p] = call[p].len
      /\ pc' = [pc EXCEPT ![p] = "unlock"]
      /\ UNCHANGED <<storage_buffer, sector_lock_state, storage_mutex, call, done,
                     out, lock_info>>
      /\ \A q \in Proc : q # p => result'[q] = result[q]
  BY DEF StoreDone, Goto, IndInv, TypeOK
<1>1. StoreProgress'
  BY <1>0 DEF DataInv, IndInv, TypeOK, StoreProgress
<1>2. StoredPrefix'
  BY <1>0 DEF DataInv, StoredPrefix
<1>3. CopyProgress' /\ KeyGiven'
  BY <1>0 DEF DataInv, IndInv, TypeOK, CopyProgress, KeyGiven
<1>4. ReadIsSnapshot' /\ LockInfoIsSnapshot'
  BY <1>0 DEF DataInv, IndInv, TypeOK, ReadIsSnapshot, LockInfoIsSnapshot, Critical
<1> QED
  BY <1>1, <1>2, <1>3, <1>4 DEF DataInv

\* Nobody stores or copies flags while a lock is set.
LEMMA SetLockData ==
    ASSUME IndInv, DataInv, NEW p \in Proc, SetLock(p)
    PROVE  DataInv'
<1>0. /\ pc[p] = "set" /\ pc' = [pc EXCEPT ![p] = "unlock"]
      /\ UNCHANGED <<storage_buffer, storage_mutex, call, done, out, lock_info,
                     result>>
      /\ pc \in [Proc -> Critical \cup {"idle", "lock", "give", "mirror", "backup"}]
      /\ done \in [Proc -> Nat]
  BY DEF SetLock, Goto, IndInv, TypeOK
<1>1. \A q \in Proc : q # p => pc[q] \notin Critical
  BY <1>0, ProcAssumption DEF IndInv, MutexHeldInside, Critical
<1>2. call[p].op \in {"lock", "unlock"}
  BY <1>0 DEF IndInv, StepFitsOp
<1>3. StoreProgress'
  BY <1>0, <1>2 DEF DataInv, StoreProgress
<1>4. StoredPrefix'
  <2>1. \A q \in Proc : done[q] = 0
    BY <1>0, <1>1 DEF DataInv, StoreProgress, Critical
  <2> QED
    BY <2>1, <1>0 DEF StoredPrefix
<1>5. CopyProgress' /\ KeyGiven'
  BY <1>0, <1>2 DEF DataInv, CopyProgress, KeyGiven
<1>6. ReadIsSnapshot' /\ LockInfoIsSnapshot'
  BY <1>0, <1>1, <1>2 DEF DataInv, ReadIsSnapshot, LockInfoIsSnapshot, Critical
<1> QED
  BY <1>3, <1>4, <1>5, <1>6 DEF DataInv

\* One more flag in the local array of GET_LOCK_INFO.
LEMMA InfoCopyData ==
    ASSUME IndInv, DataInv, NEW p \in Proc, InfoCopy(p)
    PROVE  DataInv'
<1> USE DEF IndInv, DataInv
<1>0. /\ pc[p] = "load" /\ call[p].op = "info"
      /\ UNCHANGED <<storage_buffer, sector_lock_state, storage_mutex, call, done,
                     out, result>>
      /\ pc' = pc \/ pc' = [pc EXCEPT ![p] = "unlock"]
  BY DEF InfoCopy, Goto
<1>1. StoreProgress'
  BY <1>0 DEF TypeOK, StoreProgress
<1>2. StoredPrefix'
  BY <1>0 DEF StoredPrefix
<1>3. CopyProgress' /\ KeyGiven'
  BY <1>0 DEF InfoCopy, TypeOK, CopyProgress, KeyGiven
<1>4. ReadIsSnapshot'
  BY <1>0 DEF TypeOK, ReadIsSnapshot, Critical
<1>5. LockInfoIsSnapshot'
  <2>1. CASE UNCHANGED lock_info
    BY <1>0, <2>1 DEF TypeOK, LockInfoIsSnapshot, Critical
  <2>2. CASE /\ Len(lock_info[p]) < STORAGE_NUM_SECTORS
             /\ pc' = pc
             /\ lock_info' = [lock_info EXCEPT ![p] =
                   Append(lock_info[p], sector_lock_state[Len(lock_info[p])])]
    <3> SUFFICES ASSUME NEW q \in Proc, pc[q] \in Critical, call[q].op = "info",
                        NEW i \in 1 .. Len(lock_info'[q])
                 PROVE  lock_info'[q][i] = sector_lock_state[i - 1]
      BY <1>0, <2>2 DEF LockInfoIsSnapshot
    <3>1. CASE q # p
      BY <2>2, <3>1 DEF TypeOK, LockInfoIsSnapshot
    <3>2. CASE q = p
      <4>1. lock_info'[p] =
              Append(lock_info[p], sector_lock_state[Len(lock_info[p])])
        BY <2>2 DEF TypeOK
      <4>2. lock_info[p] \in Seq(BOOLEAN)
        BY DEF TypeOK
      <4>3. \A j \in 1 .. Len(lock_info[p]) :
               lock_info[p][j] = sector_lock_state[j - 1]
        BY <1>0 DEF LockInfoIsSnapshot, Critical
      <4> QED
        BY <3>2, <4>1, <4>2, <4>3
    <3> QED
      BY <3>1, <3>2
  <2> QED
    BY <2>1, <2>2 DEF InfoCopy
<1> QED
  BY <1>1, <1>2, <1>3, <1>4, <1>5

\* The returns that hold no mutex.
LEMMA LeaveData ==
    ASSUME IndInv, DataInv, NEW p \in Proc, InfoGive(p) \/ MirrorSide(p)
    PROVE  DataInv'
BY ReturnData, ReturnValues DEF InfoGive, MirrorSide, MirrorReturn, BackupReturn

\* Every step keeps the copies in order.
LEMMA NextDataInv == IndInv /\ DataInv /\ [Next]_vars => DataInv'
<1> SUFFICES ASSUME IndInv, DataInv, [Next]_vars PROVE DataInv'
  OBVIOUS
<1>1. CASE UNCHANGED vars
  BY <1>1 DEF vars, DataInv, StoreProgress, StoredPrefix, CopyProgress,
              ReadIsSnapshot, LockInfoIsSnapshot, KeyGiven
<1>2. ASSUME NEW p \in Proc, ClientCall(p) PROVE DataInv'
  BY <1>2, ClientCallData
<1>3. ASSUME NEW p \in Proc, Disturb(p) PROVE DataInv'
  BY <1>3, ReadEndData, WriteFaultData, InterruptedData DEF Disturb
<1>4. ASSUME NEW p \in Proc, LocalStep(p) PROVE DataInv'
  BY <1>4, ReadByteData, ReadEndData, CheckLocksData, StoreByteData,
     StoreDoneData, SetLockData, InfoCopyData, LeaveData, ReleaseData
     DEF LocalStep
<1>5. ASSUME NEW p \in Proc, Acquire(p) \/ MirrorSide(p) PROVE DataInv'
  BY <1>5, AcquireData, LeaveData
<1> QED
  BY <1>1, <1>2, <1>3, <1>4, <1>5 DEF Next

----------------------------------------------------------------------------
(* What the driver stores and hands out                                    *)

\* Both invariants hold in every reachable state.
THEOREM DataInvariance == Spec => [](IndInv /\ DataInv)
BY Invariance, InitDataInv, NextDataInv, PTL DEF Spec

\* A read returns bytes that were all in the device at one moment.
THEOREM ReadsAreSnapshots == Spec => []ReadIsSnapshot
<1>1. DataInv => ReadIsSnapshot
  BY DEF DataInv
<1> QED
  BY <1>1, DataInvariance, PTL

\* GET_LOCK_INFO returns flags that all held at one moment.
THEOREM LockInfosAreSnapshots == Spec => []LockInfoIsSnapshot
<1>1. DataInv => LockInfoIsSnapshot
  BY DEF DataInv
<1> QED
  BY <1>1, DataInvariance, PTL

\* A write or an erase that is about to return without EPERM has filled its
\* whole range, zeroes from the faulting byte on included.
THEOREM StoresLand == Spec => []StoreLanded
<1>1. ASSUME IndInv, DataInv PROVE StoreLanded
  <2> SUFFICES ASSUME NEW p \in Proc, pc[p] = "unlock",
                      call[p].op \in {"write", "erase"}, result[p] # EPERM,
                      NEW i \in 0 .. call[p].len - 1
               PROVE  storage_buffer[call[p].off + i] = Wanted(call[p], i)
    BY DEF StoreLanded, Wanted
  <2>1. done[p] = call[p].len
    BY <1>1 DEF DataInv, StoreProgress
  <2> QED
    BY <1>1, <2>1 DEF DataInv, StoredPrefix
<1> QED
  BY <1>1, DataInvariance, PTL

----------------------------------------------------------------------------
(* The steps that change the shared state                                  *)

\* The step leaves the shared state and every owner's progress alone.
Quiet == /\ UNCHANGED <<storage_buffer, sector_lock_state, storage_mutex>>
         /\ \A p \in Proc : pc[p] \in Critical => /\ done'[p] = done[p]
                                                  /\ call'[p].off = call[p].off

\* Four kinds of step touch the bytes, the locks or the mutex; all others are
\* quiet.
LEMMA StepFrame ==
    ASSUME IndInv, [Next]_vars
    PROVE  \/ Quiet
           \/ \E p \in Proc : Acquire(p) \/ Release(p) \/ StoreByte(p) \/ SetLock(p)
<1> USE DEF IndInv
<1>1. CASE UNCHANGED vars
  BY <1>1 DEF vars, Quiet
<1>2. ASSUME NEW p \in Proc, ClientCall(p) PROVE Quiet
  <2>1. /\ pc[p] = "idle"
        /\ UNCHANGED <<storage_buffer, sector_lock_state, storage_mutex, done>>
        /\ call' = call \/ \E c : call' = [call EXCEPT ![p] = c]
    BY <1>2 DEF ClientCall, ReadCall, WriteCall, IoctlReject, SectorIoctl,
                UnlockIoctl, InfoIoctl, BackupIoctl, Reject, Enter
  <2> QED
    BY <2>1 DEF Quiet, Critical, TypeOK
<1>3. ASSUME NEW p \in Proc, pc[p] \notin Critical, Return(p),
             UNCHANGED <<storage_buffer, sector_lock_state, storage_mutex>>
      PROVE  Quiet
  BY <1>3 DEF Quiet, Return, TypeOK
<1>4. ASSUME NEW p \in Proc, Disturb(p) PROVE Quiet
  <2>1. CASE ReadFault(p)
    BY <2>1 DEF ReadFault, Quiet
  <2>2. CASE WriteFault(p)
    BY <2>2 DEF WriteFault, Quiet, TypeOK, Call
  <2>3. CASE Interrupted(p)
    BY <2>3, <1>3 DEF Interrupted, Critical
  <2> QED
    BY <1>4, <2>1, <2>2, <2>3 DEF Disturb
<1>5. ASSUME NEW p \in Proc, LocalStep(p),
             ~Release(p), ~StoreByte(p), ~SetLock(p)
      PROVE  Quiet
  <2>1. CASE InfoGive(p)
    BY <2>1, <1>3 DEF InfoGive, Critical
  <2>2. CASE ReadByte(p) \/ ReadDone(p) \/ CheckLocks(p) \/ StoreDone(p)
             \/ InfoCopy(p)
    BY <2>2 DEF ReadByte, ReadDone, CheckLocks, StoreDone, InfoCopy, Quiet
  <2> QED
    BY <1>5, <2>1, <2>2 DEF LocalStep
<1>6. ASSUME NEW p \in Proc, MirrorSide(p) PROVE Quiet
  BY <1>6, <1>3 DEF MirrorSide, MirrorReturn, BackupReturn, Critical
<1> QED
  BY <1>1, <1>2, <1>4, <1>5, <1>6 DEF Next

\* A sector is opened only by the owner of the mutex, in an UNLOCK_SECTOR for
\* that sector whose key has been found valid.
THEOREM SectorsOpenedByKey == Spec => OpenedByKeyOnly
<1> DEFINE Opened == \A s \in Sectors :
                sector_lock_state[s] /\ ~sector_lock_state'[s] =>
                  \E p \in Proc : /\ storage_mutex = p
                                  /\ call[p].op = "unlock"
                                  /\ call[p].sector = s
                                  /\ call[p].key \in Keys
<1>1. ASSUME IndInv, DataInv, [Next]_vars PROVE Opened
  <2>1. CASE UNCHANGED sector_lock_state
    BY <2>1
  <2>2. ASSUME NEW p \in Proc, SetLock(p), NEW s \in Sectors,
               sector_lock_state[s], ~sector_lock_state'[s]
        PROVE  /\ storage_mutex = p /\ call[p].op = "unlock"
               /\ call[p].sector = s /\ call[p].key \in Keys
    <3>1. call[p].op \in {"lock", "unlock"} /\ storage_mutex = p
      BY <1>1, <2>2 DEF SetLock, IndInv, StepFitsOp, MutexHeldInside, Critical
    <3>2. call[p].sector = s /\ call[p].op # "lock"
      BY <1>1, <2>2 DEF SetLock, IndInv, TypeOK
    <3> QED
      BY <1>1, <3>1, <3>2 DEF DataInv, KeyGiven
  <2>3. UNCHANGED sector_lock_state \/ \E p \in Proc : SetLock(p)
    BY <1>1, StepFrame DEF Quiet, Acquire, Release, StoreByte
  <2> QED
    BY <2>1, <2>2, <2>3
<1>2. IndInv /\ DataInv /\ [Next]_vars => [Opened]_vars
  BY <1>1
<1> QED
  BY <1>2, DataInvariance, PTL DEF Spec, OpenedByKeyOnly

\* storage_kernel.c reads the sector of an unlock request through "int sector : 3":
\* no request names a sector of the upper half, so once locked it stays locked.
THEOREM UpperSectorsStayLocked ==
    Spec => [][\A s \in Sectors : s >= HalfField /\ sector_lock_state[s] =>
                                       sector_lock_state'[s]]_vars
<1> DEFINE Stays == \A s \in Sectors : s >= HalfField /\ sector_lock_state[s] =>
                                           sector_lock_state'[s]
<1>1. ASSUME IndInv, DataInv, [Next]_vars PROVE Stays
  <2>1. CASE UNCHANGED sector_lock_state
    BY <2>1
  <2>2. ASSUME NEW p \in Proc, SetLock(p), NEW s \in Sectors, s >= HalfField,
               sector_lock_state[s]
        PROVE  sector_lock_state'[s]
    <3>1. call[p].op \in {"lock", "unlock"}
      BY <1>1, <2>2 DEF SetLock, IndInv, StepFitsOp
    <3>2. call[p].op = "unlock" => call[p].sector # s
      BY <1>1, <2>2, SizeAssumption DEF DataInv, KeyGiven, Sectors, STORAGE_NUM_SECTORS
    <3> QED
      BY <1>1, <2>2, <3>1, <3>2 DEF SetLock, IndInv, TypeOK
  <2>3. UNCHANGED sector_lock_state \/ \E p \in Proc : SetLock(p)
    BY <1>1, StepFrame DEF Quiet, Acquire, Release, StoreByte
  <2> QED
    BY <2>1, <2>2, <2>3
<1>2. IndInv /\ DataInv /\ [Next]_vars => [Stays]_vars
  BY <1>1
<1> QED
  BY <1>2, DataInvariance, PTL DEF Spec

----------------------------------------------------------------------------
(* The device implements AtomicStorage                                     *)

\* The bytes of the device differ from those at the last release of the mutex
\* only where its owner has stored since.
BeforeInv ==
    /\ before \in [Address -> Byte]
    /\ storage_mutex = NoProc => before = storage_buffer
    /\ \A p \in Proc : storage_mutex = p =>
          \A a \in Address :
             storage_buffer[a] # before[a] =>
                call[p].off <= a /\ a < call[p].off + done[p]

HInv == IndInv /\ DataInv /\ BeforeInv

\* The steps of the history specification are steps of the device.
LEMMA HStep == [HNext]_hvars => [Next]_vars
BY DEF HNext, hvars

\* When the module is loaded nobody has stored anything.
LEMMA InitHInv == HInit => HInv
<1> SUFFICES ASSUME HInit PROVE HInv
  OBVIOUS
<1>1. IndInv /\ DataInv
  BY InitIndInv, InitDataInv DEF HInit
<1>2. BeforeInv
  BY <1>1, ProcAssumption DEF HInit, Init, BeforeInv, IndInv, TypeOK
<1> QED
  BY <1>1, <1>2 DEF HInv

\* The history variable follows the stores of the mutex's owner.
LEMMA NextBeforeInv ==
    ASSUME HInv, [HNext]_hvars
    PROVE  BeforeInv'
<1>0. IndInv /\ DataInv /\ [Next]_vars /\ IndInv' /\ BeforeInv
  BY HStep, NextIndInv DEF HInv
<1>1. CASE UNCHANGED hvars
  BY <1>0, <1>1 DEF hvars, vars, BeforeInv
<1>2. CASE storage_mutex' = NoProc /\ HNext
  <2>1. before' = storage_buffer'
    BY <1>2 DEF HNext
  <2> QED
    BY <1>0, <1>2, <2>1, ProcAssumption DEF BeforeInv, IndInv, TypeOK
<1>3. CASE storage_mutex' # NoProc /\ HNext
  <2>1. before' = before
    BY <1>3 DEF HNext
  <2> SUFFICES ASSUME NEW p \in Proc, storage_mutex' = p,
                      NEW a \in Address, storage_buffer'[a] # before[a]
               PROVE  call'[p].off <= a /\ a < call'[p].off + done'[p]
    BY <1>0, <1>3, <2>1 DEF BeforeInv
  <2>2. CASE Quiet
    <3>1. storage_mutex = p /\ storage_buffer' = storage_buffer
      BY <2>2 DEF Quiet
    <3>2. pc[p] \in Critical
      BY <1>0, <3>1 DEF IndInv, MutexHeldInside
    <3> QED
      BY <1>0, <2>2, <3>1, <3>2 DEF Quiet, BeforeInv
  <2>3. ASSUME NEW q \in Proc, Acquire(q) PROVE FALSE
    BY <1>0, <2>3 DEF Acquire, BeforeInv
  <2>4. ASSUME NEW q \in Proc, Release(q) PROVE FALSE
    BY <1>3, <2>4 DEF Release
  <2>5. ASSUME NEW q \in Proc, SetLock(q)
        PROVE  call'[p].off <= a /\ a < call'[p].off + done'[p]
    BY <1>0, <2>5 DEF SetLock, BeforeInv
  <2>6. ASSUME NEW q \in Proc, StoreByte(q)
        PROVE  call'[p].off <= a /\ a < call'[p].off + done'[p]
    <3>1. /\ storage_mutex = p /\ call' = call
          /\ \A b \in Address : b # call[q].off + done[q]
                                   => storage_buffer'[b] = storage_buffer[b]
      BY <1>0, <2>6 DEF StoreByte, IndInv, TypeOK
    <3>2. q = p
      BY <1>0, <2>6, <3>1 DEF StoreByte, IndInv, MutexHeldInside, Critical
    <3>3. done'[p] = done[p] + 1 /\ done[p] \in Nat /\ call[p].off \in Nat
      BY <1>0, <2>6, <3>2 DEF StoreByte, IndInv, TypeOK, Call
    <3>4. a \in Nat
      BY SizesAreNat DEF Address
    <3>5. \/ a = call[p].off + done[p]
          \/ call[p].off <= a /\ a < call[p].off + done[p]
      BY <1>0, <3>1, <3>2 DEF BeforeInv
    <3> QED
      BY <3>1, <3>3, <3>4, <3>5
  <2> QED
    BY <1>0, <2>2, <2>3, <2>4, <2>5, <2>6, StepFrame
<1> QED
  BY <1>1, <1>2, <1>3

\* The names of AtomicStorage are those of the device.
LEMMA SameAddresses ==
    /\ Atomic!Address = Address
    /\ Atomic!NumSectors = STORAGE_NUM_SECTORS
    /\ Atomic!Total = STORAGE_TOTAL_SIZE
BY DEF Atomic!Address, Atomic!Total, Atomic!NumSectors, Address,
       STORAGE_NUM_SECTORS, STORAGE_TOTAL_SIZE

\* A step of p: the other threads stay where they are.
OthersStay(p) ==
    \A q \in Proc \ {p} : /\ pc'[q] = pc[q] /\ call'[q] = call[q]
                          /\ out'[q] = out[q] /\ lock_info'[q] = lock_info[q]

\* What the calls hand out is the same function if each thread's part is.
LEMMA OutcomeByThread ==
    /\ (\A q \in Proc : Got'[q] = Got[q]) => Got' = Got
    /\ (\A q \in Proc : Told'[q] = Told[q]) => Told' = Told
BY DEF Got, Told

\* The other threads hand out what they did.
LEMMA OthersOutcome ==
    ASSUME NEW p \in Proc, OthersStay(p), NEW q \in Proc, q # p
    PROVE  Got'[q] = Got[q] /\ Told'[q] = Told[q]
BY DEF OthersStay, Got, Told

\* A step of p hands out nothing unless p reads or reports and is past its loop.
LEMMA SilentOutcome ==
    ASSUME NEW p \in Proc, OthersStay(p),
           \/ pc[p] \notin {"unlock", "give"}
           \/ call[p].op \notin {"read", "info"},
           \/ pc'[p] \notin {"unlock", "give"}
           \/ call'[p].op \notin {"read", "info"}
    PROVE  UNCHANGED <<Got, Told>>
<1>1. Got'[p] = Got[p] /\ Told'[p] = Told[p]
  BY DEF Got, Told
<1> QED
  BY <1>1, OthersOutcome, OutcomeByThread

\* At the end of copy_to_user the reader receives a stretch of the memory.
LEMMA ReadIsAtomic ==
    ASSUME HInv, HNext, NEW p \in Proc, ReadDone(p) \/ ReadFault(p)
    PROVE  Atomic!ANext
<1>0. IndInv /\ DataInv /\ BeforeInv
  BY DEF HInv
<1> DEFINE c == call[p]  n == Len(out[p])
<1>1. /\ pc[p] = "load" /\ c.op = "read" /\ n <= c.len
      /\ pc' = [pc EXCEPT ![p] = "unlock"]
      /\ UNCHANGED <<storage_buffer, sector_lock_state, storage_mutex, call,
                     out, lock_info>>
  <2>1. n \in Nat /\ c.len \in Nat
    BY <1>0 DEF IndInv, TypeOK, Call
  <2> QED
    BY <2>1 DEF ReadDone, ReadFault, Goto
<1>2. /\ c.off \in Nat /\ c.len \in Nat /\ n \in Nat /\ out[p] \in Seq(Byte)
      /\ c.off + c.len <= STORAGE_TOTAL_SIZE
  BY <1>0 DEF IndInv, TypeOK, Call, CallInRange
<1>3. storage_mutex = p
  BY <1>0, <1>1 DEF IndInv, MutexHeldInside, Critical
<1>4. before' = before
  BY <1>1, <1>3, ProcAssumption DEF HNext
<1>5. \A a \in Address : storage_buffer[a] = before[a]
  <2>1. done[p] = 0
    BY <1>0, <1>1 DEF DataInv, StoreProgress
  <2>2. \A a \in Address : a \in Nat
    BY SizesAreNat DEF Address
  <2> QED
    BY <1>0, <1>2, <1>3, <2>1, <2>2 DEF BeforeInv
<1>6. out[p] = [i \in 1 .. n |-> before[c.off + i - 1]]
  <2>1. ASSUME NEW i \in 1 .. n PROVE out[p][i] = before[c.off + i - 1]
    <3>1. c.off + i - 1 \in Address
      <4> DEFINE off == c.off  len == c.len
      <4>a. off \in Nat /\ len \in Nat /\ n \in Nat /\ n <= len
        BY <1>1, <1>2
      <4>1. c.off + i - 1 \in Nat /\ c.off + i - 1 < c.off + c.len
        <5> HIDE DEF off, len, n
        <5>1. off + i - 1 \in Nat /\ off + i - 1 < off + len
          BY <4>a
        <5> QED
          BY <5>1 DEF off, len
      <4> QED
        BY <1>2, <4>1, SizesAreNat DEF Address
    <3>2. out[p][i] = storage_buffer[c.off + i - 1]
      BY <1>0, <1>1 DEF DataInv, ReadIsSnapshot, Critical
    <3> QED
      BY <1>5, <3>1, <3>2
  <2>2. out[p] = [i \in 1 .. n |-> out[p][i]]
    BY <1>2
  <2> HIDE DEF c, n
  <2> QED
    BY <2>1, <2>2
<1>7. Got'[p] = [from |-> c.off, data |-> out[p]] /\ Told'[p] = Told[p]
  BY <1>0, <1>1 DEF Got, Told, IndInv, TypeOK
<1>8. OthersStay(p)
  BY <1>0, <1>1 DEF OthersStay, IndInv, TypeOK
<1>9. /\ Got' = [Got EXCEPT ![p] = [from |-> c.off, data |-> out[p]]]
      /\ Told' = Told
  <2>1. \A q \in Proc : q # p => Got'[q] = Got[q] /\ Told'[q] = Told[q]
    BY <1>8, OthersOutcome
  <2>2. Told' = Told
    BY <1>7, <2>1, OutcomeByThread
  <2>3. Got = [q \in Proc |-> Got[q]] /\ Got' = [q \in Proc |-> Got'[q]]
    BY DEF Got
  <2> QED
    BY <1>7, <2>1, <2>2, <2>3
<1>10. c.off \in 0 .. STORAGE_TOTAL_SIZE /\ n \in 0 .. STORAGE_TOTAL_SIZE
       /\ c.off + n <= STORAGE_TOTAL_SIZE
  BY <1>1, <1>2, SizesAreNat
<1>11. Atomic!Read(p, c.off, n)
  BY <1>1, <1>4, <1>6, <1>9, <1>10, SameAddresses DEF Atomic!Read
<1> HIDE DEF c, n
<1> QED
  BY <1>10, <1>11, SameAddresses DEF Atomic!ANext

\* At the end of its loop GET_LOCK_INFO has the flags of all the sectors.
LEMMA InfoIsAtomic ==
    ASSUME HInv, HNext, NEW p \in Proc, InfoCopy(p)
    PROVE  [Atomic!ANext]_(Atomic!avars)
<1>0. IndInv /\ DataInv /\ BeforeInv
  BY DEF HInv
<1>1. /\ pc[p] = "load" /\ call[p].op = "info"
      /\ UNCHANGED <<storage_buffer, sector_lock_state, storage_mutex, call, out>>
  BY DEF InfoCopy
<1>2. before' = before
  <2>1. storage_mutex = p
    BY <1>0, <1>1 DEF IndInv, MutexHeldInside, Critical
  <2> QED
    BY <1>1, <2>1, ProcAssumption DEF HNext
<1>3. OthersStay(p)
  BY <1>0 DEF InfoCopy, Goto, OthersStay, IndInv, TypeOK
<1>4. CASE UNCHANGED pc
  <2>1. UNCHANGED <<Got, Told>>
    BY <1>1, <1>3, <1>4, SilentOutcome
  <2> QED
    BY <1>1, <1>2, <2>1 DEF Atomic!avars
<1>5. CASE Len(lock_info[p]) = STORAGE_NUM_SECTORS /\ Goto(p, "unlock")
           /\ UNCHANGED lock_info
  <2>1. lock_info[p] = [i \in 1 .. STORAGE_NUM_SECTORS |-> sector_lock_state[i - 1]]
    <3>1. lock_info[p] \in Seq(BOOLEAN)
      BY <1>0 DEF IndInv, TypeOK
    <3>2. \A i \in 1 .. STORAGE_NUM_SECTORS : lock_info[p][i] = sector_lock_state[i - 1]
      BY <1>0, <1>1, <1>5 DEF DataInv, LockInfoIsSnapshot, Critical
    <3> QED
      BY <1>5, <3>1, <3>2
  <2>2. Got'[p] = Got[p] /\ Told'[p] = lock_info[p]
    BY <1>0, <1>1, <1>5 DEF Got, Told, Goto, IndInv, TypeOK
  <2>3. Got' = Got /\ Told' = [Told EXCEPT ![p] = lock_info[p]]
    <3>1. \A q \in Proc : q # p => Got'[q] = Got[q] /\ Told'[q] = Told[q]
      BY <1>3, OthersOutcome
    <3>2. Got' = Got
      BY <2>2, <3>1, OutcomeByThread
    <3>3. Told = [q \in Proc |-> Told[q]] /\ Told' = [q \in Proc |-> Told'[q]]
      BY DEF Told
    <3> QED
      BY <2>2, <3>1, <3>2, <3>3
  <2>4. Atomic!Report(p)
    BY <1>1, <1>2, <2>1, <2>3, SameAddresses DEF Atomic!Report
  <2> QED
    BY <2>4 DEF Atomic!ANext
<1> QED
  BY <1>4, <1>5 DEF InfoCopy

\* The end of a call that handed something out.
LEMMA ForgetStep ==
    ASSUME HInv, NEW p \in Proc, OthersStay(p), pc'[p] = "idle",
           UNCHANGED <<before, sector_lock_state>>
    PROVE  [Atomic!ANext]_(Atomic!avars)
<1>1. Got'[p] = Atomic!NoRead /\ Told'[p] = <<>>
  BY DEF Got, Told, Atomic!NoRead
<1>2. \A q \in Proc : q # p => Got'[q] = Got[q] /\ Told'[q] = Told[q]
  BY OthersOutcome
<1>3. /\ Got = [q \in Proc |-> Got[q]] /\ Got' = [q \in Proc |-> Got'[q]]
      /\ Told = [q \in Proc |-> Told[q]] /\ Told' = [q \in Proc |-> Told'[q]]
  BY DEF Got, Told
<1>4. CASE Told'[p] = Told[p]
  <2>1. Told' = Told /\ Got' = [Got EXCEPT ![p] = Atomic!NoRead]
    BY <1>1, <1>2, <1>3, <1>4
  <2>2. Atomic!Forget(p)
    BY <2>1 DEF Atomic!Forget
  <2> QED
    BY <2>2 DEF Atomic!ANext
<1>5. CASE Told'[p] # Told[p]
  <2>1. Got[p] = Atomic!NoRead
    BY <1>1, <1>5 DEF Got, Told, Atomic!NoRead
  <2>2. Got' = Got /\ Told' = [Told EXCEPT ![p] = <<>>]
    BY <1>1, <1>2, <1>3, <2>1
  <2>3. Atomic!Forget(p)
    BY <2>2 DEF Atomic!Forget
  <2> QED
    BY <2>3 DEF Atomic!ANext
<1> QED
  BY <1>4, <1>5

\* The owner of the mutex that only read has stored nothing.
LEMMA ReleaseHandsOut ==
    ASSUME HInv, HNext, NEW p \in Proc, Release(p), call[p].op \in {"read", "info"}
    PROVE  [Atomic!ANext]_(Atomic!avars)
<1>0. IndInv /\ DataInv /\ BeforeInv
  BY DEF HInv
<1>1. before' = storage_buffer /\ UNCHANGED sector_lock_state /\ storage_mutex = p
  BY <1>0 DEF HNext, Release, IndInv, MutexHeldInside, Critical
<1>2. before' = before
  <2>1. done[p] = 0
    BY <1>0 DEF DataInv, StoreProgress
  <2>2. \A a \in Address : a \in Nat
    BY SizesAreNat DEF Address
  <2>3. call[p].off \in Nat /\ before \in [Address -> Byte]
        /\ storage_buffer \in [Address -> Byte]
    BY <1>0 DEF IndInv, TypeOK, Call, BeforeInv
  <2>4. \A a \in Address : storage_buffer[a] = before[a]
    BY <1>0, <1>1, <2>1, <2>2, <2>3 DEF BeforeInv
  <2> QED
    BY <1>1, <2>3, <2>4
<1>3. OthersStay(p)
  BY <1>0 DEF Release, Return, Goto, OthersStay, IndInv, TypeOK
<1>4. CASE call[p].op = "read"
  <2>1. pc'[p] = "idle"
    BY <1>0, <1>4 DEF Release, Return, IndInv, TypeOK
  <2> QED
    BY <1>1, <1>2, <1>3, <2>1, ForgetStep
<1>5. CASE call[p].op = "info"
  <2>1. Got'[p] = Got[p] /\ Told'[p] = Told[p]
    BY <1>0, <1>5 DEF Release, Goto, Got, Told, IndInv, TypeOK
  <2>2. UNCHANGED <<Got, Told>>
    BY <1>3, <2>1, OthersOutcome, OutcomeByThread
  <2> QED
    BY <1>1, <1>2, <2>2 DEF Atomic!avars
<1> QED
  BY <1>4, <1>5

\* Releasing the mutex makes all the stores of its owner visible at once.
LEMMA ReleaseIsStore ==
    ASSUME HInv, HNext, NEW p \in Proc, Release(p)
    PROVE  [Atomic!ANext]_(Atomic!avars)
<1>a. CASE call[p].op \in {"read", "info"}
  BY <1>a, ReleaseHandsOut
<1>b. CASE call[p].op \notin {"read", "info"}
  <2>0. IndInv /\ DataInv /\ BeforeInv
    BY DEF HInv
  <2> DEFINE c == call[p]
  <2>1. /\ before' = storage_buffer /\ UNCHANGED sector_lock_state
        /\ storage_mutex = p
    BY <2>0 DEF HNext, Release, IndInv, MutexHeldInside, Critical
  <2>6. UNCHANGED <<Got, Told>>
    <3>1. /\ OthersStay(p)
          /\ pc[p] = "unlock" /\ pc'[p] = "idle"
      BY <1>b, <2>0 DEF Release, Return, OthersStay, IndInv, TypeOK
    <3> QED
      BY <1>b, <3>1, SilentOutcome
  <2>2. /\ c.off \in Nat /\ c.len \in Nat /\ c.good \in Nat /\ done[p] \in Nat
        /\ c.val \in Byte /\ storage_buffer \in [Address -> Byte]
        /\ before \in [Address -> Byte]
        /\ c.off + c.len <= STORAGE_TOTAL_SIZE
        /\ c.good <= c.len /\ done[p] <= c.len
    BY <2>0 DEF IndInv, DataInv, BeforeInv, TypeOK, Call, CallInRange, StoreProgress
  <2>3. \A a \in Address : storage_buffer[a] # before[a] =>
                              c.off <= a /\ a < c.off + done[p]
    BY <2>0, <2>1 DEF BeforeInv
  <2>4. CASE done[p] = 0
    <3>1. \A a \in Address : storage_buffer[a] = before[a]
      <4>1. \A a \in Address : a \in Nat
        BY SizesAreNat DEF Address
      <4> QED
        BY <2>2, <2>3, <2>4, <4>1
    <3>2. storage_buffer = before
      BY <2>2, <3>1
    <3> QED
      BY <2>1, <2>6, <3>2 DEF Atomic!avars
  <2>5. CASE done[p] # 0
    <3> DEFINE from == c.off  to == c.off + c.good  end == c.off + done[p]
    <3>1. /\ from \in 0 .. STORAGE_TOTAL_SIZE
          /\ to \in 0 .. STORAGE_TOTAL_SIZE
          /\ end \in 0 .. STORAGE_TOTAL_SIZE
      BY <2>2, SizesAreNat
    <3>2. ASSUME NEW a \in Address, from <= a, a < end
          PROVE  /\ ~sector_lock_state[a \div SectorSize]
                 /\ storage_buffer[a] = IF a < to THEN c.val ELSE 0
      <4>1. a \in Nat
        BY SizesAreNat DEF Address
      <4>2. /\ c.op \in {"write", "erase"}
            /\ \A s \in CheckedSectors(c) : ~sector_lock_state[s]
        BY <2>0, <2>5 DEF DataInv, StoreProgress, StoredPrefix
      <4>3. a < c.off + c.len
        BY <2>2, <3>2, <4>1
      <4>4. SectorOf(a) \in CheckedSectors(c)
        BY <2>0, <3>2, <4>1, <4>2, <4>3, BytesAreChecked
      <4>5. a - c.off \in 0 .. done[p] - 1 /\ c.off + (a - c.off) = a
        BY <2>2, <3>2, <4>1
      <4>6. storage_buffer[a] = Wanted(c, a - c.off)
        BY <2>0, <4>5 DEF DataInv, StoredPrefix
      <4>7. a - c.off < c.good <=> a < to
        BY <2>2, <4>1
      <4> QED
        BY <4>2, <4>4, <4>6, <4>7 DEF SectorOf, Wanted
    <3>3. ASSUME NEW a \in Address, ~(from <= a /\ a < end)
          PROVE  storage_buffer[a] = before[a]
      BY <2>3, <3>3
    <3>4. storage_buffer = [a \in Address |-> IF from <= a /\ a < end
                                             THEN IF a < to THEN c.val ELSE 0
                                             ELSE before[a]]
      BY <2>2, <3>2, <3>3
    <3> HIDE DEF from, to, end
    <3>5. Atomic!Store(from, to, end, c.val)
      BY <2>1, <2>6, <3>2, <3>4, SameAddresses DEF Atomic!Store
    <3> QED
      BY <2>2, <3>1, <3>5, SameAddresses DEF Atomic!ANext, Byte
  <2> QED
    BY <2>4, <2>5
<1> QED
  BY <1>a, <1>b

\* All the other steps hand out nothing.
LEMMA OtherSteps ==
    ASSUME IndInv, NEW p \in Proc,
           \/ ClientCall(p) \/ Interrupted(p) \/ WriteFault(p) \/ Acquire(p)
           \/ ReadByte(p) \/ CheckLocks(p) \/ StoreByte(p) \/ StoreDone(p)
           \/ SetLock(p) \/ MirrorSide(p)
    PROVE  UNCHANGED <<Got, Told>>
<1> USE DEF IndInv, TypeOK
<1>1. CASE ClientCall(p)
  <2>1. /\ pc[p] = "idle" /\ UNCHANGED <<out, lock_info>>
        /\ \/ UNCHANGED <<pc, call>>
           \/ \E c, l : /\ l \in {"lock", "load", "mirror", "backup"}
                        /\ pc' = [pc EXCEPT ![p] = l]
                        /\ call' = [call EXCEPT ![p] = c]
    BY <1>1 DEF ClientCall, ReadCall, WriteCall, IoctlReject, SectorIoctl,
                UnlockIoctl, InfoIoctl, BackupIoctl, Reject, Enter
  <2>2. OthersStay(p) /\ pc'[p] \notin {"unlock", "give"}
    BY <2>1 DEF OthersStay
  <2> QED
    BY <2>1, <2>2, SilentOutcome
<1>2. CASE Interrupted(p) \/ MirrorSide(p)
  <2>1. /\ pc[p] \notin {"unlock", "give"} /\ pc'[p] = "idle" /\ OthersStay(p)
    BY <1>2 DEF Interrupted, MirrorSide, MirrorReturn, BackupReturn, Return, OthersStay
  <2> QED
    BY <2>1, SilentOutcome
<1>3. CASE Acquire(p)
  <2>1. /\ pc[p] = "lock" /\ call' = call /\ OthersStay(p)
        /\ pc'[p] = AfterLock(call[p].op)
    BY <1>3 DEF Acquire, Goto, OthersStay
  <2>2. \/ pc'[p] \notin {"unlock", "give"} \/ call'[p].op \notin {"read", "info"}
    BY <2>1 DEF AfterLock
  <2> QED
    BY <2>1, <2>2, SilentOutcome
<1>4. CASE WriteFault(p) \/ StoreByte(p) \/ ReadByte(p)
  <2>1. /\ pc[p] \in {"store", "load"} /\ pc' = pc /\ OthersStay(p)
    BY <1>4 DEF WriteFault, StoreByte, ReadByte, OthersStay
  <2> QED
    BY <2>1, SilentOutcome
<1>5. CASE CheckLocks(p) \/ StoreDone(p) \/ SetLock(p)
  <2>1. /\ pc[p] \in {"check", "store", "set"} /\ call' = call /\ OthersStay(p)
    BY <1>5 DEF CheckLocks, StoreDone, SetLock, Goto, OthersStay
  <2>2. call'[p].op \notin {"read", "info"}
    BY <2>1 DEF StepFitsOp
  <2> QED
    BY <2>1, <2>2, SilentOutcome
<1> QED
  BY <1>1, <1>2, <1>3, <1>4, <1>5

\* The bytes at the last release, while nobody releases the mutex.
LEMMA BeforeStays ==
    ASSUME HInv, HNext, Quiet \/ \E p \in Proc : Acquire(p) \/ StoreByte(p) \/ SetLock(p)
    PROVE  before' = before
<1>1. CASE Quiet
  BY <1>1 DEF HNext, HInv, Quiet, BeforeInv
<1>2. ASSUME NEW p \in Proc, Acquire(p) PROVE before' = before
  BY <1>2, ProcAssumption DEF HNext, Acquire
<1>3. ASSUME NEW p \in Proc, StoreByte(p) \/ SetLock(p) PROVE before' = before
  <2>1. storage_mutex' = p
    BY <1>3 DEF HInv, IndInv, MutexHeldInside, Critical, StoreByte, SetLock
  <2> QED
    BY <2>1, ProcAssumption DEF HNext
<1> QED
  BY <1>1, <1>2, <1>3

\* Every step of the device is a step of AtomicStorage or leaves it alone.
LEMMA AtomicStep ==
    ASSUME HInv, [HNext]_hvars
    PROVE  [Atomic!ANext]_(Atomic!avars)
<1>0. IndInv /\ DataInv /\ BeforeInv /\ [Next]_vars
  BY HStep DEF HInv
<1>1. CASE UNCHANGED hvars
  <2>1. UNCHANGED <<Got, Told>>
    BY <1>1 DEF hvars, vars, Got, Told
  <2> QED
    BY <1>1, <2>1 DEF hvars, vars, Atomic!avars
<1>2. CASE HNext
  <2> SUFFICES ASSUME NEW p \in Proc,
                      \/ ClientCall(p) \/ Disturb(p) \/ LocalStep(p) \/ Acquire(p)
                      \/ MirrorSide(p)
               PROVE  [Atomic!ANext]_(Atomic!avars)
    BY <1>2 DEF HNext, Next
  <2>1. CASE ReadDone(p) \/ ReadFault(p)
    BY <1>2, <2>1, ReadIsAtomic
  <2>2. CASE InfoCopy(p)
    BY <1>2, <2>2, InfoIsAtomic
  <2>3. CASE Release(p)
    BY <1>2, <2>3, ReleaseIsStore
  <2>4. CASE InfoGive(p)
    <3>1. /\ OthersStay(p) /\ pc'[p] = "idle"
          /\ UNCHANGED <<storage_buffer, sector_lock_state, storage_mutex>>
      BY <1>0, <2>4 DEF InfoGive, Return, OthersStay, IndInv, TypeOK
    <3>2. before' = before
      BY <1>0, <1>2, <3>1 DEF HNext, BeforeInv
    <3> QED
      BY <3>1, <3>2, ForgetStep
  <2>5. CASE SetLock(p)
    <3>1. call[p].sector \in Sectors
      BY <1>0 DEF IndInv, TypeOK, Call
    <3>2. before' = before /\ UNCHANGED <<Got, Told>>
      BY <1>0, <1>2, <2>5, BeforeStays, OtherSteps
    <3>3. Atomic!SetTo(call[p].sector, call[p].op = "lock")
      BY <2>5, <3>2 DEF SetLock, Atomic!SetTo
    <3>4. (call[p].op = "lock") \in BOOLEAN
      OBVIOUS
    <3> QED
      BY <3>1, <3>3, <3>4, SameAddresses DEF Atomic!ANext, Sectors
  <2>6. CASE \/ ClientCall(p) \/ Interrupted(p) \/ WriteFault(p) \/ Acquire(p)
             \/ ReadByte(p) \/ CheckLocks(p) \/ StoreByte(p) \/ StoreDone(p)
             \/ MirrorSide(p)
    <3>1. UNCHANGED <<Got, Told>>
      BY <1>0, <2>6, OtherSteps
    <3>2. \/ UNCHANGED <<sector_lock_state, storage_mutex, storage_buffer>>
          \/ Acquire(p) \/ StoreByte(p)
      BY <2>6 DEF ClientCall, ReadCall, WriteCall, IoctlReject, SectorIoctl,
                  UnlockIoctl, InfoIoctl, BackupIoctl, Reject, Enter, Interrupted,
                  WriteFault, ReadByte, CheckLocks, StoreDone, MirrorSide,
                  MirrorReturn, BackupReturn
    <3>3. before' = before /\ UNCHANGED sector_lock_state
      <4>1. CASE Acquire(p) \/ StoreByte(p)
        BY <1>0, <1>2, <4>1, BeforeStays DEF Acquire, StoreByte
      <4>2. CASE UNCHANGED <<sector_lock_state, storage_mutex, storage_buffer>>
        BY <1>0, <1>2, <4>2 DEF HNext, BeforeInv
      <4> QED
        BY <3>2, <4>1, <4>2
    <3> QED
      BY <3>1, <3>3 DEF Atomic!avars
  <2> QED
    BY <2>1, <2>2, <2>3, <2>4, <2>5, <2>6 DEF Disturb, LocalStep
<1> QED
  BY <1>1, <1>2

\* To its clients the device is an atomic memory with lockable sectors: writes,
\* erasures, lock changes, reads and lock reports are single steps.
THEOREM DeviceIsAtomic == HSpec => ImplementsAtomic
<1>1. HInit => Atomic!AInit
  BY SameAddresses DEF HInit, Init, Atomic!AInit, Atomic!NoRead, Got, Told, Sectors
<1>2. HInv /\ [HNext]_hvars => HInv'
  BY HStep, NextIndInv, NextDataInv, NextBeforeInv DEF HInv
<1>3. HInv /\ [HNext]_hvars => [Atomic!ANext]_(Atomic!avars)
  BY AtomicStep
<1> QED
  BY <1>1, <1>2, <1>3, InitHInv, PTL DEF HSpec, ImplementsAtomic, Atomic!ASpec
============================================================================
