--------------------------- MODULE StorageDevice ---------------------------
(***************************************************************************)
(* /dev/storageDevice, the sector device of                                *)
(* 003_char_block_storage_device/storage_kernel.c.                         *)
(*                                                                         *)
(* A file operation is a sequence of steps of the calling thread: the      *)
(* argument checks made before any lock is taken, the acquisition of       *)
(* storage_mutex, the work done under it (copies are made one byte at a    *)
(* time), and its release.  Threads interleave between any two steps.      *)
(* The calls into the mirror module are the steps MirrorReturn and         *)
(* BackupReturn here; module StorageSystem says what happens inside them.  *)
(***************************************************************************)
EXTENDS Integers, Sequences

CONSTANTS
    Proc,         \* threads that use the device
    NoProc,       \* "nobody": the mutex is free
    HalfField,    \* 4 in the code: "int sector : 3" holds -4 .. 3
    SectorSize,   \* STORAGE_SECTOR_SIZE
    Payload,      \* the non-zero bytes clients write
    KeyBytes,     \* values of the key byte of an unlock request
    UserKeys,     \* module parameter user_keys
    DefaultKeys,  \* "A" .. "H"
    Offsets,      \* file offsets clients use
    Lengths,      \* lengths clients pass
    Ops           \* operations clients issue

STORAGE_NUM_SECTORS == 2 * HalfField
STORAGE_TOTAL_SIZE  == STORAGE_NUM_SECTORS * SectorSize

Sectors == 0 .. STORAGE_NUM_SECTORS - 1
Address == 0 .. STORAGE_TOTAL_SIZE - 1
Byte    == Payload \cup {0}
AllOps  == {"read", "write", "lock", "unlock", "info", "erase", "mirror",
            "backup", "other"}

ASSUME ProcAssumption   == NoProc \notin Proc
ASSUME SizeAssumption   == /\ HalfField \in Nat \ {0}
                           /\ SectorSize \in Nat \ {0}
ASSUME ByteAssumption   == Payload \subseteq Nat \ {0}
ASSUME KeyAssumption    == /\ UserKeys \subseteq KeyBytes
                           /\ DefaultKeys \subseteq KeyBytes
ASSUME ClientAssumption == /\ Offsets \subseteq Nat
                           /\ Lengths \subseteq Nat
                           /\ Ops \subseteq AllOps

\* Return values.
EPERM       == -1
ENOENT      == -2
EIO         == -5
EFAULT      == -14
EINVAL      == -22
ENOTTY      == -25
ENOSPC      == -28
ERESTARTSYS == -512

\* What vblock_backup_to_file may return to the ioctl.
BackupResults == {0, ENOENT, EIO, EINVAL, ENOSPC, ERESTARTSYS}

\* An empty user_keys parameter is replaced by the default keys at load time.
Keys == IF UserKeys = {} THEN DefaultKeys ELSE UserKeys

SectorOf(a) == a \div SectorSize

\* Faulty variant: the end of the device is not looked at.
ClampDropped(off, len) == len

\* The length after "if (*offset + length > STORAGE_TOTAL_SIZE) length = ...".
Clamp(off, len) ==
    IF off + len > STORAGE_TOTAL_SIZE THEN STORAGE_TOTAL_SIZE - off ELSE len

\* (end - 1) / STORAGE_SECTOR_SIZE is computed in size_t and stored in an int;
\* for end = 0 the 64-bit quotient 2^55 - 1 becomes -1.
SectorEnd(end) == IF end = 0 THEN -1 ELSE (end - 1) \div SectorSize

\* The sectors storage_write examines for a request of len bytes at off.
SectorRange(off, len) == SectorOf(off) .. SectorEnd(off + len)

\* The value of a 3-bit signed bit-field whose bits are f.
FieldValue(f) == IF f >= HalfField THEN f - STORAGE_NUM_SECTORS ELSE f

\* The local variables of a call: operation, range and byte to store, number of
\* bytes a faulting copy_from_user transfers, sector index and key.
Call == [op     : AllOps \cup {"none"},
         off    : Nat,
         len    : Nat,
         val    : Byte,
         good   : Nat,
         sector : Sectors,
         key    : KeyBytes \cup {NoProc}]

NoCall == [op |-> "none", off |-> 0, len |-> 0, val |-> 0, good |-> 0,
           sector |-> 0, key |-> NoProc]

VARIABLES
    storage_buffer,     \* the bytes of the device
    sector_lock_state,  \* which sectors are locked
    storage_mutex,      \* the thread that holds it, or NoProc
    pc,                 \* where each thread is
    call,               \* the locals of its call
    done,               \* bytes it has stored so far
    out,                \* bytes it has copied to its user buffer
    lock_info,          \* flags it has copied to its local array
    result              \* the value its last call returned

vars == <<storage_buffer, sector_lock_state, storage_mutex, pc, call, done,
          out, lock_info, result>>

\* The control points at which the thread holds storage_mutex.
Critical == {"check", "set", "load", "store", "unlock"}

Init ==
    /\ storage_buffer = [a \in Address |-> 0]
    /\ sector_lock_state = [s \in Sectors |-> FALSE]
    /\ storage_mutex = NoProc
    /\ pc = [p \in Proc |-> "idle"]
    /\ call = [p \in Proc |-> NoCall]
    /\ done = [p \in Proc |-> 0]
    /\ out = [p \in Proc |-> <<>>]
    /\ lock_info = [p \in Proc |-> <<>>]
    /\ result = [p \in Proc |-> 0]

----------------------------------------------------------------------------
(* Entering and leaving a call                                             *)

\* A call that returns r from the checks it makes before taking the mutex.
Reject(p, r) ==
    /\ pc[p] = "idle"
    /\ result' = [result EXCEPT ![p] = r]
    /\ UNCHANGED <<storage_buffer, sector_lock_state, storage_mutex, pc, call,
                   done, out, lock_info>>

\* A call with locals c that passes those checks and goes on at label.
Enter(p, c, label) ==
    /\ pc[p] = "idle"
    /\ pc' = [pc EXCEPT ![p] = label]
    /\ call' = [call EXCEPT ![p] = c]
    /\ result' = [result EXCEPT ![p] = 0]
    /\ UNCHANGED <<storage_buffer, sector_lock_state, storage_mutex, done, out,
                   lock_info>>

\* The thread is back in user space; its locals are gone.
Return(p) ==
    /\ pc' = [pc EXCEPT ![p] = "idle"]
    /\ call' = [call EXCEPT ![p] = NoCall]
    /\ done' = [done EXCEPT ![p] = 0]
    /\ out' = [out EXCEPT ![p] = <<>>]
    /\ lock_info' = [lock_info EXCEPT ![p] = <<>>]

Goto(p, label) == pc' = [pc EXCEPT ![p] = label]

----------------------------------------------------------------------------
(* storage_mutex                                                           *)

\* Where a call goes on once it owns the mutex.
AfterLock(op) ==
    CASE op \in {"read", "info"}   -> "load"
      [] op \in {"write", "erase"} -> "check"
      [] op \in {"lock", "unlock"} -> "set"
      [] OTHER                     -> "unlock"

\* Faulty variant: the mutex is taken for granted.
AcquireBusy(p) ==
    /\ pc[p] = "lock"
    /\ storage_mutex' = p
    /\ Goto(p, AfterLock(call[p].op))
    /\ UNCHANGED <<storage_buffer, sector_lock_state, call, done, out,
                   lock_info, result>>

\* mutex_lock and the success of mutex_lock_interruptible.
Acquire(p) ==
    /\ pc[p] = "lock"
    /\ storage_mutex = NoProc
    /\ storage_mutex' = p
    /\ Goto(p, AfterLock(call[p].op))
    /\ UNCHANGED <<storage_buffer, sector_lock_state, call, done, out,
                   lock_info, result>>

\* read, write and unlock wait interruptibly, lock, info and erase do not.
\* Only a wait for a mutex that is taken can be interrupted.
Interruptible == {"read", "write", "unlock"}

Interrupted(p) ==
    /\ pc[p] = "lock"
    /\ call[p].op \in Interruptible
    /\ storage_mutex # NoProc
    /\ result' = [result EXCEPT ![p] = ERESTARTSYS]
    /\ Return(p)
    /\ UNCHANGED <<storage_buffer, sector_lock_state, storage_mutex>>

\* mutex_unlock and the return of the call; only GET_LOCK_INFO goes on after it.
Release(p) ==
    /\ pc[p] = "unlock"
    /\ storage_mutex' = NoProc
    /\ \/ /\ call[p].op = "info"
          /\ Goto(p, "give")
          /\ UNCHANGED <<call, done, out, lock_info>>
       \/ /\ call[p].op # "info"
          /\ Return(p)
    /\ UNCHANGED <<storage_buffer, sector_lock_state, result>>

----------------------------------------------------------------------------
(* storage_read                                                            *)

\* Faulty variant: the bytes are copied without storage_mutex.
ReadCallUnlocked(p, off, len) ==
    /\ "read" \in Ops
    /\ off < STORAGE_TOTAL_SIZE
    /\ Enter(p, [NoCall EXCEPT !.op = "read", !.off = off,
                               !.len = Clamp(off, len)], "load")

ReadCall(p, off, len) ==
    /\ "read" \in Ops
    /\ \/ off >= STORAGE_TOTAL_SIZE /\ Reject(p, 0)
       \/ /\ off < STORAGE_TOTAL_SIZE
          /\ Enter(p, [NoCall EXCEPT !.op = "read", !.off = off,
                                     !.len = Clamp(off, len)], "lock")

\* One byte of copy_to_user.
ReadByte(p) ==
    /\ pc[p] = "load" /\ call[p].op = "read"
    /\ Len(out[p]) < call[p].len
    /\ out' = [out EXCEPT ![p] =
                 Append(@, storage_buffer[call[p].off + Len(out[p])])]
    /\ UNCHANGED <<storage_buffer, sector_lock_state, storage_mutex, pc, call,
                   done, lock_info, result>>

ReadDone(p) ==
    /\ pc[p] = "load" /\ call[p].op = "read"
    /\ Len(out[p]) = call[p].len
    /\ result' = [result EXCEPT ![p] = call[p].len]
    /\ Goto(p, "unlock")
    /\ UNCHANGED <<storage_buffer, sector_lock_state, storage_mutex, call, done,
                   out, lock_info>>

\* copy_to_user meets an unmapped page of the user buffer.
ReadFault(p) ==
    /\ pc[p] = "load" /\ call[p].op = "read"
    /\ Len(out[p]) < call[p].len
    /\ result' = [result EXCEPT ![p] = EFAULT]
    /\ Goto(p, "unlock")
    /\ UNCHANGED <<storage_buffer, sector_lock_state, storage_mutex, call, done,
                   out, lock_info>>

----------------------------------------------------------------------------
(* storage_write and IOCTL_ERASE_SECTOR                                    *)

WriteCall(p, off, len, v) ==
    /\ "write" \in Ops
    /\ \/ off >= STORAGE_TOTAL_SIZE /\ Reject(p, ENOSPC)
       \/ /\ off < STORAGE_TOTAL_SIZE
          /\ Enter(p, [NoCall EXCEPT !.op = "write", !.off = off, !.val = v,
                                     !.len = Clamp(off, len),
                                     !.good = Clamp(off, len)], "lock")

\* Faulty variant: only the sector in which the request begins is examined.
CheckedFirst(c) == {SectorOf(c.off)}

\* The sectors whose lock a write or an erase must find open.
CheckedSectors(c) ==
    IF c.op = "write" THEN SectorRange(c.off, c.len) ELSE {c.sector}

\* The test of the locks, made under the mutex.
CheckLocks(p) ==
    /\ pc[p] = "check"
    /\ \/ /\ \E s \in CheckedSectors(call[p]) : sector_lock_state[s]
          /\ result' = [result EXCEPT ![p] = EPERM]
          /\ Goto(p, "unlock")
       \/ /\ \A s \in CheckedSectors(call[p]) : ~sector_lock_state[s]
          /\ Goto(p, "store")
          /\ UNCHANGED result
    /\ UNCHANGED <<storage_buffer, sector_lock_state, storage_mutex, call, done,
                   out, lock_info>>

\* Faulty variant: the offset of the request is left out of the address.
StoreByteAtStart(p) ==
    /\ pc[p] = "store"
    /\ done[p] < call[p].len
    /\ storage_buffer' =
         [storage_buffer EXCEPT ![done[p]] =
            IF done[p] < call[p].good THEN call[p].val ELSE 0]
    /\ done' = [done EXCEPT ![p] = @ + 1]
    /\ UNCHANGED <<sector_lock_state, storage_mutex, pc, call, out, lock_info,
                   result>>

\* One byte of copy_from_user or memset.  A copy_from_user that faults zeroes
\* the bytes it could not fetch.
StoreByte(p) ==
    /\ pc[p] = "store"
    /\ done[p] < call[p].len
    /\ storage_buffer' =
         [storage_buffer EXCEPT ![call[p].off + done[p]] =
            IF done[p] < call[p].good THEN call[p].val ELSE 0]
    /\ done' = [done EXCEPT ![p] = @ + 1]
    /\ UNCHANGED <<sector_lock_state, storage_mutex, pc, call, out, lock_info,
                   result>>

\* copy_from_user meets an unmapped page of the user buffer.
WriteFault(p) ==
    /\ pc[p] = "store" /\ call[p].op = "write"
    /\ done[p] < call[p].len
    /\ call[p].good = call[p].len
    /\ call' = [call EXCEPT ![p].good = done[p]]
    /\ UNCHANGED <<storage_buffer, sector_lock_state, storage_mutex, pc, done,
                   out, lock_info, result>>

StoreDone(p) ==
    /\ pc[p] = "store"
    /\ done[p] = call[p].len
    /\ result' = [result EXCEPT ![p] =
                    CASE call[p].op # "write"          -> 0
                      [] call[p].good < call[p].len    -> EFAULT
                      [] OTHER                         -> call[p].len]
    /\ Goto(p, "unlock")
    /\ UNCHANGED <<storage_buffer, sector_lock_state, storage_mutex, call, done,
                   out, lock_info>>

----------------------------------------------------------------------------
(* storage_ioctl                                                           *)

\* copy_from_user of the argument fails, or the command is unknown.
IoctlReject(p, op) ==
    /\ op \in Ops
    /\ \/ op \in {"lock", "unlock", "erase", "mirror", "backup"}
          /\ Reject(p, EFAULT)
       \/ op = "other" /\ Reject(p, ENOTTY)

\* The locals of a command that works on sector s.
SectorCall(op, s) ==
    IF op = "erase"
    THEN [NoCall EXCEPT !.op = op, !.sector = s, !.off = s * SectorSize,
                        !.len = SectorSize, !.good = SectorSize]
    ELSE [NoCall EXCEPT !.op = op, !.sector = s]

\* Faulty variant: the index is not checked.
SectorUnchecked(p, op, s) ==
    /\ op \in Ops \cap {"lock", "erase", "mirror"}
    /\ Enter(p, SectorCall(op, s), IF op = "mirror" THEN "mirror" ELSE "lock")

\* LOCK_SECTOR, ERASE_SECTOR and MIRROR_SECTOR: the index is checked first.
SectorIoctl(p, op, s) ==
    /\ op \in Ops \cap {"lock", "erase", "mirror"}
    /\ \/ s \notin Sectors /\ Reject(p, EINVAL)
       \/ /\ s \in Sectors
          /\ Enter(p, SectorCall(op, s),
                   IF op = "mirror" THEN "mirror" ELSE "lock")

\* Faulty variant: any key opens a sector.
UnlockAnyKey(p, field, key) ==
    /\ "unlock" \in Ops
    /\ FieldValue(field) \in Sectors
    /\ Enter(p, [NoCall EXCEPT !.op = "unlock", !.key = key,
                               !.sector = FieldValue(field)], "lock")

\* UNLOCK_SECTOR: the request is read through a bit-field of three bits.
UnlockIoctl(p, field, key) ==
    /\ "unlock" \in Ops
    /\ \/ FieldValue(field) \notin Sectors /\ Reject(p, EINVAL)
       \/ FieldValue(field) \in Sectors /\ key \notin Keys /\ Reject(p, EPERM)
       \/ /\ FieldValue(field) \in Sectors
          /\ key \in Keys
          /\ Enter(p, [NoCall EXCEPT !.op = "unlock", !.key = key,
                                     !.sector = FieldValue(field)], "lock")

SetLock(p) ==
    /\ pc[p] = "set"
    /\ sector_lock_state' =
         [sector_lock_state EXCEPT ![call[p].sector] = (call[p].op = "lock")]
    /\ Goto(p, "unlock")
    /\ UNCHANGED <<storage_buffer, storage_mutex, call, done, out, lock_info,
                   result>>

InfoIoctl(p) ==
    /\ "info" \in Ops
    /\ Enter(p, [NoCall EXCEPT !.op = "info"], "lock")

\* One turn of the loop that copies sector_lock_state, or its end.
InfoCopy(p) ==
    /\ pc[p] = "load" /\ call[p].op = "info"
    /\ \/ /\ Len(lock_info[p]) < STORAGE_NUM_SECTORS
          /\ lock_info' = [lock_info EXCEPT ![p] =
                             Append(@, sector_lock_state[Len(lock_info[p])])]
          /\ UNCHANGED pc
       \/ /\ Len(lock_info[p]) = STORAGE_NUM_SECTORS
          /\ Goto(p, "unlock")
          /\ UNCHANGED lock_info
    /\ UNCHANGED <<storage_buffer, sector_lock_state, storage_mutex, call, done,
                   out, result>>

\* copy_to_user of the local array, after the mutex has been released.
InfoGive(p) ==
    /\ pc[p] = "give"
    /\ \E r \in {0, EFAULT} : result' = [result EXCEPT ![p] = r]
    /\ Return(p)
    /\ UNCHANGED <<storage_buffer, sector_lock_state, storage_mutex>>

BackupIoctl(p) ==
    /\ "backup" \in Ops
    /\ Enter(p, [NoCall EXCEPT !.op = "backup"], "backup")

\* MIRROR_SECTOR returns 0 whatever mirror_sector did.
MirrorReturn(p) ==
    /\ pc[p] = "mirror"
    /\ result' = [result EXCEPT ![p] = 0]
    /\ Return(p)
    /\ UNCHANGED <<storage_buffer, sector_lock_state, storage_mutex>>

BackupReturn(p, r) ==
    /\ pc[p] = "backup"
    /\ result' = [result EXCEPT ![p] = r]
    /\ Return(p)
    /\ UNCHANGED <<storage_buffer, sector_lock_state, storage_mutex>>

----------------------------------------------------------------------------
\* What a client may ask for.
ClientCall(p) ==
    \/ \E off \in Offsets, len \in Lengths :
          \/ ReadCall(p, off, len)
          \/ \E v \in Payload : WriteCall(p, off, len, v)
    \/ \E op \in AllOps : IoctlReject(p, op)
    \/ \E op \in AllOps, s \in -1 .. STORAGE_NUM_SECTORS : SectorIoctl(p, op, s)
    \/ \E f \in Sectors, k \in KeyBytes : UnlockIoctl(p, f, k)
    \/ InfoIoctl(p)
    \/ BackupIoctl(p)

\* A page of the user buffer is missing, or a signal ends a wait.
Disturb(p) == ReadFault(p) \/ WriteFault(p) \/ Interrupted(p)

\* The steps of a call once it is under way, except the wait for the mutex.
LocalStep(p) ==
    \/ ReadByte(p) \/ ReadDone(p)
    \/ CheckLocks(p) \/ StoreByte(p) \/ StoreDone(p)
    \/ SetLock(p) \/ InfoCopy(p) \/ InfoGive(p)
    \/ Release(p)

\* The calls into the mirror module come back.
MirrorSide(p) == MirrorReturn(p) \/ \E r \in BackupResults : BackupReturn(p, r)

Next == \E p \in Proc :
    ClientCall(p) \/ Disturb(p) \/ LocalStep(p) \/ Acquire(p) \/ MirrorSide(p)

\* Fairness is a matter of the composition with the mirror (StorageSystem).
Spec == Init /\ [][Next]_vars

----------------------------------------------------------------------------
(* Properties                                                              *)

\* Every variable keeps its type: in particular every sector index kept in a
\* call is one of the device's sectors.
TypeOK ==
    /\ storage_buffer \in [Address -> Byte]
    /\ sector_lock_state \in [Sectors -> BOOLEAN]
    /\ storage_mutex \in Proc \cup {NoProc}
    /\ pc \in [Proc -> Critical \cup {"idle", "lock", "give", "mirror", "backup"}]
    /\ call \in [Proc -> Call]
    /\ done \in [Proc -> Nat]
    /\ out \in [Proc -> Seq(Byte)]
    /\ lock_info \in [Proc -> Seq(BOOLEAN)]
    /\ result \in [Proc -> Int]

\* Exactly the thread inside a critical section owns storage_mutex, so every
\* early return (-EPERM, -EFAULT) has released it and none is released twice.
MutexHeldInside ==
    \A p \in Proc : pc[p] \in Critical <=> storage_mutex = p

\* No byte of a locked sector changes: neither a write nor an erase, even one
\* that was under way when IOCTL_LOCK_SECTOR was called, touches it.
LockedSectorImmutable ==
    [][\A a \in Address :
          sector_lock_state[SectorOf(a)]
             => storage_buffer'[a] = storage_buffer[a]]_vars

\* While a write or an erase stores its bytes, every sector it examined is
\* still unlocked: no IOCTL_LOCK_SECTOR comes between the check and the store.
StoreTargetsOpen ==
    \A p \in Proc : pc[p] = "store" =>
        \A s \in CheckedSectors(call[p]) : ~sector_lock_state[s]

\* The bytes a read hands out were all in the device at one moment: while the
\* reader is inside copy_to_user, what it has copied is still what is stored.
ReadIsSnapshot ==
    \A p \in Proc :
        pc[p] \in Critical /\ call[p].op = "read" =>
            \A i \in 1 .. Len(out[p]) :
                out[p][i] = storage_buffer[call[p].off + i - 1]

\* When a write or an erase is about to return, its whole range holds what it
\* stored: the payload, and zeroes from the byte at which the copy faulted.
StoreLanded ==
    \A p \in Proc :
        pc[p] = "unlock" /\ call[p].op \in {"write", "erase"}
                         /\ result[p] # EPERM =>
            \A i \in 0 .. call[p].len - 1 :
                storage_buffer[call[p].off + i] =
                    IF i < call[p].good THEN call[p].val ELSE 0

\* GET_LOCK_INFO reports lock flags that all held at one moment.
LockInfoIsSnapshot ==
    \A p \in Proc :
        pc[p] \in Critical /\ call[p].op = "info" =>
            \A i \in 1 .. Len(lock_info[p]) :
                lock_info[p][i] = sector_lock_state[i - 1]

\* The loop of storage_write over the locks, and the bytes it stores, stay
\* inside the arrays, for every offset and length a client passes (a length of
\* zero at offset zero included).
WriteInBounds ==
    \A p \in Proc :
        call[p].op = "write" =>
            /\ SectorRange(call[p].off, call[p].len) \subseteq Sectors
            /\ call[p].off + call[p].len <= STORAGE_TOTAL_SIZE

\* A sector is opened only by a thread that gave a valid key for that sector
\* and owns the mutex.
OpenedByKeyOnly ==
    [][\A s \in Sectors :
          sector_lock_state[s] /\ ~sector_lock_state'[s] =>
            \E p \in Proc : /\ storage_mutex = p
                            /\ call[p].op = "unlock"
                            /\ call[p].sector = s
                            /\ call[p].key \in Keys]_vars

\* A sector that only ever receives whole-sector writes of one byte value, and
\* zeroes from a faulting copy, never mixes two payloads.
NotMixed(buffer) ==
    \A a, b \in Address :
        SectorOf(a) = SectorOf(b) /\ buffer[a] # 0 /\ buffer[b] # 0
            => buffer[a] = buffer[b]

\* A thread in a critical section runs the code of its own operation.
StepFitsOp ==
    \A p \in Proc :
        /\ pc[p] \in {"check", "store"} => call[p].op \in {"write", "erase"}
        /\ pc[p] = "set" => call[p].op \in {"lock", "unlock"}
        /\ pc[p] = "load" => call[p].op \in {"read", "info"}

\* A call that passed its checks asks for bytes of the device only.
CallInRange ==
    \A p \in Proc :
        /\ call[p].off + call[p].len <= STORAGE_TOTAL_SIZE
        /\ call[p].op = "erase" => /\ call[p].off = call[p].sector * SectorSize
                                   /\ call[p].len = SectorSize

\* The inductive invariant behind the safety properties above.
IndInv == TypeOK /\ MutexHeldInside /\ StepFitsOp /\ CallInRange /\ StoreTargetsOpen
============================================================================
