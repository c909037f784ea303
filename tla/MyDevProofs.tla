---------------------------- MODULE MyDevProofs ----------------------------
(***************************************************************************)
(* Proofs about the driver with several devices, for every number of       *)
(* devices, files and threads and every buffer size: lengths and positions *)
(* stay within the buffer, a copy stays within the data it began with, and *)
(* nothing written before a reset survives it.  All of it rests on each    *)
(* device's mutex being held by exactly the thread inside its code.        *)
(***************************************************************************)
EXTENDS MyDev, TLAPS

\* The types of the locals.
LocalTypes ==
    /\ op \in [Thread -> AllOps \cup {"none"}]
    /\ dev \in [Thread -> Minor \cup {FirstDev}]
    /\ file \in [Thread -> File \cup {FirstFile}]
    /\ val \in [Thread -> Byte]
    /\ good \in [Thread -> Nat]
    /\ done \in [Thread -> Nat]

\* A device's mutex is held by exactly the thread inside the device's code.
LockHeldInside ==
    \A t \in Thread, d \in Minor :
        lock[d] = t <=> pc[t] \in Critical /\ dev[t] = d

\* A thread in a call works on a device, through a file where it uses one, and
\* runs the code of its own operation.
CallFits ==
    \A t \in Thread :
        /\ pc[t] # "idle" => dev[t] \in Minor
        /\ op[t] \in {"read", "write", "seek"} => file[t] \in File
        /\ op[t] \notin {"read", "write"} => pos[t] = 0
        /\ op[t] = "reset" => val[t] = 0
        /\ pc[t] = "give" => op[t] \in {"read", "show"}
        /\ pc[t] = "fill" => op[t] \in {"write", "store", "reset"}
        /\ pc[t] = "position" => op[t] \in {"read", "write"}

\* Nothing is copied before the copy loop, and no more than was asked for.
Progress ==
    \A t \in Thread :
        /\ pc[t] \in {"idle", "lock", "enter"} => done[t] = 0 /\ out[t] = <<>>
        /\ pc[t] = "fill" => done[t] <= cnt[t] /\ good[t] <= cnt[t]

\* A byte that is not zero was stored since the reset; a reset under way has
\* cleared the bytes it has come to, and means to clear them all.
ResetClears ==
    /\ \A d \in Minor, a \in Cell : buf[d][a] # 0 => a \in since[d]
    /\ \A t \in Thread : pc[t] = "fill" /\ op[t] = "reset" =>
          /\ cnt[t] = BUF_SIZE
          /\ \A a \in Cell : a < done[t] => buf[dev[t]][a] = 0

\* Inductive.
DevInv == /\ TypeOK /\ LocalTypes
          /\ LockHeldInside
          /\ CallFits
          /\ Progress
          /\ CopyInBounds
          /\ ReadIsSnapshot
          /\ ResetClears

----------------------------------------------------------------------------
(* Entering and leaving                                                    *)

\* Zero is a byte, a position and no error.
LEMMA Zero == /\ BUF_SIZE \in Nat \ {0}
              /\ 0 \in Byte /\ 0 \in 0 .. BUF_SIZE
              /\ <<>> \in Seq(Byte)
              /\ EFAULT \in Int /\ EINVAL \in Int /\ ENOSPC \in Int
BY SizeAssumption DEF Byte, EFAULT, EINVAL, ENOSPC

\* Two threads inside the driver are inside different devices.
LEMMA Alone ==
    ASSUME DevInv, NEW t \in Thread, NEW u \in Thread, u # t,
           pc[t] \in Critical, pc[u] \in Critical
    PROVE  dev[u] # dev[t]
<1>1. dev[t] \in Minor
  BY DEF DevInv, CallFits, Critical
<1> QED
  BY <1>1 DEF DevInv, LockHeldInside

\* Loading the driver leaves every device empty and free.
LEMMA InitDevInv == Init => DevInv
<1> SUFFICES ASSUME Init PROVE DevInv
  OBVIOUS
<1> USE DEF Init
<1>1. TypeOK
  BY Zero DEF TypeOK, Critical
<1>2. LocalTypes
  BY Zero DEF LocalTypes
<1>3. LockHeldInside
  BY ThreadAssumption DEF LockHeldInside, Critical
<1>4. CallFits /\ Progress
  BY DEF CallFits, Progress
<1>5. CopyInBounds /\ ReadIsSnapshot
  BY DEF CopyInBounds, ReadIsSnapshot
<1>6. ResetClears
  BY DEF ResetClears
<1> QED
  BY <1>1, <1>2, <1>3, <1>4, <1>5, <1>6 DEF DevInv

\* A call goes as far as the wait for the mutex.
LEMMA EnterInv ==
    ASSUME DevInv, NEW t \in Thread, NEW o, NEW d \in Minor, NEW n \in Nat,
           NEW v \in Byte, NEW q \in 0 .. BUF_SIZE,
           Enter(t, o, d, n, v, q),
           file' \in [Thread -> File \cup {FirstFile}],
           \A u \in Thread : u # t => file'[u] = file[u],
           o \in {"read", "write", "seek"} => file'[t] \in File,
           o \notin {"read", "write"} => q = 0,
           o = "reset" => v = 0
    PROVE  DevInv'
<1> USE DEF DevInv, Enter, Goto, device
<1>0. o \in AllOps
  BY OpsAssumption
<1>1. TypeOK'
  BY Zero DEF TypeOK
<1>2. LocalTypes'
  BY <1>0 DEF LocalTypes
<1>3. LockHeldInside'
  BY DEF TypeOK, LocalTypes, LockHeldInside, Critical
<1>4. CallFits'
  BY DEF TypeOK, LocalTypes, CallFits
<1>5. Progress'
  BY DEF TypeOK, LocalTypes, Progress
<1>6. CopyInBounds' /\ ReadIsSnapshot'
  BY DEF TypeOK, LocalTypes, CopyInBounds, ReadIsSnapshot
<1>7. ResetClears'
  BY DEF TypeOK, LocalTypes, ResetClears
<1> QED
  BY <1>1, <1>2, <1>3, <1>4, <1>5, <1>6, <1>7

\* Whatever operation is called.
LEMMA CallInv ==
    ASSUME DevInv, NEW t \in Thread, Call(t)
    PROVE  DevInv'
<1>1. PICK n \in Counts, v \in Payload :
          \/ \E f \in File : FileCall(t, f, n, v)
          \/ \E d \in Minor : SysfsCall(t, d, n, v)
  BY DEF Call
<1>2. n \in Nat /\ v \in Byte /\ 0 \in Nat /\ 0 \in Byte /\ 0 \in 0 .. BUF_SIZE
  BY SizeAssumption DEF Byte
<1>3. ASSUME NEW f \in File, FileCall(t, f, n, v) PROVE DevInv'
  <2>1. /\ DevOf[f] \in Minor /\ f_pos[f] \in 0 .. BUF_SIZE
        /\ file' \in [Thread -> File \cup {FirstFile}]
        /\ file'[t] = f /\ \A u \in Thread : u # t => file'[u] = file[u]
    BY <1>3, DeviceAssumption DEF FileCall, DevInv, TypeOK, LocalTypes
  <2>2. \/ Enter(t, "read", DevOf[f], n, 0, f_pos[f])
        \/ Enter(t, "write", DevOf[f], n, v, f_pos[f])
        \/ Enter(t, "seek", DevOf[f], 0, 0, 0)
    BY <1>3 DEF FileCall
  <2> QED
    BY <1>2, <2>1, <2>2, EnterInv
<1>4. ASSUME NEW d \in Minor, SysfsCall(t, d, n, v) PROVE DevInv'
  <2>1. /\ file' \in [Thread -> File \cup {FirstFile}]
        /\ \A u \in Thread : u # t => file'[u] = file[u]
    BY <1>4 DEF SysfsCall, DevInv, LocalTypes
  <2>2. \/ Enter(t, "store", d, n, v, 0)
        \/ \E o \in {"show", "stats", "reset"} : Enter(t, o, d, 0, 0, 0)
    BY <1>4 DEF SysfsCall
  <2> QED
    BY <1>2, <2>1, <2>2, EnterInv
<1> QED
  BY <1>1, <1>3, <1>4

\* A thread that is back in user space has left nothing behind.
LEMMA BackInv ==
    ASSUME DevInv, NEW t \in Thread, Back(t), UNCHANGED <<buf, len, since>>,
           f_pos' \in [File -> 0 .. BUF_SIZE],
           \/ pc[t] \notin Critical /\ UNCHANGED lock
           \/ pc[t] \in Critical /\ lock' = [lock EXCEPT ![dev[t]] = NoThread]
    PROVE  DevInv'
<1> USE DEF DevInv, Back, Goto
<1>0. pc[t] \in Critical => dev[t] \in Minor
  BY DEF CallFits, Critical
<1>1. TypeOK'
  <2>1. lock' \in [Minor -> Thread \cup {NoThread}]
    BY <1>0 DEF TypeOK
  <2>2. /\ pc' \in [Thread -> Critical \cup {"idle", "lock", "position"}]
        /\ pos' \in [Thread -> 0 .. BUF_SIZE] /\ cnt' \in [Thread -> Nat]
        /\ out' \in [Thread -> Seq(Byte)] /\ ret' \in [Thread -> Int]
    BY Zero DEF TypeOK
  <2> QED
    BY <2>1, <2>2 DEF TypeOK
<1>2. LocalTypes'
  BY Zero DEF LocalTypes
<1>3. LockHeldInside'
  <2>1. /\ pc'[t] \notin Critical
        /\ \A u \in Thread : u # t => pc'[u] = pc[u] /\ dev'[u] = dev[u]
    BY DEF TypeOK, LocalTypes, Critical
  <2>2. CASE pc[t] \notin Critical /\ UNCHANGED lock
    BY <2>1, <2>2 DEF LockHeldInside
  <2>3. CASE pc[t] \in Critical /\ lock' = [lock EXCEPT ![dev[t]] = NoThread]
    BY <1>0, <2>1, <2>3, ThreadAssumption DEF TypeOK, LockHeldInside
  <2> QED
    BY <2>2, <2>3
<1>4. CallFits'
  BY DEF TypeOK, LocalTypes, CallFits
<1>5. Progress'
  BY DEF TypeOK, LocalTypes, Progress
<1>6. CopyInBounds' /\ ReadIsSnapshot'
  BY DEF TypeOK, LocalTypes, CopyInBounds, ReadIsSnapshot
<1>7. ResetClears'
  BY DEF TypeOK, LocalTypes, ResetClears
<1> QED
  BY <1>1, <1>2, <1>3, <1>4, <1>5, <1>6, <1>7

\* The mutex goes to a thread that has copied nothing yet.
LEMMA AcquireInv ==
    ASSUME DevInv, NEW t \in Thread, Acquire(t)
    PROVE  DevInv'
<1> USE DEF DevInv, Acquire, Goto, locals
<1>0. dev[t] \in Minor
  BY DEF CallFits
<1>1. TypeOK'
  BY <1>0 DEF TypeOK, Critical
<1>2. LocalTypes'
  BY DEF LocalTypes
<1>3. LockHeldInside'
  BY <1>0, ThreadAssumption DEF TypeOK, LockHeldInside, Critical
<1>4. CallFits'
  BY DEF TypeOK, CallFits
<1>5. Progress'
  BY DEF TypeOK, Progress
<1>6. CopyInBounds' /\ ReadIsSnapshot'
  BY DEF TypeOK, CopyInBounds, ReadIsSnapshot
<1>7. ResetClears'
  BY DEF TypeOK, ResetClears
<1> QED
  BY <1>1, <1>2, <1>3, <1>4, <1>5, <1>6, <1>7

\* A wait that a signal ends, and the kernel's store of the file position.
LEMMA InterruptedInv ==
    ASSUME DevInv, NEW t \in Thread, Interrupted(t)
    PROVE  DevInv'
BY BackInv DEF Interrupted, device, Critical, DevInv, TypeOK

\* The position a writer stores keeps the invariant.
LEMMA StorePositionInv ==
    ASSUME DevInv, NEW t \in Thread, StorePosition(t)
    PROVE  DevInv'
<1>1. pc[t] \notin Critical /\ f_pos' \in [File -> 0 .. BUF_SIZE]
  BY DEF StorePosition, Critical, DevInv, TypeOK
<1> QED
  BY <1>1, BackInv DEF StorePosition, device

\* mutex_unlock.
LEMMA UnlockInv ==
    ASSUME DevInv, NEW t \in Thread, Unlock(t)
    PROVE  DevInv'
<1>1. CASE Back(t)
  BY <1>1, BackInv DEF Unlock, Critical, DevInv, TypeOK
<1>2. CASE ~Back(t)
  <2> USE DEF DevInv
  <2>0. /\ pc[t] = "unlock" /\ pc' = [pc EXCEPT ![t] = "position"]
        /\ lock' = [lock EXCEPT ![dev[t]] = NoThread]
        /\ op[t] \in {"read", "write"} /\ dev[t] \in Minor
        /\ UNCHANGED <<buf, len, since, f_pos, op, dev, file, pos, cnt, val, good,
                       done, out, ret>>
    BY <1>2 DEF Unlock, Goto, locals, CallFits
  <2>1. TypeOK' /\ LocalTypes'
    BY <2>0 DEF TypeOK, LocalTypes
  <2>2. LockHeldInside'
    BY <2>0, ThreadAssumption DEF TypeOK, LockHeldInside, Critical
  <2>3. CallFits' /\ Progress'
    BY <2>0 DEF TypeOK, CallFits, Progress
  <2>4. CopyInBounds' /\ ReadIsSnapshot' /\ ResetClears'
    BY <2>0 DEF TypeOK, CopyInBounds, ReadIsSnapshot, ResetClears
  <2> QED
    BY <2>1, <2>2, <2>3, <2>4
<1> QED
  BY <1>1, <1>2

----------------------------------------------------------------------------
(* The work under the mutex                                                *)

\* An operation that is over and only has to release the mutex.
LEMMA LeaveInv ==
    ASSUME DevInv, NEW t \in Thread, NEW r \in Int,
           pc[t] \in Critical, Leave(t, r),
           UNCHANGED <<device, op, dev, file, cnt, val, good, done, out>>,
           f_pos' \in [File -> 0 .. BUF_SIZE],
           pos' \in [Thread -> 0 .. BUF_SIZE],
           \A u \in Thread : u # t => pos'[u] = pos[u],
           op[t] \notin {"read", "write"} => pos'[t] = pos[t]
    PROVE  DevInv'
<1> USE DEF DevInv, device
<1>0. /\ ret' = [ret EXCEPT ![t] = r]
      /\ \A u \in Thread : u # t => pc'[u] = pc[u]
      /\ pc'[t] = "unlock" /\ pc'[t] \in Critical
      /\ pc' \in [Thread -> Critical \cup {"idle", "lock", "position"}]
  BY DEF Leave, Goto, TypeOK, Critical
<1>1. TypeOK'
  BY <1>0 DEF TypeOK
<1>2. LocalTypes'
  BY DEF LocalTypes
<1>3. LockHeldInside'
  BY <1>0 DEF LockHeldInside
<1>4. CallFits'
  BY <1>0 DEF CallFits, Critical
<1>5. Progress'
  BY <1>0 DEF Progress
<1>6. CopyInBounds' /\ ReadIsSnapshot'
  BY <1>0 DEF CopyInBounds, ReadIsSnapshot
<1>7. ResetClears'
  BY <1>0 DEF ResetClears
<1> QED
  BY <1>1, <1>2, <1>3, <1>4, <1>5, <1>6, <1>7

\* A copy to the reader begins, inside the data.
LEMMA GiveStartInv ==
    ASSUME DevInv, NEW t \in Thread, pc[t] = "enter", op[t] \in {"read", "show"},
           pc' = [pc EXCEPT ![t] = "give"],
           NEW n \in Nat, cnt' = [cnt EXCEPT ![t] = n],
           pos[t] + n <= len[dev[t]],
           UNCHANGED <<device, f_pos, op, dev, file, pos, val, good, done, out, ret>>
    PROVE  DevInv'
<1> USE DEF DevInv, device
<1>0. /\ \A u \in Thread : u # t => pc'[u] = pc[u] /\ cnt'[u] = cnt[u]
      /\ pc'[t] = "give" /\ pc'[t] \in Critical /\ pc[t] \in Critical
      /\ cnt'[t] = n
      /\ pc' \in [Thread -> Critical \cup {"idle", "lock", "position"}]
  BY DEF TypeOK, Critical
<1>1. TypeOK' /\ LocalTypes'
  BY <1>0 DEF TypeOK, LocalTypes
<1>2. LockHeldInside'
  BY <1>0 DEF LockHeldInside
<1>3. CallFits'
  BY <1>0 DEF CallFits
<1>4. Progress'
  BY <1>0 DEF Progress
<1>5. CopyInBounds'
  BY <1>0 DEF CopyInBounds
<1>6. ReadIsSnapshot'
  <2>1. out[t] = <<>>
    BY DEF Progress
  <2> QED
    BY <1>0, <2>1 DEF ReadIsSnapshot
<1>7. ResetClears'
  BY <1>0 DEF ResetClears
<1> QED
  BY <1>1, <1>2, <1>3, <1>4, <1>5, <1>6, <1>7

\* mydev_read: end of file, or what is left from the position on.
LEMMA ReadStartInv ==
    ASSUME DevInv, NEW t \in Thread, ReadStart(t)
    PROVE  DevInv'
<1>1. CASE Leave(t, 0) /\ UNCHANGED cnt
  <2>1. /\ pc[t] \in Critical
        /\ pos \in [Thread -> 0 .. BUF_SIZE] /\ f_pos \in [File -> 0 .. BUF_SIZE]
    BY DEF ReadStart, DevInv, TypeOK, Critical
  <2> QED
    BY <1>1, <2>1, LeaveInv DEF ReadStart
<1>2. CASE pos[t] < len[dev[t]] /\ ~(Leave(t, 0) /\ UNCHANGED cnt)
  <2> DEFINE n == Least(cnt[t], len[dev[t]] - pos[t])
  <2>1. /\ dev[t] \in Minor /\ cnt[t] \in Nat /\ pos[t] \in Nat
        /\ len[dev[t]] \in Nat
    BY DEF ReadStart, DevInv, TypeOK, CallFits
  <2>2. n \in Nat /\ pos[t] + n <= len[dev[t]]
    BY <1>2, <2>1 DEF Least
  <2>3. /\ pc[t] = "enter" /\ op[t] = "read"
        /\ cnt' = [cnt EXCEPT ![t] = n]
        /\ pc' = [pc EXCEPT ![t] = "give"]
        /\ UNCHANGED <<device, f_pos, op, dev, file, pos, val, good, done, out, ret>>
    BY <1>2 DEF ReadStart, Goto
  <2> HIDE DEF n
  <2> QED
    BY <2>2, <2>3, GiveStartInv
<1> QED
  BY <1>1, <1>2 DEF ReadStart

\* data_show prints the data from the start on.
LEMMA ShowStartInv ==
    ASSUME DevInv, NEW t \in Thread, ShowStart(t)
    PROVE  DevInv'
<1> DEFINE n == len[dev[t]]
<1>1. /\ pc[t] = "enter" /\ op[t] = "show"
      /\ cnt' = [cnt EXCEPT ![t] = n]
      /\ pc' = [pc EXCEPT ![t] = "give"]
      /\ UNCHANGED <<device, f_pos, op, dev, file, pos, val, good, done, out, ret>>
  BY DEF ShowStart, Goto
<1>2. n \in 0 .. BUF_SIZE /\ pos[t] = 0
  BY <1>1 DEF DevInv, TypeOK, CallFits
<1>3. n \in Nat /\ pos[t] + n <= len[dev[t]]
  BY <1>2, SizeAssumption
<1> HIDE DEF n
<1> QED
  BY <1>1, <1>3, GiveStartInv

\* One more byte for the reader, from inside the data.
LEMMA GiveByteInv ==
    ASSUME DevInv, NEW t \in Thread, GiveByte(t)
    PROVE  DevInv'
<1> USE DEF DevInv
<1> DEFINE a == pos[t] + Len(out[t])  b == buf[dev[t]][a]
<1>0. /\ pc[t] = "give" /\ Len(out[t]) < cnt[t]
      /\ out' = [out EXCEPT ![t] = Append(out[t], b)]
      /\ UNCHANGED <<device, f_pos, pc, op, dev, file, pos, cnt, val, good, done,
                     ret>>
  BY DEF GiveByte, AtEnd
<1>1. /\ dev[t] \in Minor /\ pos[t] \in Nat /\ cnt[t] \in Nat
      /\ len[dev[t]] \in 0 .. BUF_SIZE
      /\ out[t] \in Seq(Byte) /\ Len(out[t]) \in Nat
      /\ buf[dev[t]] \in [Cell -> Byte]
  BY <1>0 DEF TypeOK, CallFits
<1>2. pos[t] + cnt[t] <= len[dev[t]]
  BY <1>0 DEF CopyInBounds
<1>3. a \in Cell /\ b \in Byte
  <2>1. a \in Cell
    BY <1>0, <1>1, <1>2, SizeAssumption DEF Cell
  <2> QED
    BY <1>1, <2>1
<1>4. out'[t] = Append(out[t], b) /\ \A u \in Thread : u # t => out'[u] = out[u]
  BY <1>0 DEF TypeOK
<1>5. TypeOK'
  <2> HIDE DEF b
  <2>1. out' \in [Thread -> Seq(Byte)]
    BY <1>0, <1>1, <1>3 DEF TypeOK
  <2> QED
    BY <1>0, <2>1 DEF TypeOK, device
<1>6. LocalTypes' /\ LockHeldInside' /\ CallFits' /\ CopyInBounds' /\ ResetClears'
  BY <1>0 DEF LocalTypes, LockHeldInside, CallFits, CopyInBounds, ResetClears,
              device
<1>7. Progress'
  BY <1>0, <1>4 DEF Progress
<1>8. ReadIsSnapshot'
  <2> SUFFICES ASSUME NEW u \in Thread, pc[u] = "give",
                      NEW i \in 1 .. Len(out'[u])
               PROVE  out'[u][i] = buf[dev[u]][pos[u] + i - 1]
    BY <1>0 DEF ReadIsSnapshot, device
  <2>1. CASE u # t
    BY <1>4, <2>1 DEF ReadIsSnapshot
  <2>2. CASE u = t
    <3>1. \A j \in 1 .. Len(out[t]) : out[t][j] = buf[dev[t]][pos[t] + j - 1]
      BY <1>0 DEF ReadIsSnapshot
    <3>2. b = buf[dev[t]][pos[t] + (Len(out[t]) + 1) - 1]
      BY <1>1
    <3> HIDE DEF a, b
    <3>3. /\ Len(out'[t]) = Len(out[t]) + 1
          /\ \A j \in 1 .. Len(out[t]) : out'[t][j] = out[t][j]
          /\ out'[t][Len(out[t]) + 1] = b
      BY <1>1, <1>3, <1>4
    <3>4. i \in 1 .. Len(out[t]) \/ i = Len(out[t]) + 1
      BY <1>1, <2>2, <3>3
    <3> QED
      BY <2>2, <3>1, <3>2, <3>3, <3>4
  <2> QED
    BY <2>1, <2>2
<1> QED
  BY <1>5, <1>6, <1>7, <1>8

\* The end of a copy to the reader, with and without a fault.
LEMMA GiveEndInv ==
    ASSUME DevInv, NEW t \in Thread, GiveEnd(t) \/ GiveFault(t)
    PROVE  DevInv'
<1>1. /\ pc[t] = "give" /\ pc[t] \in Critical /\ dev[t] \in Minor
      /\ pos[t] \in 0 .. BUF_SIZE /\ cnt[t] \in Nat /\ Len(out[t]) \in Nat
      /\ len[dev[t]] \in 0 .. BUF_SIZE
      /\ pos[t] + cnt[t] <= len[dev[t]]
      /\ pos \in [Thread -> 0 .. BUF_SIZE] /\ f_pos \in [File -> 0 .. BUF_SIZE]
  BY DEF GiveEnd, GiveFault, DevInv, TypeOK, CallFits, CopyInBounds, Critical
<1>2. CASE GiveFault(t)
  BY <1>1, <1>2, Zero, LeaveInv DEF GiveFault
<1>3. CASE GiveEnd(t) /\ op[t] = "show"
  BY <1>1, <1>3, LeaveInv DEF GiveEnd
<1>4. CASE GiveEnd(t) /\ op[t] = "read"
  <2>1. pos[t] + cnt[t] \in 0 .. BUF_SIZE
    BY <1>1, SizeAssumption
  <2>2. /\ pos' \in [Thread -> 0 .. BUF_SIZE]
        /\ \A u \in Thread : u # t => pos'[u] = pos[u]
    BY <1>1, <1>4, <2>1 DEF GiveEnd
  <2>3. /\ Leave(t, cnt[t])
        /\ UNCHANGED <<device, f_pos, op, dev, file, cnt, val, good, done, out>>
    BY <1>4 DEF GiveEnd
  <2> QED
    BY <1>1, <1>4, <2>2, <2>3, LeaveInv
<1> QED
  BY <1>2, <1>3, <1>4 DEF GiveEnd

\* llseek and the stats attribute.
LEMMA SeekInv ==
    ASSUME DevInv, NEW t \in Thread, NEW off, SeekStep(t, off)
    PROVE  DevInv'
<1>1. /\ pc[t] \in Critical /\ file[t] \in File
      /\ pos \in [Thread -> 0 .. BUF_SIZE] /\ f_pos \in [File -> 0 .. BUF_SIZE]
  BY DEF SeekStep, DevInv, TypeOK, CallFits, Critical
<1>2. ASSUME NEW n \in 0 .. BUF_SIZE, f_pos' = [f_pos EXCEPT ![file[t]] = n],
             Leave(t, n)
      PROVE  DevInv'
  <2>1. n \in Int /\ f_pos' \in [File -> 0 .. BUF_SIZE]
    BY <1>1, <1>2, SizeAssumption
  <2> QED
    BY <1>1, <1>2, <2>1, LeaveInv DEF SeekStep
<1>3. CASE Leave(t, EINVAL) /\ UNCHANGED f_pos
  BY <1>1, <1>3, Zero, LeaveInv DEF SeekStep
<1> QED
  BY <1>2, <1>3 DEF SeekStep

\* The readers of the statistics keep the invariant.
LEMMA StatsInv ==
    ASSUME DevInv, NEW t \in Thread, StatsStep(t)
    PROVE  DevInv'
<1>1. /\ pc[t] \in Critical /\ len[dev[t]] \in Int
      /\ pos \in [Thread -> 0 .. BUF_SIZE] /\ f_pos \in [File -> 0 .. BUF_SIZE]
  BY SizeAssumption DEF StatsStep, DevInv, TypeOK, CallFits, Critical
<1> QED
  BY <1>1, LeaveInv DEF StatsStep

\* A copy into the buffer begins, inside the buffer; a reset has set the length
\* to zero, which no reader of this device can notice.
LEMMA FillBegins ==
    ASSUME DevInv, NEW t \in Thread, pc[t] = "enter",
           op[t] \in {"write", "store", "reset"},
           pc' = [pc EXCEPT ![t] = "fill"],
           NEW n \in Nat, cnt' = [cnt EXCEPT ![t] = n],
           good' = [good EXCEPT ![t] = n],
           pos[t] + n <= BUF_SIZE,
           op[t] = "reset" => n = BUF_SIZE,
           NEW m \in 0 .. BUF_SIZE, len' = [len EXCEPT ![dev[t]] = m],
           UNCHANGED <<buf, lock, since, f_pos, op, dev, file, pos, val, done, out,
                       ret>>
    PROVE  DevInv'
<1> USE DEF DevInv
<1>0. /\ \A u \in Thread : u # t => /\ pc'[u] = pc[u] /\ cnt'[u] = cnt[u]
                                    /\ good'[u] = good[u]
      /\ pc'[t] = "fill" /\ pc'[t] \in Critical /\ pc[t] \in Critical
      /\ cnt'[t] = n /\ good'[t] = n
      /\ pc' \in [Thread -> Critical \cup {"idle", "lock", "position"}]
      /\ dev[t] \in Minor
      /\ \A d \in Minor : d # dev[t] => len'[d] = len[d]
  BY DEF TypeOK, LocalTypes, CallFits, Critical
<1>1. TypeOK' /\ LocalTypes'
  BY <1>0 DEF TypeOK, LocalTypes
<1>2. LockHeldInside'
  BY <1>0 DEF LockHeldInside
<1>3. CallFits'
  BY <1>0 DEF CallFits
<1>4. Progress'
  BY <1>0 DEF Progress
<1>5. CopyInBounds'
  <2>1. \A u \in Thread : u # t /\ pc[u] = "give" =>
                             dev[u] \in Minor /\ dev[u] # dev[t]
    BY <1>0, Alone DEF CallFits, Critical
  <2> QED
    BY <1>0, <2>1 DEF CopyInBounds
<1>6. ReadIsSnapshot'
  BY <1>0 DEF ReadIsSnapshot
<1>7. ResetClears'
  <2>1. done[t] = 0
    BY DEF Progress
  <2>2. \A a \in Cell : ~(a < 0)
    BY SizeAssumption DEF Cell
  <2> QED
    BY <1>0, <2>1, <2>2 DEF ResetClears
<1> QED
  BY <1>1, <1>2, <1>3, <1>4, <1>5, <1>6, <1>7

\* mydev_write, data_store and reset_store up to their copies.
LEMMA FillStartInv ==
    ASSUME DevInv, NEW t \in Thread, FillStart(t)
    PROVE  DevInv'
<1> DEFINE d == dev[t]
<1>0. /\ pc[t] = "enter"
      /\ UNCHANGED <<buf, lock, since, f_pos, op, dev, file, pos, val, done, out>>
  BY DEF FillStart
<1>1. /\ pc[t] \in Critical /\ d \in Minor
      /\ pos[t] \in 0 .. BUF_SIZE /\ cnt[t] \in Nat /\ BUF_SIZE \in Nat
      /\ len \in [Minor -> 0 .. BUF_SIZE] /\ len[d] \in 0 .. BUF_SIZE
      /\ pos \in [Thread -> 0 .. BUF_SIZE] /\ f_pos \in [File -> 0 .. BUF_SIZE]
      /\ op[t] \notin {"read", "write"} => pos[t] = 0
  BY <1>0, SizeAssumption DEF DevInv, TypeOK, CallFits, Critical
<1>2. CASE Leave(t, ENOSPC) /\ UNCHANGED <<len, cnt, good>>
  BY <1>0, <1>1, <1>2, Zero, LeaveInv DEF device
<1>3. ASSUME NEW n \in Nat, NEW m \in 0 .. BUF_SIZE,
             cnt' = [cnt EXCEPT ![t] = n], good' = [good EXCEPT ![t] = cnt'[t]],
             len' = [len EXCEPT ![d] = m],
             Goto(t, "fill"), UNCHANGED ret,
             op[t] \in {"write", "store", "reset"},
             pos[t] + n <= BUF_SIZE, op[t] = "reset" => n = BUF_SIZE
      PROVE  DevInv'
  <2>1. good' = [good EXCEPT ![t] = n]
    BY <1>3 DEF DevInv, TypeOK
  <2> QED
    BY <1>0, <1>3, <2>1, FillBegins DEF Goto
<1>4. CASE /\ op[t] = "write" /\ pos[t] < BUF_SIZE
           /\ cnt' = [cnt EXCEPT ![t] = Least(cnt[t], BUF_SIZE - pos[t])]
           /\ good' = [good EXCEPT ![t] = cnt'[t]]
           /\ Goto(t, "fill") /\ UNCHANGED <<len, ret>>
  <2> DEFINE n == Least(cnt[t], BUF_SIZE - pos[t])
  <2>1. n \in Nat /\ pos[t] + n <= BUF_SIZE
    BY <1>1, <1>4 DEF Least
  <2>2. len' = [len EXCEPT ![d] = len[d]]
    BY <1>1, <1>4
  <2>3. cnt' = [cnt EXCEPT ![t] = n]
    BY <1>4
  <2> HIDE DEF n
  <2> QED
    BY <1>1, <1>3, <1>4, <2>1, <2>2, <2>3
<1>5. CASE /\ op[t] = "store"
           /\ cnt' = [cnt EXCEPT ![t] = Least(cnt[t], BUF_SIZE)]
           /\ good' = [good EXCEPT ![t] = cnt'[t]]
           /\ Goto(t, "fill") /\ UNCHANGED <<len, ret>>
  <2> DEFINE n == Least(cnt[t], BUF_SIZE)
  <2>1. n \in Nat /\ pos[t] + n <= BUF_SIZE
    BY <1>1, <1>5 DEF Least
  <2>2. len' = [len EXCEPT ![d] = len[d]]
    BY <1>1, <1>5
  <2>3. cnt' = [cnt EXCEPT ![t] = n]
    BY <1>5
  <2> HIDE DEF n
  <2> QED
    BY <1>1, <1>3, <1>5, <2>1, <2>2, <2>3
<1>6. CASE /\ op[t] = "reset"
           /\ len' = [len EXCEPT ![d] = 0]
           /\ cnt' = [cnt EXCEPT ![t] = ResetSize(d)]
           /\ good' = [good EXCEPT ![t] = ResetSize(d)]
           /\ Goto(t, "fill") /\ UNCHANGED ret
  <2>1. pos[t] + BUF_SIZE <= BUF_SIZE /\ 0 \in 0 .. BUF_SIZE
    BY <1>1, <1>6
  <2>2. cnt' = [cnt EXCEPT ![t] = BUF_SIZE] /\ good' = [good EXCEPT ![t] = BUF_SIZE]
    BY <1>6 DEF ResetSize
  <2> QED
    BY <1>0, <1>1, <1>6, <2>1, <2>2, FillBegins DEF Goto
<1> QED
  BY <1>2, <1>4, <1>5, <1>6 DEF FillStart

\* One more byte in the buffer.  Nobody else is inside this device.
LEMMA FillByteInv ==
    ASSUME DevInv, NEW t \in Thread, FillByte(t)
    PROVE  DevInv'
<1> USE DEF DevInv
<1> DEFINE d == dev[t]
           a == pos[t] + done[t]
           b == IF done[t] < good[t] THEN val[t] ELSE 0
<1>0. /\ pc[t] = "fill" /\ done[t] < cnt[t]
      /\ buf' = [buf EXCEPT ![d] = [buf[d] EXCEPT ![a] = b]]
      /\ since' = [since EXCEPT ![d] = since[d] \cup {a}]
      /\ done' = [done EXCEPT ![t] = done[t] + 1]
      /\ UNCHANGED <<len, lock, f_pos, pc, op, dev, file, pos, cnt, val, good, out,
                     ret>>
  BY DEF FillByte
<1>1. /\ d \in Minor /\ pos[t] \in Nat /\ cnt[t] \in Nat /\ done[t] \in Nat
      /\ good[t] \in Nat /\ val[t] \in Byte
      /\ buf \in [Minor -> [Cell -> Byte]] /\ buf[d] \in [Cell -> Byte]
      /\ pos[t] + cnt[t] <= BUF_SIZE
  BY <1>0, SizeAssumption DEF TypeOK, LocalTypes, CallFits, CopyInBounds
<1>2. a \in Cell /\ b \in Byte
  BY <1>0, <1>1, Zero DEF Cell
<1>3. \A u \in Thread : u # t /\ pc[u] \in {"give", "fill"} =>
                           dev[u] \in Minor /\ dev[u] # d
  BY <1>0, Alone DEF CallFits, Critical
<1>4. op[t] = "reset" => pos[t] = 0 /\ b = 0
  BY DEF CallFits
<1> HIDE DEF a, b
<1>5. /\ \A e \in Minor : e # d => buf'[e] = buf[e] /\ since'[e] = since[e]
      /\ \A x \in Cell : x # a => buf'[d][x] = buf[d][x]
      /\ buf'[d][a] = b /\ a \in since'[d]
      /\ since[d] \subseteq since'[d]
      /\ buf' \in [Minor -> [Cell -> Byte]] /\ since' \in [Minor -> SUBSET Cell]
  BY <1>0, <1>1, <1>2 DEF TypeOK
<1>6. /\ done' \in [Thread -> Nat] /\ done'[t] = done[t] + 1
      /\ \A u \in Thread : u # t => done'[u] = done[u]
  BY <1>0, <1>1 DEF LocalTypes
<1>7. TypeOK' /\ LocalTypes'
  BY <1>0, <1>5, <1>6 DEF TypeOK, LocalTypes
<1>8. LockHeldInside' /\ CallFits' /\ CopyInBounds'
  BY <1>0 DEF LockHeldInside, CallFits, CopyInBounds
<1>9. Progress'
  BY <1>0, <1>1, <1>6 DEF Progress
<1>10. ReadIsSnapshot'
  BY <1>0, <1>3, <1>5 DEF ReadIsSnapshot
<1>11. ResetClears'
  <2>1. \A e \in Minor, x \in Cell : buf'[e][x] # 0 => x \in since'[e]
    BY <1>5 DEF ResetClears
  <2>2. ASSUME NEW u \in Thread, pc[u] = "fill", op[u] = "reset"
        PROVE  /\ cnt[u] = BUF_SIZE
               /\ \A x \in Cell : x < done'[u] => buf'[dev[u]][x] = 0
    <3>1. CASE u # t
      BY <1>3, <1>5, <1>6, <2>2, <3>1 DEF ResetClears
    <3>2. CASE u = t
      <4>1. a = done[t] /\ b = 0
        BY <1>1, <1>4, <2>2, <3>2 DEF a
      <4>2. \A x \in Cell : x < done[t] + 1 => x < done[t] \/ x = a
        BY <1>1, <4>1 DEF Cell
      <4> QED
        BY <1>5, <1>6, <2>2, <3>2, <4>1, <4>2 DEF ResetClears
    <3> QED
      BY <3>1, <3>2
  <2> QED
    BY <1>0, <2>1, <2>2 DEF ResetClears
<1> QED
  BY <1>7, <1>8, <1>9, <1>10, <1>11

\* copy_from_user meets an unmapped page.
LEMMA FillFaultInv ==
    ASSUME DevInv, NEW t \in Thread, FillFault(t)
    PROVE  DevInv'
<1> USE DEF DevInv, FillFault, device
<1>1. TypeOK' /\ LocalTypes'
  BY DEF TypeOK, LocalTypes
<1>2. LockHeldInside' /\ CallFits' /\ CopyInBounds' /\ ReadIsSnapshot' /\ ResetClears'
  BY DEF LockHeldInside, CallFits, CopyInBounds, ReadIsSnapshot, ResetClears
<1>3. Progress'
  BY DEF TypeOK, LocalTypes, Progress
<1> QED
  BY <1>1, <1>2, <1>3

\* A copy into the buffer is over and has set the length.
LEMMA FillLeaves ==
    ASSUME DevInv, NEW t \in Thread, pc[t] = "fill", NEW r \in Int, Leave(t, r),
           NEW m \in 0 .. BUF_SIZE, len' = [len EXCEPT ![dev[t]] = m],
           pos' \in [Thread -> 0 .. BUF_SIZE],
           \A u \in Thread : u # t => pos'[u] = pos[u],
           op[t] \notin {"read", "write"} => pos'[t] = pos[t],
           \/ since' = since
           \/ /\ since' = [since EXCEPT ![dev[t]] = {}]
              /\ \A a \in Cell : buf[dev[t]][a] = 0,
           UNCHANGED <<buf, lock, f_pos, op, dev, file, cnt, val, good, done, out>>
    PROVE  DevInv'
<1> USE DEF DevInv
<1>0. /\ ret' = [ret EXCEPT ![t] = r]
      /\ \A u \in Thread : u # t => pc'[u] = pc[u]
      /\ pc'[t] = "unlock" /\ pc'[t] \in Critical /\ pc[t] \in Critical
      /\ pc' \in [Thread -> Critical \cup {"idle", "lock", "position"}]
      /\ dev[t] \in Minor
      /\ \A d \in Minor : d # dev[t] => len'[d] = len[d]
  BY DEF Leave, Goto, TypeOK, CallFits, Critical
<1>1. TypeOK'
  <2>1. since' \in [Minor -> SUBSET Cell] /\ len' \in [Minor -> 0 .. BUF_SIZE]
    BY <1>0 DEF TypeOK
  <2> QED
    BY <1>0, <2>1 DEF TypeOK
<1>2. LocalTypes'
  BY DEF LocalTypes
<1>3. LockHeldInside'
  BY <1>0 DEF LockHeldInside
<1>4. CallFits'
  BY <1>0 DEF CallFits
<1>5. Progress'
  BY <1>0 DEF Progress
<1>6. CopyInBounds'
  <2>1. \A u \in Thread : u # t /\ pc[u] = "give" =>
                             dev[u] \in Minor /\ dev[u] # dev[t]
    BY <1>0, Alone DEF CallFits, Critical
  <2> QED
    BY <1>0, <2>1 DEF CopyInBounds
<1>7. ReadIsSnapshot'
  BY <1>0 DEF ReadIsSnapshot
<1>8. ResetClears'
  <2>1. \A d \in Minor, a \in Cell : buf[d][a] # 0 => a \in since'[d]
    BY <1>0 DEF ResetClears, TypeOK
  <2> QED
    BY <1>0, <2>1 DEF ResetClears
<1> QED
  BY <1>1, <1>2, <1>3, <1>4, <1>5, <1>6, <1>7, <1>8

\* The ends of mydev_write, data_store and reset_store.
LEMMA FillEndInv ==
    ASSUME DevInv, NEW t \in Thread, FillEnd(t)
    PROVE  DevInv'
<1> DEFINE d == dev[t]
<1>0. /\ pc[t] = "fill" /\ done[t] = cnt[t]
      /\ UNCHANGED <<buf, lock, f_pos, op, dev, file, cnt, val, good, done, out>>
  BY DEF FillEnd
<1>1. /\ d \in Minor /\ pos[t] \in 0 .. BUF_SIZE /\ cnt[t] \in Nat
      /\ BUF_SIZE \in Nat /\ pos[t] + cnt[t] <= BUF_SIZE
      /\ len \in [Minor -> 0 .. BUF_SIZE] /\ len[d] \in 0 .. BUF_SIZE
      /\ pos \in [Thread -> 0 .. BUF_SIZE]
      /\ op[t] \notin {"read", "write"} => pos[t] = 0
      /\ [len EXCEPT ![d] = len[d]] = len
  BY <1>0, SizeAssumption DEF DevInv, TypeOK, CallFits, CopyInBounds
<1>2. CASE Leave(t, EFAULT) /\ UNCHANGED <<len, since, pos>>
  BY <1>0, <1>1, <1>2, Zero, FillLeaves
<1>3. CASE /\ op[t] = "write"
           /\ pos' = [pos EXCEPT ![t] = pos[t] + cnt[t]]
           /\ len' = [len EXCEPT ![d] = IF len[d] < pos'[t] THEN pos'[t] ELSE len[d]]
           /\ Leave(t, cnt[t]) /\ UNCHANGED since
  <2> DEFINE m == IF len[d] < pos'[t] THEN pos'[t] ELSE len[d]
  <2>1. pos[t] + cnt[t] \in 0 .. BUF_SIZE
    BY <1>1
  <2>2. /\ pos'[t] \in 0 .. BUF_SIZE /\ pos' \in [Thread -> 0 .. BUF_SIZE]
        /\ \A u \in Thread : u # t => pos'[u] = pos[u]
    BY <1>1, <1>3, <2>1
  <2>3. m \in 0 .. BUF_SIZE /\ len' = [len EXCEPT ![d] = m]
    BY <1>1, <1>3, <2>2
  <2> HIDE DEF m
  <2>4. cnt[t] \in Int /\ op[t] \in {"read", "write"}
    BY <1>1, <1>3
  <2>5. ~(op[t] \notin {"read", "write"}) /\ Leave(t, cnt[t]) /\ since' = since
    BY <1>3, <2>4
  <2> QED
    BY <1>0, <2>2, <2>3, <2>4, <2>5, FillLeaves, Zenon
<1>4. CASE /\ op[t] = "store"
           /\ len' = [len EXCEPT ![d] = cnt[t]]
           /\ Leave(t, cnt[t]) /\ UNCHANGED <<since, pos>>
  <2>1. cnt[t] \in 0 .. BUF_SIZE
    BY <1>1
  <2>2. cnt[t] \in Int /\ Leave(t, cnt[t]) /\ since' = since /\ pos' = pos
        /\ len' = [len EXCEPT ![d] = cnt[t]]
    BY <1>1, <1>4
  <2>3. pos' \in [Thread -> 0 .. BUF_SIZE] /\ pos'[t] = pos[t]
        /\ \A u \in Thread : u # t => pos'[u] = pos[u]
    BY <1>1, <2>2
  <2> QED
    BY <1>0, <2>1, <2>2, <2>3, FillLeaves, Zenon
<1>5. CASE /\ op[t] = "reset"
           /\ since' = [since EXCEPT ![d] = {}]
           /\ Leave(t, 0) /\ UNCHANGED <<len, pos>>
  <2>1. \A a \in Cell : buf[d][a] = 0
    <3>1. done[t] = BUF_SIZE /\ \A a \in Cell : a < done[t] => buf[d][a] = 0
      BY <1>0, <1>5 DEF DevInv, ResetClears
    <3>2. \A a \in Cell : a < BUF_SIZE
      BY <1>1 DEF Cell
    <3> QED
      BY <3>1, <3>2
  <2>2. /\ 0 \in Int /\ len[d] \in 0 .. BUF_SIZE /\ Leave(t, 0)
        /\ since' = [since EXCEPT ![d] = {}] /\ pos' = pos
        /\ len' = [len EXCEPT ![d] = len[d]]
    BY <1>1, <1>5
  <2>3. pos' \in [Thread -> 0 .. BUF_SIZE] /\ pos'[t] = pos[t]
        /\ \A u \in Thread : u # t => pos'[u] = pos[u]
    BY <1>1, <2>2
  <2> QED
    BY <1>0, <2>1, <2>2, <2>3, FillLeaves, Zenon
<1> QED
  BY <1>2, <1>3, <1>4, <1>5 DEF FillEnd

----------------------------------------------------------------------------
\* Every step preserves the invariant.
LEMMA NextDevInv == DevInv /\ [Next]_vars => DevInv'
<1> SUFFICES ASSUME DevInv, [Next]_vars PROVE DevInv'
  OBVIOUS
<1>1. CASE UNCHANGED vars
  BY <1>1 DEF vars, device, locals, DevInv, TypeOK, LocalTypes, LockHeldInside,
              CallFits, Progress, CopyInBounds, ReadIsSnapshot, ResetClears
<1>2. ASSUME NEW t \in Thread, Step(t) PROVE DevInv'
  BY <1>2, ReadStartInv, ShowStartInv, GiveByteInv, GiveEndInv, FillStartInv,
     FillByteInv, FillEndInv, SeekInv, StatsInv, UnlockInv, StorePositionInv
     DEF Step
<1> QED
  BY <1>1, <1>2, CallInv, AcquireInv, InterruptedInv, GiveEndInv, FillFaultInv
     DEF Next

\* The invariant holds in every reachable state.
THEOREM DevInvariance == Spec => []DevInv
BY InitDevInv, NextDevInv, PTL DEF Spec

\* Lengths and file positions stay within the buffer.
THEOREM DevTypeCorrect == Spec => []TypeOK
<1>1. DevInv => TypeOK
  BY DEF DevInv
<1> QED
  BY <1>1, DevInvariance, PTL

\* A copy that has begun stays inside the data, or inside the buffer, to its end.
THEOREM CopiesInBounds == Spec => []CopyInBounds
<1>1. DevInv => CopyInBounds
  BY DEF DevInv
<1> QED
  BY <1>1, DevInvariance, PTL

\* read and data_show hand out the bytes of one moment.
THEOREM ReadsAreSnapshots == Spec => []ReadIsSnapshot
<1>1. DevInv => ReadIsSnapshot
  BY DEF DevInv
<1> QED
  BY <1>1, DevInvariance, PTL

\* What was written before a reset_store cannot be read after it.
THEOREM ResetsForget == Spec => []ResetForgets
<1>1. DevInv => ResetForgets
  BY DEF DevInv, ResetClears, ResetForgets
<1> QED
  BY <1>1, DevInvariance, PTL
============================================================================
