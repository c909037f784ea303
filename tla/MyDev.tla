------------------------------- MODULE MyDev -------------------------------
(***************************************************************************)
(* The driver of 010_multi_char_driver/driver.c: several character devices *)
(* with a buffer, a length and a mutex each, used through file operations  *)
(* and through the sysfs attributes data, stats and reset.                 *)
(*                                                                         *)
(* read, write and llseek work at a file position.  The kernel hands read  *)
(* and write a copy of it, taken before the driver's mutex is, and stores  *)
(* the copy back after the driver has returned; files are character        *)
(* devices, so nothing serialises two threads that share one.              *)
(***************************************************************************)
EXTENDS Integers, Sequences

CONSTANTS
    Thread,    \* processes and threads
    NoThread,
    Minor,     \* the devices: MYDEV_COUNT of them
    File,      \* open files
    DevOf,     \* the device each file is open on (private_data)
    BUF_SIZE,
    Payload,   \* the non-zero bytes that are written
    Counts,    \* byte counts passed
    Seeks,     \* offsets passed to llseek
    Ops        \* the operations used

AllOps == {"read", "write", "seek", "show", "store", "stats", "reset"}

ASSUME ThreadAssumption == NoThread \notin Thread
ASSUME DeviceAssumption == DevOf \in [File -> Minor]
ASSUME SizeAssumption   == BUF_SIZE \in Nat \ {0} /\ Counts \subseteq Nat
                           /\ Seeks \subseteq Int /\ Payload \subseteq Nat \ {0}
ASSUME OpsAssumption    == Ops \subseteq AllOps

EFAULT == -14
EINVAL == -22
ENOSPC == -28

Cell == 0 .. BUF_SIZE - 1
Byte == Payload \cup {0}
Least(a, b) == IF a < b THEN a ELSE b

\* What the locals of a thread that makes no call hold.
FirstDev  == CHOOSE d \in Minor : TRUE
FirstFile == CHOOSE f \in File : TRUE

VARIABLES
    buf, len,  \* contents and length of each device
    lock,      \* the thread that holds each device's mutex
    f_pos,     \* the position of each file
    pc,        \* where each thread is
    op, dev,   \* the operation it makes, on which device
    file,      \* the file it uses (read, write, llseek)
    pos, cnt,  \* the locals *ppos and count
    val,       \* the byte it writes
    good,      \* how many bytes its copy_from_user can fetch
    done,      \* bytes copied so far
    out,       \* bytes given to the reader
    ret,       \* the value returned
    since      \* history: cells stored to since the device was last reset

device == <<buf, len, lock, since>>
locals == <<op, dev, file, pos, cnt, val, good, done, out, ret>>
vars   == <<device, f_pos, pc, locals>>

Init ==
    /\ buf = [d \in Minor |-> [a \in Cell |-> 0]]
    /\ len = [d \in Minor |-> 0]
    /\ lock = [d \in Minor |-> NoThread]
    /\ f_pos = [f \in File |-> 0]
    /\ pc = [t \in Thread |-> "idle"]
    /\ op = [t \in Thread |-> "none"]
    /\ dev = [t \in Thread |-> FirstDev]
    /\ file = [t \in Thread |-> FirstFile]
    /\ pos = [t \in Thread |-> 0]
    /\ cnt = [t \in Thread |-> 0]
    /\ val = [t \in Thread |-> 0]
    /\ good = [t \in Thread |-> 0]
    /\ done = [t \in Thread |-> 0]
    /\ out = [t \in Thread |-> <<>>]
    /\ ret = [t \in Thread |-> 0]
    /\ since = [d \in Minor |-> {}]

Goto(t, label) == pc' = [pc EXCEPT ![t] = label]

\* The thread is back in user space; its locals and the value it returned are
\* gone.
Back(t) ==
    /\ Goto(t, "idle")
    /\ op' = [op EXCEPT ![t] = "none"]
    /\ pos' = [pos EXCEPT ![t] = 0]
    /\ cnt' = [cnt EXCEPT ![t] = 0]
    /\ val' = [val EXCEPT ![t] = 0]
    /\ good' = [good EXCEPT ![t] = 0]
    /\ done' = [done EXCEPT ![t] = 0]
    /\ out' = [out EXCEPT ![t] = <<>>]
    /\ ret' = [ret EXCEPT ![t] = 0]
    /\ dev' = [dev EXCEPT ![t] = FirstDev]
    /\ file' = [file EXCEPT ![t] = FirstFile]

----------------------------------------------------------------------------
(* Entry, the device's mutex, exit                                         *)

\* A call of operation o on device d with n bytes of value v, at position q.
Enter(t, o, d, n, v, q) ==
    /\ o \in Ops
    /\ pc[t] = "idle"
    /\ op' = [op EXCEPT ![t] = o]
    /\ dev' = [dev EXCEPT ![t] = d]
    /\ pos' = [pos EXCEPT ![t] = q]
    /\ cnt' = [cnt EXCEPT ![t] = n]
    /\ val' = [val EXCEPT ![t] = v]
    /\ ret' = [ret EXCEPT ![t] = 0]
    /\ Goto(t, "lock")
    /\ UNCHANGED <<device, f_pos, good, done, out>>

\* read, write and llseek on an open file.
FileCall(t, f, n, v) ==
    /\ file' = [file EXCEPT ![t] = f]
    /\ \/ Enter(t, "read", DevOf[f], n, 0, f_pos[f])
       \/ Enter(t, "write", DevOf[f], n, v, f_pos[f])
       \/ Enter(t, "seek", DevOf[f], 0, 0, 0)

\* An attribute is read or written.
SysfsCall(t, d, n, v) ==
    /\ \/ Enter(t, "store", d, n, v, 0)
       \/ \E o \in {"show", "stats", "reset"} : Enter(t, o, d, 0, 0, 0)
    /\ UNCHANGED file

\* Faulty variant: the mutex is taken for granted.
AcquireBusy(t) ==
    /\ pc[t] = "lock"
    /\ lock' = [lock EXCEPT ![dev[t]] = t]
    /\ Goto(t, "enter")
    /\ UNCHANGED <<buf, len, since, f_pos, locals>>

Acquire(t) ==
    /\ pc[t] = "lock"
    /\ lock[dev[t]] = NoThread
    /\ lock' = [lock EXCEPT ![dev[t]] = t]
    /\ Goto(t, "enter")
    /\ UNCHANGED <<buf, len, since, f_pos, locals>>

\* Every operation waits with mutex_lock_interruptible and returns -ERESTARTSYS
\* when a signal ends the wait.
Interrupted(t) ==
    /\ pc[t] = "lock"
    /\ lock[dev[t]] # NoThread
    /\ Back(t)
    /\ UNCHANGED <<device, f_pos>>

\* Faulty variant: an error path returns with the mutex held.
UnlockForgotten(t) ==
    /\ pc[t] = "unlock"
    /\ lock' = [lock EXCEPT ![dev[t]] = IF ret[t] < 0 THEN @ ELSE NoThread]
    /\ Back(t)
    /\ UNCHANGED <<buf, len, since, f_pos>>

\* mutex_unlock.  After a read or a write that did not fail, the kernel goes on
\* to store the position.
Unlock(t) ==
    /\ pc[t] = "unlock"
    /\ lock' = [lock EXCEPT ![dev[t]] = NoThread]
    /\ \/ /\ op[t] \in {"read", "write"} /\ ret[t] >= 0
          /\ Goto(t, "position")
          /\ UNCHANGED locals
       \/ /\ ~(op[t] \in {"read", "write"} /\ ret[t] >= 0)
          /\ Back(t)
    /\ UNCHANGED <<buf, len, since, f_pos>>

StorePosition(t) ==
    /\ pc[t] = "position"
    /\ f_pos' = [f_pos EXCEPT ![file[t]] = pos[t]]
    /\ Back(t)
    /\ UNCHANGED device

\* The operation is over: r is returned once the mutex is released.
Leave(t, r) ==
    /\ ret' = [ret EXCEPT ![t] = r]
    /\ Goto(t, "unlock")

----------------------------------------------------------------------------
(* mydev_read and data_show                                                *)

\* End of file, or the copy of what is left of the buffer.
ReadStart(t) ==
    LET d == dev[t] IN
    /\ pc[t] = "enter" /\ op[t] = "read"
    /\ \/ pos[t] >= len[d] /\ Leave(t, 0) /\ UNCHANGED cnt
       \/ /\ pos[t] < len[d]
          /\ cnt' = [cnt EXCEPT ![t] = Least(@, len[d] - pos[t])]
          /\ Goto(t, "give")
          /\ UNCHANGED ret
    /\ UNCHANGED <<device, f_pos, op, dev, file, pos, val, good, done, out>>

\* data_show prints at most len bytes.
ShowStart(t) ==
    /\ pc[t] = "enter" /\ op[t] = "show"
    /\ cnt' = [cnt EXCEPT ![t] = len[dev[t]]]
    /\ Goto(t, "give")
    /\ UNCHANGED <<device, f_pos, op, dev, file, pos, val, good, done, out, ret>>

\* "%.*s" ends before a NUL byte, copy_to_user does not.
AtEnd(t) ==
    Len(out[t]) < cnt[t] => op[t] = "show" /\ buf[dev[t]][Len(out[t])] = 0

GiveByte(t) ==
    /\ pc[t] = "give"
    /\ ~AtEnd(t)
    /\ out' = [out EXCEPT ![t] = Append(@, buf[dev[t]][pos[t] + Len(@)])]
    /\ UNCHANGED <<device, f_pos, pc, op, dev, file, pos, cnt, val, good, done,
                   ret>>

\* The position moves on; data_show adds a newline.
GiveEnd(t) ==
    /\ pc[t] = "give"
    /\ AtEnd(t)
    /\ \/ /\ op[t] = "read"
          /\ pos' = [pos EXCEPT ![t] = @ + cnt[t]]
          /\ Leave(t, cnt[t])
       \/ op[t] = "show" /\ Leave(t, Len(out[t]) + 1) /\ UNCHANGED pos
    /\ UNCHANGED <<device, f_pos, op, dev, file, cnt, val, good, done, out>>

GiveFault(t) ==
    /\ pc[t] = "give" /\ op[t] = "read"
    /\ ~AtEnd(t)
    /\ Leave(t, EFAULT)
    /\ UNCHANGED <<device, f_pos, op, dev, file, pos, cnt, val, good, done, out>>

----------------------------------------------------------------------------
(* mydev_write, data_store and reset_store                                 *)

\* Faulty variant: only the bytes up to the length are cleared.
ResetLenOnly(d) == len[d]

\* The bytes reset_store clears.
ResetSize(d) == BUF_SIZE

\* The three ways to fill the buffer; reset_store sets the length first.
FillStart(t) ==
    LET d == dev[t] IN
    /\ pc[t] = "enter"
    /\ \/ /\ op[t] = "write" /\ pos[t] >= BUF_SIZE
          /\ Leave(t, ENOSPC)
          /\ UNCHANGED <<len, cnt, good>>
       \/ /\ op[t] = "write" /\ pos[t] < BUF_SIZE
          /\ cnt' = [cnt EXCEPT ![t] = Least(@, BUF_SIZE - pos[t])]
          /\ good' = [good EXCEPT ![t] = cnt'[t]]
          /\ Goto(t, "fill")
          /\ UNCHANGED <<len, ret>>
       \/ /\ op[t] = "store"
          /\ cnt' = [cnt EXCEPT ![t] = Least(@, BUF_SIZE)]
          /\ good' = [good EXCEPT ![t] = cnt'[t]]
          /\ Goto(t, "fill")
          /\ UNCHANGED <<len, ret>>
       \/ /\ op[t] = "reset"
          /\ len' = [len EXCEPT ![d] = 0]
          /\ cnt' = [cnt EXCEPT ![t] = ResetSize(d)]
          /\ good' = [good EXCEPT ![t] = ResetSize(d)]
          /\ Goto(t, "fill")
          /\ UNCHANGED ret
    /\ UNCHANGED <<buf, lock, since, f_pos, op, dev, file, pos, val, done, out>>

\* One byte of copy_from_user, memcpy or memset; after a fault copy_from_user
\* fills up with zeroes.
FillByte(t) ==
    LET d == dev[t]
        a == pos[t] + done[t]
    IN
    /\ pc[t] = "fill"
    /\ done[t] < cnt[t]
    /\ buf' = [buf EXCEPT ![d][a] = IF done[t] < good[t] THEN val[t] ELSE 0]
    /\ since' = [since EXCEPT ![d] = @ \cup {a}]
    /\ done' = [done EXCEPT ![t] = @ + 1]
    /\ UNCHANGED <<len, lock, f_pos, pc, op, dev, file, pos, cnt, val, good, out,
                   ret>>

FillFault(t) ==
    /\ pc[t] = "fill" /\ op[t] = "write"
    /\ done[t] < cnt[t]
    /\ good[t] = cnt[t]
    /\ good' = [good EXCEPT ![t] = done[t]]
    /\ UNCHANGED <<device, f_pos, pc, op, dev, file, pos, cnt, val, done, out, ret>>

FillEnd(t) ==
    LET d == dev[t] IN
    /\ pc[t] = "fill"
    /\ done[t] = cnt[t]
    /\ \/ /\ op[t] = "write" /\ good[t] < cnt[t]
          /\ Leave(t, EFAULT)
          /\ UNCHANGED <<len, since, pos>>
       \/ /\ op[t] = "write" /\ good[t] = cnt[t]
          /\ pos' = [pos EXCEPT ![t] = @ + cnt[t]]
          /\ len' = [len EXCEPT ![d] = IF @ < pos'[t] THEN pos'[t] ELSE @]
          /\ Leave(t, cnt[t])
          /\ UNCHANGED since
       \/ /\ op[t] = "store"
          /\ len' = [len EXCEPT ![d] = cnt[t]]
          /\ Leave(t, cnt[t])
          /\ UNCHANGED <<since, pos>>
       \/ /\ op[t] = "reset"
          /\ since' = [since EXCEPT ![d] = {}]
          /\ Leave(t, 0)
          /\ UNCHANGED <<len, pos>>
    /\ UNCHANGED <<buf, lock, f_pos, op, dev, file, cnt, val, good, done, out>>

----------------------------------------------------------------------------
(* mydev_llseek and stats_show                                             *)

\* The positions that SEEK_SET, SEEK_CUR and SEEK_END ask for.
Targets(t, off) == {off, f_pos[file[t]] + off, len[dev[t]] + off}

\* A new position inside the buffer, or -EINVAL (an unknown whence as well).
SeekStep(t, off) ==
    /\ pc[t] = "enter" /\ op[t] = "seek"
    /\ \/ \E n \in Targets(t, off) \cap (0 .. BUF_SIZE) :
             /\ f_pos' = [f_pos EXCEPT ![file[t]] = n]
             /\ Leave(t, n)
       \/ Leave(t, EINVAL) /\ UNCHANGED f_pos
    /\ UNCHANGED <<device, op, dev, file, pos, cnt, val, good, done, out>>

StatsStep(t) ==
    /\ pc[t] = "enter" /\ op[t] = "stats"
    /\ Leave(t, len[dev[t]])
    /\ UNCHANGED <<device, f_pos, op, dev, file, pos, cnt, val, good, done, out>>

----------------------------------------------------------------------------
Call(t) ==
    \E n \in Counts, v \in Payload :
        \/ \E f \in File : FileCall(t, f, n, v)
        \/ \E d \in Minor : SysfsCall(t, d, n, v)

Step(t) ==
    \/ ReadStart(t) \/ ShowStart(t) \/ GiveByte(t) \/ GiveEnd(t)
    \/ FillStart(t) \/ FillByte(t) \/ FillEnd(t)
    \/ (\E off \in Seeks : SeekStep(t, off)) \/ StatsStep(t)
    \/ Unlock(t) \/ StorePosition(t)

Next == \E t \in Thread :
    \/ Call(t) \/ Acquire(t) \/ Step(t)
    \/ Interrupted(t) \/ GiveFault(t) \/ FillFault(t)

\* A runnable thread runs; a waiter for a mutex is not overtaken for ever.
Fairness == \A t \in Thread : WF_vars(Step(t)) /\ SF_vars(Acquire(t))

Spec == Init /\ [][Next]_vars /\ Fairness

----------------------------------------------------------------------------
(* Properties                                                              *)

\* The control points at which a thread holds its device's mutex.
Critical == {"enter", "give", "fill", "unlock"}

\* Lengths and file positions stay within the buffer, whatever is written,
\* stored, reset or sought for.
TypeOK ==
    /\ buf \in [Minor -> [Cell -> Byte]]
    /\ len \in [Minor -> 0 .. BUF_SIZE]
    /\ lock \in [Minor -> Thread \cup {NoThread}]
    /\ f_pos \in [File -> 0 .. BUF_SIZE]
    /\ pc \in [Thread -> Critical \cup {"idle", "lock", "position"}]
    /\ pos \in [Thread -> 0 .. BUF_SIZE]
    /\ cnt \in [Thread -> Nat]
    /\ out \in [Thread -> Seq(Byte)]
    /\ ret \in [Thread -> Int]
    /\ since \in [Minor -> SUBSET Cell]

\* A copy that has begun stays inside the data: a store or a reset of another
\* thread cannot shorten them under a read, nor does a write leave the buffer.
CopyInBounds ==
    \A t \in Thread :
        /\ pc[t] = "give" => pos[t] + cnt[t] <= len[dev[t]]
        /\ pc[t] = "fill" => pos[t] + cnt[t] <= BUF_SIZE

\* What read and data_show hand out was in the buffer at one moment.
ReadIsSnapshot ==
    \A t \in Thread : pc[t] = "give" =>
        \A i \in 1 .. Len(out[t]) : out[t][i] = buf[dev[t]][pos[t] + i - 1]

\* After reset_store, whatever was written before it cannot be read again, also
\* through the gap a later write beyond the length leaves: a byte that is not
\* zero was stored after the reset.
ResetForgets ==
    \A d \in Minor : lock[d] = NoThread =>
        \A a \in Cell : buf[d][a] # 0 => a \in since[d]

\* Every operation returns.
CallsReturn == \A t \in Thread : pc[t] # "idle" ~> pc[t] = "idle"
============================================================================
