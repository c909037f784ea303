---------------------------- MODULE KeypadQueue ----------------------------
(***************************************************************************)
(* /dev/keypadDev of 002_char_keypad_driver: the circular queue of         *)
(* queue_kernel.c, the event functions of keypad_helper_kernel.c on top of *)
(* it, and the file operations of key_kernel.c that call them.             *)
(*                                                                         *)
(* enqueue and dequeue hold the queue's spinlock; every access they make   *)
(* to the queue is a step of its own, because queue_empty resets the       *)
(* indices without the lock.  A compiler may keep a field it has loaded in *)
(* a register or load it again, and may order the three stores of the      *)
(* reset as it likes: the model allows each.                               *)
(***************************************************************************)
EXTENDS Integers, Sequences

CONSTANTS
    Thread,      \* processes that use the device
    NoThread,
    QUEUE_SIZE,  \* 64 in the code
    CountMax,    \* the largest value of the int "count"
    Key,         \* characters
    Nul,         \* the character in memory that was never written
    Keymap,      \* module parameter: keys queued when the module is loaded
    Calls        \* the calls processes make: subset of {"enq", "deq", "clr"}

ASSUME ThreadAssumption == NoThread \notin Thread
ASSUME QueueAssumption  == /\ QUEUE_SIZE \in Nat \ {0}
                           /\ CountMax \in Nat /\ CountMax > QUEUE_SIZE
ASSUME KeyAssumption    == /\ Keymap \in Seq(Key)
                           /\ Nul \notin Key
                           /\ Calls \subseteq {"enq", "deq", "clr"}

EFAULT == -14
Char   == Key \cup {Nul}
Slots  == 0 .. QUEUE_SIZE - 1
Counts == -CountMax - 1 .. CountMax

\* int arithmetic wraps around.
Wrap(n) == IF n > CountMax THEN -CountMax - 1
           ELSE IF n < -CountMax - 1 THEN CountMax ELSE n

VARIABLES
    items, front, rear, count,  \* the queue
    lock,                       \* the thread that holds the spinlock
    pc,                         \* where each thread is
    op,                         \* the call it makes
    val,                        \* the character it puts or gets
    seen,                       \* front, rear and count as it first loaded them
    ret,                        \* what enqueue or dequeue returns
    todo                        \* stores of the reset still to be made

queue  == <<items, front, rear, count>>
locals == <<op, val, seen, ret, todo>>
vars   == <<queue, lock, pc, locals>>

Fields == {"front", "rear", "count"}
NoneSeen == [front |-> 0, rear |-> 0, count |-> 0]

\* keypad_init: queue_init, then one enqueue per character of keymap.
Loaded == IF Len(Keymap) < QUEUE_SIZE THEN Len(Keymap) ELSE QUEUE_SIZE

Init ==
    /\ items = [i \in Slots |-> IF i < Loaded THEN Keymap[i + 1] ELSE Nul]
    /\ front = 0
    /\ rear = Loaded % QUEUE_SIZE
    /\ count = Loaded
    /\ lock = NoThread
    /\ pc = [t \in Thread |-> "idle"]
    /\ op = [t \in Thread |-> "none"]
    /\ val = [t \in Thread |-> Nul]
    /\ seen = [t \in Thread |-> NoneSeen]
    /\ ret = [t \in Thread |-> 0]
    /\ todo = [t \in Thread |-> {}]

Goto(t, label) == pc' = [pc EXCEPT ![t] = label]

\* The file operation returns r; its locals are gone.
Return(t, r) ==
    /\ Goto(t, "idle")
    /\ op' = [op EXCEPT ![t] = "none"]
    /\ val' = [val EXCEPT ![t] = Nul]
    /\ ret' = [ret EXCEPT ![t] = r]

----------------------------------------------------------------------------
(* key_kernel.c                                                            *)

\* device_write has fetched the key k; device_read and the ioctl CLEAR_BUF start
\* with an uninitialized character k.
Begin(t, call, k) ==
    /\ call \in Calls
    /\ call = "enq" => k \in Key
    /\ pc[t] = "idle"
    /\ op' = [op EXCEPT ![t] = call]
    /\ val' = [val EXCEPT ![t] = k]
    /\ Goto(t, "lock")
    /\ UNCHANGED <<queue, lock, seen, ret, todo>>

\* copy_from_user of device_write fails.
WriteFault(t) ==
    /\ "enq" \in Calls
    /\ pc[t] = "idle"
    /\ ret' = [ret EXCEPT ![t] = EFAULT]
    /\ UNCHANGED <<queue, lock, pc, op, val, seen, todo>>

\* device_read hands its character to the user, or meets a fault: the key has
\* left the queue in both cases.  Whether dequeue found one is not looked at.
Give(t) ==
    /\ pc[t] = "give"
    /\ \E r \in {1, EFAULT} : Return(t, r)
    /\ UNCHANGED <<queue, lock, seen, todo>>

----------------------------------------------------------------------------
(* enqueue and dequeue; queue_empty calls dequeue                          *)

\* Faulty variant: the queue is entered without the lock.
SpinLockBusy(t) ==
    /\ pc[t] = "lock"
    /\ lock' = t
    /\ Goto(t, "check")
    /\ UNCHANGED <<queue, locals>>

SpinLock(t) ==
    /\ pc[t] = "lock"
    /\ lock = NoThread
    /\ lock' = t
    /\ Goto(t, "check")
    /\ UNCHANGED <<queue, locals>>

\* Full for enqueue, empty for dequeue: -1, and nothing else is done.
Refused(t) == IF op[t] = "enq" THEN count = QUEUE_SIZE ELSE count = 0

\* Faulty variant: a full or empty queue is left without unlocking it.
CheckLeaks(t) ==
    /\ pc[t] = "check"
    /\ \/ Refused(t) /\ Return(t, -1)
       \/ ~Refused(t) /\ Goto(t, "item") /\ UNCHANGED <<op, val, ret>>
    /\ UNCHANGED <<queue, lock, seen, todo>>

Check(t) ==
    /\ pc[t] = "check"
    /\ seen' = [seen EXCEPT ![t] = [front |-> front, rear |-> rear,
                                    count |-> count]]
    /\ \/ /\ Refused(t)
          /\ ret' = [ret EXCEPT ![t] = -1]
          /\ Goto(t, "unlock")
       \/ /\ ~Refused(t)
          /\ ret' = [ret EXCEPT ![t] = 0]
          /\ Goto(t, "item")
    /\ UNCHANGED <<queue, lock, op, val, todo>>

\* items[rear] = item, or *item = items[front].
Item(t) ==
    /\ pc[t] = "item"
    /\ \/ /\ op[t] = "enq"
          /\ \E r \in {seen[t].rear, rear} :
                items' = [items EXCEPT ![r] = val[t]]
          /\ UNCHANGED val
       \/ /\ op[t] # "enq"
          /\ \E f \in {seen[t].front, front} :
                val' = [val EXCEPT ![t] = items[f]]
          /\ UNCHANGED items
    /\ Goto(t, "index")
    /\ UNCHANGED <<front, rear, count, lock, op, seen, ret, todo>>

\* Faulty variant: the indices do not wrap around.
IndexUnwrapped(t) ==
    /\ pc[t] = "index"
    /\ rear' = IF op[t] = "enq" THEN rear + 1 ELSE rear
    /\ front' = IF op[t] = "enq" THEN front ELSE front + 1
    /\ Goto(t, "count")
    /\ UNCHANGED <<items, count, lock, locals>>

\* rear = (rear + 1) % QUEUE_SIZE, or the same for front.
Index(t) ==
    /\ pc[t] = "index"
    /\ \/ /\ op[t] = "enq"
          /\ \E r \in {seen[t].rear, rear} : rear' = (r + 1) % QUEUE_SIZE
          /\ UNCHANGED front
       \/ /\ op[t] # "enq"
          /\ \E f \in {seen[t].front, front} : front' = (f + 1) % QUEUE_SIZE
          /\ UNCHANGED rear
    /\ Goto(t, "count")
    /\ UNCHANGED <<items, count, lock, locals>>

\* count++ or count--.
Count(t) ==
    /\ pc[t] = "count"
    /\ \E c \in {seen[t].count, count} :
          count' = Wrap(IF op[t] = "enq" THEN c + 1 ELSE c - 1)
    /\ Goto(t, "unlock")
    /\ UNCHANGED <<items, front, rear, lock, locals>>

\* Faulty variant: queue_empty does not look at what dequeue returns.
SpinUnlockClearAgain(t) ==
    /\ pc[t] = "unlock"
    /\ lock' = NoThread
    /\ seen' = [seen EXCEPT ![t] = NoneSeen]
    /\ IF op[t] = "enq" THEN Return(t, 1)
       ELSE /\ Goto(t, IF op[t] = "deq" THEN "give" ELSE "lock")
            /\ UNCHANGED <<op, val, ret>>
    /\ UNCHANGED <<queue, todo>>

\* The spinlock is released.  device_write then returns 1, full or not;
\* queue_empty calls dequeue again until it fails.
SpinUnlock(t) ==
    /\ pc[t] = "unlock"
    /\ lock' = NoThread
    /\ seen' = [seen EXCEPT ![t] = NoneSeen]
    /\ \/ /\ op[t] = "enq"
          /\ Return(t, 1)
          /\ UNCHANGED todo
       \/ /\ op[t] = "deq"
          /\ Goto(t, "give")
          /\ UNCHANGED <<op, val, ret, todo>>
       \/ /\ op[t] = "clr" /\ ret[t] = 0
          /\ Goto(t, "lock")
          /\ UNCHANGED <<op, val, ret, todo>>
       \/ /\ op[t] = "clr" /\ ret[t] # 0
          /\ Goto(t, "reset")
          /\ todo' = [todo EXCEPT ![t] = Fields]
          /\ UNCHANGED <<op, val, ret>>
    /\ UNCHANGED queue

----------------------------------------------------------------------------
(* queue_empty: q->front = q->rear = q->count = 0, without the lock        *)

Reset(t, f) ==
    /\ pc[t] = "reset"
    /\ f \in todo[t]
    /\ front' = IF f = "front" THEN 0 ELSE front
    /\ rear'  = IF f = "rear"  THEN 0 ELSE rear
    /\ count' = IF f = "count" THEN 0 ELSE count
    /\ todo' = [todo EXCEPT ![t] = @ \ {f}]
    /\ IF todo[t] = {f} THEN Return(t, 0) ELSE UNCHANGED <<pc, op, val, ret>>
    /\ UNCHANGED <<items, lock, seen>>

----------------------------------------------------------------------------
Step(t) == \/ Check(t) \/ Item(t) \/ Index(t) \/ Count(t) \/ SpinUnlock(t)
           \/ Give(t)
           \/ \E f \in Fields : Reset(t, f)

Next == \E t \in Thread :
    \/ \E call \in Calls, k \in Char : Begin(t, call, k)
    \/ WriteFault(t)
    \/ SpinLock(t)
    \/ Step(t)

\* Code under a spinlock is not preempted and the kernel's spinlocks serve
\* waiters in order.
Fairness == \A t \in Thread : WF_vars(Step(t)) /\ SF_vars(SpinLock(t))

Spec == Init /\ [][Next]_vars /\ Fairness

----------------------------------------------------------------------------
(* Properties                                                              *)

\* The control points inside enqueue and dequeue.
Holding == {"check", "item", "index", "count", "unlock"}

\* Every variable keeps its type; an index that enqueue or dequeue has loaded
\* is a slot of the queue.
TypeOK ==
    /\ items \in [Slots -> Char]
    /\ count \in Counts
    /\ lock \in Thread \cup {NoThread}
    /\ pc \in [Thread -> Holding \cup {"idle", "lock", "give", "reset"}]
    /\ op \in [Thread -> {"none", "enq", "deq", "clr"}]
    /\ val \in [Thread -> Char]
    /\ seen \in [Thread -> [front : Slots, rear : Slots, count : Counts]]
    /\ ret \in [Thread -> {-1, 0, 1, EFAULT}]
    /\ todo \in [Thread -> SUBSET Fields]

\* items is never indexed out of bounds, even while queue_empty resets the
\* indices under the feet of enqueue and dequeue.
IndexInBounds == front \in Slots /\ rear \in Slots

\* The keys in the queue: a key is in when count includes it and out when front
\* has passed it.
Taking == \E t \in Thread : pc[t] = "count" /\ op[t] # "enq"
Contents ==
    [i \in 1 .. (IF Taking THEN count - 1 ELSE count) |->
        items[(front + i - 1) % QUEUE_SIZE]]

Fifo == INSTANCE BoundedFifo WITH fifo <- Contents

\* Without CLEAR_BUF the circular buffer is a bounded FIFO queue: no key is
\* lost, duplicated or overtaken, whichever processes read and write.
ImplementsFifo == Fifo!FSpec

\* Every read and write returns.
CallsReturn == \A t \in Thread : pc[t] = "lock" ~> pc[t] = "idle"

\* Once no process writes keys any more, every CLEAR_BUF returns, although
\* several of them may dequeue and reset each other's queue and leave a count
\* that is off by one and has to wrap around to become 0.
ClearReturns ==
    <>[](\A t \in Thread : op[t] # "enq")
        => \A t \in Thread : op[t] = "clr" ~> op[t] = "none"
============================================================================
