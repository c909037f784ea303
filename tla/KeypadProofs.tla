---------------------------- MODULE KeypadProofs ----------------------------
(***************************************************************************)
(* Proofs about the keypad queue, for every queue size, key map and number *)
(* of processes: items is never indexed out of bounds, whatever CLEAR_BUF  *)
(* does at the same time, and without CLEAR_BUF the circular buffer        *)
(* implements BoundedFifo.                                                 *)
(***************************************************************************)
EXTENDS KeypadQueue, SequenceTheorems, TLAPS

\* Exactly the thread inside enqueue or dequeue holds the queue's spinlock.
LockHeldInside == \A t \in Thread : pc[t] \in Holding <=> lock = t

\* Inductive for every set of calls.
QueueInv == TypeOK /\ IndexInBounds /\ LockHeldInside

\* The slot n places behind slot f in the circle.
Pos(f, n) == IF f + n < QUEUE_SIZE THEN f + n ELSE f + n - QUEUE_SIZE

\* Without CLEAR_BUF: the call of each thread, and the key it brings.
CallFits ==
    \A t \in Thread :
        /\ op[t] # "clr" /\ pc[t] # "reset"
        /\ pc[t] # "idle" => op[t] # "none"
        /\ op[t] = "enq" => val[t] \in Key

\* Without CLEAR_BUF: what a thread has loaded is still what the queue holds,
\* so each update is made to the values that were checked.
SeenIsCurrent ==
    \A t \in Thread :
        /\ pc[t] \in {"item", "index"} =>
              seen[t].front = front /\ seen[t].rear = rear
        /\ pc[t] \in {"item", "index", "count"} =>
              /\ seen[t].count = count
              /\ op[t] = "enq" => count < QUEUE_SIZE
              /\ op[t] = "deq" => count > 0
        /\ pc[t] = "index" /\ op[t] = "enq" => items[rear] = val[t]

\* Without CLEAR_BUF: rear is count places behind front, except between the
\* update of an index and that of count.
RearFollows ==
    /\ count \in 0 .. QUEUE_SIZE
    /\ (\A t \in Thread : pc[t] # "count") => rear = Pos(front, count)
    /\ \A t \in Thread : pc[t] = "count" =>
          /\ op[t] = "enq" => /\ rear = Pos(front, count + 1)
                              /\ items[Pos(front, count)] = val[t]
          /\ op[t] = "deq" => rear = Pos(front, count - 1)

\* Inductive, relative to QueueInv, when no process calls CLEAR_BUF.
FifoInv == CallFits /\ SeenIsCurrent /\ RearFollows

----------------------------------------------------------------------------
(* Arithmetic                                                              *)

\* The remainder the code computes, for the values it computes it of.
LEMMA Remainder ==
    ASSUME NEW n \in 0 .. 2 * QUEUE_SIZE - 1
    PROVE  /\ n % QUEUE_SIZE = IF n < QUEUE_SIZE THEN n ELSE n - QUEUE_SIZE
           /\ n % QUEUE_SIZE \in Slots
<1>1. QUEUE_SIZE \in Nat /\ QUEUE_SIZE > 0
  BY QueueAssumption
<1>2. n % QUEUE_SIZE \in 0 .. QUEUE_SIZE - 1
  BY <1>1
<1>3. CASE n < QUEUE_SIZE
  BY <1>1, <1>3 DEF Slots
<1>4. CASE n >= QUEUE_SIZE
  BY <1>1, <1>4 DEF Slots
<1> QED
  BY <1>1, <1>2, <1>3, <1>4 DEF Slots

\* Slots are natural numbers below QUEUE_SIZE, and the next slot is one.
LEMMA NextSlot ==
    ASSUME NEW f \in Slots
    PROVE  /\ f \in Nat /\ f < QUEUE_SIZE
           /\ (f + 1) % QUEUE_SIZE \in Slots
           /\ (f + 1) % QUEUE_SIZE = Pos(f, 1)
<1>1. f \in Nat /\ f < QUEUE_SIZE /\ f + 1 \in 0 .. 2 * QUEUE_SIZE - 1
  BY QueueAssumption DEF Slots
<1> DEFINE n == f + 1
<1>2. /\ n % QUEUE_SIZE = IF n < QUEUE_SIZE THEN n ELSE n - QUEUE_SIZE
      /\ n % QUEUE_SIZE \in Slots
  <2> HIDE DEF n
  <2> QED
    BY <1>1, Remainder DEF n
<1> QED
  BY <1>1, <1>2, QueueAssumption DEF Pos

\* The wrapped count is an int.
LEMMA WrapType ==
    ASSUME NEW c \in Counts
    PROVE  Wrap(c + 1) \in Counts /\ Wrap(c - 1) \in Counts
BY QueueAssumption DEF Wrap, Counts

----------------------------------------------------------------------------
(* Bounds and mutual exclusion                                             *)

\* What keypad_init queues fits into the buffer.
LEMMA LoadedFits ==
    /\ Loaded \in 0 .. QUEUE_SIZE
    /\ Loaded <= Len(Keymap)
    /\ Loaded % QUEUE_SIZE \in Slots
    /\ Loaded % QUEUE_SIZE = Pos(0, Loaded)
<1>1. Len(Keymap) \in Nat /\ QUEUE_SIZE \in Nat \ {0}
  BY KeyAssumption, QueueAssumption
<1>2. Loaded \in 0 .. QUEUE_SIZE /\ Loaded <= Len(Keymap)
  BY <1>1 DEF Loaded
<1>3. Loaded \in 0 .. 2 * QUEUE_SIZE - 1
  BY <1>1, <1>2
<1> QED
  BY <1>1, <1>2, <1>3, Remainder DEF Pos

\* The queue that keypad_init leaves is well formed.
LEMMA InitQueueInv == Init => QueueInv
<1> SUFFICES ASSUME Init PROVE QueueInv
  OBVIOUS
<1>1. items \in [Slots -> Char]
  <2>1. ASSUME NEW i \in Slots, i < Loaded PROVE Keymap[i + 1] \in Key
    <3>1. i + 1 \in 1 .. Len(Keymap)
      BY <2>1, LoadedFits, KeyAssumption, QueueAssumption DEF Slots
    <3> QED
      BY <3>1, KeyAssumption
  <2> QED
    BY <2>1 DEF Init, Char
<1>2. front \in Slots /\ rear \in Slots /\ count \in Counts
  BY LoadedFits, QueueAssumption DEF Init, Slots, Counts
<1>3. NoneSeen \in [front : Slots, rear : Slots, count : Counts]
  BY QueueAssumption DEF NoneSeen, Slots, Counts
<1>4. TypeOK
  BY <1>1, <1>2, <1>3 DEF Init, TypeOK, Holding, Char
<1>5. LockHeldInside
  BY ThreadAssumption DEF Init, LockHeldInside, Holding
<1> QED
  BY <1>2, <1>4, <1>5 DEF QueueInv, IndexInBounds

\* Every step keeps the indices in bounds and the lock with its holder.
LEMMA NextQueueInv == QueueInv /\ [Next]_vars => QueueInv'
<1> SUFFICES ASSUME QueueInv, [Next]_vars PROVE QueueInv'
  OBVIOUS
<1> USE DEF QueueInv
<1>0. NoneSeen \in [front : Slots, rear : Slots, count : Counts]
  BY QueueAssumption DEF NoneSeen, Slots, Counts
<1>1. CASE UNCHANGED vars
  BY <1>1 DEF vars, queue, locals, TypeOK, IndexInBounds, LockHeldInside
<1>2. ASSUME NEW t \in Thread, NEW call \in Calls, NEW k \in Char,
             Begin(t, call, k)
      PROVE  QueueInv'
  <2> USE <1>2 DEF Begin, Goto, queue
  <2>1. TypeOK'
    BY KeyAssumption DEF TypeOK
  <2>2. IndexInBounds' /\ LockHeldInside'
    BY DEF TypeOK, IndexInBounds, LockHeldInside, Holding
  <2> QED
    BY <2>1, <2>2
<1>3. ASSUME NEW t \in Thread, WriteFault(t) PROVE QueueInv'
  BY <1>3 DEF WriteFault, queue, TypeOK, IndexInBounds, LockHeldInside
<1>4. ASSUME NEW t \in Thread, SpinLock(t) PROVE QueueInv'
  <2> USE <1>4 DEF SpinLock, Goto, queue, locals
  <2>1. TypeOK'
    BY DEF TypeOK, Holding
  <2>2. IndexInBounds' /\ LockHeldInside'
    BY ThreadAssumption DEF TypeOK, IndexInBounds, LockHeldInside, Holding
  <2> QED
    BY <2>1, <2>2
<1>5. ASSUME NEW t \in Thread, Check(t) PROVE QueueInv'
  <2> USE <1>5 DEF Check, Goto, queue
  <2>1. [front |-> front, rear |-> rear, count |-> count]
           \in [front : Slots, rear : Slots, count : Counts]
    BY DEF TypeOK, IndexInBounds
  <2>2. TypeOK'
    BY <2>1 DEF TypeOK, Holding
  <2>3. IndexInBounds' /\ LockHeldInside'
    BY DEF TypeOK, IndexInBounds, LockHeldInside, Holding
  <2> QED
    BY <2>2, <2>3
<1>6. ASSUME NEW t \in Thread, Item(t) PROVE QueueInv'
  <2> USE <1>6 DEF Item, Goto
  <2>1. seen[t].front \in Slots /\ seen[t].rear \in Slots
    BY DEF TypeOK
  <2>2. TypeOK'
    <3>1. CASE op[t] = "enq"
      <4>1. items' \in [Slots -> Char] /\ val' = val
        BY <2>1, <3>1 DEF TypeOK, IndexInBounds
      <4> QED
        BY <4>1 DEF TypeOK, Holding
    <3>2. CASE op[t] # "enq"
      <4>1. val' \in [Thread -> Char] /\ items' = items
        BY <2>1, <3>2 DEF TypeOK, IndexInBounds
      <4> QED
        BY <4>1 DEF TypeOK, Holding
    <3> QED
      BY <3>1, <3>2
  <2>3. IndexInBounds' /\ LockHeldInside'
    BY DEF TypeOK, IndexInBounds, LockHeldInside, Holding
  <2> QED
    BY <2>2, <2>3
<1>7. ASSUME NEW t \in Thread, Index(t) PROVE QueueInv'
  <2> USE <1>7 DEF Index, Goto, locals
  <2>1. seen[t].front \in Slots /\ seen[t].rear \in Slots
    BY DEF TypeOK
  <2>2. IndexInBounds'
    BY <2>1, NextSlot DEF IndexInBounds
  <2>3. TypeOK'
    BY DEF TypeOK, Holding
  <2>4. LockHeldInside'
    BY DEF TypeOK, LockHeldInside, Holding
  <2> QED
    BY <2>2, <2>3, <2>4
<1>8. ASSUME NEW t \in Thread, Count(t) PROVE QueueInv'
  <2> USE <1>8 DEF Count, Goto, locals
  <2>1. seen[t].count \in Counts /\ count \in Counts
    BY DEF TypeOK
  <2>2. count' \in Counts
    BY <2>1, WrapType
  <2>3. TypeOK'
    BY <2>2 DEF TypeOK, Holding
  <2>4. IndexInBounds' /\ LockHeldInside'
    BY DEF TypeOK, IndexInBounds, LockHeldInside, Holding
  <2> QED
    BY <2>3, <2>4
<1>9. ASSUME NEW t \in Thread, SpinUnlock(t) PROVE QueueInv'
  <2> USE <1>9 DEF SpinUnlock, Goto, Return, queue
  <2>1. TypeOK'
    <3>1. /\ lock' = NoThread
          /\ seen' \in [Thread -> [front : Slots, rear : Slots, count : Counts]]
          /\ todo' \in [Thread -> SUBSET Fields]
      BY <1>0 DEF TypeOK
    <3>2. /\ pc' \in [Thread -> Holding \cup {"idle", "lock", "give", "reset"}]
          /\ op' \in [Thread -> {"none", "enq", "deq", "clr"}]
      BY DEF TypeOK
    <3>3. val' \in [Thread -> Char] /\ ret' \in [Thread -> {-1, 0, 1, EFAULT}]
      BY DEF TypeOK, Char
    <3> QED
      BY <3>1, <3>2, <3>3 DEF TypeOK
  <2>2. IndexInBounds' /\ LockHeldInside'
    BY ThreadAssumption DEF TypeOK, IndexInBounds, LockHeldInside, Holding
  <2> QED
    BY <2>1, <2>2
<1>10. ASSUME NEW t \in Thread, Give(t) PROVE QueueInv'
  <2> USE <1>10 DEF Give, Goto, Return, queue
  <2>1. TypeOK'
    BY DEF TypeOK, Char
  <2>2. IndexInBounds' /\ LockHeldInside'
    BY DEF TypeOK, IndexInBounds, LockHeldInside, Holding
  <2> QED
    BY <2>1, <2>2
<1>11. ASSUME NEW t \in Thread, NEW f \in Fields, Reset(t, f) PROVE QueueInv'
  <2> USE <1>11 DEF Reset, Goto, Return
  <2>1. 0 \in Slots /\ 0 \in Counts
    BY QueueAssumption DEF Slots, Counts
  <2>2. TypeOK'
    BY <2>1 DEF TypeOK, Char
  <2>3. IndexInBounds' /\ LockHeldInside'
    BY <2>1 DEF TypeOK, IndexInBounds, LockHeldInside, Holding
  <2> QED
    BY <2>2, <2>3
<1> QED
  BY <1>1, <1>2, <1>3, <1>4, <1>5, <1>6, <1>7, <1>8, <1>9, <1>10, <1>11
     DEF Next, Step

\* The invariant holds in every reachable state, whatever calls are made.
THEOREM QueueInvariance == Spec => []QueueInv
BY InitQueueInv, NextQueueInv, PTL DEF Spec

\* front and rear are slots of the queue at all times, although queue_empty
\* resets them without the lock in the middle of an enqueue or a dequeue.
THEOREM IndicesInBounds == Spec => []IndexInBounds
<1>1. QueueInv => IndexInBounds
  BY DEF QueueInv
<1> QED
  BY <1>1, QueueInvariance, PTL

----------------------------------------------------------------------------
(* The keys in n slots of the circle from slot f on                        *)

Window(its, f, n) == [i \in 1 .. n |-> its[Pos(f, i - 1)]]

\* A slot of the circle is a slot.
LEMMA PosType ==
    ASSUME NEW f \in Slots, NEW n \in 0 .. QUEUE_SIZE
    PROVE  Pos(f, n) \in Slots
BY QueueAssumption DEF Pos, Slots

\* The window is a sequence of n characters, and what Contents selects.
LEMMA WindowType ==
    ASSUME NEW its \in [Slots -> Char], NEW f \in Slots,
           NEW n \in 0 .. QUEUE_SIZE
    PROVE  /\ Window(its, f, n) \in Seq(Char)
           /\ Len(Window(its, f, n)) = n
           /\ \A i \in 1 .. n : Window(its, f, n)[i] = its[Pos(f, i - 1)]
           /\ [i \in 1 .. n |-> its[(f + i - 1) % QUEUE_SIZE]] = Window(its, f, n)
<1>1. QUEUE_SIZE \in Nat \ {0} /\ n \in Nat /\ n <= QUEUE_SIZE
  BY QueueAssumption
<1>2. \A i \in 1 .. n : its[Pos(f, i - 1)] \in Char
  <2> SUFFICES ASSUME NEW i \in 1 .. n PROVE Pos(f, i - 1) \in Slots
    OBVIOUS
  <2>1. i - 1 \in 0 .. QUEUE_SIZE
    BY <1>1
  <2> QED
    BY <2>1, PosType
<1>3. ASSUME NEW i \in 1 .. n
      PROVE  (f + i - 1) % QUEUE_SIZE = Pos(f, i - 1)
  <2> DEFINE m == f + i - 1
  <2>1. m \in 0 .. 2 * QUEUE_SIZE - 1 /\ m = f + (i - 1)
    BY <1>1 DEF Slots
  <2>2. m % QUEUE_SIZE = IF m < QUEUE_SIZE THEN m ELSE m - QUEUE_SIZE
    <3> HIDE DEF m
    <3> QED
      BY <2>1, Remainder
  <2>3. Pos(f, i - 1) = IF m < QUEUE_SIZE THEN m ELSE m - QUEUE_SIZE
    BY <1>1, <2>1 DEF Pos, Slots
  <2> QED
    BY <2>2, <2>3
<1>4. Window(its, f, n) \in [1 .. n -> Char]
  BY <1>2 DEF Window
<1>5. Window(its, f, n) \in Seq(Char) /\ Len(Window(its, f, n)) = n
  BY <1>1, <1>4
<1> QED
  BY <1>3, <1>5 DEF Window

\* A store behind the window leaves it alone.
LEMMA WindowStore ==
    ASSUME NEW its \in [Slots -> Char], NEW f \in Slots, NEW n \in 0 .. QUEUE_SIZE,
           n < QUEUE_SIZE, NEW v \in Char
    PROVE  Window([its EXCEPT ![Pos(f, n)] = v], f, n) = Window(its, f, n)
<1>1. ASSUME NEW i \in 1 .. n
      PROVE  Pos(f, i - 1) # Pos(f, n) /\ Pos(f, i - 1) \in Slots
  BY QueueAssumption DEF Pos, Slots
<1> QED
  BY <1>1 DEF Window

\* The slot behind the window joins it at its end.
LEMMA WindowAppend ==
    ASSUME NEW its \in [Slots -> Char], NEW f \in Slots, NEW n \in 0 .. QUEUE_SIZE,
           n < QUEUE_SIZE
    PROVE  Window(its, f, n + 1) = Append(Window(its, f, n), its[Pos(f, n)])
<1> DEFINE w == Window(its, f, n)  x == Window(its, f, n + 1)
           b == its[Pos(f, n)]
<1>1. n + 1 \in 0 .. QUEUE_SIZE /\ n \in Nat
  BY QueueAssumption
<1>2. b \in Char
  BY PosType
<1>3. /\ w \in Seq(Char) /\ Len(w) = n
      /\ \A i \in 1 .. n : w[i] = its[Pos(f, i - 1)]
  BY WindowType
<1>4. /\ x \in Seq(Char) /\ Len(x) = n + 1
      /\ \A i \in 1 .. n + 1 : x[i] = its[Pos(f, i - 1)]
  BY <1>1, WindowType
<1>5. x[n + 1] = b
  BY <1>1, <1>4
<1>6. \A i \in 1 .. n : x[i] = w[i]
  BY <1>1, <1>3, <1>4
<1> HIDE DEF w, x, b
<1>7. /\ Append(w, b) \in Seq(Char) /\ Len(Append(w, b)) = n + 1
      /\ \A i \in 1 .. n : Append(w, b)[i] = w[i]
      /\ Append(w, b)[n + 1] = b
  BY <1>2, <1>3
<1>8. \A i \in 1 .. n + 1 : i \in 1 .. n \/ i = n + 1
  BY <1>1
<1>9. \A i \in 1 .. Len(x) : x[i] = Append(w, b)[i]
  BY <1>4, <1>5, <1>6, <1>7, <1>8
<1>10. x = Append(w, b)
  BY <1>4, <1>7, <1>9, SeqEqual
<1> QED
  BY <1>10 DEF w, x, b

\* Moving front on drops the head of the window.
LEMMA WindowTail ==
    ASSUME NEW its \in [Slots -> Char], NEW f \in Slots, NEW n \in 0 .. QUEUE_SIZE,
           n > 0
    PROVE  /\ Window(its, f, n) # <<>>
           /\ Window(its, Pos(f, 1), n - 1) = Tail(Window(its, f, n))
<1> DEFINE w == Window(its, f, n)  x == Window(its, Pos(f, 1), n - 1)
<1>1. /\ n - 1 \in 0 .. QUEUE_SIZE /\ n \in Nat /\ 1 \in 0 .. QUEUE_SIZE
      /\ Pos(f, 1) \in Slots
  BY QueueAssumption, PosType
<1>2. /\ w \in Seq(Char) /\ Len(w) = n
      /\ \A i \in 1 .. n : w[i] = its[Pos(f, i - 1)]
  BY WindowType
<1>3. /\ x \in Seq(Char) /\ Len(x) = n - 1
      /\ \A i \in 1 .. n - 1 : x[i] = its[Pos(Pos(f, 1), i - 1)]
  BY <1>1, WindowType
<1>4. ASSUME NEW i \in 1 .. n - 1
      PROVE  Pos(Pos(f, 1), i - 1) = Pos(f, (i + 1) - 1)
  BY QueueAssumption DEF Pos, Slots
<1>5. \A i \in 1 .. n - 1 : x[i] = w[i + 1]
  <2> SUFFICES ASSUME NEW i \in 1 .. n - 1 PROVE x[i] = w[i + 1]
    OBVIOUS
  <2>1. i + 1 \in 1 .. n
    BY <1>1
  <2>2. w[i + 1] = its[Pos(f, (i + 1) - 1)]
    BY <1>2, <2>1
  <2> QED
    BY <1>3, <1>4, <2>2
<1> HIDE DEF w, x
<1>6. w # <<>>
  BY <1>2
<1>7. /\ Tail(w) \in Seq(Char) /\ Len(Tail(w)) = n - 1
      /\ \A i \in 1 .. Len(Tail(w)) : Tail(w)[i] = w[i + 1]
  BY <1>2, <1>6, HeadTailProperties
<1>8. x = Tail(w)
  BY <1>3, <1>5, <1>7, SeqEqual
<1> QED
  BY <1>6, <1>8 DEF w, x

----------------------------------------------------------------------------
(* The queue without CLEAR_BUF                                             *)

\* What keypad_init leaves is a queue at rest.
LEMMA InitFifoInv == Init => FifoInv
<1> SUFFICES ASSUME Init PROVE FifoInv
  OBVIOUS
<1>1. CallFits /\ SeenIsCurrent
  BY DEF Init, CallFits, SeenIsCurrent
<1>2. RearFollows
  BY LoadedFits DEF Init, RearFollows
<1> QED
  BY <1>1, <1>2 DEF FifoInv

\* The steps outside the lock, and those that only take or release it, leave
\* the queue alone.
LEMMA OutsideFifo ==
    ASSUME "clr" \notin Calls, QueueInv, FifoInv, NEW t \in Thread,
           \/ \E call \in Calls, k \in Char : Begin(t, call, k)
           \/ WriteFault(t) \/ SpinLock(t) \/ Give(t) \/ SpinUnlock(t)
    PROVE  /\ FifoInv'
           /\ UNCHANGED queue
           /\ Taking' = Taking
<1> USE DEF QueueInv, FifoInv, Begin, WriteFault, SpinLock, Give, SpinUnlock,
            Goto, Return, queue, locals
<1>1. UNCHANGED <<items, front, rear, count>>
  OBVIOUS
<1>2. \A u \in Thread : /\ pc'[u] \in {"item", "index", "count"} =>
                             pc'[u] = pc[u] /\ seen'[u] = seen[u]
                                            /\ op'[u] = op[u] /\ val'[u] = val[u]
                        /\ pc[u] = "count" => pc'[u] = pc[u] /\ op'[u] = op[u]
  BY DEF TypeOK
<1>3. CallFits'
  BY KeyAssumption DEF TypeOK, CallFits
<1>4. SeenIsCurrent'
  BY <1>1, <1>2 DEF SeenIsCurrent
<1>5. RearFollows'
  BY <1>1, <1>2 DEF RearFollows
<1>6. Taking' = Taking
  <2>1. ASSUME NEW u \in Thread
        PROVE  (pc'[u] = "count" /\ op'[u] # "enq")
                  <=> (pc[u] = "count" /\ op[u] # "enq")
    BY <1>2
  <2> QED
    BY <2>1 DEF Taking
<1> QED
  BY <1>1, <1>3, <1>4, <1>5, <1>6

\* While a thread is inside enqueue or dequeue no other one is.
LEMMA Alone ==
    ASSUME QueueInv, NEW t \in Thread, pc[t] \in Holding
    PROVE  \A u \in Thread : u # t => pc[u] \notin Holding
BY ThreadAssumption DEF QueueInv, LockHeldInside

\* The test of full or empty, after which the loaded values are current.
LEMMA CheckFifo ==
    ASSUME QueueInv, FifoInv, NEW t \in Thread, Check(t)
    PROVE  /\ FifoInv'
           /\ UNCHANGED queue
           /\ Taking' = Taking
<1> USE DEF QueueInv, FifoInv, Check, Goto, queue
<1>1. UNCHANGED <<items, front, rear, count, op, val>> /\ pc[t] = "check"
  OBVIOUS
<1>2. \A u \in Thread : u # t => pc'[u] = pc[u] /\ seen'[u] = seen[u]
  BY DEF TypeOK
<1>3. /\ pc'[t] \in {"unlock", "item"}
      /\ pc'[t] = "item" => ~Refused(t)
      /\ seen'[t].front = front /\ seen'[t].rear = rear /\ seen'[t].count = count
  BY DEF TypeOK
<1>4. CallFits'
  BY <1>1, <1>2, <1>3 DEF CallFits
<1>5. SeenIsCurrent'
  <2>1. pc'[t] = "item" => /\ op[t] = "enq" => count < QUEUE_SIZE
                           /\ op[t] = "deq" => count > 0
    BY <1>3, QueueAssumption DEF Refused, RearFollows
  <2> QED
    BY <1>1, <1>2, <1>3, <2>1 DEF SeenIsCurrent
<1>6. RearFollows'
  BY <1>1, <1>2, <1>3 DEF RearFollows
<1>7. Taking' = Taking
  <2>1. ASSUME NEW u \in Thread
        PROVE  (pc'[u] = "count" /\ op'[u] # "enq")
                  <=> (pc[u] = "count" /\ op[u] # "enq")
    BY <1>1, <1>2, <1>3
  <2> QED
    BY <2>1 DEF Taking
<1> QED
  BY <1>1, <1>4, <1>5, <1>6, <1>7

\* enqueue stores behind the keys in the queue; dequeue only looks.
LEMMA ItemFifo ==
    ASSUME QueueInv, FifoInv, NEW t \in Thread, Item(t)
    PROVE  /\ FifoInv'
           /\ UNCHANGED <<front, count>>
           /\ ~Taking /\ ~Taking'
           /\ Window(items', front, count) = Window(items, front, count)
<1> USE DEF QueueInv, FifoInv
<1>0. /\ pc[t] = "item" /\ pc' = [pc EXCEPT ![t] = "index"]
      /\ UNCHANGED <<front, rear, count, lock, op, seen, ret, todo>>
  BY DEF Item, Goto
<1>1. \A u \in Thread : u # t => pc[u] \notin Holding
  BY <1>0, Alone DEF Holding
<1>2. /\ \A u \in Thread : pc[u] # "count" /\ pc'[u] # "count"
      /\ pc'[t] = "index"
      /\ \A u \in Thread : u # t => pc'[u] = pc[u]
  BY <1>0, <1>1 DEF TypeOK, Holding
<1>3. seen[t].front = front /\ seen[t].rear = rear /\ rear = Pos(front, count)
  BY <1>0, <1>2 DEF SeenIsCurrent, RearFollows
<1>4. CallFits'
  BY <1>0 DEF Item, TypeOK, CallFits
<1>5. op[t] = "enq" => /\ items' = [items EXCEPT ![rear] = val[t]]
                       /\ items'[rear] = val'[t]
                       /\ count < QUEUE_SIZE
  BY <1>0, <1>3 DEF Item, TypeOK, IndexInBounds, SeenIsCurrent
<1>6. SeenIsCurrent'
  BY <1>0, <1>1, <1>2, <1>3, <1>5 DEF SeenIsCurrent, Holding
<1>7. RearFollows'
  BY <1>0, <1>2, <1>3 DEF RearFollows
<1>8. Window(items', front, count) = Window(items, front, count)
  <2>1. CASE op[t] = "enq"
    BY <2>1, <1>3, <1>5, WindowStore DEF TypeOK, IndexInBounds, RearFollows
  <2>2. CASE op[t] # "enq"
    BY <2>2 DEF Item
  <2> QED
    BY <2>1, <2>2
<1> QED
  BY <1>0, <1>2, <1>4, <1>6, <1>7, <1>8 DEF Taking

\* dequeue takes the head out when it moves front; enqueue moves rear only.
LEMMA IndexFifo ==
    ASSUME QueueInv, FifoInv, NEW t \in Thread, Index(t)
    PROVE  /\ FifoInv'
           /\ UNCHANGED <<items, count>>
           /\ ~Taking
           /\ \/ front' = front /\ ~Taking'
              \/ front' = Pos(front, 1) /\ Taking' /\ count > 0
<1> USE DEF QueueInv, FifoInv
<1>0. /\ pc[t] = "index" /\ pc' = [pc EXCEPT ![t] = "count"]
      /\ UNCHANGED <<items, count, lock, op, val, seen, ret, todo>>
  BY DEF Index, Goto, locals
<1>1. \A u \in Thread : u # t => pc[u] \notin Holding
  BY <1>0, Alone DEF Holding
<1>2. /\ \A u \in Thread : pc[u] # "count"
      /\ pc'[t] = "count"
      /\ \A u \in Thread : u # t => pc'[u] = pc[u] /\ pc'[u] \notin Holding
  BY <1>0, <1>1 DEF TypeOK, Holding
<1>3. /\ seen[t].front = front /\ seen[t].rear = rear /\ rear = Pos(front, count)
      /\ op[t] \in {"enq", "deq"}
      /\ front \in Slots /\ rear \in Slots
  BY <1>0, <1>2 DEF TypeOK, SeenIsCurrent, RearFollows, CallFits, IndexInBounds
<1>4. CallFits'
  BY <1>0, <1>2 DEF CallFits
<1>5. SeenIsCurrent'
  BY <1>0, <1>1, <1>2 DEF SeenIsCurrent, Holding
<1>6. CASE op[t] = "enq"
  <2>1. /\ rear' = Pos(rear, 1) /\ front' = front
        /\ count < QUEUE_SIZE /\ items[rear] = val[t]
    BY <1>0, <1>3, <1>6, NextSlot DEF Index, SeenIsCurrent
  <2>2. Pos(rear, 1) = Pos(front, count + 1)
    BY <1>3, <2>1, QueueAssumption DEF RearFollows, Pos, Slots
  <2>3. RearFollows'
    BY <1>0, <1>2, <1>3, <1>6, <2>1, <2>2 DEF RearFollows, Holding
  <2>4. ~Taking /\ ~Taking'
    BY <1>0, <1>2, <1>6 DEF Taking, Holding
  <2> QED
    BY <1>0, <1>4, <1>5, <2>1, <2>3, <2>4
<1>7. CASE op[t] = "deq"
  <2>1. front' = Pos(front, 1) /\ rear' = rear /\ count > 0
    BY <1>0, <1>3, <1>7, NextSlot DEF Index, SeenIsCurrent
  <2>2. Pos(Pos(front, 1), count - 1) = Pos(front, count)
    BY <1>3, <2>1, QueueAssumption DEF RearFollows, Pos, Slots
  <2>3. RearFollows'
    BY <1>0, <1>2, <1>3, <1>7, <2>1, <2>2 DEF RearFollows, Holding
  <2>4. ~Taking /\ Taking'
    BY <1>0, <1>2, <1>7 DEF Taking
  <2> QED
    BY <1>0, <1>4, <1>5, <2>1, <2>3, <2>4
<1> QED
  BY <1>3, <1>6, <1>7

\* enqueue's key is in when count includes it.
LEMMA CountFifo ==
    ASSUME QueueInv, FifoInv, NEW t \in Thread, Count(t)
    PROVE  /\ FifoInv'
           /\ UNCHANGED <<items, front>>
           /\ ~Taking'
           /\ \/ /\ count' = count + 1 /\ count < QUEUE_SIZE /\ ~Taking
                 /\ items[Pos(front, count)] \in Key
              \/ count' = count - 1 /\ count > 0 /\ Taking
<1> USE DEF QueueInv, FifoInv
<1>0. /\ pc[t] = "count" /\ pc' = [pc EXCEPT ![t] = "unlock"]
      /\ UNCHANGED <<items, front, rear, lock, op, val, seen, ret, todo>>
  BY DEF Count, Goto, locals
<1>1. \A u \in Thread : u # t => pc[u] \notin Holding
  BY <1>0, Alone DEF Holding
<1>2. /\ \A u \in Thread : u # t => pc'[u] = pc[u] /\ pc'[u] \notin Holding
      /\ pc'[t] = "unlock"
      /\ \A u \in Thread : pc'[u] # "count"
  BY <1>0, <1>1 DEF TypeOK, Holding
<1>3. /\ seen[t].count = count /\ count \in 0 .. QUEUE_SIZE
      /\ op[t] \in {"enq", "deq"}
      /\ op[t] = "enq" => count < QUEUE_SIZE
      /\ op[t] = "deq" => count > 0
  BY <1>0 DEF TypeOK, SeenIsCurrent, RearFollows, CallFits
<1>4. count' = IF op[t] = "enq" THEN count + 1 ELSE count - 1
  BY <1>3, QueueAssumption DEF Count, Wrap
<1>5. CallFits'
  BY <1>0, <1>2 DEF CallFits
<1>6. SeenIsCurrent'
  BY <1>0, <1>2 DEF SeenIsCurrent, Holding
<1>7. RearFollows'
  <2>1. /\ op[t] = "enq" => rear = Pos(front, count + 1)
        /\ op[t] = "deq" => rear = Pos(front, count - 1)
    BY <1>0 DEF RearFollows
  <2>2. count' \in 0 .. QUEUE_SIZE
    BY <1>3, <1>4, QueueAssumption
  <2> QED
    BY <1>0, <1>2, <1>3, <1>4, <2>1, <2>2 DEF RearFollows
<1>8. ~Taking' /\ (Taking <=> op[t] = "deq")
  BY <1>0, <1>1, <1>2, <1>3 DEF Taking, Holding
<1>9. op[t] = "enq" => items[Pos(front, count)] \in Key
  BY <1>0 DEF RearFollows, CallFits
<1> QED
  BY <1>0, <1>3, <1>4, <1>5, <1>6, <1>7, <1>8, <1>9

\* Every step keeps the invariant and is a step of the abstract queue.
LEMMA FifoStep ==
    ASSUME "clr" \notin Calls, QueueInv, FifoInv, [Next]_vars, QueueInv'
    PROVE  FifoInv' /\ [Fifo!FNext]_Contents
<1> DEFINE size == IF Taking THEN count - 1 ELSE count
<1>1. /\ items \in [Slots -> Char] /\ front \in Slots /\ count \in 0 .. QUEUE_SIZE
      /\ items' \in [Slots -> Char] /\ front' \in Slots
  BY DEF QueueInv, TypeOK, IndexInBounds, FifoInv, RearFollows
<1>2. size \in 0 .. QUEUE_SIZE
  <2>1. Taking => count > 0
    BY DEF Taking, FifoInv, SeenIsCurrent, CallFits, QueueInv, TypeOK
  <2> QED
    BY <1>1, <2>1, QueueAssumption
<1>3. Contents = Window(items, front, size) /\ Len(Contents) = size
  <2>1. Contents = [i \in 1 .. size |-> items[(front + i - 1) % QUEUE_SIZE]]
    BY DEF Contents
  <2> HIDE DEF size
  <2> QED
    BY <1>1, <1>2, <2>1, WindowType
<1>4. ASSUME NEW n \in 0 .. QUEUE_SIZE,
             n = IF Taking' THEN count' - 1 ELSE count'
      PROVE  Contents' = Window(items', front', n)
  BY <1>1, <1>4, WindowType DEF Contents
<1>5. CASE UNCHANGED queue /\ Taking' = Taking /\ FifoInv'
  <2>1. Contents' = Contents
    BY <1>5 DEF Contents, queue
  <2> QED
    BY <1>5, <2>1
<1>6. ASSUME NEW t \in Thread, Item(t)
      PROVE  FifoInv' /\ [Fifo!FNext]_Contents
  <2>1. /\ FifoInv' /\ UNCHANGED <<front, count>> /\ ~Taking /\ ~Taking'
        /\ Window(items', front, count) = Window(items, front, count)
    BY <1>6, ItemFifo
  <2>2. Contents' = Window(items', front', count)
    BY <1>1, <1>4, <2>1
  <2> QED
    BY <1>3, <2>1, <2>2
<1>7. ASSUME NEW t \in Thread, Index(t)
      PROVE  FifoInv' /\ [Fifo!FNext]_Contents
  <2>1. /\ FifoInv' /\ UNCHANGED <<items, count>> /\ ~Taking
        /\ \/ front' = front /\ ~Taking'
           \/ front' = Pos(front, 1) /\ Taking' /\ count > 0
    BY <1>7, IndexFifo
  <2>2. CASE front' = front /\ ~Taking'
    BY <1>1, <1>3, <1>4, <2>1, <2>2
  <2>3. CASE front' = Pos(front, 1) /\ Taking' /\ count > 0
    <3>1. count - 1 \in 0 .. QUEUE_SIZE
      BY <1>1, <2>3, QueueAssumption
    <3>2. Contents' = Window(items, Pos(front, 1), count - 1)
      BY <1>4, <2>1, <2>3, <3>1
    <3>3. Contents # <<>> /\ Contents' = Tail(Contents)
      BY <1>1, <1>3, <2>1, <2>3, <3>2, WindowTail
    <3> QED
      BY <2>1, <3>3 DEF Fifo!FNext, Fifo!Take
  <2> QED
    BY <2>1, <2>2, <2>3
<1>8. ASSUME NEW t \in Thread, Count(t)
      PROVE  FifoInv' /\ [Fifo!FNext]_Contents
  <2>1. /\ FifoInv' /\ UNCHANGED <<items, front>> /\ ~Taking'
        /\ \/ /\ count' = count + 1 /\ count < QUEUE_SIZE /\ ~Taking
              /\ items[Pos(front, count)] \in Key
           \/ count' = count - 1 /\ count > 0 /\ Taking
    BY <1>8, CountFifo
  <2>2. CASE count' = count - 1 /\ Taking
    BY <1>2, <1>3, <1>4, <2>1, <2>2
  <2>3. CASE /\ count' = count + 1 /\ count < QUEUE_SIZE /\ ~Taking
             /\ items[Pos(front, count)] \in Key
    <3>1. count + 1 \in 0 .. QUEUE_SIZE
      BY <1>1, <2>3, QueueAssumption
    <3>2. Contents' = Window(items, front, count + 1)
      BY <1>4, <2>1, <2>3, <3>1
    <3>3. Contents' = Append(Contents, items[Pos(front, count)])
      BY <1>1, <1>3, <2>3, <3>2, WindowAppend
    <3>4. Fifo!Put(items[Pos(front, count)])
      BY <1>3, <2>3, <3>3 DEF Fifo!Put
    <3> QED
      BY <2>1, <2>3, <3>4 DEF Fifo!FNext
  <2> QED
    BY <2>1, <2>2, <2>3
<1>9. ASSUME NEW t \in Thread, NEW f \in Fields, Reset(t, f) PROVE FALSE
  BY <1>9 DEF Reset, FifoInv, CallFits
<1>10. CASE UNCHANGED vars
  <2>1. FifoInv' /\ UNCHANGED queue /\ Taking' = Taking
    BY <1>10 DEF vars, queue, locals, FifoInv, CallFits, SeenIsCurrent,
                 RearFollows, Taking
  <2> QED
    BY <1>5, <2>1
<1> QED
  BY <1>5, <1>6, <1>7, <1>8, <1>9, <1>10, OutsideFifo, CheckFifo DEF Next, Step

\* keypad_init queues the keys of the key map, as many as fit.
LEMMA FifoInit == Init => Fifo!FInit
<1> SUFFICES ASSUME Init PROVE Fifo!FInit
  OBVIOUS
<1> DEFINE s == SubSeq(Keymap, 1, Loaded)  w == Window(items, front, Loaded)
<1>1. /\ Loaded \in 0 .. QUEUE_SIZE /\ Loaded <= Len(Keymap)
      /\ Loaded \in Nat /\ QUEUE_SIZE \in Nat /\ Len(Keymap) \in Nat
  BY LoadedFits, QueueAssumption, KeyAssumption
<1>2. items \in [Slots -> Char] /\ front \in Slots
  BY InitQueueInv DEF QueueInv, TypeOK, IndexInBounds
<1>3. /\ s \in Seq(Key) /\ Len(s) = Loaded
      /\ \A i \in 1 .. Loaded : s[i] = Keymap[i]
  BY <1>1, KeyAssumption
<1>4. /\ Contents = w /\ w \in Seq(Char) /\ Len(w) = Loaded
      /\ \A i \in 1 .. Loaded : w[i] = items[Pos(front, i - 1)]
  <2>1. ~Taking /\ count = Loaded
    BY DEF Init, Taking
  <2> QED
    BY <1>1, <1>2, <2>1, WindowType DEF Contents
<1>5. ASSUME NEW i \in 1 .. Loaded PROVE w[i] = s[i]
  <2>1. Pos(front, i - 1) = i - 1 /\ i - 1 \in Slots /\ i - 1 < Loaded
    BY <1>1 DEF Init, Pos, Slots
  <2>2. items[i - 1] = Keymap[(i - 1) + 1]
    BY <2>1 DEF Init
  <2>3. (i - 1) + 1 = i
    BY <1>1
  <2> QED
    BY <1>3, <1>4, <2>1, <2>2, <2>3
<1>6. s \in Seq(Char)
  BY <1>3, SeqMonotonic DEF Char
<1> HIDE DEF s, w
<1>7. w = s
  BY <1>3, <1>4, <1>5, <1>6, SeqEqual
<1> QED
  BY <1>4, <1>7 DEF s, Fifo!FInit, Loaded

\* As long as no process calls CLEAR_BUF, the circular buffer behaves as a
\* bounded first-in first-out queue.
THEOREM KeypadIsFifo ==
    ASSUME "clr" \notin Calls
    PROVE  Spec => ImplementsFifo
<1>1. QueueInv /\ FifoInv /\ [Next]_vars => FifoInv' /\ [Fifo!FNext]_Contents
  BY NextQueueInv, FifoStep
<1> QED
  BY <1>1, QueueInvariance, InitFifoInv, FifoInit, PTL
     DEF Spec, ImplementsFifo, Fifo!FSpec
=============================================================================
