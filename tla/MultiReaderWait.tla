-------------------------- MODULE MultiReaderWait --------------------------
(***************************************************************************)
(* 012_multi_reader_wait/driver.c: readers sleep until a writer has left a *)
(* message; the message is withdrawn when total_readers of them have read  *)
(* it.  The driver takes no lock: every access to data, data_ready and     *)
(* readers_count is a step of its own, and plain stores that follow one    *)
(* another may reach memory in any order.                                  *)
(*                                                                         *)
(* The wait queue is modelled as the kernel works it: a waiter puts itself *)
(* on the queue, tests the condition, and sleeps only if it is still       *)
(* queued; wake_up takes every waiter off the queue and makes it runnable. *)
(***************************************************************************)
EXTENDS Integers, Sequences

CONSTANTS
    Reader, Writer,
    Size,           \* sizeof(data): 256 in the code
    Char,           \* the characters of messages
    Lengths,        \* lengths writers pass
    total_readers   \* 2 in the code

ASSUME ThreadAssumption == Reader \cap Writer = {}
ASSUME SizeAssumption   == /\ Size \in Nat \ {0}
                           /\ Lengths \subseteq Nat
                           /\ total_readers \in Nat \ {0}
ASSUME CharAssumption   == Char \subseteq Nat \ {0}

Thread == Reader \cup Writer
Cell   == 0 .. Size - 1
Nul    == 0

VARIABLES
    data, data_ready, readers_count,
    wq,       \* the waiters on the wait queue
    pc,       \* where each thread is
    expired,  \* readers whose five seconds are over
    len,      \* the local len
    val,      \* the character a writer's message consists of
    pos,      \* how many characters a thread has copied
    cnt,      \* a reader's register for readers_count
    todo      \* stores still to be made

shared == <<data, data_ready, readers_count>>
vars   == <<shared, wq, pc, expired, len, val, pos, cnt, todo>>

Init ==
    /\ data = [i \in Cell |-> Nul]
    /\ data_ready = 0
    /\ readers_count = 0
    /\ wq = {}
    /\ pc = [t \in Thread |-> "idle"]
    /\ expired = {}
    /\ len = [t \in Thread |-> 0]
    /\ val = [w \in Writer |-> Nul]
    /\ pos = [t \in Thread |-> 0]
    /\ cnt = [r \in Reader |-> 0]
    /\ todo = [t \in Thread |-> {}]

Goto(t, label) == pc' = [pc EXCEPT ![t] = label]

\* The read of r returns; its locals are gone.
ReadReturns(r) ==
    /\ Goto(r, "idle")
    /\ len' = [len EXCEPT ![r] = 0]
    /\ pos' = [pos EXCEPT ![r] = 0]
    /\ cnt' = [cnt EXCEPT ![r] = 0]
    /\ expired' = expired \ {r}

----------------------------------------------------------------------------
(* wait_event_interruptible_timeout(wq, data_ready, READ_TIMEOUT)          *)

ReadCall(r) ==
    /\ pc[r] = "idle"
    /\ Goto(r, "prepare")
    /\ UNCHANGED <<shared, wq, expired, len, val, pos, cnt, todo>>

Prepare(r) ==
    /\ pc[r] = "prepare"
    /\ wq' = wq \cup {r}
    /\ Goto(r, "test")
    /\ UNCHANGED <<shared, expired, len, val, pos, cnt, todo>>

\* The condition holds: leave the queue.  Otherwise return -ETIMEDOUT if the time
\* is over, sleep if nobody has called wake_up since Prepare, and start over if so.
Test(r) ==
    /\ pc[r] = "test"
    /\ \/ /\ data_ready = 1
          /\ wq' = wq \ {r}
          /\ Goto(r, "strlen")
          /\ UNCHANGED <<expired, len, pos, cnt>>
       \/ /\ data_ready = 0 /\ r \in expired
          /\ wq' = wq \ {r}
          /\ ReadReturns(r)
       \/ /\ data_ready = 0 /\ r \notin expired
          /\ Goto(r, IF r \in wq THEN "sleep" ELSE "prepare")
          /\ UNCHANGED <<wq, expired, len, pos, cnt>>
    /\ UNCHANGED <<shared, val, todo>>

\* Faulty variant: the wait has no timeout.
TimerNever(r) == FALSE

\* The timer of the wait expires and makes a sleeper runnable.
Timer(r) ==
    /\ pc[r] \in {"prepare", "test", "sleep"}
    /\ r \notin expired
    /\ expired' = expired \cup {r}
    /\ Goto(r, IF pc[r] = "sleep" THEN "test" ELSE pc[r])
    /\ UNCHANGED <<shared, wq, len, val, pos, cnt, todo>>

\* A signal wakes a sleeper, which finds the condition still false and
\* returns -ERESTARTSYS.
Signal(r) ==
    /\ pc[r] = "sleep"
    /\ data_ready = 0
    /\ wq' = wq \ {r}
    /\ ReadReturns(r)
    /\ UNCHANGED <<shared, val, todo>>

\* wake_up_interruptible(&wq): the new program counters of all threads, given
\* that t itself goes to label.
WakeUp(t, label) ==
    /\ pc' = [u \in Thread |->
                IF u = t THEN label
                ELSE IF u \in wq /\ pc[u] = "sleep" THEN "prepare" ELSE pc[u]]
    /\ wq' = {}

----------------------------------------------------------------------------
(* my_read, after the wait                                                 *)

\* strlen(data), cell by cell: the first Nul it meets ends the string, whatever a
\* writer has done to the cells behind and ahead of it.
ReadLen(r) ==
    /\ pc[r] = "strlen"
    /\ \/ /\ data[len[r]] # Nul
          /\ len' = [len EXCEPT ![r] = @ + 1]
          /\ UNCHANGED pc
       \/ /\ data[len[r]] = Nul
          /\ Goto(r, "copy")
          /\ UNCHANGED len
    /\ UNCHANGED <<shared, wq, expired, val, pos, cnt, todo>>

\* One character of copy_to_user, or its end.
ReadCopy(r) ==
    /\ pc[r] = "copy"
    /\ \/ /\ pos[r] < len[r]
          /\ pos' = [pos EXCEPT ![r] = @ + 1]
          /\ UNCHANGED pc
       \/ /\ pos[r] = len[r]
          /\ Goto(r, "load")
          /\ UNCHANGED pos
    /\ UNCHANGED <<shared, wq, expired, len, val, cnt, todo>>

\* copy_to_user fails: -EFAULT, and the reader is not counted.
ReadFault(r) ==
    /\ pc[r] = "copy"
    /\ pos[r] < len[r]
    /\ ReadReturns(r)
    /\ UNCHANGED <<shared, wq, val, todo>>

\* readers_count++ is a load and a store.  Racing readers can drive the count
\* past total_readers without limit; as it is only compared with total_readers,
\* all these values are represented by total_readers itself.
CountLoad(r) ==
    /\ pc[r] = "load"
    /\ cnt' = [cnt EXCEPT ![r] = IF readers_count < total_readers
                                 THEN readers_count + 1 ELSE total_readers]
    /\ Goto(r, "store")
    /\ UNCHANGED <<shared, wq, expired, len, val, pos, todo>>

CountStore(r) ==
    /\ pc[r] = "store"
    /\ readers_count' = cnt[r]
    /\ Goto(r, "compare")
    /\ UNCHANGED <<data, data_ready, wq, expired, len, val, pos, cnt, todo>>

\* if (readers_count >= total_readers), with the register or a fresh load.
Compare(r) ==
    /\ pc[r] = "compare"
    /\ \E c \in {cnt[r], readers_count} :
          IF c >= total_readers
          THEN /\ Goto(r, "stores")
               /\ todo' = [todo EXCEPT ![r] = {"count", "notready"}]
          ELSE /\ Goto(r, "return")
               /\ UNCHANGED todo
    /\ UNCHANGED <<shared, wq, expired, len, val, pos, cnt>>

ReadReturn(r) ==
    /\ pc[r] = "return"
    /\ ReadReturns(r)
    /\ UNCHANGED <<shared, wq, val, todo>>

----------------------------------------------------------------------------
(* my_write                                                                *)

\* Faulty variant: no room is kept for the terminating Nul.
WriteUnclamped(w, n, c) ==
    /\ pc[w] = "idle"
    /\ len' = [len EXCEPT ![w] = IF n > Size THEN Size ELSE n]
    /\ val' = [val EXCEPT ![w] = c]
    /\ Goto(w, "fetch")
    /\ UNCHANGED <<shared, wq, expired, pos, cnt, todo>>

\* The call, with len clamped to one less than the buffer.
WriteCall(w, n, c) ==
    /\ pc[w] = "idle"
    /\ len' = [len EXCEPT ![w] = IF n > Size - 1 THEN Size - 1 ELSE n]
    /\ val' = [val EXCEPT ![w] = c]
    /\ Goto(w, "fetch")
    /\ UNCHANGED <<shared, wq, expired, pos, cnt, todo>>

WriteReturns(w) ==
    /\ len' = [len EXCEPT ![w] = 0]
    /\ val' = [val EXCEPT ![w] = Nul]
    /\ pos' = [pos EXCEPT ![w] = 0]

\* One character of copy_from_user, or its end.
WriteCopy(w) ==
    /\ pc[w] = "fetch"
    /\ \/ /\ pos[w] < len[w]
          /\ data' = [data EXCEPT ![pos[w]] = val[w]]
          /\ pos' = [pos EXCEPT ![w] = @ + 1]
          /\ UNCHANGED <<pc, todo>>
       \/ /\ pos[w] = len[w]
          /\ todo' = [todo EXCEPT ![w] = {"nul", "ready", "count"}]
          /\ Goto(w, "stores")
          /\ UNCHANGED <<data, pos>>
    /\ UNCHANGED <<data_ready, readers_count, wq, expired, len, val, cnt>>

\* A fault: copy_from_user zeroes the rest and the write returns.
WriteFault(w) ==
    /\ pc[w] = "fetch"
    /\ pos[w] < len[w]
    /\ data' = [i \in Cell |-> IF pos[w] <= i /\ i < len[w] THEN Nul ELSE data[i]]
    /\ Goto(w, "idle")
    /\ WriteReturns(w)
    /\ UNCHANGED <<data_ready, readers_count, wq, expired, cnt, todo>>

\* The plain stores of my_write and of the reader that resets the device.
Store(t, s) ==
    /\ pc[t] = "stores"
    /\ s \in todo[t]
    /\ todo' = [todo EXCEPT ![t] = @ \ {s}]
    /\ data' = IF s = "nul" THEN [data EXCEPT ![len[t]] = Nul] ELSE data
    /\ data_ready' = CASE s = "ready"    -> 1
                       [] s = "notready" -> 0
                       [] OTHER          -> data_ready
    /\ readers_count' = IF s = "count" THEN 0 ELSE readers_count
    /\ Goto(t, IF todo[t] = {s} THEN "wake" ELSE "stores")
    /\ UNCHANGED <<wq, expired, len, val, pos, cnt>>

ReaderWakes(r) ==
    /\ pc[r] = "wake"
    /\ WakeUp(r, "return")
    /\ UNCHANGED <<shared, expired, len, val, pos, cnt, todo>>

\* Faulty variant: the writer forgets wake_up.
WriterSilent(w) ==
    /\ pc[w] = "wake"
    /\ Goto(w, "idle")
    /\ WriteReturns(w)
    /\ UNCHANGED <<shared, wq, expired, cnt, todo>>

WriterWakes(w) ==
    /\ pc[w] = "wake"
    /\ WakeUp(w, "idle")
    /\ WriteReturns(w)
    /\ UNCHANGED <<shared, expired, cnt, todo>>

----------------------------------------------------------------------------
ReaderStep(r) ==
    \/ Prepare(r) \/ Test(r)
    \/ ReadLen(r) \/ ReadCopy(r) \/ CountLoad(r) \/ CountStore(r) \/ Compare(r)
    \/ (\E s \in {"count", "notready"} : Store(r, s))
    \/ ReaderWakes(r) \/ ReadReturn(r)

WriterStep(w) ==
    \/ WriteCopy(w)
    \/ (\E s \in {"nul", "ready", "count"} : Store(w, s))
    \/ WriterWakes(w)

Next ==
    \/ \E r \in Reader :
          ReadCall(r) \/ ReaderStep(r) \/ Timer(r) \/ Signal(r) \/ ReadFault(r)
    \/ \E w \in Writer :
          \/ \E n \in Lengths, c \in Char : WriteCall(w, n, c)
          \/ WriterStep(w) \/ WriteFault(w)

\* Runnable threads run, and the five seconds of a wait come to an end.
Fairness ==
    /\ \A r \in Reader : WF_vars(ReaderStep(r)) /\ WF_vars(Timer(r))
    /\ \A w \in Writer : WF_vars(WriterStep(w))

Spec == Init /\ [][Next]_vars /\ Fairness

----------------------------------------------------------------------------
(* Properties                                                              *)

\* Every variable keeps its type; lengths and copy positions leave room for the
\* terminating Nul of data.
TypeOK ==
    /\ data \in [Cell -> Char \cup {Nul}]
    /\ data_ready \in {0, 1}
    /\ readers_count \in 0 .. total_readers
    /\ wq \subseteq Reader
    /\ expired \subseteq Reader
    /\ len \in [Thread -> 0 .. Size - 1]
    /\ pos \in [Thread -> 0 .. Size - 1]
    /\ todo \in [Thread -> SUBSET {"nul", "ready", "count", "notready"}]

\* No wake-up is lost: a reader that sleeps although data is ready is on the
\* wait queue, and a writer that has not yet called wake_up is on its way.
NoLostWakeup ==
    \A r \in Reader :
        pc[r] = "sleep" /\ data_ready = 1 =>
            /\ r \in wq
            /\ \E w \in Writer : pc[w] \in {"stores", "wake"}

\* strlen stays inside data whatever writers are doing: the last cell is never
\* overwritten, so every string a reader can meet is terminated.
AlwaysTerminated == data[Size - 1] = Nul

\* Every read returns, at the latest when its timeout is over, and every write.
CallsReturn == \A t \in Thread : pc[t] # "idle" ~> pc[t] = "idle"
============================================================================
