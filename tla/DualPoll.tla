------------------------------ MODULE DualPoll ------------------------------
(***************************************************************************)
(* 014_poll_select: the driver poll.c, whose devices hold one message and  *)
(* an event flag each, and the programs poll_app.c, select_app.c and       *)
(* epoll_app.c, which wait for both devices and read the ready ones.       *)
(*                                                                         *)
(* The driver takes no lock.  What matters of a message is its size; the   *)
(* bytes are left out.  Each thread reads through a file of its own, so    *)
(* file positions belong to threads.  Waiters queue up, test, and sleep    *)
(* only if they have not been woken in between.                            *)
(***************************************************************************)
EXTENDS Integers, FiniteSets

CONSTANTS
    Minor,      \* 0 .. DEVICE_CNT - 1
    Blocker,    \* threads that read a device without O_NONBLOCK
    App,        \* threads that run main() of one of the three programs
    Writer,     \* threads that write events
    BUF_SIZE,   \* 128 in the code
    Lengths,    \* lengths passed to read and write
    InOrder     \* TRUE: stores become visible in program order; FALSE: the
                \* compiler and the processor may exchange them

ASSUME MinorAssumption  == Minor \subseteq Nat /\ Minor # {} /\ IsFiniteSet(Minor)
ASSUME ThreadAssumption == /\ Blocker \cap App = {}
                           /\ (Blocker \cup App) \cap Writer = {}
ASSUME SizeAssumption   == BUF_SIZE \in Nat \ {0} /\ Lengths \subseteq Nat
ASSUME OrderAssumption  == InOrder \in BOOLEAN

Reader == Blocker \cup App
Thread == Reader \cup Writer

EFAULT == -14

VARIABLES
    event_flag, buffer_size,  \* per device
    wq,        \* per device: the waiters on its wait queue
    fpos,      \* per reader and device: the position of its open file
    pc,        \* where each thread is
    dev,       \* the device a thread works on
    len,       \* the local len
    ret,       \* what my_read is about to return
    todo,      \* stores still to be made
    triggered, \* pollers woken since they last looked
    scan,      \* devices a poll has still to look at
    ready,     \* devices a poll has found ready and not yet served
    rdllist,   \* the ready list of an epoll instance
    prog       \* the program an App thread runs

driver == <<event_flag, buffer_size>>
polls  == <<triggered, scan, ready, rdllist, prog>>
vars   == <<driver, wq, fpos, pc, dev, len, ret, todo, polls>>

Init ==
    /\ event_flag = [m \in Minor |-> 0]
    /\ buffer_size = [m \in Minor |-> 0]
    /\ wq = [m \in Minor |-> {}]
    /\ fpos = [r \in Reader |-> [m \in Minor |-> 0]]
    /\ prog \in [App -> {"poll", "select", "epoll"}]
    /\ rdllist = [a \in App |-> {}]
    /\ pc = [t \in Thread |-> IF t \notin App THEN "idle"
                             ELSE IF prog[t] = "epoll" THEN "ctl" ELSE "poll"]
    /\ dev = [t \in Thread |-> CHOOSE m \in Minor : TRUE]
    /\ len = [t \in Thread |-> 0]
    /\ ret = [t \in Thread |-> 0]
    /\ todo = [t \in Thread |-> {}]
    /\ triggered = {}
    /\ scan = [a \in App |-> Minor]
    /\ ready = [a \in App |-> {}]

Goto(t, label) == pc' = [pc EXCEPT ![t] = label]

\* Back in user space, where the driver's locals are gone and App looks for the
\* next device it has to serve.
Return(t) ==
    /\ Goto(t, IF t \in App THEN "serve" ELSE "idle")
    /\ len' = [len EXCEPT ![t] = 0]
    /\ ret' = [ret EXCEPT ![t] = 0]

----------------------------------------------------------------------------
(* my_read                                                                 *)

ReadCall(r, m, n) ==
    /\ pc[r] = "idle"
    /\ dev' = [dev EXCEPT ![r] = m]
    /\ len' = [len EXCEPT ![r] = n]
    /\ Goto(r, "flag")
    /\ UNCHANGED <<driver, wq, fpos, ret, todo, polls>>

\* if (!event_flag[minor]): App's files are O_NONBLOCK and get -EAGAIN.
FlagTest(r) ==
    /\ pc[r] = "flag"
    /\ \/ /\ event_flag[dev[r]] = 1
          /\ Goto(r, "copy")
          /\ UNCHANGED <<len, ret>>
       \/ /\ event_flag[dev[r]] = 0 /\ r \in App
          /\ Return(r)
       \/ /\ event_flag[dev[r]] = 0 /\ r \in Blocker
          /\ Goto(r, "prepare")
          /\ UNCHANGED <<len, ret>>
    /\ UNCHANGED <<driver, wq, fpos, dev, todo, polls>>

\* wait_event_interruptible: onto the queue, ...
Prepare(r) ==
    /\ pc[r] = "prepare"
    /\ wq' = [wq EXCEPT ![dev[r]] = @ \cup {r}]
    /\ Goto(r, "test")
    /\ UNCHANGED <<driver, fpos, dev, len, ret, todo, polls>>

\* ... test the flag; sleep if it is clear and no wake-up came in between.
Test(r) ==
    LET m == dev[r] IN
    /\ pc[r] = "test"
    /\ \/ /\ event_flag[m] = 1
          /\ wq' = [wq EXCEPT ![m] = @ \ {r}]
          /\ Goto(r, "copy")
       \/ /\ event_flag[m] = 0
          /\ Goto(r, IF r \in wq[m] THEN "sleep" ELSE "prepare")
          /\ UNCHANGED wq
    /\ UNCHANGED <<driver, fpos, dev, len, ret, todo, polls>>

\* A signal ends the sleep; my_read does not look at the return value.
Signal(r) ==
    /\ pc[r] = "sleep"
    /\ wq' = [wq EXCEPT ![dev[r]] = @ \ {r}]
    /\ Goto(r, "copy")
    /\ UNCHANGED <<driver, fpos, dev, len, ret, todo, polls>>

\* The bytes simple_read_from_buffer would copy from a buffer of size bytes.
Available(r, size) ==
    LET left == size - fpos[r][dev[r]]
    IN  IF left <= 0 THEN 0 ELSE IF len[r] < left THEN len[r] ELSE left

\* simple_read_from_buffer copies n bytes and advances *pos.
Copy(r, n) ==
    /\ pc[r] = "copy"
    /\ ret' = [ret EXCEPT ![r] = n]
    /\ fpos' = [fpos EXCEPT ![r][dev[r]] = @ + n]
    /\ Goto(r, "done")
    /\ UNCHANGED <<driver, wq, dev, len, todo, polls>>

CopyAll(r) == Copy(r, Available(r, buffer_size[dev[r]]))

\* copy_to_user stops early; with nothing copied the result is -EFAULT.
CopyFault(r) ==
    /\ r \in Blocker
    /\ \/ /\ pc[r] = "copy"
          /\ Available(r, buffer_size[dev[r]]) > 0
          /\ ret' = [ret EXCEPT ![r] = EFAULT]
          /\ Goto(r, "done")
          /\ UNCHANGED <<driver, wq, fpos, dev, len, todo, polls>>
       \/ \E n \in 1 .. Available(r, buffer_size[dev[r]]) - 1 : Copy(r, n)

\* if (*pos >= buffer_size[minor]): the event is cleared with two stores.
Done(r) ==
    /\ pc[r] = "done"
    /\ \/ /\ fpos[r][dev[r]] >= buffer_size[dev[r]]
          /\ todo' = [todo EXCEPT ![r] = {"noflag", "nosize"}]
          /\ Goto(r, "clear")
          /\ UNCHANGED <<len, ret>>
       \/ /\ fpos[r][dev[r]] < buffer_size[dev[r]]
          /\ Return(r)
          /\ UNCHANGED todo
    /\ UNCHANGED <<driver, wq, fpos, dev, polls>>

\* default_llseek.
Seek(r, m, o) ==
    /\ pc[r] = "idle"
    /\ fpos' = [fpos EXCEPT ![r][m] = o]
    /\ UNCHANGED <<driver, wq, pc, dev, len, ret, todo, polls>>

----------------------------------------------------------------------------
(* my_write                                                                *)

\* copy_from_user has succeeded (a fault there ends the call with -EFAULT and
\* leaves flag and size alone); len is clamped to the buffer.
WriteCall(w, m, n) ==
    /\ pc[w] = "idle"
    /\ dev' = [dev EXCEPT ![w] = m]
    /\ len' = [len EXCEPT ![w] = IF n > BUF_SIZE THEN BUF_SIZE ELSE n]
    /\ todo' = [todo EXCEPT ![w] = {"size", "flag"}]
    /\ Goto(w, "set")
    /\ UNCHANGED <<driver, wq, fpos, ret, polls>>

\* The plain stores of my_write (size, then flag) and of my_read (flag, then
\* size), in this order or, unless InOrder, in any.
Store(t, s) ==
    LET m == dev[t] IN
    /\ pc[t] \in {"set", "clear"}
    /\ s \in todo[t]
    /\ InOrder => /\ s = "flag" => "size" \notin todo[t]
                  /\ s = "nosize" => "noflag" \notin todo[t]
    /\ todo' = [todo EXCEPT ![t] = @ \ {s}]
    /\ event_flag' = [event_flag EXCEPT ![m] = CASE s = "flag"   -> 1
                                                 [] s = "noflag" -> 0
                                                 [] OTHER        -> @]
    /\ buffer_size' = [buffer_size EXCEPT ![m] = CASE s = "size"   -> len[t]
                                                   [] s = "nosize" -> 0
                                                   [] OTHER        -> @]
    /\ IF todo[t] = {s} /\ pc[t] = "clear"
       THEN Return(t)
       ELSE /\ Goto(t, IF todo[t] = {s} THEN "wake" ELSE pc[t])
            /\ UNCHANGED <<len, ret>>
    /\ UNCHANGED <<wq, fpos, dev, polls>>

\* Faulty variant: the writer forgets wake_up.
WakeForgotten(w) ==
    /\ pc[w] = "wake"
    /\ Goto(w, "idle")
    /\ UNCHANGED <<driver, wq, fpos, dev, len, ret, todo, polls>>

\* wake_up_interruptible: readers leave the queue, pollers stay on it and are
\* marked; the callback of an epoll instance puts the device on its ready list.
Wake(w) ==
    LET m == dev[w] IN
    /\ pc[w] = "wake"
    /\ pc' = [t \in Thread |->
                CASE t = w                                     -> "idle"
                  [] t \in wq[m] /\ t \in Blocker
                                 /\ pc[t] = "sleep"            -> "prepare"
                  [] t \in wq[m] /\ t \in App /\ pc[t] = "wait" -> "poll"
                  [] OTHER                                     -> pc[t]]
    /\ wq' = [wq EXCEPT ![m] = @ \ Blocker]
    /\ triggered' = triggered \cup {a \in wq[m] \cap App : prog[a] # "epoll"}
    /\ rdllist' = [a \in App |-> IF a \in wq[m] /\ prog[a] = "epoll"
                                 THEN rdllist[a] \cup {m} ELSE rdllist[a]]
    /\ len' = [len EXCEPT ![w] = 0]
    /\ UNCHANGED <<driver, fpos, dev, ret, todo, scan, ready, prog>>

----------------------------------------------------------------------------
(* poll(2) and select(2) over my_poll, and the loops on top of them        *)

Lowest(S) == CHOOSE m \in S : \A n \in S : m <= n

\* Faulty variant: my_poll looks at the flag before it calls poll_wait.
PollOneReversed(a) ==
    LET m == Lowest(scan[a]) IN
    /\ prog[a] # "epoll" /\ scan[a] # {}
    /\ \/ /\ pc[a] = "poll"
          /\ ready' = [ready EXCEPT ![a] = IF event_flag[m] = 1 THEN @ \cup {m} ELSE @]
          /\ Goto(a, "look")
          /\ UNCHANGED <<wq, scan>>
       \/ /\ pc[a] = "look"
          /\ wq' = [wq EXCEPT ![m] = @ \cup {a}]
          /\ scan' = [scan EXCEPT ![a] = @ \ {m}]
          /\ Goto(a, "poll")
          /\ UNCHANGED ready
    /\ UNCHANGED <<driver, fpos, dev, len, ret, todo, triggered, rdllist, prog>>

\* my_poll of the next device: poll_wait, then, in a step of its own, the flag.
PollOne(a) ==
    LET m == Lowest(scan[a]) IN
    /\ prog[a] # "epoll" /\ scan[a] # {}
    /\ \/ /\ pc[a] = "poll"
          /\ wq' = [wq EXCEPT ![m] = @ \cup {a}]
          /\ Goto(a, "look")
          /\ UNCHANGED <<ready, scan>>
       \/ /\ pc[a] = "look"
          /\ ready' = [ready EXCEPT ![a] = IF event_flag[m] = 1 THEN @ \cup {m} ELSE @]
          /\ scan' = [scan EXCEPT ![a] = @ \ {m}]
          /\ Goto(a, "poll")
          /\ UNCHANGED wq
    /\ UNCHANGED <<driver, fpos, dev, len, ret, todo, triggered, rdllist, prog>>

\* All devices looked at: return to main() if one is ready, look again if a
\* wake-up came since, sleep otherwise.
PollEnd(a) ==
    /\ pc[a] = "poll" /\ prog[a] # "epoll"
    /\ scan[a] = {}
    /\ \/ /\ ready[a] # {}
          /\ wq' = [m \in Minor |-> wq[m] \ {a}]
          /\ triggered' = triggered \ {a}
          /\ Goto(a, "serve")
          /\ UNCHANGED scan
       \/ /\ ready[a] = {} /\ a \in triggered
          /\ triggered' = triggered \ {a}
          /\ scan' = [scan EXCEPT ![a] = Minor]
          /\ UNCHANGED <<wq, pc>>
       \/ /\ ready[a] = {} /\ a \notin triggered
          /\ Goto(a, "wait")
          /\ UNCHANGED <<wq, triggered, scan>>
    /\ UNCHANGED <<driver, fpos, dev, len, ret, todo, ready, rdllist, prog>>

\* The length main() passes to read: sizeof(buf) in poll_app.c, one byte less in
\* the other two, which terminate the string themselves.
AppLen(a) == IF prog[a] = "poll" THEN BUF_SIZE ELSE BUF_SIZE - 1

\* main(): read each ready device in turn, then wait again.
Serve(a) ==
    /\ pc[a] = "serve"
    /\ \/ /\ ready[a] # {}
          /\ dev' = [dev EXCEPT ![a] = Lowest(ready[a])]
          /\ len' = [len EXCEPT ![a] = AppLen(a)]
          /\ ready' = [ready EXCEPT ![a] = @ \ {Lowest(ready[a])}]
          /\ Goto(a, "flag")
          /\ UNCHANGED scan
       \/ /\ ready[a] = {}
          /\ scan' = [scan EXCEPT ![a] = IF prog[a] = "epoll" THEN {} ELSE Minor]
          /\ Goto(a, "poll")
          /\ UNCHANGED <<dev, len, ready>>
    /\ UNCHANGED <<driver, wq, fpos, ret, todo, triggered, rdllist, prog>>

----------------------------------------------------------------------------
(* epoll(7) over my_poll, as epoll_app.c uses it: level-triggered          *)

\* epoll_ctl(EPOLL_CTL_ADD) of the next device: my_poll puts the instance on the
\* device's wait queue for good, and looks at the flag; a device with an event is
\* ready at once.
EpollCtl(a) ==
    LET m == Lowest(scan[a]) IN
    /\ \/ /\ pc[a] = "ctl" /\ scan[a] # {}
          /\ wq' = [wq EXCEPT ![m] = @ \cup {a}]
          /\ Goto(a, "ctllook")
          /\ UNCHANGED <<rdllist, scan>>
       \/ /\ pc[a] = "ctllook" /\ scan[a] # {}
          /\ rdllist' = [rdllist EXCEPT ![a] =
                            IF event_flag[m] = 1 THEN @ \cup {m} ELSE @]
          /\ scan' = [scan EXCEPT ![a] = @ \ {m}]
          /\ Goto(a, "ctl")
          /\ UNCHANGED wq
       \/ /\ pc[a] = "ctl" /\ scan[a] = {}
          /\ Goto(a, "poll")
          /\ UNCHANGED <<wq, rdllist, scan>>
    /\ UNCHANGED <<driver, fpos, dev, len, ret, todo, triggered, ready, prog>>

\* epoll_wait: the ready list is taken to be looked through, or the thread
\* sleeps.
EpollWait(a) ==
    /\ pc[a] = "poll" /\ prog[a] = "epoll"
    /\ scan' = [scan EXCEPT ![a] = rdllist[a]]
    /\ rdllist' = [rdllist EXCEPT ![a] = {}]
    /\ Goto(a, IF rdllist[a] = {} THEN "wait" ELSE "send")
    /\ UNCHANGED <<driver, wq, fpos, dev, len, ret, todo, triggered, ready, prog>>

\* my_poll of a device of that list: with an event it is reported, and goes back
\* on the ready list so that the next epoll_wait looks at it again.
EpollSend(a) ==
    /\ pc[a] = "send"
    /\ \/ \E m \in scan[a] :
          /\ scan' = [scan EXCEPT ![a] = @ \ {m}]
          /\ IF event_flag[m] = 1
             THEN /\ ready' = [ready EXCEPT ![a] = @ \cup {m}]
                  /\ rdllist' = [rdllist EXCEPT ![a] = @ \cup {m}]
             ELSE UNCHANGED <<ready, rdllist>>
          /\ UNCHANGED pc
       \/ /\ scan[a] = {}
          /\ Goto(a, IF ready[a] = {} THEN "poll" ELSE "serve")
          /\ UNCHANGED <<scan, ready, rdllist>>
    /\ UNCHANGED <<driver, wq, fpos, dev, len, ret, todo, triggered, prog>>

----------------------------------------------------------------------------
ReadStep(r) ==
    \/ FlagTest(r) \/ Prepare(r) \/ Test(r) \/ CopyAll(r) \/ Done(r)
    \/ \E s \in {"noflag", "nosize"} : Store(r, s)

WriteStep(w) == Wake(w) \/ \E s \in {"size", "flag"} : Store(w, s)

AppStep(a) == \/ PollOne(a) \/ PollEnd(a) \/ Serve(a) \/ ReadStep(a)
              \/ EpollCtl(a) \/ EpollWait(a) \/ EpollSend(a)

Next ==
    \/ \E b \in Blocker :
          \/ \E m \in Minor, n \in Lengths : ReadCall(b, m, n)
          \/ \E m \in Minor, o \in 0 .. BUF_SIZE : Seek(b, m, o)
          \/ ReadStep(b) \/ Signal(b) \/ CopyFault(b)
    \/ \E w \in Writer :
          \/ \E m \in Minor, n \in Lengths : WriteCall(w, m, n)
          \/ WriteStep(w)
    \/ \E a \in App : AppStep(a)

\* Runnable threads run.
Fairness ==
    /\ \A b \in Blocker : WF_vars(ReadStep(b))
    /\ \A w \in Writer : WF_vars(WriteStep(w))
    /\ \A a \in App : WF_vars(AppStep(a))

Spec == Init /\ [][Next]_vars /\ Fairness

----------------------------------------------------------------------------
(* Properties                                                              *)

\* Every variable keeps its type; the size of a message is at most BUF_SIZE, and
\* so is every position a read moves to.
TypeOK ==
    /\ event_flag \in [Minor -> {0, 1}]
    /\ buffer_size \in [Minor -> 0 .. BUF_SIZE]
    /\ wq \in [Minor -> SUBSET Reader]
    /\ fpos \in [Reader -> [Minor -> 0 .. BUF_SIZE]]
    /\ dev \in [Thread -> Minor]
    /\ ret \in [Thread -> Int]
    /\ triggered \subseteq App
    /\ scan \in [App -> SUBSET Minor]
    /\ ready \in [App -> SUBSET Minor]
    /\ rdllist \in [App -> SUBSET Minor]

\* A thread that sleeps in my_read or in poll, select or epoll_wait while its
\* device has an event is on that device's wait queue, and a writer is about to
\* wake it.
NoLostWakeup ==
    \A r \in Reader, m \in Minor :
        /\ event_flag[m] = 1
        /\ \/ pc[r] = "sleep" /\ dev[r] = m
           \/ pc[r] = "wait"
        => /\ r \in wq[m]
           /\ \E w \in Writer : dev[w] = m /\ pc[w] \in {"set", "wake"}

\* Each of the three loops attends to every event: while the flag is up, main()
\* comes to read the device, also the byte of a full message that select_app.c
\* and epoll_app.c leave behind at their first read.
EventsServed ==
    \A m \in Minor :
        event_flag[m] = 1 ~> \/ event_flag[m] = 0
                             \/ \E a \in App : pc[a] = "done" /\ dev[a] = m

\* An event is cleared by a read that got the end of the message.
ClearedOnceRead ==
    \A r \in Reader : pc[r] = "clear" => ret[r] > 0 \/ buffer_size[dev[r]] = 0
=============================================================================
