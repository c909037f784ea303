--------------------------- MODULE DualPollProofs ---------------------------
(***************************************************************************)
(* Proofs about DualPoll, for any number of devices, readers, programs and *)
(* writers: every variable keeps its type, and no wake-up is lost although *)
(* the driver takes no lock and three kinds of waiters share its queues.   *)
(***************************************************************************)
EXTENDS DualPoll, NaturalsInduction, WellFoundedInduction, TLAPS

\* Where the threads can be.
BlockerLabel == {"idle", "flag", "prepare", "test", "sleep", "copy", "done",
                 "clear"}
AppLabel     == {"ctl", "ctllook", "poll", "look", "wait", "send", "serve", "flag",
                 "copy", "done", "clear"}
WriterLabel  == {"idle", "set", "wake"}

\* The types of the control and of the locals; only a program that uses epoll
\* fills an epoll instance.
LocalTypes ==
    /\ pc \in [Thread -> BlockerLabel \cup AppLabel \cup WriterLabel]
    /\ \A b \in Blocker : pc[b] \in BlockerLabel
    /\ \A a \in App : pc[a] \in AppLabel
    /\ \A w \in Writer : pc[w] \in WriterLabel
    /\ len \in [Thread -> Nat]
    /\ \A w \in Writer : len[w] \in 0 .. BUF_SIZE
    /\ prog \in [App -> {"poll", "select", "epoll"}]
    /\ \A a \in App : pc[a] \in {"ctl", "ctllook", "send"} => prog[a] = "epoll"

\* A writer of m has not called wake_up yet.
Pending(m) == \E w \in Writer : dev[w] = m /\ pc[w] \in {"set", "wake"}

\* A thread asleep in my_read is on the queue of its device, and if there is an
\* event by now its writer will call wake_up.
SleeperQueued(b) ==
    pc[b] = "sleep" => /\ b \in wq[dev[b]]
                       /\ event_flag[dev[b]] = 1 => Pending(dev[b])

\* poll and select: a device that has been looked at has the thread on its
\* queue, and an event on it was seen, has marked the thread or is about to.
PollerQueued(a, m) ==
    /\ prog[a] # "epoll"
    /\ pc[a] = "wait" \/ (pc[a] \in {"poll", "look"} /\ m \notin scan[a])
    => /\ a \in wq[m]
       /\ event_flag[m] = 1 =>
             \/ Pending(m)
             \/ /\ pc[a] \in {"poll", "look"}
                /\ m \in ready[a] \/ a \in triggered

\* epoll: a device that was added has the instance on its queue for good, and an
\* event on it is on the ready list, in the list being looked through or about
\* to be put there.
EpollQueued(a, m) ==
    /\ prog[a] = "epoll"
    /\ pc[a] \in {"ctl", "ctllook"} => m \notin scan[a]
    => /\ a \in wq[m]
       /\ event_flag[m] = 1 =>
             \/ Pending(m)
             \/ m \in rdllist[a]
             \/ pc[a] = "send" /\ m \in scan[a]

\* Between poll_wait and the flag my_poll has its caller on the device's queue.
LookQueued(a) ==
    pc[a] \in {"look", "ctllook"} => scan[a] # {} /\ a \in wq[Lowest(scan[a])]

\* epoll_wait sleeps only on an empty ready list.
EpollEmpty(a) == prog[a] = "epoll" /\ pc[a] = "wait" => rdllist[a] = {}

\* What holds of each waiter.
AppQueued(a) ==
    /\ EpollEmpty(a)
    /\ LookQueued(a)
    /\ \A m \in Minor : PollerQueued(a, m) /\ EpollQueued(a, m)
QueueInv ==
    /\ \A b \in Blocker : SleeperQueued(b)
    /\ \A a \in App : AppQueued(a)

\* The inductive invariant.
PollTypes == TypeOK /\ LocalTypes
PollInv   == PollTypes /\ QueueInv

----------------------------------------------------------------------------
(* Types                                                                   *)

\* The least of a set of minor numbers is one of them.
LEMMA LowestInside ==
    ASSUME NEW S \in SUBSET Minor, S # {}
    PROVE  Lowest(S) \in S
<1> DEFINE R == OpToRel(<, Nat)
<1>1. IsWellFoundedOn(R, Nat)
  BY NatLessThanWellFounded
<1>2. S \in SUBSET Nat
  BY MinorAssumption
<1>3. PICK m \in S : \A n \in S : ~(<<n, m>> \in R)
  <2> HIDE DEF R
  <2> QED
    BY <1>1, <1>2, WFMin
<1>4. R = {p \in Nat \X Nat : p[1] < p[2]}
  BY Zenon DEF OpToRel
<1> HIDE DEF R
<1>5. \A n \in S : n < m => <<n, m>> \in R
  BY <1>2, <1>4
<1>6. \A n \in S : ~(n < m) /\ n \in Nat /\ m \in Nat
  BY <1>2, <1>3, <1>5
<1>7. \A n \in S : m <= n
  BY <1>6
<1> QED
  BY <1>7 DEF Lowest

\* The three kinds of threads.
LEMMA Threads ==
    /\ Blocker \subseteq Reader /\ App \subseteq Reader /\ Reader \subseteq Thread
    /\ Writer \subseteq Thread
    /\ \A b \in Blocker : b \notin App /\ b \notin Writer
    /\ \A a \in App : a \notin Blocker /\ a \notin Writer
    /\ \A w \in Writer : w \notin Blocker /\ w \notin App
    /\ \A t \in Reader : t \in Blocker \/ t \in App
    /\ \A t \in Thread : t \in Blocker \/ t \in App \/ t \in Writer
BY ThreadAssumption DEF Reader, Thread

\* The types hold at the start.
LEMMA InitTypes == Init => PollTypes
<1> SUFFICES ASSUME Init PROVE PollTypes
  OBVIOUS
<1>1. (CHOOSE m \in Minor : TRUE) \in Minor
  BY MinorAssumption
<1>2. TypeOK
  BY <1>1, SizeAssumption DEF Init, TypeOK
<1>3. LocalTypes
  BY SizeAssumption, Threads
  DEF Init, LocalTypes, BlockerLabel, AppLabel, WriterLabel
<1> QED
  BY <1>2, <1>3 DEF PollTypes

\* The types are kept when control and len move as a thread's kind allows.
LEMMA LocalTypesByThread ==
    ASSUME LocalTypes, NEW t \in Thread, UNCHANGED prog,
           NEW label, pc' = [pc EXCEPT ![t] = label],
           t \in Blocker => label \in BlockerLabel,
           t \in App => /\ label \in AppLabel
                        /\ label \in {"ctl", "ctllook", "send"} => prog[t] = "epoll",
           t \in Writer => label \in WriterLabel,
           len' \in [Thread -> Nat],
           \A q \in Thread : len'[q] = len[q] \/ len'[q] \in 0 .. BUF_SIZE
                             \/ q \notin Writer
    PROVE  LocalTypes'
<1>1. label \in BlockerLabel \cup AppLabel \cup WriterLabel
  BY Threads
<1>2. pc' \in [Thread -> BlockerLabel \cup AppLabel \cup WriterLabel]
  BY <1>1 DEF LocalTypes
<1>3. pc'[t] = label /\ \A q \in Thread \ {t} : pc'[q] = pc[q]
  BY DEF LocalTypes
<1>4. \A w \in Writer : len'[w] \in 0 .. BUF_SIZE
  BY Threads DEF LocalTypes
<1> QED
  BY <1>2, <1>3, <1>4, Threads DEF LocalTypes

\* The same when only control moves.
LEMMA LocalTypesByControl ==
    ASSUME LocalTypes, NEW t \in Thread, UNCHANGED <<prog, len>>,
           NEW label, pc' = [pc EXCEPT ![t] = label],
           t \in Blocker => label \in BlockerLabel,
           t \in App => /\ label \in AppLabel
                        /\ label \in {"ctl", "ctllook", "send"} => prog[t] = "epoll",
           t \in Writer => label \in WriterLabel
    PROVE  LocalTypes'
<1>1. len' \in [Thread -> Nat]
  BY DEF LocalTypes
<1> QED
  BY <1>1, LocalTypesByThread

\* A return to user space.
LEMMA ReturnTypes ==
    ASSUME PollTypes, NEW t \in Thread, Return(t), UNCHANGED prog
    PROVE  LocalTypes' /\ ret' \in [Thread -> Int]
<1>1. PICK label : /\ pc' = [pc EXCEPT ![t] = label]
                   /\ label = IF t \in App THEN "serve" ELSE "idle"
  BY DEF Return, Goto
<1>2. len' = [len EXCEPT ![t] = 0] /\ ret' = [ret EXCEPT ![t] = 0]
  BY DEF Return
<1>3. LocalTypes'
  <2>1. /\ t \in Blocker => label \in BlockerLabel
        /\ t \in App => label \in AppLabel /\ label \notin {"ctl", "ctllook", "send"}
        /\ t \in Writer => label \in WriterLabel
    BY <1>1, Threads DEF BlockerLabel, AppLabel, WriterLabel
  <2>2. /\ len' \in [Thread -> Nat]
        /\ \A q \in Thread : len'[q] = len[q] \/ len'[q] \in 0 .. BUF_SIZE
    BY <1>2, SizeAssumption DEF PollTypes, LocalTypes
  <2> QED
    BY <1>1, <2>1, <2>2, LocalTypesByThread DEF PollTypes
<1> QED
  BY <1>2, <1>3 DEF PollTypes, TypeOK

\* my_read is called.
LEMMA ReadCallTypes ==
    ASSUME PollTypes, NEW r \in Blocker, NEW m \in Minor, NEW n \in Lengths,
           ReadCall(r, m, n)
    PROVE  PollTypes'
<1>1. r \in Thread
  BY Threads
<1>2. TypeOK'
  BY <1>1 DEF PollTypes, ReadCall, TypeOK, driver, polls
<1>3. pc' = [pc EXCEPT ![r] = "flag"] /\ len' = [len EXCEPT ![r] = n]
      /\ UNCHANGED prog
  BY DEF ReadCall, Goto, polls
<1>4. /\ len' \in [Thread -> Nat]
      /\ \A q \in Thread : len'[q] = len[q] \/ q \notin Writer
  BY <1>3, Threads, SizeAssumption DEF PollTypes, LocalTypes
<1>5. LocalTypes'
  BY <1>1, <1>3, <1>4, LocalTypesByThread, Threads DEF PollTypes, BlockerLabel
<1> QED
  BY <1>2, <1>5 DEF PollTypes

\* The test of the flag at the head of my_read.
LEMMA FlagTestTypes ==
    ASSUME PollTypes, NEW r \in Reader, FlagTest(r)
    PROVE  PollTypes'
<1>1. r \in Thread /\ TypeOK /\ LocalTypes
  BY Threads DEF PollTypes
<1>2. UNCHANGED <<event_flag, buffer_size, wq, fpos, dev, triggered, scan, ready,
                  rdllist, prog>>
  BY DEF FlagTest, driver, polls
<1>3. CASE Return(r)
  BY <1>1, <1>2, <1>3, ReturnTypes DEF TypeOK, PollTypes
<1>4. ASSUME UNCHANGED <<len, ret>>,
             NEW label, Goto(r, label),
             label = "copy" \/ (label = "prepare" /\ r \in Blocker)
      PROVE  PollTypes'
  <2>1. LocalTypes'
    BY <1>1, <1>2, <1>4, LocalTypesByControl, Threads
    DEF Goto, BlockerLabel, AppLabel
  <2> QED
    BY <1>1, <1>2, <1>4, <2>1 DEF TypeOK, PollTypes
<1> QED
  BY <1>3, <1>4 DEF FlagTest

\* wait_event_interruptible.
LEMMA WaitTypes ==
    ASSUME PollTypes, NEW r \in Reader, Prepare(r) \/ Test(r) \/ Signal(r)
    PROVE  PollTypes' /\ r \in Blocker
<1>1. r \in Thread /\ TypeOK /\ LocalTypes
  BY Threads DEF PollTypes
<1>2. r \in Blocker
  BY <1>1, Threads DEF Prepare, Test, Signal, LocalTypes, AppLabel
<1>3. UNCHANGED <<event_flag, buffer_size, fpos, dev, len, ret, triggered, scan,
                  ready, rdllist, prog>>
  BY DEF Prepare, Test, Signal, driver, polls
<1>4. wq' \in [Minor -> SUBSET Reader]
  BY <1>1 DEF Prepare, Test, Signal, TypeOK
<1>5. PICK label \in BlockerLabel : pc' = [pc EXCEPT ![r] = label]
  BY DEF Prepare, Test, Signal, Goto, BlockerLabel
<1>6. LocalTypes'
  BY <1>1, <1>2, <1>3, <1>5, LocalTypesByControl, Threads
<1> QED
  BY <1>1, <1>2, <1>3, <1>4, <1>6 DEF TypeOK, PollTypes

\* What simple_read_from_buffer copies lies between the position and the size.
LEMMA AvailableBound ==
    ASSUME PollTypes, NEW r \in Reader
    PROVE  /\ Available(r, buffer_size[dev[r]]) \in Nat
           /\ fpos[r][dev[r]] \in 0 .. BUF_SIZE
           /\ fpos[r][dev[r]] + Available(r, buffer_size[dev[r]]) <= BUF_SIZE
<1>1. r \in Thread /\ dev[r] \in Minor
  BY Threads DEF PollTypes, TypeOK
<1>2. /\ buffer_size[dev[r]] \in 0 .. BUF_SIZE /\ fpos[r][dev[r]] \in 0 .. BUF_SIZE
      /\ len[r] \in Nat
  BY <1>1 DEF PollTypes, TypeOK, LocalTypes
<1> QED
  BY <1>2, SizeAssumption DEF Available

\* The copy, whole or cut short.
LEMMA CopyTypes ==
    ASSUME PollTypes, NEW r \in Reader, NEW n \in Nat, Copy(r, n),
           n <= Available(r, buffer_size[dev[r]])
    PROVE  PollTypes'
<1>1. r \in Thread /\ TypeOK /\ LocalTypes
  BY Threads DEF PollTypes
<1>2. UNCHANGED <<event_flag, buffer_size, wq, dev, len, triggered, scan, ready,
                  rdllist, prog>>
  BY DEF Copy, driver, polls
<1>3. fpos' \in [Reader -> [Minor -> 0 .. BUF_SIZE]]
  <2> DEFINE v == fpos[r][dev[r]] + n
  <2>1. v \in 0 .. BUF_SIZE
    BY AvailableBound, SizeAssumption
  <2>2. fpos' = [fpos EXCEPT ![r] = [fpos[r] EXCEPT ![dev[r]] = v]]
    BY DEF Copy
  <2> HIDE DEF v
  <2>3. [fpos[r] EXCEPT ![dev[r]] = v] \in [Minor -> 0 .. BUF_SIZE]
    BY <1>1, <2>1 DEF TypeOK
  <2> QED
    BY <1>1, <2>2, <2>3 DEF TypeOK
<1>4. ret' \in [Thread -> Int]
  BY <1>1 DEF Copy, TypeOK
<1>5. LocalTypes'
  BY <1>1, <1>2, LocalTypesByControl, Threads
  DEF Copy, Goto, BlockerLabel, AppLabel
<1> QED
  BY <1>1, <1>2, <1>3, <1>4, <1>5 DEF TypeOK, PollTypes

\* The copy faults.
LEMMA CopyFaultTypes ==
    ASSUME PollTypes, NEW r \in Blocker, CopyFault(r)
    PROVE  PollTypes'
<1>1. r \in Thread /\ r \in Reader /\ TypeOK /\ LocalTypes
  BY Threads DEF PollTypes
<1>2. ASSUME NEW n \in 1 .. Available(r, buffer_size[dev[r]]) - 1, Copy(r, n)
      PROVE  PollTypes'
  <2>1. n \in Nat /\ n <= Available(r, buffer_size[dev[r]])
    BY <1>1, AvailableBound
  <2> QED
    BY <1>1, <1>2, <2>1, CopyTypes
<1>3. ASSUME ret' = [ret EXCEPT ![r] = EFAULT], Goto(r, "done"),
             UNCHANGED <<driver, wq, fpos, dev, len, todo, polls>>
      PROVE  PollTypes'
  <2>1. UNCHANGED <<event_flag, buffer_size, triggered, scan, ready, rdllist, prog>>
    BY <1>3 DEF driver, polls
  <2>2. LocalTypes'
    BY <1>1, <1>3, <2>1, LocalTypesByControl, Threads DEF Goto, BlockerLabel
  <2>3. ret' \in [Thread -> Int]
    BY <1>1, <1>3 DEF TypeOK, EFAULT
  <2> QED
    BY <1>1, <1>3, <2>1, <2>2, <2>3 DEF TypeOK, PollTypes
<1> QED
  BY <1>2, <1>3 DEF CopyFault

\* The test behind the copy.
LEMMA DoneTypes ==
    ASSUME PollTypes, NEW r \in Reader, Done(r)
    PROVE  PollTypes'
<1>1. r \in Thread /\ TypeOK /\ LocalTypes
  BY Threads DEF PollTypes
<1>2. UNCHANGED <<event_flag, buffer_size, wq, fpos, dev, triggered, scan, ready,
                  rdllist, prog>>
  BY DEF Done, driver, polls
<1>3. CASE Return(r)
  BY <1>1, <1>2, <1>3, ReturnTypes DEF TypeOK, PollTypes
<1>4. ASSUME UNCHANGED <<len, ret>>, Goto(r, "clear") PROVE PollTypes'
  <2>1. LocalTypes'
    BY <1>1, <1>2, <1>4, LocalTypesByControl, Threads
    DEF Goto, BlockerLabel, AppLabel
  <2> QED
    BY <1>1, <1>2, <1>4, <2>1 DEF TypeOK, PollTypes
<1> QED
  BY <1>3, <1>4 DEF Done

\* default_llseek.
LEMMA SeekTypes ==
    ASSUME PollTypes, NEW r \in Blocker, NEW m \in Minor, NEW o \in 0 .. BUF_SIZE,
           Seek(r, m, o)
    PROVE  PollTypes'
<1>1. r \in Reader
  BY Threads
<1>2. UNCHANGED <<event_flag, buffer_size, wq, pc, dev, len, ret, triggered, scan,
                  ready, rdllist, prog>>
  BY DEF Seek, driver, polls
<1>3. fpos' \in [Reader -> [Minor -> 0 .. BUF_SIZE]]
  <2>1. fpos' = [fpos EXCEPT ![r] = [fpos[r] EXCEPT ![m] = o]]
    BY DEF Seek
  <2>2. [fpos[r] EXCEPT ![m] = o] \in [Minor -> 0 .. BUF_SIZE]
    BY <1>1 DEF PollTypes, TypeOK
  <2> QED
    BY <1>1, <2>1, <2>2 DEF PollTypes, TypeOK
<1> QED
  BY <1>2, <1>3 DEF PollTypes, TypeOK, LocalTypes

\* my_write is called; len is clamped.
LEMMA WriteCallTypes ==
    ASSUME PollTypes, NEW w \in Writer, NEW m \in Minor, NEW n \in Lengths,
           WriteCall(w, m, n)
    PROVE  PollTypes'
<1>1. w \in Thread /\ TypeOK /\ LocalTypes
  BY Threads DEF PollTypes
<1>2. UNCHANGED <<event_flag, buffer_size, wq, fpos, ret, triggered, scan, ready,
                  rdllist, prog>>
  BY DEF WriteCall, driver, polls
<1>3. dev' \in [Thread -> Minor]
  BY <1>1 DEF WriteCall, TypeOK
<1> DEFINE k == IF n > BUF_SIZE THEN BUF_SIZE ELSE n
<1>4. len' = [len EXCEPT ![w] = k] /\ k \in 0 .. BUF_SIZE
  BY SizeAssumption DEF WriteCall
<1> HIDE DEF k
<1>5. /\ len' \in [Thread -> Nat]
      /\ \A q \in Thread : len'[q] = len[q] \/ len'[q] \in 0 .. BUF_SIZE
  BY <1>1, <1>4, SizeAssumption DEF LocalTypes
<1>6. pc' = [pc EXCEPT ![w] = "set"]
  BY DEF WriteCall, Goto
<1>7. LocalTypes'
  BY <1>1, <1>2, <1>5, <1>6, LocalTypesByThread, Threads DEF WriterLabel
<1> QED
  BY <1>1, <1>2, <1>3, <1>7 DEF TypeOK, PollTypes

\* What a plain store does to flag, size and control.
LEMMA StoreEffect ==
    ASSUME PollTypes, NEW t \in Thread, NEW s, Store(t, s)
    PROVE  /\ event_flag' \in [Minor -> {0, 1}]
           /\ \A m \in Minor : /\ m # dev[t] => event_flag'[m] = event_flag[m]
                               /\ s = "flag" /\ m = dev[t] => event_flag'[m] = 1
                               /\ s = "noflag" /\ m = dev[t] => event_flag'[m] = 0
                               /\ s \notin {"flag", "noflag"}
                                     => event_flag'[m] = event_flag[m]
           /\ s # "size" => buffer_size' \in [Minor -> 0 .. BUF_SIZE]
           /\ len[t] \in 0 .. BUF_SIZE => buffer_size' \in [Minor -> 0 .. BUF_SIZE]
           /\ UNCHANGED <<wq, fpos, dev, triggered, scan, ready, rdllist, prog>>
<1>1. TypeOK /\ dev[t] \in Minor
  BY DEF PollTypes, TypeOK
<1> DEFINE e == CASE s = "flag"   -> 1
                  [] s = "noflag" -> 0
                  [] OTHER        -> event_flag[dev[t]]
           b == CASE s = "size"   -> len[t]
                  [] s = "nosize" -> 0
                  [] OTHER        -> buffer_size[dev[t]]
<1>2. /\ event_flag' = [event_flag EXCEPT ![dev[t]] = e]
      /\ buffer_size' = [buffer_size EXCEPT ![dev[t]] = b]
  BY DEF Store
<1>3. /\ s = "flag" => e = 1
      /\ s = "noflag" => e = 0
      /\ s \notin {"flag", "noflag"} => e = event_flag[dev[t]]
  OBVIOUS
<1>4. /\ s = "size" => b = len[t]
      /\ s = "nosize" => b = 0
      /\ s \notin {"size", "nosize"} => b = buffer_size[dev[t]]
  OBVIOUS
<1> HIDE DEF e, b
<1>5. e \in {0, 1}
  BY <1>1, <1>3 DEF TypeOK
<1>6. /\ s # "size" => b \in 0 .. BUF_SIZE
      /\ len[t] \in 0 .. BUF_SIZE => b \in 0 .. BUF_SIZE
  BY <1>1, <1>4, SizeAssumption DEF TypeOK
<1>7. event_flag' \in [Minor -> {0, 1}]
  BY <1>1, <1>2, <1>5 DEF TypeOK
<1>8. b \in 0 .. BUF_SIZE => buffer_size' \in [Minor -> 0 .. BUF_SIZE]
  BY <1>1, <1>2 DEF TypeOK
<1>9. \A m \in Minor : /\ m # dev[t] => event_flag'[m] = event_flag[m]
                       /\ m = dev[t] => event_flag'[m] = e
  BY <1>1, <1>2 DEF TypeOK
<1>10. UNCHANGED <<wq, fpos, dev, triggered, scan, ready, rdllist, prog>>
  BY DEF Store, polls
<1> QED
  BY <1>3, <1>6, <1>7, <1>8, <1>9, <1>10

\* The stores of a reader that clears the event.
LEMMA ReaderStoreTypes ==
    ASSUME PollTypes, NEW r \in Reader, NEW s \in {"noflag", "nosize"}, Store(r, s)
    PROVE  /\ PollTypes'
           /\ pc[r] = "clear"
           /\ \/ Return(r)
              \/ UNCHANGED <<pc, len, ret>>
<1>1. r \in Thread /\ TypeOK /\ LocalTypes
  BY Threads DEF PollTypes
<1>2. pc[r] = "clear"
  BY <1>1, Threads DEF Store, LocalTypes, BlockerLabel, AppLabel
<1>3. Return(r) \/ (Goto(r, "clear") /\ UNCHANGED <<len, ret>>)
  BY <1>2 DEF Store
<1>4. Goto(r, "clear") => UNCHANGED pc
  BY <1>1, <1>2 DEF Goto, LocalTypes
<1>5. /\ event_flag' \in [Minor -> {0, 1}]
      /\ buffer_size' \in [Minor -> 0 .. BUF_SIZE]
      /\ UNCHANGED <<wq, fpos, dev, triggered, scan, ready, rdllist, prog>>
  BY <1>1, StoreEffect
<1>6. LocalTypes' /\ ret' \in [Thread -> Int]
  <2>1. CASE Return(r)
    BY <1>1, <1>5, <2>1, ReturnTypes
  <2>2. CASE UNCHANGED <<pc, len, ret>>
    BY <1>1, <1>5, <2>2 DEF LocalTypes, TypeOK
  <2> QED
    BY <1>3, <1>4, <2>1, <2>2
<1> QED
  BY <1>1, <1>2, <1>3, <1>4, <1>5, <1>6 DEF TypeOK, PollTypes

\* The stores of a writer.
LEMMA WriterStoreTypes ==
    ASSUME PollTypes, NEW w \in Writer, NEW s \in {"size", "flag"}, Store(w, s)
    PROVE  /\ PollTypes'
           /\ pc[w] = "set" /\ pc'[w] \in {"set", "wake"}
           /\ \A q \in Thread \ {w} : pc'[q] = pc[q]
<1>1. w \in Thread /\ TypeOK /\ LocalTypes /\ len[w] \in 0 .. BUF_SIZE
  BY Threads DEF PollTypes, LocalTypes
<1>2. pc[w] = "set"
  BY <1>1 DEF Store, LocalTypes, WriterLabel
<1>3. PICK label \in {"set", "wake"} : pc' = [pc EXCEPT ![w] = label]
  BY <1>2 DEF Store, Goto
<1>4. UNCHANGED <<len, ret>>
  BY <1>2 DEF Store
<1>5. /\ event_flag' \in [Minor -> {0, 1}]
      /\ buffer_size' \in [Minor -> 0 .. BUF_SIZE]
      /\ UNCHANGED <<wq, fpos, dev, triggered, scan, ready, rdllist, prog>>
  BY <1>1, StoreEffect
<1>6. LocalTypes'
  BY <1>1, <1>3, <1>4, <1>5, LocalTypesByControl, Threads DEF WriterLabel
<1>7. pc'[w] = label /\ \A q \in Thread \ {w} : pc'[q] = pc[q]
  BY <1>1, <1>3 DEF LocalTypes
<1> QED
  BY <1>1, <1>2, <1>4, <1>5, <1>6, <1>7 DEF TypeOK, PollTypes

\* What wake_up does to control.
LEMMA WakeControl ==
    ASSUME PollTypes, NEW w \in Writer, Wake(w), NEW t \in Thread
    PROVE  /\ t = w => pc'[t] = "idle"
           /\ t \in Writer \ {w} => pc'[t] = pc[t]
           /\ t \in Blocker => pc'[t] = IF t \in wq[dev[w]] /\ pc[t] = "sleep"
                                        THEN "prepare" ELSE pc[t]
           /\ t \in App => pc'[t] = IF t \in wq[dev[w]] /\ pc[t] = "wait"
                                    THEN "poll" ELSE pc[t]
<1> DEFINE L(u) == CASE u = w                                         -> "idle"
                     [] u \in wq[dev[w]] /\ u \in Blocker
                                         /\ pc[u] = "sleep"           -> "prepare"
                     [] u \in wq[dev[w]] /\ u \in App /\ pc[u] = "wait" -> "poll"
                     [] OTHER                                         -> pc[u]
<1>1. pc' = [u \in Thread |-> L(u)]
  BY DEF Wake
<1>2. pc'[t] = L(t)
  BY <1>1
<1>3. /\ t = w => L(t) = "idle"
      /\ t \in Writer \ {w} => L(t) = pc[t]
      /\ t \in Blocker => L(t) = IF t \in wq[dev[w]] /\ pc[t] = "sleep"
                                 THEN "prepare" ELSE pc[t]
      /\ t \in App => L(t) = IF t \in wq[dev[w]] /\ pc[t] = "wait"
                             THEN "poll" ELSE pc[t]
  BY Threads
<1> QED
  BY <1>2, <1>3

\* wake_up.
LEMMA WakeTypes ==
    ASSUME PollTypes, NEW w \in Writer, Wake(w)
    PROVE  PollTypes'
<1>1. w \in Thread /\ TypeOK /\ LocalTypes /\ dev[w] \in Minor
  BY Threads DEF PollTypes, TypeOK
<1>2. UNCHANGED <<event_flag, buffer_size, fpos, dev, ret, scan, ready, prog>>
  BY DEF Wake, driver
<1>3. wq' \in [Minor -> SUBSET Reader]
  BY <1>1 DEF Wake, TypeOK
<1>4. triggered' \subseteq App
  BY <1>1 DEF Wake, TypeOK
<1>5. rdllist' \in [App -> SUBSET Minor]
  BY <1>1 DEF Wake, TypeOK
<1>6. len' = [len EXCEPT ![w] = 0]
  BY DEF Wake
<1>7. /\ len' \in [Thread -> Nat]
      /\ \A q \in Writer : len'[q] \in 0 .. BUF_SIZE
  BY <1>1, <1>6, Threads, SizeAssumption DEF LocalTypes
<1>8. /\ \A b \in Blocker : pc'[b] \in BlockerLabel
      /\ \A a \in App : /\ pc'[a] \in AppLabel
                        /\ pc'[a] \in {"ctl", "ctllook", "send"} => prog[a] = "epoll"
      /\ \A v \in Writer : pc'[v] \in WriterLabel
  <2>1. ASSUME NEW b \in Blocker PROVE pc'[b] \in BlockerLabel
    BY <1>1, WakeControl, Threads DEF LocalTypes, BlockerLabel
  <2>2. ASSUME NEW a \in App
        PROVE  /\ pc'[a] \in AppLabel
               /\ pc'[a] \in {"ctl", "ctllook", "send"} => prog[a] = "epoll"
    BY <1>1, WakeControl, Threads DEF LocalTypes, AppLabel
  <2>3. ASSUME NEW v \in Writer PROVE pc'[v] \in WriterLabel
    BY <1>1, WakeControl, Threads DEF LocalTypes, WriterLabel
  <2> QED
    BY <2>1, <2>2, <2>3
<1>9. pc' \in [Thread -> BlockerLabel \cup AppLabel \cup WriterLabel]
  <2>1. pc' = [u \in Thread |-> pc'[u]]
    BY DEF Wake
  <2> QED
    BY <1>8, <2>1, Threads
<1> QED
  BY <1>1, <1>2, <1>3, <1>4, <1>5, <1>7, <1>8, <1>9 DEF TypeOK, LocalTypes, PollTypes

\* my_poll of one device.
LEMMA PollOneTypes ==
    ASSUME PollTypes, NEW a \in App, PollOne(a)
    PROVE  PollTypes'
<1> DEFINE d == Lowest(scan[a])
<1>1. a \in Reader /\ a \in Thread /\ TypeOK /\ LocalTypes
  BY Threads DEF PollTypes
<1>2. d \in Minor
  BY <1>1, LowestInside DEF PollOne, TypeOK
<1>3. UNCHANGED <<event_flag, buffer_size, fpos, dev, len, ret, triggered, rdllist,
                  prog>>
  BY DEF PollOne, driver
<1>4. wq' \in [Minor -> SUBSET Reader]
  BY <1>1, <1>2 DEF PollOne, TypeOK
<1>5. ready' \in [App -> SUBSET Minor] /\ scan' \in [App -> SUBSET Minor]
  <2>1. CASE UNCHANGED <<ready, scan>>
    BY <1>1, <2>1 DEF TypeOK
  <2>2. CASE /\ ready' = [ready EXCEPT ![a] = IF event_flag[d] = 1
                                              THEN ready[a] \cup {d} ELSE ready[a]]
             /\ scan' = [scan EXCEPT ![a] = scan[a] \ {d}]
    <3> HIDE DEF d
    <3> QED
      BY <1>1, <1>2, <2>2 DEF TypeOK
  <2> QED
    BY <2>1, <2>2 DEF PollOne
<1>6. PICK label \in {"poll", "look"} : pc' = [pc EXCEPT ![a] = label]
  BY DEF PollOne, Goto
<1>7. LocalTypes'
  BY <1>1, <1>3, <1>6, LocalTypesByControl, Threads DEF AppLabel
<1> QED
  BY <1>1, <1>3, <1>4, <1>5, <1>7 DEF PollTypes, TypeOK

\* The end of a pass of poll or select.
LEMMA PollEndTypes ==
    ASSUME PollTypes, NEW a \in App, PollEnd(a)
    PROVE  PollTypes'
<1>1. a \in Thread /\ TypeOK /\ LocalTypes
  BY Threads DEF PollTypes
<1>2. UNCHANGED <<event_flag, buffer_size, fpos, dev, len, ret, ready, rdllist,
                  prog>>
  BY DEF PollEnd, driver
<1>3. /\ wq' \in [Minor -> SUBSET Reader]
      /\ triggered' \subseteq App
      /\ scan' \in [App -> SUBSET Minor]
  BY <1>1 DEF PollEnd, TypeOK
<1>4. PICK label \in {"serve", "poll", "wait"} : pc' = [pc EXCEPT ![a] = label]
  BY <1>1 DEF PollEnd, Goto, LocalTypes
<1>5. LocalTypes'
  BY <1>1, <1>2, <1>4, LocalTypesByControl, Threads DEF AppLabel
<1> QED
  BY <1>1, <1>2, <1>3, <1>5 DEF PollTypes, TypeOK

\* The loop of main().
LEMMA ServeTypes ==
    ASSUME PollTypes, NEW a \in App, Serve(a)
    PROVE  PollTypes'
<1>1. a \in Thread /\ TypeOK /\ LocalTypes
  BY Threads DEF PollTypes
<1>2. UNCHANGED <<event_flag, buffer_size, wq, fpos, ret, triggered, rdllist, prog>>
  BY DEF Serve, driver
<1>3. CASE /\ ready[a] # {}
           /\ dev' = [dev EXCEPT ![a] = Lowest(ready[a])]
           /\ len' = [len EXCEPT ![a] = AppLen(a)]
           /\ ready' = [ready EXCEPT ![a] = @ \ {Lowest(ready[a])}]
           /\ Goto(a, "flag")
           /\ UNCHANGED scan
  <2>1. Lowest(ready[a]) \in Minor
    BY <1>1, <1>3, LowestInside DEF TypeOK
  <2>2. AppLen(a) \in Nat
    BY SizeAssumption DEF AppLen
  <2>3. len' \in [Thread -> Nat] /\ \A q \in Writer : len'[q] = len[q]
    BY <1>1, <1>3, <2>2, Threads DEF LocalTypes
  <2>4. pc' = [pc EXCEPT ![a] = "flag"]
    BY <1>3 DEF Goto
  <2>5. LocalTypes'
    BY <1>1, <1>2, <2>3, <2>4, LocalTypesByThread, Threads DEF AppLabel
  <2>6. dev' \in [Thread -> Minor] /\ ready' \in [App -> SUBSET Minor]
    BY <1>1, <1>3, <2>1 DEF TypeOK
  <2> QED
    BY <1>1, <1>2, <1>3, <2>5, <2>6 DEF PollTypes, TypeOK
<1>4. CASE /\ scan' = [scan EXCEPT ![a] = IF prog[a] = "epoll" THEN {} ELSE Minor]
           /\ Goto(a, "poll")
           /\ UNCHANGED <<dev, len, ready>>
  <2>1. LocalTypes'
    BY <1>1, <1>2, <1>4, LocalTypesByControl, Threads DEF Goto, AppLabel
  <2>2. scan' \in [App -> SUBSET Minor]
    BY <1>1, <1>4 DEF TypeOK
  <2> QED
    BY <1>1, <1>2, <1>4, <2>1, <2>2 DEF PollTypes, TypeOK
<1> QED
  BY <1>3, <1>4 DEF Serve

\* epoll_ctl.
LEMMA EpollCtlTypes ==
    ASSUME PollTypes, NEW a \in App, EpollCtl(a)
    PROVE  PollTypes' /\ prog[a] = "epoll"
<1>1. a \in Thread /\ a \in Reader /\ TypeOK /\ LocalTypes
  BY Threads DEF PollTypes
<1>2. UNCHANGED <<event_flag, buffer_size, fpos, dev, len, ret, triggered, ready,
                  prog>>
  BY DEF EpollCtl, driver
<1>3. prog[a] = "epoll"
  BY <1>1 DEF EpollCtl, LocalTypes
<1>4. PICK label \in {"ctl", "ctllook", "poll"} : pc' = [pc EXCEPT ![a] = label]
  BY DEF EpollCtl, Goto
<1>5. LocalTypes'
  BY <1>1, <1>2, <1>3, <1>4, LocalTypesByControl, Threads DEF AppLabel
<1>6. scan' \in [App -> SUBSET Minor]
  BY <1>1 DEF EpollCtl, TypeOK
<1>7. CASE scan[a] # {}
  <2>1. Lowest(scan[a]) \in Minor
    BY <1>1, <1>7, LowestInside DEF TypeOK
  <2>2. wq' \in [Minor -> SUBSET Reader] /\ rdllist' \in [App -> SUBSET Minor]
    BY <1>1, <1>7, <2>1 DEF EpollCtl, TypeOK
  <2> QED
    BY <1>1, <1>2, <1>3, <1>5, <1>6, <2>2 DEF PollTypes, TypeOK
<1>8. CASE UNCHANGED <<wq, rdllist, scan>>
  BY <1>1, <1>2, <1>3, <1>5, <1>8 DEF PollTypes, TypeOK
<1> QED
  BY <1>7, <1>8 DEF EpollCtl

\* epoll_wait.
LEMMA EpollWaitTypes ==
    ASSUME PollTypes, NEW a \in App, EpollWait(a) \/ EpollSend(a)
    PROVE  PollTypes'
<1>1. a \in Thread /\ TypeOK /\ LocalTypes
  BY Threads DEF PollTypes
<1>2. UNCHANGED <<event_flag, buffer_size, wq, fpos, dev, len, ret, triggered,
                  prog>>
  BY DEF EpollWait, EpollSend, driver
<1>3. PICK label \in {"poll", "wait", "send", "serve"} :
         pc' = [pc EXCEPT ![a] = label]
  BY <1>1 DEF EpollWait, EpollSend, Goto, LocalTypes
<1>4. prog[a] = "epoll"
  BY <1>1 DEF EpollWait, EpollSend, LocalTypes
<1>5. LocalTypes'
  BY <1>1, <1>2, <1>3, <1>4, LocalTypesByControl, Threads DEF AppLabel
<1>6. /\ scan' \in [App -> SUBSET Minor]
      /\ rdllist' \in [App -> SUBSET Minor]
      /\ ready' \in [App -> SUBSET Minor]
  <2>1. CASE EpollWait(a)
    BY <1>1, <2>1 DEF EpollWait, TypeOK
  <2>2. ASSUME NEW m \in scan[a], scan' = [scan EXCEPT ![a] = @ \ {m}],
               \/ /\ ready' = [ready EXCEPT ![a] = @ \cup {m}]
                  /\ rdllist' = [rdllist EXCEPT ![a] = @ \cup {m}]
               \/ UNCHANGED <<ready, rdllist>>
        PROVE  /\ scan' \in [App -> SUBSET Minor]
               /\ rdllist' \in [App -> SUBSET Minor]
               /\ ready' \in [App -> SUBSET Minor]
    <3>1. m \in Minor
      BY <1>1 DEF TypeOK
    <3>2. scan' \in [App -> SUBSET Minor]
      BY <1>1, <2>2 DEF TypeOK
    <3>3. CASE UNCHANGED <<ready, rdllist>>
      BY <1>1, <3>2, <3>3 DEF TypeOK
    <3>4. CASE /\ ready' = [ready EXCEPT ![a] = @ \cup {m}]
               /\ rdllist' = [rdllist EXCEPT ![a] = @ \cup {m}]
      BY <1>1, <3>1, <3>2, <3>4 DEF TypeOK
    <3> QED
      BY <2>2, <3>3, <3>4
  <2>3. CASE UNCHANGED <<scan, ready, rdllist>>
    BY <1>1, <2>3 DEF TypeOK
  <2> QED
    BY <2>1, <2>2, <2>3 DEF EpollSend
<1> QED
  BY <1>1, <1>2, <1>5, <1>6 DEF PollTypes, TypeOK

\* Every step keeps the types.
LEMMA NextTypes == PollTypes /\ [Next]_vars => PollTypes'
<1> SUFFICES ASSUME PollTypes, [Next]_vars PROVE PollTypes'
  OBVIOUS
<1>1. CASE UNCHANGED vars
  BY <1>1 DEF vars, driver, polls, PollTypes, TypeOK, LocalTypes
<1>2. ASSUME NEW r \in Reader, ReadStep(r) PROVE PollTypes'
  <2>1. ASSUME CopyAll(r) PROVE PollTypes'
    BY <2>1, AvailableBound, CopyTypes, SMT DEF CopyAll
  <2> QED
    BY <1>2, <2>1, FlagTestTypes, WaitTypes, DoneTypes, ReaderStoreTypes
    DEF ReadStep
<1>3. ASSUME NEW b \in Blocker,
             \/ \E m \in Minor, n \in Lengths : ReadCall(b, m, n)
             \/ \E m \in Minor, o \in 0 .. BUF_SIZE : Seek(b, m, o)
             \/ Signal(b) \/ CopyFault(b)
      PROVE  PollTypes'
  BY <1>3, ReadCallTypes, SeekTypes, WaitTypes, CopyFaultTypes, Threads
<1>4. ASSUME NEW w \in Writer,
             \/ \E m \in Minor, n \in Lengths : WriteCall(w, m, n)
             \/ WriteStep(w)
      PROVE  PollTypes'
  BY <1>4, WriteCallTypes, WakeTypes, WriterStoreTypes DEF WriteStep
<1>5. ASSUME NEW a \in App, AppStep(a) PROVE PollTypes'
  BY <1>2, <1>5, Threads, PollOneTypes, PollEndTypes, ServeTypes, EpollCtlTypes,
     EpollWaitTypes
  DEF AppStep
<1> QED
  BY <1>1, <1>2, <1>3, <1>4, <1>5, Threads DEF Next

----------------------------------------------------------------------------
(* Wake-ups                                                                *)

\* Nobody waits before the first step.
LEMMA InitQueue == Init => QueueInv
<1> SUFFICES ASSUME Init PROVE QueueInv
  OBVIOUS
<1>1. \A b \in Blocker : SleeperQueued(b)
  BY Threads DEF Init, SleeperQueued
<1>2. ASSUME NEW a \in App PROVE AppQueued(a)
  <2>1. /\ prog[a] = "epoll" => pc[a] = "ctl"
        /\ prog[a] # "epoll" => pc[a] = "poll"
        /\ scan[a] = Minor
    BY Threads DEF Init
  <2> QED
    BY <2>1 DEF AppQueued, EpollEmpty, LookQueued, PollerQueued, EpollQueued
<1> QED
  BY <1>1, <1>2 DEF QueueInv

\* A writer of m is still about to call wake_up when others move.
LEMMA PendingKept ==
    ASSUME NEW t \in Thread, NEW m,
           \A q \in Thread \ {t} : pc'[q] = pc[q] /\ dev'[q] = dev[q],
           \/ t \notin Writer
           \/ pc[t] \notin {"set", "wake"}
           \/ pc'[t] \in {"set", "wake"} /\ dev'[t] = dev[t],
           Pending(m)
    PROVE  Pending(m)'
BY Threads DEF Pending

\* A step of t leaves the other waiters where they were, as long as it takes
\* nothing from them and raises no flag without a wake-up to come.
LEMMA QueueByThread ==
    ASSUME PollTypes, QueueInv, NEW t \in Thread, UNCHANGED prog,
           \A q \in Thread \ {t} : pc'[q] = pc[q] /\ dev'[q] = dev[q],
           \/ t \notin Writer
           \/ pc[t] \notin {"set", "wake"}
           \/ pc'[t] \in {"set", "wake"} /\ dev'[t] = dev[t],
           \A m \in Minor : event_flag'[m] = 1 => event_flag[m] = 1 \/ Pending(m)',
           \A m \in Minor, q \in Reader \ {t} : q \in wq[m] => q \in wq'[m],
           \A a \in App \ {t} : /\ scan'[a] = scan[a] /\ ready'[a] = ready[a]
                                /\ rdllist'[a] = rdllist[a]
                                /\ a \in triggered => a \in triggered',
           t \in Blocker => SleeperQueued(t)',
           t \in App => AppQueued(t)'
    PROVE  QueueInv'
<1>1. \A m : Pending(m) => Pending(m)'
  BY PendingKept
<1>2. ASSUME NEW b \in Blocker PROVE SleeperQueued(b)'
  <2>1. CASE b # t
    <3>1. b \in Thread /\ b \in Reader /\ dev[b] \in Minor
      BY Threads DEF PollTypes, TypeOK
    <3>2. pc'[b] = pc[b] /\ dev'[b] = dev[b]
      BY <2>1, <3>1
    <3>3. SleeperQueued(b)
      BY DEF QueueInv
    <3> QED
      BY <1>1, <2>1, <3>1, <3>2, <3>3 DEF SleeperQueued
  <2> QED
    BY <2>1
<1>3. ASSUME NEW a \in App PROVE AppQueued(a)'
  <2>1. CASE a # t
    <3>1. a \in Thread /\ a \in Reader
      BY Threads
    <3>2. pc'[a] = pc[a] /\ UNCHANGED prog
      BY <2>1, <3>1
    <3>3. /\ scan'[a] = scan[a] /\ ready'[a] = ready[a] /\ rdllist'[a] = rdllist[a]
          /\ a \in triggered => a \in triggered'
      BY <2>1
    <3>4. ASSUME NEW m \in Minor PROVE PollerQueued(a, m)'
      <4>1. PollerQueued(a, m)
        BY DEF QueueInv, AppQueued
      <4> QED
        BY <1>1, <2>1, <3>1, <3>2, <3>3, <4>1 DEF PollerQueued
    <3>5. ASSUME NEW m \in Minor PROVE EpollQueued(a, m)'
      <4>1. EpollQueued(a, m)
        BY DEF QueueInv, AppQueued
      <4> QED
        BY <1>1, <2>1, <3>1, <3>2, <3>3, <4>1 DEF EpollQueued
    <3>6. EpollEmpty(a)'
      BY <3>2, <3>3 DEF QueueInv, AppQueued, EpollEmpty
    <3>7. LookQueued(a)'
      <4>1. LookQueued(a) /\ scan[a] \in SUBSET Minor
        BY DEF QueueInv, AppQueued, PollTypes, TypeOK
      <4>2. scan[a] # {} => Lowest(scan[a]) \in Minor
        BY <4>1, LowestInside
      <4>3. Lowest(scan'[a]) = Lowest(scan[a])
        BY <3>3
      <4> QED
        BY <2>1, <3>1, <3>2, <3>3, <4>1, <4>2, <4>3 DEF LookQueued
    <3> QED
      BY <3>4, <3>5, <3>6, <3>7 DEF AppQueued
  <2> QED
    BY <2>1
<1> QED
  BY <1>2, <1>3 DEF QueueInv

\* A program that reads a device keeps its place on the queues of its epoll
\* instance.
LEMMA ReadingQueued ==
    ASSUME PollTypes, QueueInv, NEW a \in App, UNCHANGED <<prog, rdllist, wq>>,
           \A q \in Thread \ {a} : pc'[q] = pc[q] /\ dev'[q] = dev[q],
           \A m \in Minor : event_flag'[m] = 1 => event_flag[m] = 1,
           pc[a] \in {"serve", "flag", "copy", "done", "clear"},
           pc'[a] \in {"serve", "flag", "copy", "done", "clear"}
    PROVE  AppQueued(a)'
<1>1. a \in Thread /\ a \notin Writer
  BY Threads
<1>2. \A m : Pending(m) => Pending(m)'
  BY <1>1, PendingKept
<1>3. ASSUME NEW m \in Minor PROVE EpollQueued(a, m)'
  <2>1. EpollQueued(a, m)
    BY DEF QueueInv, AppQueued
  <2> QED
    BY <1>2, <2>1 DEF EpollQueued
<1>4. ASSUME NEW m \in Minor PROVE PollerQueued(a, m)'
  BY DEF PollerQueued
<1> QED
  BY <1>3, <1>4 DEF AppQueued, EpollEmpty, LookQueued

\* A step of my_read behind its wait: control moves, flags only fall.
LEMMA ReadStepQueue ==
    ASSUME PollTypes, QueueInv, NEW r \in Reader,
           UNCHANGED <<prog, rdllist, wq, dev, scan, ready, triggered>>,
           \A q \in Thread \ {r} : pc'[q] = pc[q],
           \A m \in Minor : event_flag'[m] = 1 => event_flag[m] = 1,
           pc[r] \in {"flag", "prepare", "copy", "done", "clear"},
           pc'[r] \in {"serve", "idle", "prepare", "flag", "copy", "done", "clear"},
           r \in App => pc'[r] \notin {"idle", "prepare"}
    PROVE  QueueInv'
<1>1. r \in Thread /\ r \notin Writer
  BY Threads
<1>2. r \in Blocker => SleeperQueued(r)'
  BY DEF SleeperQueued
<1>3. r \in App => AppQueued(r)'
  <2>1. ASSUME r \in App PROVE pc[r] \in {"flag", "copy", "done", "clear"}
    BY <2>1 DEF PollTypes, LocalTypes, AppLabel
  <2> QED
    BY <2>1, ReadingQueued
<1> QED
  BY <1>1, <1>2, <1>3, QueueByThread

\* Where a return leads.
LEMMA ReturnControl ==
    ASSUME PollTypes, NEW r \in Reader, Return(r)
    PROVE  /\ pc'[r] = (IF r \in App THEN "serve" ELSE "idle")
           /\ \A q \in Thread \ {r} : pc'[q] = pc[q]
BY Threads DEF Return, Goto, PollTypes, LocalTypes

\* Where a jump leads.
LEMMA GotoControl ==
    ASSUME PollTypes, NEW t \in Thread, NEW label, Goto(t, label)
    PROVE  pc'[t] = label /\ \A q \in Thread \ {t} : pc'[q] = pc[q]
BY DEF Goto, PollTypes, LocalTypes

\* my_read behind its wait, step by step.
LEMMA ReadQueue ==
    ASSUME PollTypes, QueueInv, NEW r \in Reader,
           \/ FlagTest(r)
           \/ \E n : Copy(r, n)
           \/ CopyFault(r)
           \/ Done(r)
           \/ \E s \in {"noflag", "nosize"} : Store(r, s)
    PROVE  QueueInv'
<1>1. r \in Thread
  BY Threads
<1>2. CASE FlagTest(r)
  <2>1. UNCHANGED <<event_flag, prog, rdllist, wq, dev, scan, ready, triggered>>
        /\ pc[r] = "flag"
    BY <1>2 DEF FlagTest, driver, polls
  <2>2. /\ \A q \in Thread \ {r} : pc'[q] = pc[q]
        /\ pc'[r] \in {"serve", "copy", "prepare"}
        /\ r \in App => pc'[r] \notin {"idle", "prepare"}
    BY <1>1, <1>2, ReturnControl, GotoControl, Threads DEF FlagTest
  <2> QED
    BY <2>1, <2>2, ReadStepQueue
<1>3. CASE (\E n : Copy(r, n)) \/ CopyFault(r)
  <2>1. UNCHANGED <<event_flag, prog, rdllist, wq, dev, scan, ready, triggered>>
        /\ pc[r] = "copy" /\ Goto(r, "done")
    BY <1>3 DEF Copy, CopyFault, driver, polls
  <2>2. pc'[r] = "done" /\ \A q \in Thread \ {r} : pc'[q] = pc[q]
    BY <1>1, <2>1, GotoControl
  <2> QED
    BY <2>1, <2>2, ReadStepQueue
<1>4. CASE Done(r)
  <2>1. UNCHANGED <<event_flag, prog, rdllist, wq, dev, scan, ready, triggered>>
        /\ pc[r] = "done"
    BY <1>4 DEF Done, driver, polls
  <2>2. Return(r) \/ Goto(r, "clear")
    BY <1>4 DEF Done
  <2>3. /\ \A q \in Thread \ {r} : pc'[q] = pc[q]
        /\ pc'[r] \in {"serve", "idle", "clear"}
        /\ r \in App => pc'[r] \notin {"idle", "prepare"}
    BY <1>1, <2>2, ReturnControl, GotoControl
  <2> QED
    BY <2>1, <2>3, ReadStepQueue
<1>5. ASSUME NEW s \in {"noflag", "nosize"}, Store(r, s) PROVE QueueInv'
  <2>1. pc[r] = "clear" /\ (Return(r) \/ UNCHANGED pc)
    BY <1>5, ReaderStoreTypes
  <2>2. UNCHANGED <<prog, rdllist, wq, dev, scan, ready, triggered>>
    BY <1>1, <1>5, StoreEffect
  <2>3. \A m \in Minor : event_flag'[m] = 1 => event_flag[m] = 1
    BY <1>1, <1>5, StoreEffect
  <2>4. /\ \A q \in Thread \ {r} : pc'[q] = pc[q]
        /\ pc'[r] \in {"serve", "idle", "clear"}
        /\ r \in App => pc'[r] \notin {"idle", "prepare"}
    BY <1>1, <2>1, ReturnControl
  <2> QED
    BY <2>1, <2>2, <2>3, <2>4, ReadStepQueue
<1> QED
  BY <1>2, <1>3, <1>4, <1>5

\* A blocking reader moves: nothing but its own place on a queue changes, and it
\* falls asleep only on a queue and without an event.
LEMMA BlockerQueue ==
    ASSUME PollTypes, QueueInv, NEW b \in Blocker,
           UNCHANGED <<event_flag, prog, rdllist, scan, ready, triggered>>,
           \A q \in Thread \ {b} : pc'[q] = pc[q] /\ dev'[q] = dev[q],
           \A m \in Minor, q \in Reader \ {b} : q \in wq[m] => q \in wq'[m],
           pc'[b] = "sleep" => /\ b \in wq'[dev'[b]]
                               /\ event_flag[dev'[b]] = 0
    PROVE  QueueInv'
<1>1. b \in Thread /\ b \notin Writer /\ b \notin App
  BY Threads
<1>2. SleeperQueued(b)'
  BY DEF SleeperQueued
<1> QED
  BY <1>1, <1>2, QueueByThread

\* The call of my_read, its wait, and lseek.
LEMMA WaitQueue ==
    ASSUME PollTypes, QueueInv, NEW b \in Blocker,
           \/ \E m \in Minor, n \in Lengths : ReadCall(b, m, n)
           \/ \E m \in Minor, o \in 0 .. BUF_SIZE : Seek(b, m, o)
           \/ Prepare(b) \/ Test(b) \/ Signal(b)
    PROVE  QueueInv'
<1>1. b \in Thread /\ b \in Reader /\ dev[b] \in Minor
  BY Threads DEF PollTypes, TypeOK
<1>2. UNCHANGED <<event_flag, prog, rdllist, scan, ready, triggered>>
  BY DEF ReadCall, Seek, Prepare, Test, Signal, driver, polls
<1>3. \A m \in Minor, q \in Reader \ {b} : q \in wq[m] => q \in wq'[m]
  BY <1>1 DEF ReadCall, Seek, Prepare, Test, Signal, PollTypes, TypeOK
<1>4. \A q \in Thread \ {b} : dev'[q] = dev[q]
  BY <1>1 DEF ReadCall, Seek, Prepare, Test, Signal, PollTypes, TypeOK
<1>5. CASE Test(b)
  <2>1. PICK label : Goto(b, label) /\ (label = "sleep" => /\ event_flag[dev[b]] = 0
                                                           /\ b \in wq'[dev[b]])
                     /\ UNCHANGED dev
    BY <1>5 DEF Test
  <2>2. pc'[b] = label /\ \A q \in Thread \ {b} : pc'[q] = pc[q]
    BY <1>1, <2>1, GotoControl
  <2> QED
    BY <1>2, <1>3, <1>4, <2>1, <2>2, BlockerQueue
<1>6. ASSUME NEW label, Goto(b, label), label # "sleep" PROVE QueueInv'
  <2>1. pc'[b] = label /\ \A q \in Thread \ {b} : pc'[q] = pc[q]
    BY <1>1, <1>6, GotoControl
  <2> QED
    BY <1>2, <1>3, <1>4, <1>6, <2>1, BlockerQueue
<1>7. CASE UNCHANGED pc /\ pc[b] = "idle"
  BY <1>2, <1>3, <1>4, <1>7, BlockerQueue
<1> QED
  BY <1>5, <1>6, <1>7 DEF ReadCall, Seek, Prepare, Signal

\* A writer is called, and makes its stores: the flag goes up with a wake-up to
\* come.
LEMMA WriterQueue ==
    ASSUME PollTypes, QueueInv, NEW w \in Writer,
           \/ \E m \in Minor, n \in Lengths : WriteCall(w, m, n)
           \/ \E s \in {"size", "flag"} : Store(w, s)
    PROVE  QueueInv'
<1>1. w \in Thread /\ w \notin Blocker /\ w \notin App
  BY Threads
<1>2. ASSUME NEW m \in Minor, NEW n \in Lengths, WriteCall(w, m, n) PROVE QueueInv'
  <2>1. /\ UNCHANGED <<event_flag, wq, prog, rdllist, scan, ready, triggered>>
        /\ pc[w] = "idle" /\ Goto(w, "set")
    BY <1>2 DEF WriteCall, driver, polls
  <2>2. \A q \in Thread \ {w} : pc'[q] = pc[q] /\ dev'[q] = dev[q]
    BY <1>1, <1>2, <2>1, GotoControl DEF WriteCall, PollTypes, TypeOK
  <2> QED
    BY <1>1, <2>1, <2>2, QueueByThread
<1>3. ASSUME NEW s \in {"size", "flag"}, Store(w, s) PROVE QueueInv'
  <2>1. /\ pc[w] = "set" /\ pc'[w] \in {"set", "wake"}
        /\ \A q \in Thread \ {w} : pc'[q] = pc[q]
    BY <1>3, WriterStoreTypes
  <2>2. /\ UNCHANGED <<wq, dev, prog, rdllist, scan, ready, triggered>>
        /\ \A m \in Minor : m # dev[w] => event_flag'[m] = event_flag[m]
    BY <1>1, <1>3, StoreEffect
  <2>3. Pending(dev[w])'
    BY <2>1, <2>2 DEF Pending
  <2>4. \A m \in Minor : event_flag'[m] = 1 => event_flag[m] = 1 \/ Pending(m)'
    BY <2>2, <2>3
  <2> QED
    BY <1>1, <2>1, <2>2, <2>4, QueueByThread
<1> QED
  BY <1>2, <1>3

\* wake_up: nobody stays asleep on the writer's device, and every program that
\* has looked at it is marked or finds it on its ready list.
LEMMA WakeQueue ==
    ASSUME PollTypes, QueueInv, NEW w \in Writer, Wake(w)
    PROVE  QueueInv'
<1> DEFINE d == dev[w]
<1>1. d \in Minor /\ w \in Thread
  BY Threads DEF PollTypes, TypeOK
<1>2. UNCHANGED <<event_flag, dev, scan, ready, prog>>
  BY DEF Wake, driver
<1>3. /\ \A m \in Minor : m # d => wq'[m] = wq[m]
      /\ \A a \in App, m \in Minor : a \in wq[m] => a \in wq'[m]
  BY <1>1, Threads DEF Wake, PollTypes, TypeOK
<1>4. /\ \A a \in App : a \in triggered => a \in triggered'
      /\ \A a \in App : prog[a] # "epoll" /\ a \in wq[d] => a \in triggered'
  BY DEF Wake
<1>5. \A a \in App : /\ \A m \in rdllist[a] : m \in rdllist'[a]
                     /\ prog[a] = "epoll" /\ a \in wq[d] => d \in rdllist'[a]
  BY <1>1 DEF Wake, PollTypes, TypeOK
<1>6. ASSUME NEW m \in Minor, m # d, Pending(m) PROVE Pending(m)'
  <2>1. PICK v \in Writer : dev[v] = m /\ pc[v] \in {"set", "wake"}
    BY <1>6 DEF Pending
  <2>2. v # w /\ v \in Thread
    BY <1>6, <2>1, Threads
  <2>3. pc'[v] = pc[v]
    BY <2>2, WakeControl
  <2> QED
    BY <1>2, <2>1, <2>3 DEF Pending
<1> HIDE DEF d
<1>7. ASSUME NEW b \in Blocker PROVE SleeperQueued(b)'
  <2> SUFFICES ASSUME pc'[b] = "sleep"
               PROVE  /\ b \in wq'[dev[b]]
                      /\ event_flag[dev[b]] = 1 => Pending(dev[b])'
    BY <1>2 DEF SleeperQueued
  <2>1. b \in Thread /\ dev[b] \in Minor
    BY Threads DEF PollTypes, TypeOK
  <2>2. pc[b] = "sleep" /\ b \notin wq[d]
    BY <2>1, WakeControl DEF d
  <2>3. SleeperQueued(b)
    BY DEF QueueInv
  <2>4. dev[b] # d /\ b \in wq[dev[b]]
    BY <2>2, <2>3 DEF SleeperQueued
  <2>5. event_flag[dev[b]] = 1 => Pending(dev[b])
    BY <2>2, <2>3 DEF SleeperQueued
  <2>6. ASSUME Pending(dev[b]) PROVE Pending(dev[b])'
    <3>1. PICK m \in Minor : m = dev[b]
      BY <2>1
    <3>2. Pending(m)'
      BY <1>6, <2>4, <2>6, <3>1
    <3> QED
      BY <1>2, <3>1, <3>2 DEF Pending
  <2> QED
    BY <1>3, <2>1, <2>4, <2>5, <2>6
<1>8. ASSUME NEW a \in App PROVE AppQueued(a)'
  <2>1. a \in Thread
    BY Threads
  <2>2. pc'[a] = IF a \in wq[d] /\ pc[a] = "wait" THEN "poll" ELSE pc[a]
    BY <2>1, WakeControl DEF d
  <2>3. \A m \in Minor : PollerQueued(a, m) /\ EpollQueued(a, m)
    BY DEF QueueInv, AppQueued
  <2>4. pc[a] = "wait" => a \in wq[d]
    BY <1>1, <2>3 DEF PollerQueued, EpollQueued
  <2>5. pc'[a] # "wait"
    BY <2>2, <2>4
  <2>6. ASSUME NEW m \in Minor PROVE PollerQueued(a, m)'
    <3> SUFFICES ASSUME prog[a] # "epoll", pc'[a] \in {"poll", "look"},
                        m \notin scan[a] \/ pc[a] = "wait"
                 PROVE  /\ a \in wq'[m]
                        /\ event_flag[m] = 1 => \/ Pending(m)'
                                                \/ m \in ready[a]
                                                \/ a \in triggered'
      BY <1>2, <2>2, <2>5 DEF PollerQueued
    <3>1. pc[a] = "wait" \/ (pc[a] \in {"poll", "look"} /\ m \notin scan[a])
      BY <2>2
    <3>2. /\ a \in wq[m]
          /\ event_flag[m] = 1 =>
                \/ Pending(m)
                \/ m \in ready[a] \/ a \in triggered
      BY <2>3, <3>1 DEF PollerQueued
    <3>3. m = d => a \in triggered'
      BY <1>4, <3>2
    <3> QED
      BY <1>3, <1>4, <1>6, <3>2, <3>3
  <2>7. ASSUME NEW m \in Minor PROVE EpollQueued(a, m)'
    <3> SUFFICES ASSUME prog[a] = "epoll",
                        pc[a] \in {"ctl", "ctllook"} => m \notin scan[a]
                 PROVE  /\ a \in wq'[m]
                        /\ event_flag[m] = 1 => \/ Pending(m)'
                                                \/ m \in rdllist'[a]
                                                \/ pc'[a] = "send" /\ m \in scan[a]
      BY <1>2, <2>2 DEF EpollQueued
    <3>1. /\ a \in wq[m]
          /\ event_flag[m] = 1 => \/ Pending(m)
                                  \/ m \in rdllist[a]
                                  \/ pc[a] = "send" /\ m \in scan[a]
      BY <2>3 DEF EpollQueued
    <3>2. m = d => m \in rdllist'[a]
      BY <1>5, <3>1
    <3> QED
      BY <1>3, <1>5, <1>6, <2>2, <3>1, <3>2
  <2>8. LookQueued(a)'
    <3>1. LookQueued(a) /\ scan[a] \in SUBSET Minor
      BY DEF QueueInv, AppQueued, PollTypes, TypeOK
    <3>2. scan[a] # {} => Lowest(scan[a]) \in Minor
      BY <3>1, LowestInside
    <3>3. Lowest(scan'[a]) = Lowest(scan[a]) /\ scan'[a] = scan[a]
      BY <1>2
    <3> QED
      BY <1>3, <2>2, <3>1, <3>2, <3>3 DEF LookQueued
  <2> QED
    BY <2>5, <2>6, <2>7, <2>8 DEF AppQueued, EpollEmpty
<1> QED
  BY <1>7, <1>8 DEF QueueInv

\* A program moves inside poll, select or epoll_wait: it takes nothing from
\* other threads.
LEMMA AppQueue ==
    ASSUME PollTypes, QueueInv, NEW a \in App, UNCHANGED <<event_flag, prog>>,
           \A q \in Thread \ {a} : pc'[q] = pc[q] /\ dev'[q] = dev[q],
           \A m \in Minor, q \in Reader \ {a} : q \in wq[m] => q \in wq'[m],
           \A c \in App \ {a} : /\ scan'[c] = scan[c] /\ ready'[c] = ready[c]
                                /\ rdllist'[c] = rdllist[c]
                                /\ c \in triggered => c \in triggered',
           AppQueued(a)'
    PROVE  QueueInv'
<1>1. a \in Thread /\ a \notin Writer /\ a \notin Blocker
  BY Threads
<1> QED
  BY <1>1, QueueByThread

\* The writers that are about to call wake_up do not depend on a program.
LEMMA AppPending ==
    ASSUME NEW a \in App, NEW m, Pending(m),
           \A q \in Thread \ {a} : pc'[q] = pc[q] /\ dev'[q] = dev[q]
    PROVE  Pending(m)'
BY PendingKept, Threads

\* my_poll of one device: poll_wait comes before the flag is looked at.
LEMMA PollOneQueue ==
    ASSUME PollTypes, QueueInv, NEW a \in App, PollOne(a)
    PROVE  QueueInv'
<1> DEFINE d == Lowest(scan[a])
<1>1. a \in Reader /\ a \in Thread /\ d \in Minor
  <2>1. scan[a] \in SUBSET Minor /\ scan[a] # {}
    BY DEF PollOne, PollTypes, TypeOK
  <2> QED
    BY <2>1, LowestInside, Threads
<1>2. /\ UNCHANGED <<event_flag, dev, triggered, rdllist, prog>>
      /\ prog[a] # "epoll" /\ scan[a] # {}
  BY DEF PollOne, driver
<1>3. LookQueued(a) /\ \A m \in Minor : PollerQueued(a, m)
  BY DEF QueueInv, AppQueued
<1>4. CASE /\ pc[a] = "poll" /\ Goto(a, "look") /\ UNCHANGED <<ready, scan>>
           /\ wq' = [wq EXCEPT ![d] = wq[d] \cup {a}]
  <2>1. pc'[a] = "look" /\ \A q \in Thread \ {a} : pc'[q] = pc[q]
    BY <1>1, <1>4, GotoControl
  <2>2. /\ \A m \in Minor, q \in Reader : q \in wq[m] => q \in wq'[m]
        /\ a \in wq'[d]
    BY <1>1, <1>4 DEF PollTypes, TypeOK
  <2>3. LookQueued(a)'
    <3>1. scan'[a] = scan[a] /\ Lowest(scan'[a]) = Lowest(scan[a])
      BY <1>4
    <3> QED
      BY <1>2, <2>2, <3>1 DEF LookQueued
  <2> HIDE DEF d
  <2>4. \A m : Pending(m) => Pending(m)'
    BY <1>2, <2>1, AppPending
  <2>5. ASSUME NEW m \in Minor PROVE PollerQueued(a, m)'
    BY <1>1, <1>2, <1>3, <1>4, <2>1, <2>2, <2>4 DEF PollerQueued
  <2>6. AppQueued(a)'
    BY <1>2, <2>1, <2>3, <2>5 DEF AppQueued, EpollEmpty, EpollQueued
  <2> QED
    BY <1>2, <1>4, <2>1, <2>2, <2>6, AppQueue
<1>5. CASE /\ pc[a] = "look" /\ Goto(a, "poll") /\ UNCHANGED wq
           /\ ready' = [ready EXCEPT ![a] = IF event_flag[d] = 1
                                            THEN ready[a] \cup {d} ELSE ready[a]]
           /\ scan' = [scan EXCEPT ![a] = scan[a] \ {d}]
  <2>1. pc'[a] = "poll" /\ \A q \in Thread \ {a} : pc'[q] = pc[q]
    BY <1>1, <1>5, GotoControl
  <2>2. a \in wq'[d]
    BY <1>3, <1>5 DEF LookQueued
  <2> HIDE DEF d
  <2>3. /\ ready[a] \subseteq ready'[a]
        /\ event_flag[d] = 1 => d \in ready'[a]
        /\ scan'[a] = scan[a] \ {d}
        /\ \A c \in App \ {a} : scan'[c] = scan[c] /\ ready'[c] = ready[c]
    BY <1>5 DEF PollTypes, TypeOK
  <2>4. \A m : Pending(m) => Pending(m)'
    BY <1>2, <2>1, AppPending
  <2>5. ASSUME NEW m \in Minor PROVE PollerQueued(a, m)'
    <3>1. CASE m = d
      BY <1>2, <2>1, <2>2, <2>3, <3>1 DEF PollerQueued
    <3>2. CASE m # d
      BY <1>2, <1>3, <1>5, <2>1, <2>3, <2>4, <3>2 DEF PollerQueued
    <3> QED
      BY <3>1, <3>2
  <2>6. AppQueued(a)'
    BY <1>2, <2>1, <2>5 DEF AppQueued, EpollEmpty, EpollQueued, LookQueued
  <2> QED
    BY <1>2, <1>5, <2>1, <2>3, <2>6, AppQueue
<1> QED
  BY <1>4, <1>5 DEF PollOne

\* The end of a pass: to sleep it takes every device to have been looked at,
\* none to be ready and no mark.
LEMMA PollEndQueue ==
    ASSUME PollTypes, QueueInv, NEW a \in App, PollEnd(a)
    PROVE  QueueInv'
<1>1. a \in Thread
  BY Threads
<1>2. /\ UNCHANGED <<event_flag, dev, ready, rdllist, prog>>
      /\ pc[a] = "poll" /\ prog[a] # "epoll" /\ scan[a] = {}
  BY DEF PollEnd, driver
<1>3. \A m \in Minor, q \in Reader \ {a} : q \in wq[m] => q \in wq'[m]
  BY DEF PollEnd
<1>4. \A c \in App \ {a} : /\ scan'[c] = scan[c]
                           /\ c \in triggered => c \in triggered'
  BY DEF PollEnd, PollTypes, TypeOK
<1>5. \A q \in Thread \ {a} : pc'[q] = pc[q]
  BY <1>1, GotoControl DEF PollEnd
<1>6. AppQueued(a)'
  <2>1. CASE Goto(a, "serve")
    <3>1. pc'[a] = "serve"
      BY <1>1, <2>1, GotoControl
    <3> QED
      BY <1>2, <3>1 DEF AppQueued, EpollEmpty, LookQueued, EpollQueued, PollerQueued
  <2>2. CASE scan' = [scan EXCEPT ![a] = Minor] /\ UNCHANGED <<wq, pc>>
    <3>1. scan'[a] = Minor
      BY <2>2 DEF PollTypes, TypeOK
    <3> QED
      BY <1>2, <2>2, <3>1 DEF AppQueued, EpollEmpty, LookQueued, EpollQueued, PollerQueued
  <2>3. CASE /\ ready[a] = {} /\ a \notin triggered
             /\ Goto(a, "wait")
             /\ UNCHANGED <<wq, triggered, scan>>
    <3>1. pc'[a] = "wait"
      BY <1>1, <2>3, GotoControl
    <3>2. \A m : Pending(m) => Pending(m)'
      BY <1>2, <1>5, AppPending
    <3>3. ASSUME NEW m \in Minor PROVE PollerQueued(a, m)'
      <4>1. PollerQueued(a, m)
        BY DEF QueueInv, AppQueued
      <4> QED
        BY <1>2, <2>3, <3>1, <3>2, <4>1 DEF PollerQueued
    <3> QED
      BY <1>2, <3>1, <3>3 DEF AppQueued, EpollEmpty, LookQueued, EpollQueued
  <2> QED
    BY <2>1, <2>2, <2>3 DEF PollEnd
<1> QED
  BY <1>2, <1>3, <1>4, <1>5, <1>6, AppQueue

\* The loop of main(): an epoll instance stays as it is, and poll and select
\* begin anew.
LEMMA ServeQueue ==
    ASSUME PollTypes, QueueInv, NEW a \in App, Serve(a)
    PROVE  QueueInv'
<1>1. a \in Thread
  BY Threads
<1>2. UNCHANGED <<event_flag, wq, triggered, rdllist, prog>> /\ pc[a] = "serve"
  BY DEF Serve, driver
<1>3. /\ \A q \in Thread \ {a} : pc'[q] = pc[q] /\ dev'[q] = dev[q]
      /\ \A c \in App \ {a} : scan'[c] = scan[c] /\ ready'[c] = ready[c]
      /\ pc'[a] \in {"flag", "poll"}
      /\ prog[a] # "epoll" /\ pc'[a] = "poll" => scan'[a] = Minor
  BY <1>1, GotoControl DEF Serve, PollTypes, TypeOK
<1>4. \A m : Pending(m) => Pending(m)'
  BY <1>3, AppPending
<1>5. ASSUME NEW m \in Minor PROVE EpollQueued(a, m)'
  <2>1. EpollQueued(a, m)
    BY DEF QueueInv, AppQueued
  <2> QED
    BY <1>2, <1>3, <1>4, <2>1 DEF EpollQueued
<1>6. ASSUME NEW m \in Minor PROVE PollerQueued(a, m)'
  BY <1>2, <1>3 DEF PollerQueued
<1>7. AppQueued(a)'
  BY <1>3, <1>5, <1>6 DEF AppQueued, EpollEmpty, LookQueued
<1> QED
  BY <1>2, <1>3, <1>7, AppQueue

\* epoll_ctl: my_poll puts the instance on the queue before it looks at the flag.
LEMMA EpollCtlQueue ==
    ASSUME PollTypes, QueueInv, NEW a \in App, EpollCtl(a)
    PROVE  QueueInv'
<1> DEFINE d == Lowest(scan[a])
<1>1. a \in Thread /\ a \in Reader /\ (scan[a] # {} => d \in Minor /\ d \in scan[a])
  BY LowestInside, Threads DEF PollTypes, TypeOK
<1>2. UNCHANGED <<event_flag, dev, triggered, ready, prog>> /\ prog[a] = "epoll"
  BY EpollCtlTypes DEF EpollCtl, driver
<1>3. LookQueued(a) /\ \A m \in Minor : EpollQueued(a, m)
  BY DEF QueueInv, AppQueued
<1>4. CASE /\ pc[a] = "ctl" /\ scan[a] # {}
           /\ wq' = [wq EXCEPT ![d] = wq[d] \cup {a}]
           /\ Goto(a, "ctllook")
           /\ UNCHANGED <<rdllist, scan>>
  <2>1. pc'[a] = "ctllook" /\ \A q \in Thread \ {a} : pc'[q] = pc[q]
    BY <1>1, <1>4, GotoControl
  <2>2. /\ \A m \in Minor, q \in Reader : q \in wq[m] => q \in wq'[m]
        /\ a \in wq'[d]
    BY <1>1, <1>4 DEF PollTypes, TypeOK
  <2>3. LookQueued(a)'
    <3>1. scan'[a] = scan[a] /\ Lowest(scan'[a]) = Lowest(scan[a])
      BY <1>4
    <3> QED
      BY <1>4, <2>2, <3>1 DEF LookQueued
  <2> HIDE DEF d
  <2>4. \A m : Pending(m) => Pending(m)'
    BY <1>2, <2>1, AppPending
  <2>5. ASSUME NEW m \in Minor PROVE EpollQueued(a, m)'
    BY <1>1, <1>2, <1>3, <1>4, <2>1, <2>2, <2>4 DEF EpollQueued
  <2>6. AppQueued(a)'
    BY <1>2, <2>1, <2>3, <2>5 DEF AppQueued, EpollEmpty, PollerQueued
  <2> QED
    BY <1>2, <1>4, <2>1, <2>2, <2>6, AppQueue
<1>5. CASE /\ pc[a] = "ctllook" /\ scan[a] # {}
           /\ rdllist' = [rdllist EXCEPT ![a] = IF event_flag[d] = 1
                                                THEN rdllist[a] \cup {d}
                                                ELSE rdllist[a]]
           /\ scan' = [scan EXCEPT ![a] = scan[a] \ {d}]
           /\ Goto(a, "ctl")
           /\ UNCHANGED wq
  <2>1. pc'[a] = "ctl" /\ \A q \in Thread \ {a} : pc'[q] = pc[q]
    BY <1>1, <1>5, GotoControl
  <2>2. a \in wq'[d]
    BY <1>3, <1>5 DEF LookQueued
  <2> HIDE DEF d
  <2>3. /\ rdllist[a] \subseteq rdllist'[a]
        /\ event_flag[d] = 1 => d \in rdllist'[a]
        /\ scan'[a] = scan[a] \ {d}
        /\ \A c \in App \ {a} : scan'[c] = scan[c] /\ rdllist'[c] = rdllist[c]
    BY <1>5 DEF PollTypes, TypeOK
  <2>4. \A m : Pending(m) => Pending(m)'
    BY <1>2, <2>1, AppPending
  <2>5. ASSUME NEW m \in Minor PROVE EpollQueued(a, m)'
    <3>1. CASE m = d
      BY <1>2, <2>2, <2>3, <3>1 DEF EpollQueued
    <3>2. CASE m # d
      BY <1>2, <1>3, <1>5, <2>1, <2>3, <2>4, <3>2 DEF EpollQueued
    <3> QED
      BY <3>1, <3>2
  <2>6. AppQueued(a)'
    BY <1>2, <2>1, <2>5 DEF AppQueued, EpollEmpty, LookQueued, PollerQueued
  <2> QED
    BY <1>2, <1>5, <2>1, <2>3, <2>6, AppQueue
<1>6. CASE /\ pc[a] = "ctl" /\ scan[a] = {} /\ Goto(a, "poll")
           /\ UNCHANGED <<wq, rdllist, scan>>
  <2>1. pc'[a] = "poll" /\ \A q \in Thread \ {a} : pc'[q] = pc[q]
    BY <1>1, <1>6, GotoControl
  <2>2. \A m : Pending(m) => Pending(m)'
    BY <1>2, <2>1, AppPending
  <2>3. ASSUME NEW m \in Minor PROVE EpollQueued(a, m)'
    BY <1>2, <1>3, <1>6, <2>1, <2>2 DEF EpollQueued
  <2>4. AppQueued(a)'
    BY <1>2, <2>1, <2>3 DEF AppQueued, EpollEmpty, LookQueued, PollerQueued
  <2> QED
    BY <1>2, <1>6, <2>1, <2>4, AppQueue
<1> QED
  BY <1>4, <1>5, <1>6 DEF EpollCtl

\* epoll_wait: what was on the ready list is looked through, and the thread
\* sleeps only when nothing was.
LEMMA EpollWaitQueue ==
    ASSUME PollTypes, QueueInv, NEW a \in App, EpollWait(a)
    PROVE  QueueInv'
<1>1. a \in Thread
  BY Threads
<1>2. /\ UNCHANGED <<event_flag, wq, dev, triggered, ready, prog>>
      /\ pc[a] = "poll" /\ prog[a] = "epoll"
  BY DEF EpollWait, driver
<1>3. /\ pc'[a] = (IF rdllist[a] = {} THEN "wait" ELSE "send")
      /\ \A q \in Thread \ {a} : pc'[q] = pc[q]
  BY <1>1, GotoControl DEF EpollWait
<1>4. /\ scan'[a] = rdllist[a] /\ rdllist'[a] = {}
      /\ \A c \in App \ {a} : scan'[c] = scan[c] /\ rdllist'[c] = rdllist[c]
  BY DEF EpollWait, PollTypes, TypeOK
<1>5. \A m : Pending(m) => Pending(m)'
  BY <1>2, <1>3, AppPending
<1>6. ASSUME NEW m \in Minor PROVE EpollQueued(a, m)'
  <2>1. EpollQueued(a, m)
    BY DEF QueueInv, AppQueued
  <2> QED
    BY <1>2, <1>3, <1>4, <1>5, <2>1 DEF EpollQueued
<1>7. AppQueued(a)'
  BY <1>2, <1>3, <1>4, <1>6 DEF AppQueued, EpollEmpty, LookQueued, PollerQueued
<1> QED
  BY <1>2, <1>3, <1>4, <1>7, AppQueue

\* A device with an event goes back on the ready list, one without has nothing
\* to lose.
LEMMA EpollSendQueue ==
    ASSUME PollTypes, QueueInv, NEW a \in App, EpollSend(a)
    PROVE  QueueInv'
<1>1. a \in Thread
  BY Threads
<1>2. /\ UNCHANGED <<event_flag, wq, dev, triggered, prog>>
      /\ pc[a] = "send" /\ prog[a] = "epoll"
  BY DEF EpollSend, driver, PollTypes, LocalTypes
<1>3. ASSUME NEW d \in scan[a],
             scan' = [scan EXCEPT ![a] = scan[a] \ {d}],
             IF event_flag[d] = 1
             THEN /\ ready' = [ready EXCEPT ![a] = ready[a] \cup {d}]
                  /\ rdllist' = [rdllist EXCEPT ![a] = rdllist[a] \cup {d}]
             ELSE UNCHANGED <<ready, rdllist>>,
             UNCHANGED pc
      PROVE  QueueInv'
  <2>1. /\ scan'[a] = scan[a] \ {d}
        /\ rdllist[a] \subseteq rdllist'[a]
        /\ event_flag[d] = 1 => d \in rdllist'[a]
        /\ \A c \in App \ {a} : /\ scan'[c] = scan[c] /\ ready'[c] = ready[c]
                                /\ rdllist'[c] = rdllist[c]
    BY <1>3 DEF PollTypes, TypeOK
  <2>2. \A m : Pending(m) => Pending(m)'
    BY <1>2, <1>3, AppPending
  <2>3. ASSUME NEW m \in Minor PROVE EpollQueued(a, m)'
    <3>1. EpollQueued(a, m)
      BY DEF QueueInv, AppQueued
    <3> QED
      BY <1>2, <1>3, <2>1, <2>2, <3>1 DEF EpollQueued
  <2>4. AppQueued(a)'
    BY <1>2, <1>3, <2>3 DEF AppQueued, EpollEmpty, LookQueued, PollerQueued
  <2> QED
    BY <1>2, <1>3, <2>1, <2>4, AppQueue
<1>4. CASE /\ scan[a] = {}
           /\ Goto(a, IF ready[a] = {} THEN "poll" ELSE "serve")
           /\ UNCHANGED <<scan, ready, rdllist>>
  <2>1. pc'[a] \in {"poll", "serve"} /\ \A q \in Thread \ {a} : pc'[q] = pc[q]
    BY <1>1, <1>4, GotoControl
  <2>2. \A m : Pending(m) => Pending(m)'
    BY <1>2, <2>1, AppPending
  <2>3. ASSUME NEW m \in Minor PROVE EpollQueued(a, m)'
    <3>1. EpollQueued(a, m)
      BY DEF QueueInv, AppQueued
    <3> QED
      BY <1>2, <1>4, <2>1, <2>2, <3>1 DEF EpollQueued
  <2>4. AppQueued(a)'
    BY <1>2, <2>1, <2>3 DEF AppQueued, EpollEmpty, LookQueued, PollerQueued
  <2> QED
    BY <1>2, <1>4, <2>1, <2>4, AppQueue
<1> QED
  BY <1>3, <1>4 DEF EpollSend

\* Every step keeps the waiters where wake_up finds them.
LEMMA NextQueue == PollTypes /\ QueueInv /\ [Next]_vars => QueueInv'
<1> SUFFICES ASSUME PollTypes, QueueInv, [Next]_vars PROVE QueueInv'
  OBVIOUS
<1>1. CASE UNCHANGED vars
  BY <1>1 DEF vars, driver, polls, QueueInv, SleeperQueued, AppQueued, EpollEmpty,
              LookQueued, PollerQueued, EpollQueued, Pending
<1>2. ASSUME NEW r \in Reader, ReadStep(r) PROVE QueueInv'
  <2>1. CASE Prepare(r) \/ Test(r)
    <3>1. r \in Blocker
      BY <2>1, WaitTypes
    <3> QED
      BY <2>1, <3>1, WaitQueue
  <2> QED
    BY <1>2, <2>1, ReadQueue DEF ReadStep, CopyAll
<1>3. ASSUME NEW b \in Blocker,
             \/ \E m \in Minor, n \in Lengths : ReadCall(b, m, n)
             \/ \E m \in Minor, o \in 0 .. BUF_SIZE : Seek(b, m, o)
             \/ Signal(b) \/ CopyFault(b)
      PROVE  QueueInv'
  BY <1>3, WaitQueue, ReadQueue, Threads
<1>4. ASSUME NEW w \in Writer,
             \/ \E m \in Minor, n \in Lengths : WriteCall(w, m, n)
             \/ WriteStep(w)
      PROVE  QueueInv'
  BY <1>4, WriterQueue, WakeQueue DEF WriteStep
<1>5. ASSUME NEW a \in App, AppStep(a) PROVE QueueInv'
  BY <1>2, <1>5, Threads, PollOneQueue, PollEndQueue, ServeQueue, EpollCtlQueue,
     EpollWaitQueue, EpollSendQueue
  DEF AppStep
<1> QED
  BY <1>1, <1>2, <1>3, <1>4, <1>5, Threads DEF Next

\* The inductive invariant holds in every reachable state.
THEOREM PollInvariance == Spec => []PollInv
<1>1. Init => PollInv
  BY InitTypes, InitQueue DEF PollInv
<1>2. PollInv /\ [Next]_vars => PollInv'
  BY NextTypes, NextQueue DEF PollInv
<1> QED
  BY <1>1, <1>2, PTL DEF Spec

\* Every variable keeps its type: no message grows past BUF_SIZE and no read
\* moves a file position past it.
THEOREM PollTypeCorrect == Spec => []TypeOK
<1>1. PollInv => TypeOK
  BY DEF PollInv, PollTypes
<1> QED
  BY <1>1, PollInvariance, PTL

\* No wake-up is lost: a thread that sleeps in my_read, poll, select or
\* epoll_wait while its device has an event is on that device's wait queue, and
\* the writer that raised the event has yet to call wake_up_interruptible.
THEOREM NoWakeupIsLost == Spec => []NoLostWakeup
<1>1. PollInv => NoLostWakeup
  <2> SUFFICES ASSUME PollInv, NEW r \in Reader, NEW m \in Minor,
                      event_flag[m] = 1,
                      (pc[r] = "sleep" /\ dev[r] = m) \/ pc[r] = "wait"
               PROVE  r \in wq[m] /\ Pending(m)
    BY DEF NoLostWakeup, Pending
  <2>1. CASE r \in Blocker
    <3>1. SleeperQueued(r) /\ pc[r] # "wait"
      BY <2>1 DEF PollInv, QueueInv, PollTypes, LocalTypes, BlockerLabel
    <3> QED
      BY <3>1 DEF SleeperQueued
  <2>2. CASE r \in App
    <3>1. pc[r] = "wait"
      BY <2>2 DEF PollInv, PollTypes, LocalTypes, AppLabel
    <3>2. PollerQueued(r, m) /\ EpollQueued(r, m) /\ EpollEmpty(r)
      BY <2>2 DEF PollInv, QueueInv, AppQueued
    <3> QED
      BY <3>1, <3>2 DEF PollerQueued, EpollQueued, EpollEmpty
  <2> QED
    BY <2>1, <2>2, Threads
<1> QED
  BY <1>1, PollInvariance, PTL
=============================================================================
