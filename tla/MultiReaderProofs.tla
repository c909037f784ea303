-------------------------- MODULE MultiReaderProofs --------------------------
(***************************************************************************)
(* Proofs about MultiReaderWait, for any number of readers and writers and *)
(* a buffer of any size: data always ends in a Nul, so that strlen stays   *)
(* inside it, and no wake-up is lost although the driver takes no lock and *)
(* its stores reach memory in any order.                                   *)
(***************************************************************************)
EXTENDS MultiReaderWait, TLAPS

\* Where a reader and a writer can be.
ReaderLabel == {"idle", "prepare", "test", "sleep", "strlen", "copy", "load",
                "store", "compare", "stores", "wake", "return"}
WriterLabel == {"idle", "fetch", "stores", "wake"}

\* The types of the locals.
LocalTypes ==
    /\ pc \in [Thread -> ReaderLabel \cup WriterLabel]
    /\ \A r \in Reader : pc[r] \in ReaderLabel
    /\ \A w \in Writer : pc[w] \in WriterLabel
    /\ val \in [Writer -> Char \cup {Nul}]
    /\ cnt \in [Reader -> 0 .. total_readers]

\* A copy never runs past its length, and begins at the beginning.
CopyWithin ==
    \A t \in Thread : /\ pc[t] \in {"copy", "fetch"} => pos[t] <= len[t]
                      /\ pc[t] \in {"idle", "prepare", "test", "sleep", "strlen"} =>
                            pos[t] = 0

\* A sleeper is on the wait queue; while data is ready it is so because of a
\* writer that has not called wake_up yet.
SleepersQueued ==
    \A r \in Reader : pc[r] = "sleep" =>
        /\ r \in wq
        /\ data_ready = 1 => \E w \in Writer : pc[w] \in {"stores", "wake"}

WaitInv == TypeOK /\ LocalTypes /\ CopyWithin /\ SleepersQueued /\ AlwaysTerminated

----------------------------------------------------------------------------
(* The steps                                                               *)

\* A thread is a reader or a writer, not both.
LEMMA Threads ==
    \A t \in Thread : \/ t \in Reader /\ t \notin Writer
                      \/ t \in Writer /\ t \notin Reader
BY ThreadAssumption DEF Thread

\* What the proof of every step uses.
LEMMA Bounds ==
    /\ Size \in Nat /\ Size >= 1 /\ total_readers \in Nat /\ total_readers >= 1
    /\ \A i \in Cell : i \in Nat /\ i <= Size - 1
    /\ 0 .. Size - 1 = Cell /\ Size - 1 \in Cell
    /\ Char \subseteq Nat \ {0} /\ Lengths \subseteq Nat
BY SizeAssumption, CharAssumption DEF Cell

\* A step of t after which nobody else is asleep who was not before: t moves to a
\* label that is not "sleep", the others stay.
LEMMA StaysQueued ==
    ASSUME WaitInv, NEW t \in Thread, NEW label, label # "sleep",
           pc' = [pc EXCEPT ![t] = label],
           t \in Writer => /\ pc[t] \in {"stores", "wake"} => label \in {"stores", "wake"},
           \A r \in Reader : r \in wq /\ r # t => r \in wq',
           data_ready' = 1 => data_ready = 1 \/ (t \in Writer /\ label \in {"stores", "wake"})
    PROVE  SleepersQueued'
<1> USE DEF WaitInv, LocalTypes
<1> SUFFICES ASSUME NEW r \in Reader, pc'[r] = "sleep"
             PROVE  /\ r \in wq'
                    /\ data_ready' = 1 => \E w \in Writer : pc'[w] \in {"stores", "wake"}
  BY DEF SleepersQueued
<1>1. r # t /\ pc[r] = "sleep" /\ r \in Thread
  BY DEF Thread
<1>2. r \in wq'
  BY <1>1 DEF SleepersQueued
<1>3. ASSUME data_ready' = 1 PROVE \E w \in Writer : pc'[w] \in {"stores", "wake"}
  <2>1. CASE t \in Writer /\ label \in {"stores", "wake"}
    BY <2>1
  <2>2. CASE data_ready = 1
    <3>1. PICK w \in Writer : pc[w] \in {"stores", "wake"}
      BY <1>1, <2>2 DEF SleepersQueued
    <3>2. pc'[w] \in {"stores", "wake"} \/ (w = t /\ label \notin {"stores", "wake"})
      BY <3>1 DEF Thread
    <3> QED
      BY <3>1, <3>2
  <2> QED
    BY <1>3, <2>1, <2>2
<1> QED
  BY <1>2, <1>3

\* A read returns.
LEMMA ReturnsInv ==
    ASSUME WaitInv, NEW r \in Reader, ReadReturns(r),
           UNCHANGED <<shared, val, todo>>, wq' \in {wq, wq \ {r}}
    PROVE  WaitInv'
<1> USE DEF WaitInv, shared
<1>1. r \in Thread /\ r \notin Writer
  BY Threads DEF Thread
<1>2. /\ pc' = [pc EXCEPT ![r] = "idle"] /\ len' = [len EXCEPT ![r] = 0]
      /\ pos' = [pos EXCEPT ![r] = 0] /\ cnt' = [cnt EXCEPT ![r] = 0]
      /\ expired' = expired \ {r}
  BY DEF ReadReturns, Goto
<1>3. TypeOK' /\ LocalTypes' /\ AlwaysTerminated'
  BY <1>1, <1>2, Bounds DEF TypeOK, LocalTypes, ReaderLabel, AlwaysTerminated
<1>4. CopyWithin'
  BY <1>1, <1>2 DEF CopyWithin, TypeOK, LocalTypes
<1>5. SleepersQueued'
  BY <1>1, <1>2, StaysQueued
<1> QED
  BY <1>3, <1>4, <1>5

\* The call of a read and the wait.
LEMMA WaitStepInv ==
    ASSUME WaitInv, NEW r \in Reader,
           ReadCall(r) \/ Prepare(r) \/ Test(r) \/ Timer(r) \/ Signal(r)
    PROVE  WaitInv'
<1> USE DEF WaitInv, shared, Goto
<1>0. r \in Thread /\ r \notin Writer
  BY Threads DEF Thread
<1>1. CASE ReadCall(r)
  <2>1. /\ pc[r] = "idle" /\ pc' = [pc EXCEPT ![r] = "prepare"]
        /\ UNCHANGED <<shared, wq, expired, len, val, pos, cnt, todo>>
    BY <1>1 DEF ReadCall
  <2>2. TypeOK' /\ LocalTypes' /\ AlwaysTerminated' /\ CopyWithin'
    BY <1>0, <2>1 DEF TypeOK, LocalTypes, ReaderLabel, AlwaysTerminated, CopyWithin
  <2> QED
    BY <1>0, <2>1, <2>2, StaysQueued
<1>2. CASE Prepare(r)
  <2>1. /\ pc[r] = "prepare" /\ pc' = [pc EXCEPT ![r] = "test"]
        /\ wq' = wq \cup {r}
        /\ UNCHANGED <<shared, expired, len, val, pos, cnt, todo>>
    BY <1>2 DEF Prepare
  <2>2. TypeOK' /\ LocalTypes' /\ AlwaysTerminated' /\ CopyWithin'
    BY <1>0, <2>1 DEF TypeOK, LocalTypes, ReaderLabel, AlwaysTerminated, CopyWithin
  <2> QED
    BY <1>0, <2>1, <2>2, StaysQueued
<1>3. CASE Test(r)
  <2>1. CASE data_ready = 1 /\ wq' = wq \ {r} /\ pc' = [pc EXCEPT ![r] = "strlen"]
             /\ UNCHANGED <<expired, len, pos, cnt>>
    <3>1. pc[r] = "test" /\ UNCHANGED <<shared, val, todo>>
      BY <1>3 DEF Test
    <3>2. TypeOK' /\ LocalTypes' /\ AlwaysTerminated' /\ CopyWithin'
      BY <1>0, <2>1, <3>1
         DEF TypeOK, LocalTypes, ReaderLabel, AlwaysTerminated, CopyWithin
    <3> QED
      BY <1>0, <2>1, <3>1, <3>2, StaysQueued
  <2>2. CASE wq' = wq \ {r} /\ ReadReturns(r)
    BY <1>3, <2>2, ReturnsInv DEF Test
  <2>3. CASE /\ data_ready = 0
             /\ pc' = [pc EXCEPT ![r] = IF r \in wq THEN "sleep" ELSE "prepare"]
             /\ UNCHANGED <<wq, expired, len, pos, cnt>>
    <3>1. pc[r] = "test" /\ UNCHANGED <<shared, val, todo>>
      BY <1>3 DEF Test
    <3>2. TypeOK' /\ LocalTypes' /\ AlwaysTerminated' /\ CopyWithin'
      BY <1>0, <2>3, <3>1
         DEF TypeOK, LocalTypes, ReaderLabel, AlwaysTerminated, CopyWithin
    <3>3. SleepersQueued'
      BY <1>0, <2>3, <3>1 DEF SleepersQueued, LocalTypes
    <3> QED
      BY <3>2, <3>3
  <2> QED
    BY <1>3, <2>1, <2>2, <2>3 DEF Test
<1>4. CASE Timer(r)
  <2>1. /\ pc[r] \in {"prepare", "test", "sleep"} /\ expired' = expired \cup {r}
        /\ pc' = [pc EXCEPT ![r] = IF pc[r] = "sleep" THEN "test" ELSE pc[r]]
        /\ UNCHANGED <<shared, wq, len, val, pos, cnt, todo>>
    BY <1>4 DEF Timer
  <2>2. TypeOK' /\ LocalTypes' /\ AlwaysTerminated' /\ CopyWithin'
    BY <1>0, <2>1 DEF TypeOK, LocalTypes, ReaderLabel, AlwaysTerminated, CopyWithin
  <2> QED
    BY <1>0, <2>1, <2>2, StaysQueued
<1>5. CASE Signal(r)
  BY <1>5, ReturnsInv DEF Signal
<1> QED
  BY <1>1, <1>2, <1>3, <1>4, <1>5

\* my_read after the wait.
LEMMA ReadStepInv ==
    ASSUME WaitInv, NEW r \in Reader,
           \/ ReadLen(r) \/ ReadCopy(r) \/ ReadFault(r)
           \/ CountLoad(r) \/ CountStore(r) \/ Compare(r) \/ ReadReturn(r)
    PROVE  WaitInv'
<1> USE Bounds DEF WaitInv, shared, Goto
<1>0. r \in Thread /\ r \notin Writer
  BY Threads DEF Thread
<1>1. CASE ReadLen(r)
  <2>1. pc[r] = "strlen" /\ UNCHANGED <<shared, wq, expired, val, pos, cnt, todo>>
    BY <1>1 DEF ReadLen
  <2>2. CASE data[len[r]] # Nul /\ len' = [len EXCEPT ![r] = @ + 1] /\ UNCHANGED pc
    <3>1. len[r] \in 0 .. Size - 1 /\ len[r] # Size - 1
      BY <1>0, <2>2 DEF TypeOK, AlwaysTerminated
    <3>2. len[r] + 1 \in 0 .. Size - 1
      BY <3>1
    <3>3. TypeOK' /\ LocalTypes' /\ AlwaysTerminated'
      BY <1>0, <2>1, <2>2, <3>2 DEF TypeOK, LocalTypes, AlwaysTerminated
    <3>4. CopyWithin' /\ SleepersQueued'
      BY <1>0, <2>1, <2>2, <3>2 DEF CopyWithin, TypeOK, SleepersQueued
    <3> QED
      BY <3>3, <3>4
  <2>3. CASE pc' = [pc EXCEPT ![r] = "copy"] /\ UNCHANGED len
    <3>1. TypeOK' /\ LocalTypes' /\ AlwaysTerminated'
      BY <1>0, <2>1, <2>3 DEF TypeOK, LocalTypes, ReaderLabel, AlwaysTerminated
    <3>2. CopyWithin'
      BY <1>0, <2>1, <2>3 DEF CopyWithin, TypeOK, LocalTypes
    <3> QED
      BY <1>0, <2>1, <2>3, <3>1, <3>2, StaysQueued
  <2> QED
    BY <1>1, <2>2, <2>3 DEF ReadLen
<1>2. CASE ReadCopy(r)
  <2>1. pc[r] = "copy" /\ UNCHANGED <<shared, wq, expired, len, val, cnt, todo>>
    BY <1>2 DEF ReadCopy
  <2>2. CASE pos[r] < len[r] /\ pos' = [pos EXCEPT ![r] = @ + 1] /\ UNCHANGED pc
    <3>1. pos[r] + 1 \in 0 .. Size - 1 /\ pos[r] + 1 <= len[r]
      BY <1>0, <2>2 DEF TypeOK
    <3>2. TypeOK' /\ LocalTypes' /\ AlwaysTerminated'
      BY <1>0, <2>1, <2>2, <3>1 DEF TypeOK, LocalTypes, AlwaysTerminated
    <3>3. CopyWithin' /\ SleepersQueued'
      BY <1>0, <2>1, <2>2, <3>1 DEF CopyWithin, TypeOK, SleepersQueued
    <3> QED
      BY <3>2, <3>3
  <2>3. CASE pos[r] = len[r] /\ pc' = [pc EXCEPT ![r] = "load"] /\ UNCHANGED pos
    <3>1. TypeOK' /\ LocalTypes' /\ AlwaysTerminated' /\ CopyWithin'
      BY <1>0, <2>1, <2>3
         DEF TypeOK, LocalTypes, ReaderLabel, AlwaysTerminated, CopyWithin
    <3> QED
      BY <1>0, <2>1, <2>3, <3>1, StaysQueued
  <2> QED
    BY <1>2, <2>2, <2>3 DEF ReadCopy
<1>3. CASE ReadFault(r) \/ ReadReturn(r)
  <2>1. ReadReturns(r) /\ UNCHANGED <<shared, wq, val, todo>>
    BY <1>3 DEF ReadFault, ReadReturn
  <2> QED
    BY <2>1, ReturnsInv
<1>4. CASE CountLoad(r)
  <2> DEFINE c == IF readers_count < total_readers
                  THEN readers_count + 1 ELSE total_readers
  <2>1. /\ pc' = [pc EXCEPT ![r] = "store"] /\ cnt' = [cnt EXCEPT ![r] = c]
        /\ UNCHANGED <<shared, wq, expired, len, val, pos, todo>>
    BY <1>4 DEF CountLoad
  <2>2. c \in 0 .. total_readers
    BY DEF TypeOK
  <2> HIDE DEF c
  <2>3. TypeOK' /\ LocalTypes' /\ AlwaysTerminated' /\ CopyWithin'
    BY <1>0, <2>1, <2>2
       DEF TypeOK, LocalTypes, ReaderLabel, AlwaysTerminated, CopyWithin
  <2> QED
    BY <1>0, <2>1, <2>3, StaysQueued
<1>5. CASE CountStore(r)
  <2>1. /\ pc' = [pc EXCEPT ![r] = "compare"] /\ readers_count' = cnt[r]
        /\ UNCHANGED <<data, data_ready, wq, expired, len, val, pos, cnt, todo>>
    BY <1>5 DEF CountStore
  <2>2. TypeOK' /\ LocalTypes' /\ AlwaysTerminated' /\ CopyWithin'
    BY <1>0, <2>1 DEF TypeOK, LocalTypes, ReaderLabel, AlwaysTerminated, CopyWithin
  <2> QED
    BY <1>0, <2>1, <2>2, StaysQueued
<1>6. CASE Compare(r)
  <2>1. PICK label \in {"stores", "return"} :
           /\ pc' = [pc EXCEPT ![r] = label]
           /\ \/ todo' = todo
              \/ todo' = [todo EXCEPT ![r] = {"count", "notready"}]
           /\ UNCHANGED <<shared, wq, expired, len, val, pos, cnt>>
    BY <1>6 DEF Compare
  <2>2. todo' \in [Thread -> SUBSET {"nul", "ready", "count", "notready"}]
    <3> DEFINE S == SUBSET {"nul", "ready", "count", "notready"}
               c == {"count", "notready"}
    <3>1. c \in S /\ todo \in [Thread -> S]
      BY DEF TypeOK
    <3> HIDE DEF S, c
    <3>2. todo' = todo \/ todo' = [todo EXCEPT ![r] = c]
      BY <2>1 DEF c
    <3> QED
      BY <1>0, <3>1, <3>2 DEF S
  <2>3. TypeOK' /\ AlwaysTerminated'
    BY <2>1, <2>2 DEF TypeOK, AlwaysTerminated
  <2>4. LocalTypes' /\ CopyWithin'
    BY <1>0, <2>1 DEF LocalTypes, ReaderLabel, CopyWithin
  <2> QED
    BY <1>0, <2>1, <2>3, <2>4, StaysQueued
<1> QED
  BY <1>1, <1>2, <1>3, <1>4, <1>5, <1>6

\* my_write up to its plain stores.
LEMMA WriteStepInv ==
    ASSUME WaitInv, NEW w \in Writer,
           \/ \E n \in Lengths, c \in Char : WriteCall(w, n, c)
           \/ WriteCopy(w) \/ WriteFault(w)
    PROVE  WaitInv'
<1> USE Bounds DEF WaitInv, shared, Goto
<1>0. w \in Thread /\ w \notin Reader
  BY Threads DEF Thread
<1>1. ASSUME NEW n \in Lengths, NEW c \in Char, WriteCall(w, n, c)
      PROVE  WaitInv'
  <2> DEFINE k == IF n > Size - 1 THEN Size - 1 ELSE n
  <2>1. /\ pc[w] = "idle" /\ pc' = [pc EXCEPT ![w] = "fetch"]
        /\ len' = [len EXCEPT ![w] = k] /\ val' = [val EXCEPT ![w] = c]
        /\ UNCHANGED <<shared, wq, expired, pos, cnt, todo>>
    BY <1>1 DEF WriteCall
  <2>2. k \in 0 .. Size - 1
    OBVIOUS
  <2> HIDE DEF k
  <2>3. TypeOK' /\ LocalTypes' /\ AlwaysTerminated'
    BY <1>0, <2>1, <2>2 DEF TypeOK, LocalTypes, WriterLabel, AlwaysTerminated
  <2>4. CopyWithin'
    BY <1>0, <2>1, <2>2 DEF CopyWithin, TypeOK, LocalTypes
  <2> QED
    BY <1>0, <2>1, <2>3, <2>4, StaysQueued
<1>2. CASE WriteCopy(w)
  <2>1. /\ pc[w] = "fetch"
        /\ UNCHANGED <<data_ready, readers_count, wq, expired, len, val, cnt>>
        /\ pos[w] \in Cell /\ len[w] \in Cell
    BY <1>0, <1>2 DEF WriteCopy, TypeOK
  <2>2. CASE /\ pos[w] < len[w] /\ data' = [data EXCEPT ![pos[w]] = val[w]]
             /\ pos' = [pos EXCEPT ![w] = @ + 1] /\ UNCHANGED <<pc, todo>>
    <3>1. pos[w] + 1 \in 0 .. Size - 1 /\ pos[w] + 1 <= len[w] /\ pos[w] # Size - 1
      BY <1>0, <2>1, <2>2
    <3>2. TypeOK' /\ LocalTypes'
      BY <1>0, <2>1, <2>2, <3>1 DEF TypeOK, LocalTypes
    <3>3. AlwaysTerminated' /\ CopyWithin' /\ SleepersQueued'
      BY <1>0, <2>1, <2>2, <3>1 DEF AlwaysTerminated, CopyWithin, TypeOK, SleepersQueued
    <3> QED
      BY <3>2, <3>3
  <2>3. CASE /\ todo' = [todo EXCEPT ![w] = {"nul", "ready", "count"}]
             /\ pc' = [pc EXCEPT ![w] = "stores"] /\ UNCHANGED <<data, pos>>
    <3>1. TypeOK' /\ LocalTypes' /\ AlwaysTerminated' /\ CopyWithin'
      BY <1>0, <2>1, <2>3
         DEF TypeOK, LocalTypes, WriterLabel, AlwaysTerminated, CopyWithin
    <3> QED
      BY <1>0, <2>1, <2>3, <3>1, StaysQueued
  <2> QED
    BY <1>2, <2>2, <2>3 DEF WriteCopy
<1>3. CASE WriteFault(w)
  <2>1. /\ pc[w] = "fetch" /\ pc' = [pc EXCEPT ![w] = "idle"]
        /\ data' = [i \in Cell |-> IF pos[w] <= i /\ i < len[w] THEN Nul ELSE data[i]]
        /\ len' = [len EXCEPT ![w] = 0] /\ val' = [val EXCEPT ![w] = Nul]
        /\ pos' = [pos EXCEPT ![w] = 0]
        /\ UNCHANGED <<data_ready, readers_count, wq, expired, cnt, todo>>
    BY <1>3 DEF WriteFault, WriteReturns
  <2>2. data' \in [Cell -> Char \cup {Nul}] /\ data'[Size - 1] = Nul
    BY <2>1 DEF TypeOK, AlwaysTerminated
  <2>3. TypeOK' /\ LocalTypes' /\ AlwaysTerminated'
    BY <1>0, <2>1, <2>2 DEF TypeOK, LocalTypes, WriterLabel, AlwaysTerminated
  <2>4. CopyWithin'
    BY <1>0, <2>1 DEF CopyWithin, TypeOK, LocalTypes
  <2> QED
    BY <1>0, <2>1, <2>3, <2>4, StaysQueued
<1> QED
  BY <1>1, <1>2, <1>3

\* A plain store: only a writer's makes data ready, and it has wake_up before it.
LEMMA StoreInv ==
    ASSUME WaitInv, NEW t \in Thread, NEW s, Store(t, s),
           t \in Reader => s \in {"count", "notready"}
    PROVE  WaitInv'
<1> USE Bounds DEF WaitInv
<1> DEFINE label == IF todo[t] = {s} THEN "wake" ELSE "stores"
<1>1. /\ pc[t] = "stores" /\ pc' = [pc EXCEPT ![t] = label]
      /\ todo' = [todo EXCEPT ![t] = @ \ {s}]
      /\ data' = IF s = "nul" THEN [data EXCEPT ![len[t]] = Nul] ELSE data
      /\ readers_count' = IF s = "count" THEN 0 ELSE readers_count
      /\ UNCHANGED <<wq, expired, len, val, pos, cnt>>
  BY DEF Store, Goto
<1>2. data_ready' \in {0, 1} /\ (data_ready' = 1 => data_ready = 1 \/ s = "ready")
  BY DEF Store, TypeOK
<1>3. label \in {"wake", "stores"}
  OBVIOUS
<1> HIDE DEF label
<1>4. data' \in [Cell -> Char \cup {Nul}] /\ data'[Size - 1] = Nul
  BY <1>1 DEF TypeOK, AlwaysTerminated
<1>5. TypeOK' /\ AlwaysTerminated'
  BY <1>1, <1>2, <1>4 DEF TypeOK, AlwaysTerminated
<1>6. LocalTypes' /\ CopyWithin'
  BY <1>1, <1>3 DEF LocalTypes, ReaderLabel, WriterLabel, CopyWithin
<1>7. s = "ready" => t \in Writer
  BY DEF Thread
<1>8. SleepersQueued'
  BY <1>1, <1>2, <1>3, <1>7, StaysQueued
<1> QED
  BY <1>5, <1>6, <1>8

\* After a wake_up nobody sleeps.
LEMMA WakeInv ==
    ASSUME WaitInv, NEW t \in Thread,
           \/ t \in Reader /\ ReaderWakes(t)
           \/ t \in Writer /\ WriterWakes(t)
    PROVE  WaitInv'
<1> USE Bounds DEF WaitInv, shared
<1>1. PICK label \in {"return", "idle"} :
         /\ WakeUp(t, label) /\ (t \in Reader => label \in ReaderLabel)
         /\ t \in Writer => label = "idle"
         /\ label = "idle" => pos'[t] = 0
  BY Threads DEF ReaderWakes, WriterWakes, WriteReturns, ReaderLabel, TypeOK
<1>2. /\ UNCHANGED <<shared, expired, cnt, todo>>
      /\ len' \in {len, [len EXCEPT ![t] = 0]} /\ pos' \in {pos, [pos EXCEPT ![t] = 0]}
      /\ val' \in {val, [val EXCEPT ![t] = Nul]} /\ pc[t] = "wake"
  BY DEF ReaderWakes, WriterWakes, WriteReturns
<1>3. /\ wq' = {} /\ pc'[t] = label /\ DOMAIN pc' = Thread
      /\ \A u \in Thread : u # t =>
            \/ pc'[u] = pc[u]
            \/ u \in wq /\ pc[u] = "sleep" /\ pc'[u] = "prepare"
      /\ \A u \in Thread : u \in wq => pc'[u] # "sleep"
      /\ pc' = [u \in Thread |-> pc'[u]]
  BY <1>1 DEF WakeUp
<1>4. TypeOK' /\ AlwaysTerminated'
  BY <1>2, <1>3 DEF TypeOK, AlwaysTerminated
<1>5. LocalTypes'
  <2>1. \A r \in Reader : pc'[r] \in ReaderLabel
    BY <1>1, <1>3 DEF LocalTypes, ReaderLabel, Thread
  <2>2. \A w \in Writer : pc'[w] \in WriterLabel
    BY <1>1, <1>3, Threads DEF LocalTypes, WriterLabel, Thread, TypeOK
  <2>3. pc' \in [Thread -> ReaderLabel \cup WriterLabel]
    BY <1>3, <2>1, <2>2 DEF Thread
  <2>4. val' \in [Writer -> Char \cup {Nul}]
    BY <1>2 DEF LocalTypes
  <2> QED
    BY <1>2, <2>1, <2>2, <2>3, <2>4 DEF LocalTypes
<1>6. CopyWithin'
  BY <1>1, <1>2, <1>3 DEF CopyWithin, LocalTypes, TypeOK
<1>7. SleepersQueued'
  <2>1. \A r \in Reader : pc'[r] # "sleep"
    BY <1>1, <1>3 DEF SleepersQueued, Thread
  <2> QED
    BY <2>1 DEF SleepersQueued
<1> QED
  BY <1>4, <1>5, <1>6, <1>7

\* Every step keeps the inductive invariant.
LEMMA NextWaitInv == WaitInv /\ [Next]_vars => WaitInv'
<1> SUFFICES ASSUME WaitInv, [Next]_vars PROVE WaitInv'
  OBVIOUS
<1>1. CASE UNCHANGED vars
  BY <1>1 DEF vars, shared, WaitInv, TypeOK, LocalTypes, CopyWithin, SleepersQueued,
              AlwaysTerminated
<1>2. ASSUME NEW r \in Reader,
             ReadCall(r) \/ ReaderStep(r) \/ Timer(r) \/ Signal(r) \/ ReadFault(r)
      PROVE  WaitInv'
  <2>1. r \in Thread
    BY DEF Thread
  <2>2. ASSUME NEW s \in {"count", "notready"}, Store(r, s) PROVE WaitInv'
    BY <2>1, <2>2, StoreInv
  <2>3. CASE ReaderWakes(r)
    BY <2>1, <2>3, WakeInv
  <2> QED
    BY <1>2, <2>2, <2>3, WaitStepInv, ReadStepInv DEF ReaderStep
<1>3. ASSUME NEW w \in Writer,
             \/ \E n \in Lengths, c \in Char : WriteCall(w, n, c)
             \/ WriterStep(w) \/ WriteFault(w)
      PROVE  WaitInv'
  <2>1. w \in Thread /\ w \notin Reader
    BY Threads DEF Thread
  <2> QED
    BY <1>3, <2>1, WriteStepInv, StoreInv, WakeInv DEF WriterStep
<1> QED
  BY <1>1, <1>2, <1>3 DEF Next

----------------------------------------------------------------------------
(* Results                                                                 *)

\* The inductive invariant holds throughout.
THEOREM WaitInvariance == Spec => []WaitInv
<1>1. ASSUME Init PROVE WaitInv
  <2>1. 0 \in 0 .. Size - 1 /\ 0 \in 0 .. total_readers
        /\ \A t \in Reader \cup Writer : t \in Thread
    BY Bounds DEF Thread
  <2>2. TypeOK /\ AlwaysTerminated
    BY <1>1, <2>1, Bounds DEF Init, TypeOK, AlwaysTerminated
  <2>3. LocalTypes
    BY <1>1, <2>1 DEF Init, LocalTypes, ReaderLabel, WriterLabel
  <2>4. CopyWithin /\ SleepersQueued
    BY <1>1, <2>1 DEF Init, CopyWithin, SleepersQueued
  <2> QED
    BY <2>2, <2>3, <2>4 DEF WaitInv
<1> QED
  BY <1>1, NextWaitInv, PTL DEF Spec

\* Every variable keeps its type, and lengths and positions leave room for the
\* terminating Nul, whatever my_write is passed.
THEOREM WaitTypeCorrect == Spec => []TypeOK
<1>1. WaitInv => TypeOK
  BY DEF WaitInv
<1> QED
  BY <1>1, WaitInvariance, PTL

\* A reader that sleeps in wait_event_interruptible_timeout while data is ready
\* is about to be woken, for any number of readers and writers.
THEOREM WakeupsAreNotLost == Spec => []NoLostWakeup
<1>1. WaitInv => NoLostWakeup
  BY DEF WaitInv, SleepersQueued, NoLostWakeup
<1> QED
  BY <1>1, WaitInvariance, PTL

\* strlen(data) never leaves data, for a buffer and messages of any length.
THEOREM DataIsTerminated == Spec => []AlwaysTerminated
<1>1. WaitInv => AlwaysTerminated
  BY DEF WaitInv
<1> QED
  BY <1>1, WaitInvariance, PTL
==============================================================================
