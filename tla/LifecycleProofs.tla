-------------------------- MODULE LifecycleProofs --------------------------
(***************************************************************************)
(* Proofs about loading and unloading the drivers (Lifecycle) and what     *)
(* runs beside them (Deferred), for any set of drivers.                    *)
(*                                                                         *)
(* The argument has two parts.  Of each plan it is shown once that it is   *)
(* sound: every error path, and the exit function, releases exactly what   *)
(* is in stock at that point, nothing twice, and nothing that something    *)
(* else still rests on.  An inductive invariant then relates what is held  *)
(* to the stock of the steps made, and the releases still to be made to    *)
(* what is held; it is kept by every step of a driver with a sound plan,   *)
(* also in the drivers that ignore refusals.                               *)
(***************************************************************************)
EXTENDS Deferred, SequenceTheorems, TLAPS

\* The kinds of objects that appear in the plans, and the objects.
Kinds == {"state", "mem", "region", "cdev", "class", "device", "group", "reset",
          "stats", "data", "handler", "priv", "mapping", "temp", "control",
          "threshold", "files", "pm", "gpio", "kobj", "value", "misc", "driver",
          "platform", "buffer", "config", "timer", "tasklet", "t1", "t2", "worker"}
Objects == Kinds \X {0, 1}

\* The steps of the init function at hand.
Steps == Plan[driver].init

\* What the first n - 1 steps acquire and do not free, if all of them succeed.
Stock(steps, n) ==
    {steps[i].get : i \in {j \in 1 .. n - 1 :
        \A k \in j .. n - 1 : ~(steps[k].fail = "free" /\ steps[k].get = steps[j].get)}}

\* What an earlier life of the driver may have left behind.
Carry == CASE driver = "keyboard" -> {Of("handler", 0)}
           [] driver = "gpio"     -> {One("gpio")}
           [] OTHER               -> {}

\* The releases s take away all of S but the static objects and rest.
Covered(S, s, rest) ==
    \A r \in S : r \in Static \cup rest \/ \E k \in DOMAIN s : r \in Gone(s[k])

\* The releases s name objects of S, none of them one that has gone already.
Present(S, s) ==
    \A k \in DOMAIN s : s[k] \in S /\ \A j \in 1 .. k - 1 : s[k] \notin Gone(s[j])

\* Whenever a release of s takes something away, what rests on it has gone
\* before or goes with it.
Nested(S, s) ==
    \A k \in DOMAIN s : \A r \in S :
        RestsOn(r) \cap Gone(s[k]) # {} => \E j \in 1 .. k : r \in Gone(s[j])

\* Releases that empty S, release nothing twice and never leave anything
\* dangling.
Orderly(S, s, rest) == Covered(S, s, rest) /\ Present(S, s) /\ Nested(S, s)

\* What a refusal leads to in a careful driver, and in any driver.
Mild == {"undo", "skip", "never", "free"}
Outcomes == Mild \cup {"ignore", "null", "stop", "garbage", "oops"}

\* Step n of the init function finds what its object rests on in stock, and its
\* error path puts the stock in order; a careful driver ignores no refusal; a
\* step that frees an object frees one that is in stock and that nothing rests
\* on.
StepSound(n) ==
    LET st == Steps[n]  stock == Stock(Steps, n) IN
    /\ st.get \in Objects /\ st.fail \in Outcomes /\ st.undo \in Seq(Objects)
    /\ driver \in Careful => st.fail \in Mild
    /\ st.get = Worker => driver = "completion"
    /\ st.fail = "free" => /\ driver \in Careful /\ st.get \in stock \ Object
                           /\ \A r \in stock : st.get \notin RestsOn(r)
    /\ st.fail # "free" => RestsOn(st.get) \subseteq stock
    /\ st.fail = "skip" => n < Len(Steps) /\ Stock(Steps, n + 2) = stock
    /\ st.fail \in {"stop", "garbage"} => stock \subseteq Kept(Steps)
    /\ st.fail \in {"undo", "garbage"} => Orderly(stock, st.undo, Carry)

\* The exit function puts everything in order that the init function keeps; 022
\* asks for a handler that is not there.
ExitSound ==
    LET exit == Plan[driver].exit IN
    /\ exit \in Seq(Objects)
    /\ Covered(Kept(Steps), exit, Carry \ {One("gpio")})
    /\ Nested(Kept(Steps), exit)
    /\ driver # "keyboard" => Present(Kept(Steps), exit)

\* What is to be shown of every plan, once and for all: it mentions no variable
\* but driver.
PlanSound ==
    /\ Len(Steps) \in Nat
    /\ \A n \in 1 .. Len(Steps) : StepSound(n)
    /\ Stock(Steps, Len(Steps) + 1) = Kept(Steps)
    /\ Carry \subseteq Kept(Steps)
    /\ ExitSound

\* Nothing is missing from what was acquired so far.
Clean == driver \in Careful \/ ~failed

\* The range of every variable of Lifecycle; held is bounded by the invariants
\* below.
LTypes ==
    /\ driver \in DOMAIN Plan
    /\ phase \in {"absent", "init", "undo", "loaded", "exit", "oops"}
    /\ at \in Nat
    /\ release \in Seq(Objects)
    /\ failed \in BOOLEAN

\* During the init function the driver holds at most the stock of the steps
\* made, and all of it unless a refusal was ignored.
InitInv ==
    phase = "init" =>
        /\ at \in 1 .. Len(Steps) + 1
        /\ held \subseteq Stock(Steps, at) \cup Carry
        /\ Clean => Stock(Steps, at) \subseteq held

\* A loaded driver holds at most what its init function keeps.
LoadedInv ==
    phase = "loaded" => held \subseteq Kept(Steps) /\ (Clean => held = Kept(Steps))

\* An error path is that of the step that failed.
UndoInv ==
    phase = "undo" =>
        /\ failed
        /\ at \in 1 .. Len(Steps)
        /\ Steps[at].fail \in {"undo", "garbage"}
        /\ held \subseteq Stock(Steps, at) \cup Carry

\* The releases still to be made take away all that is held, and if nothing is
\* missing they are in order.
ReleaseInv ==
    phase \in {"undo", "exit"} =>
        /\ Covered(held, release, Leftover)
        /\ Clean => Nested(held, release)
        /\ Clean /\ driver # "keyboard" => Present(held, release)

\* The inductive invariant of Lifecycle.
LInv == LTypes /\ AbsentHoldsNothing /\ InitInv /\ LoadedInv /\ UndoInv /\ ReleaseInv
        /\ NothingDangles

\* The range of the variables of Deferred.
DTypes ==
    /\ queued \subseteq {Timer, Tasklet, Work}
    /\ run \in [Object -> {"no", "start", "body", "test", "tail"}]
    /\ stop \subseteq Loops \cup {Handler}

\* Whatever runs or is going to run is held by the driver, or is a stray.
Backed == Lively \subseteq held \cup Stray

\* Only 030 has a worker, which Static lets go when the module does.
WorkerOwned == Worker \in Lively => driver = "completion"

\* The inductive invariant of the drivers and of what runs beside them.
DInv == LInv /\ DTypes /\ Backed /\ WorkerOwned

----------------------------------------------------------------------------
(* The stock, the objects and the plan at hand                             *)

\* Before the first step there is nothing in stock.
LEMMA StockFirst == \A steps : Stock(steps, 1) = {}
  BY DEF Stock

\* One step adds its object to the stock, or frees it.
LEMMA StockNext ==
    ASSUME NEW steps, NEW n \in Nat \ {0}
    PROVE  Stock(steps, n + 1) = IF steps[n].fail = "free"
                                 THEN Stock(steps, n) \ {steps[n].get}
                                 ELSE Stock(steps, n) \cup {steps[n].get}
<1> DEFINE Lasts(m, j) == \A k \in j .. m - 1 :
               ~(steps[k].fail = "free" /\ steps[k].get = steps[j].get)
<1>1. \A m, r : r \in Stock(steps, m) <=>
                \E j \in 1 .. m - 1 : Lasts(m, j) /\ r = steps[j].get
  BY DEF Stock
<1>2. \A j \in 1 .. n - 1 : Lasts(n + 1, j) <=>
          Lasts(n, j) /\ ~(steps[n].fail = "free" /\ steps[n].get = steps[j].get)
  OBVIOUS
<1>3. Lasts(n + 1, n) <=> steps[n].fail # "free"
  OBVIOUS
<1>4. 1 .. (n + 1) - 1 = (1 .. n - 1) \cup {n}
  OBVIOUS
<1> HIDE DEF Lasts
<1>5. \A r : r \in Stock(steps, n + 1) <=>
          \/ \E j \in 1 .. n - 1 : Lasts(n + 1, j) /\ r = steps[j].get
          \/ Lasts(n + 1, n) /\ r = steps[n].get
  BY <1>1, <1>4
<1>6. \A r : r \in Stock(steps, n + 1) <=>
          \/ r \in Stock(steps, n) /\ ~(steps[n].fail = "free" /\ steps[n].get = r)
          \/ steps[n].fail # "free" /\ r = steps[n].get
  BY <1>1, <1>2, <1>3, <1>5
<1> QED
  BY <1>6

\* The same at the step the init function has reached.
LEMMA StockHere ==
    ASSUME at \in Nat \ {0}
    PROVE  Stock(Steps, at + 1) = IF Steps[at].fail = "free"
                                  THEN Stock(Steps, at) \ {Steps[at].get}
                                  ELSE Stock(Steps, at) \cup {Steps[at].get}
  BY StockNext

\* A release takes away its own object, and nothing else behind which something
\* runs.
LEMMA GoneFacts ==
    ASSUME NEW r
    PROVE  /\ r \in Gone(r)
           /\ r \in Object => Gone(r) = {r}
           /\ r \notin Object => Gone(r) \cap Object = {}
  BY DEF Gone, Object, Timer, Tasklet, Work, Handler, Worker, Threads, Loops, One, Of

\* What was left behind rests on nothing, and Leftover accounts for it.
LEMMA CarryFacts ==
    /\ \A r \in Carry : RestsOn(r) = {}
    /\ Leftover \subseteq Carry
    /\ failed => Carry = Leftover
    /\ Carry \ {One("gpio")} \subseteq Leftover
  BY DEF Carry, Leftover, RestsOn, One, Of

\* The plan changes only with the driver.
LEMMA SamePlan ==
    ASSUME driver' = driver
    PROVE  /\ Steps' = Steps
           /\ Carry' = Carry
           /\ \A r : RestsOn(r)' = RestsOn(r)
  BY DEF Steps, Carry, RestsOn

----------------------------------------------------------------------------
(* Steps of the driver                                                     *)

\* A load begins with nothing but the leftovers.
LEMMA LoadInv == ASSUME LInv, Load PROVE LInv'
<1> USE DEF Load
<1>1. LTypes'
  BY DEF LInv, LTypes
<1>2. phase' = "init" /\ held \subseteq Carry
  BY CarryFacts DEF LInv, AbsentHoldsNothing
<1>3. InitInv'
  <2>1. Stock(Steps, 1) = {}
    BY StockFirst
  <2> QED
    BY <1>2, <2>1, SamePlan DEF InitInv, Clean
<1>4. NothingDangles'
  BY <1>2, CarryFacts, SamePlan DEF NothingDangles
<1> QED
  BY <1>1, <1>2, <1>3, <1>4
     DEF LInv, AbsentHoldsNothing, LoadedInv, UndoInv, ReleaseInv

\* A step of the init function that succeeds keeps the invariant.
LEMMA AcquiredInv == ASSUME LInv, PlanSound, Acquired PROVE LInv'
<1> USE DEF Acquired
<1> DEFINE st == Steps[at]
           stock == Stock(Steps, at)
<1>1. /\ phase = "init" /\ at \in 1 .. Len(Steps) /\ Len(Steps) \in Nat
      /\ held \subseteq stock \cup Carry
      /\ Clean => stock \subseteq held
  BY DEF LInv, InitInv, PlanSound, LTypes, Steps
<1>2. Current = st
  BY DEF Current, Steps
<1>3. StepSound(at)
  BY <1>1 DEF PlanSound
<1>4. Stock(Steps, at + 1) = IF st.fail = "free" THEN stock \ {st.get}
                             ELSE stock \cup {st.get}
  BY <1>1, StockHere
<1>5. /\ st.fail = "free" => /\ driver \in Careful
                             /\ \A r \in stock : st.get \notin RestsOn(r)
      /\ st.fail # "free" => RestsOn(st.get) \subseteq stock
  BY <1>3 DEF StepSound
<1>6. held' = IF st.fail = "free" THEN held \ {st.get} ELSE held \cup {st.get}
  BY <1>2
<1>7. /\ Steps' = Steps /\ Carry' = Carry /\ Clean' = Clean
      /\ \A r : RestsOn(r)' = RestsOn(r)
  BY SamePlan DEF Clean
<1>8. at' = at + 1 /\ phase' = "init" /\ LTypes'
  BY <1>1 DEF LInv, LTypes
<1> HIDE DEF st, stock, Acquired
<1>9. InitInv'
  BY <1>1, <1>4, <1>6, <1>7, <1>8 DEF InitInv
<1>10. NothingDangles'
  <2>1. Clean => \A r \in held : RestsOn(r) \subseteq held
    BY DEF LInv, NothingDangles, Clean
  <2>2. Clean => \A r \in held' : RestsOn(r) \subseteq held'
    <3> SUFFICES ASSUME Clean, NEW r \in held' PROVE RestsOn(r) \subseteq held'
      OBVIOUS
    <3>1. CASE st.fail = "free"
      <4>1. r \in held
        BY <3>1, <1>6
      <4>2. st.get \notin RestsOn(r)
        BY <4>1, <3>1, <1>1, <1>5, CarryFacts
      <4> QED
        BY <4>1, <4>2, <2>1, <3>1, <1>6
    <3>2. CASE st.fail # "free"
      BY <3>2, <2>1, <1>1, <1>5, <1>6
    <3> QED
      BY <3>1, <3>2
  <2> QED
    BY <2>2, <1>7 DEF NothingDangles, Clean
<1> QED
  BY <1>8, <1>9, <1>10
     DEF LInv, AbsentHoldsNothing, LoadedInv, UndoInv, ReleaseInv

\* A step that fails keeps the invariant, whatever the code makes of the
\* failure.
LEMMA RefusedInv == ASSUME LInv, PlanSound, Refused PROVE LInv'
<1> DEFINE st == Steps[at]
           stock == Stock(Steps, at)
<1>1. /\ phase = "init" /\ at \in 1 .. Len(Steps) /\ Len(Steps) \in Nat
      /\ held \subseteq stock \cup Carry
      /\ Clean => stock \subseteq held
  BY DEF LInv, InitInv, PlanSound, LTypes, Steps, Refused
<1>2. Current = st
  BY DEF Current, Steps
<1>3. StepSound(at)
  BY <1>1 DEF PlanSound
<1>4. /\ driver \in Careful => st.fail \in Mild
      /\ st.undo \in Seq(Objects)
      /\ st.fail = "skip" => at < Len(Steps) /\ Stock(Steps, at + 2) = stock
      /\ st.fail \in {"stop", "garbage"} => stock \subseteq Kept(Steps)
      /\ st.fail \in {"undo", "garbage"} => Orderly(stock, st.undo, Carry)
  BY <1>3 DEF StepSound
<1>5. /\ failed' /\ driver' = driver /\ held' = held
      /\ st.fail \notin {"never", "free"}
      /\ \/ /\ st.fail \in {"ignore", "null"}
            /\ at' = at + 1 /\ phase' = phase /\ release' = release
         \/ /\ st.fail = "skip"
            /\ at' = at + 2 /\ phase' = phase /\ release' = release
         \/ /\ st.fail = "oops"
            /\ phase' = "oops" /\ at' = at /\ release' = release
         \/ /\ st.fail = "stop"
            /\ phase' = "loaded" /\ at' = at /\ release' = release
         \/ /\ st.fail \in {"undo", "garbage"}
            /\ phase' = "undo" /\ release' = st.undo /\ at' = at
  BY <1>2 DEF Refused
<1>6. Steps' = Steps /\ Carry' = Carry /\ (\A r : RestsOn(r)' = RestsOn(r))
  BY <1>5, SamePlan
<1>7. Clean' <=> driver \in Careful
  BY <1>5 DEF Clean
<1>8. driver \in Careful => Clean
  BY DEF Clean
<1>9. Carry \subseteq Kept(Steps)
  BY DEF PlanSound
<1>10. Stock(Steps, at + 1) = IF st.fail = "free" THEN stock \ {st.get}
                              ELSE stock \cup {st.get}
  BY <1>1, StockHere
<1> HIDE DEF st, stock
<1>11. LTypes'
  <2>1. LTypes
    BY DEF LInv
  <2> QED
    BY <2>1, <1>1, <1>4, <1>5 DEF LTypes
<1>12. InitInv'
  <2> SUFFICES ASSUME phase' = "init"
               PROVE  /\ at' \in 1 .. Len(Steps) + 1
                      /\ held \subseteq Stock(Steps, at') \cup Carry
                      /\ driver \in Careful => Stock(Steps, at') \subseteq held
    BY <1>5, <1>6, <1>7 DEF InitInv
  <2>1. CASE st.fail \in {"ignore", "null"} /\ at' = at + 1
    BY <2>1, <1>1, <1>4, <1>10 DEF Mild
  <2>2. CASE st.fail = "skip" /\ at' = at + 2
    BY <2>2, <1>1, <1>4, <1>8
  <2> QED
    BY <2>1, <2>2, <1>5
<1>13. LoadedInv'
  <2> SUFFICES ASSUME phase' = "loaded"
               PROVE  held \subseteq Kept(Steps) /\ driver \notin Careful
    BY <1>5, <1>6, <1>7 DEF LoadedInv
  <2>1. st.fail = "stop"
    BY <1>1, <1>5
  <2> QED
    BY <2>1, <1>1, <1>4, <1>9 DEF Mild
<1>14. UndoInv'
  <2> SUFFICES ASSUME phase' = "undo"
               PROVE  st.fail \in {"undo", "garbage"} /\ at' = at
    BY <1>1, <1>5, <1>6 DEF UndoInv, st, stock
  <2> QED
    BY <1>1, <1>5
<1>15. ReleaseInv'
  <2> SUFFICES ASSUME phase' \in {"undo", "exit"}
               PROVE  /\ Covered(held, release, Leftover)'
                      /\ Clean' => Nested(held, release)'
                      /\ Clean' => Present(held, release)'
    BY <1>5 DEF ReleaseInv
  <2>1. release' = st.undo /\ Orderly(stock, st.undo, Carry)
    BY <1>1, <1>4, <1>5
  <2>2. Carry = Leftover'
    BY <1>5 DEF Carry, Leftover
  <2>3. Covered(held, release, Leftover)'
    BY <2>1, <2>2, <1>1, <1>5 DEF Covered, Orderly
  <2>4. ASSUME Clean' PROVE Nested(held, release)'
    BY <2>1, <1>1, <1>5, <1>6, CarryFacts DEF Nested, Orderly
  <2>5. ASSUME Clean' PROVE Present(held, release)'
    BY <2>1, <2>5, <1>1, <1>5, <1>7, <1>8 DEF Present, Orderly
  <2> QED
    BY <2>3, <2>4, <2>5
<1>16. NothingDangles'
  <2>1. NothingDangles
    BY DEF LInv
  <2> QED
    BY <2>1, <1>5, <1>6 DEF NothingDangles
<1> QED
  BY <1>1, <1>5, <1>11, <1>12, <1>13, <1>14, <1>15, <1>16
     DEF LInv, AbsentHoldsNothing

\* When the init function returns, the stock is what it keeps.
LEMMA InitReturnsInv == ASSUME LInv, PlanSound, InitReturns PROVE LInv'
<1> USE DEF InitReturns
<1>1. at = Len(Steps) + 1
  BY DEF LInv, InitInv, PlanSound, Steps
<1>2. held \subseteq Kept(Steps) /\ (Clean => held = Kept(Steps))
  BY <1>1 DEF LInv, InitInv, PlanSound
<1>3. Steps' = Steps /\ Clean' = Clean /\ (\A r : RestsOn(r)' = RestsOn(r))
  BY SamePlan DEF Clean
<1>4. LTypes' /\ phase' = "loaded"
  BY DEF LInv, LTypes
<1>5. LoadedInv'
  BY <1>2, <1>3 DEF LoadedInv
<1>6. NothingDangles'
  BY <1>3 DEF LInv, NothingDangles
<1> QED
  BY <1>4, <1>5, <1>6 DEF LInv, AbsentHoldsNothing, InitInv, UndoInv, ReleaseInv

\* The exit function finds its releases in order.
LEMMA UnloadInv == ASSUME LInv, PlanSound, Unload PROVE LInv'
<1> USE DEF Unload
<1> DEFINE exit == Plan[driver].exit
<1>1. held \subseteq Kept(Steps) /\ (Clean => held = Kept(Steps))
  BY DEF LInv, LoadedInv
<1>2. /\ exit \in Seq(Objects)
      /\ Covered(Kept(Steps), exit, Carry \ {One("gpio")})
      /\ Nested(Kept(Steps), exit)
      /\ driver # "keyboard" => Present(Kept(Steps), exit)
  BY DEF PlanSound, ExitSound
<1>3. /\ release' = exit /\ held' = held /\ driver' = driver /\ Clean' = Clean
      /\ phase' = "exit" /\ Leftover' = Leftover
      /\ \A r : RestsOn(r)' = RestsOn(r)
  BY SamePlan DEF Clean, Leftover
<1> HIDE DEF exit
<1>4. LTypes'
  BY <1>2, <1>3 DEF LInv, LTypes
<1>5. ReleaseInv'
  <2>1. Covered(held, release, Leftover)'
    BY <1>1, <1>2, <1>3, CarryFacts DEF Covered
  <2>2. ASSUME Clean' PROVE Nested(held, release)'
    BY <1>1, <1>2, <1>3 DEF Nested
  <2>3. ASSUME Clean', driver' # "keyboard" PROVE Present(held, release)'
    BY <1>1, <1>2, <1>3, <2>3 DEF Present
  <2> QED
    BY <2>1, <2>2, <2>3 DEF ReleaseInv
<1>6. NothingDangles'
  BY <1>3 DEF LInv, NothingDangles
<1> QED
  BY <1>3, <1>4, <1>5, <1>6 DEF LInv, AbsentHoldsNothing, InitInv, UndoInv, LoadedInv

\* One release: h = Head(release) goes, or is not there.
LEMMA OneRelease ==
    ASSUME NEW S, NEW s \in Seq(Objects), s # <<>>, NEW rest
    PROVE  /\ Covered(S, s, rest) => Covered(S \ Gone(Head(s)), Tail(s), rest)
           /\ Nested(S, s) => Nested(S \ Gone(Head(s)), Tail(s))
           /\ Present(S, s) => Present(S \ Gone(Head(s)), Tail(s))
<1> DEFINE t == Tail(s)
           n == Len(s)
           T == S \ Gone(Head(s))
<1>1. /\ n \in Nat \ {0} /\ DOMAIN s = 1 .. n /\ Head(s) = s[1]
      /\ DOMAIN t = 1 .. n - 1
      /\ \A k \in 1 .. n - 1 : k + 1 \in DOMAIN s /\ t[k] = s[k + 1]
  OBVIOUS
<1>2. \A k \in 1 .. n : k # 1 => k - 1 \in 1 .. n - 1 /\ t[k - 1] = s[k]
  BY <1>1
<1>3. Head(s) \in Gone(Head(s))
  BY GoneFacts
<1> HIDE DEF t, n
<1>4. ASSUME Covered(S, s, rest) PROVE Covered(T, t, rest)
  <2> SUFFICES ASSUME NEW r \in T, r \notin Static \cup rest
               PROVE  \E k \in DOMAIN t : r \in Gone(t[k])
    BY DEF Covered
  <2>1. PICK k \in DOMAIN s : r \in Gone(s[k])
    BY <1>4 DEF Covered
  <2>2. k # 1
    BY <2>1, <1>1
  <2> QED
    BY <2>1, <2>2, <1>1, <1>2
<1>5. ASSUME Nested(S, s) PROVE Nested(T, t)
  <2> SUFFICES ASSUME NEW k \in DOMAIN t, NEW r \in T,
                      RestsOn(r) \cap Gone(t[k]) # {}
               PROVE  \E j \in 1 .. k : r \in Gone(t[j])
    BY DEF Nested
  <2>1. PICK j \in 1 .. k + 1 : r \in Gone(s[j])
    BY <1>1, <1>5 DEF Nested
  <2>2. j # 1
    BY <2>1, <1>1
  <2>3. k \in 1 .. n - 1 /\ j - 1 \in 1 .. k /\ t[j - 1] = s[j]
    BY <2>1, <2>2, <1>1, <1>2
  <2> QED
    BY <2>1, <2>3
<1>6. ASSUME Present(S, s) PROVE Present(T, t)
  <2> SUFFICES ASSUME NEW k \in DOMAIN t
               PROVE  t[k] \in T /\ \A j \in 1 .. k - 1 : t[k] \notin Gone(t[j])
    BY DEF Present
  <2>1. k + 1 \in DOMAIN s /\ t[k] = s[k + 1] /\ k \in 1 .. n - 1
    BY <1>1
  <2>2. s[k + 1] \in S /\ \A j \in 1 .. k : s[k + 1] \notin Gone(s[j])
    BY <2>1, <1>6 DEF Present
  <2>3. t[k] \in T
    BY <2>1, <2>2, <1>1
  <2>4. ASSUME NEW j \in 1 .. k - 1 PROVE t[k] \notin Gone(t[j])
    <3>1. j + 1 \in 1 .. k /\ t[j] = s[j + 1]
      BY <2>1, <1>1
    <3> QED
      BY <3>1, <2>1, <2>2
  <2> QED
    BY <2>3, <2>4
<1> QED
  BY <1>4, <1>5, <1>6 DEF t

\* A release keeps the invariant.
LEMMA ReleaseStepInv ==
    ASSUME LInv, phase \in {"undo", "exit"}, release # <<>>,
           held' = held \ Gone(Head(release)), release' = Tail(release),
           UNCHANGED <<driver, phase, at, failed>>
    PROVE  LInv'
<1> DEFINE h == Head(release)
<1>1. release \in Seq(Objects)
  BY DEF LInv, LTypes
<1>2. /\ Steps' = Steps /\ Carry' = Carry /\ (\A r : RestsOn(r)' = RestsOn(r))
      /\ Clean' = Clean /\ Leftover' = Leftover
  BY SamePlan DEF Clean, Leftover
<1>3. /\ Covered(held, release, Leftover)
      /\ Clean => Nested(held, release)
      /\ Clean /\ driver # "keyboard" => Present(held, release)
  BY DEF LInv, ReleaseInv
<1>4. /\ Covered(held \ Gone(h), Tail(release), Leftover)
      /\ Clean => Nested(held \ Gone(h), Tail(release))
      /\ Clean /\ driver # "keyboard" => Present(held \ Gone(h), Tail(release))
  BY <1>1, <1>3, OneRelease
<1>5. ReleaseInv'
  <2>1. Covered(held, release, Leftover)'
    BY <1>2, <1>4 DEF Covered
  <2>2. ASSUME Clean PROVE Nested(held, release)'
    BY <1>2, <1>4, <2>2 DEF Nested
  <2>3. ASSUME Clean, driver # "keyboard" PROVE Present(held, release)'
    BY <1>4, <2>3 DEF Present
  <2> QED
    BY <1>2, <2>1, <2>2, <2>3 DEF ReleaseInv
<1>6. LTypes'
  BY <1>1 DEF LInv, LTypes
<1>7. NothingDangles'
  <2> SUFFICES ASSUME Clean, NEW r \in held' PROVE RestsOn(r) \subseteq held'
    BY <1>2 DEF NothingDangles, Clean
  <2>1. RestsOn(r) \subseteq held
    BY DEF LInv, NothingDangles, Clean
  <2>2. RestsOn(r) \cap Gone(h) = {}
    <3>1. 1 \in DOMAIN release /\ release[1] = h
      BY <1>1
    <3> QED
      BY <3>1, <1>3 DEF Nested
  <2> QED
    BY <2>1, <2>2
<1>8. UndoInv'
  BY <1>2 DEF LInv, UndoInv
<1> QED
  BY <1>5, <1>6, <1>7, <1>8 DEF LInv, AbsentHoldsNothing, InitInv, LoadedInv

\* When the releases are made, the module goes with nothing held.
LEMMA GiveBackInv ==
    ASSUME LInv, phase \in {"undo", "exit"}, release = <<>>,
           phase' = "absent", held' = held \ Static,
           UNCHANGED <<driver, at, release, failed>>
    PROVE  LInv'
<1>1. Leftover' = Leftover /\ (\A r : RestsOn(r)' = RestsOn(r))
  BY SamePlan DEF Leftover
<1>2. held' \subseteq Leftover
  BY DEF LInv, ReleaseInv, Covered
<1>3. AbsentHoldsNothing' /\ NothingDangles'
  BY <1>1, <1>2, CarryFacts DEF AbsentHoldsNothing, NothingDangles
<1>4. LTypes'
  BY DEF LInv, LTypes
<1> QED
  BY <1>3, <1>4 DEF LInv, InitInv, LoadedInv, UndoInv, ReleaseInv

\* An init function that returns a wild value leaves the driver loaded.
LEMMA GarbageInv ==
    ASSUME LInv, PlanSound, phase = "undo", Current.fail = "garbage",
           phase' = "loaded", UNCHANGED <<driver, at, release, failed, held>>
    PROVE  LInv'
<1>1. /\ at \in 1 .. Len(Steps) /\ failed
      /\ held \subseteq Stock(Steps, at) \cup Carry
  BY DEF LInv, UndoInv
<1>2. StepSound(at) /\ Carry \subseteq Kept(Steps)
  BY <1>1 DEF PlanSound
<1>3. Steps[at].fail = "garbage"
  BY DEF Current, Steps
<1>4. held \subseteq Kept(Steps) /\ driver \notin Careful
  BY <1>1, <1>2, <1>3 DEF StepSound, Mild
<1>5. Steps' = Steps /\ (\A r : RestsOn(r)' = RestsOn(r))
  BY SamePlan
<1>6. LoadedInv'
  BY <1>1, <1>4, <1>5 DEF LoadedInv, Clean
<1>7. LTypes' /\ NothingDangles'
  BY <1>5 DEF LInv, LTypes, NothingDangles
<1> QED
  BY <1>6, <1>7 DEF LInv, AbsentHoldsNothing, InitInv, UndoInv, ReleaseInv

\* After an access through an error pointer nothing is claimed any more.
LEMMA OopsInv ==
    ASSUME LInv, phase' = "oops", UNCHANGED <<driver, at, release, failed, held>>
    PROVE  LInv'
<1>1. LTypes'
  BY DEF LInv, LTypes
<1>2. NothingDangles'
  BY SamePlan DEF LInv, NothingDangles
<1> QED
  BY <1>1, <1>2
     DEF LInv, AbsentHoldsNothing, InitInv, LoadedInv, UndoInv, ReleaseInv

\* A step of a callback leaves the driver as it is.
LEMMA AsideInv == ASSUME LInv, UNCHANGED vars PROVE LInv'
<1>1. /\ Steps' = Steps /\ Carry' = Carry /\ (\A r : RestsOn(r)' = RestsOn(r))
      /\ Clean' = Clean /\ Leftover' = Leftover
  BY SamePlan DEF vars, Clean, Leftover
<1>2. LTypes' /\ AbsentHoldsNothing' /\ LoadedInv' /\ NothingDangles'
  BY <1>1 DEF LInv, vars, LTypes, AbsentHoldsNothing, LoadedInv, NothingDangles
<1>3. InitInv' /\ UndoInv'
  BY <1>1 DEF LInv, vars, InitInv, UndoInv
<1>4. ReleaseInv'
  BY <1>1 DEF LInv, vars, ReleaseInv, Covered, Nested, Present
<1> QED
  BY <1>2, <1>3, <1>4 DEF LInv

\* Every step keeps the invariant of Lifecycle.
LEMMA DNextInv == ASSUME LInv, PlanSound, [DNext]_all PROVE LInv'
<1>1. CASE DLoad
  BY <1>1, LoadInv DEF DLoad
<1>2. CASE DUnload
  BY <1>2, UnloadInv DEF DUnload
<1>3. CASE DAcquired
  BY <1>3, AcquiredInv DEF DAcquired
<1>4. CASE DRefused
  BY <1>4, RefusedInv DEF DRefused
<1>5. CASE DInitReturns
  BY <1>5, InitReturnsInv DEF DInitReturns
<1>6. CASE Releases
  BY <1>6, ReleaseStepInv DEF Releases
<1>7. ASSUME NEW o \in Object, StopThread(o) PROVE LInv'
  <2>1. o \in Loops /\ Releasing(o) /\ UNCHANGED <<driver, at, failed, held>>
    BY <1>7 DEF StopThread
  <2>2. phase \in {"undo", "exit"} /\ release # <<>> /\ o = Head(release)
    BY <2>1 DEF Releasing
  <2>3. CASE o \in held
    <3>1. release' = release /\ phase' = phase
      BY <2>3, <1>7 DEF StopThread, IsNull
    <3> QED
      BY <2>1, <3>1, AsideInv DEF vars
  <2>4. CASE o \notin held /\ IsNull(o)
    <3>1. release' = Tail(release) /\ phase' = phase
      BY <2>4, <1>7 DEF StopThread
    <3>2. Gone(Head(release)) = {o}
      BY <2>2, GoneFacts
    <3>3. held' = held \ Gone(Head(release))
      BY <3>2, <2>1, <2>4
    <3> QED
      BY <2>1, <2>2, <3>1, <3>3, ReleaseStepInv
  <2>5. CASE o \notin held /\ ~IsNull(o)
    BY <2>1, <2>5, <1>7, OopsInv DEF StopThread
  <2> QED
    BY <2>3, <2>4, <2>5
<1>8. CASE DUndoReturns
  <2>1. UndoReturns
    BY <1>8 DEF DUndoReturns
  <2>2. CASE phase' = "absent" /\ held' = held \ Static
    BY <2>1, <2>2, GiveBackInv DEF UndoReturns
  <2>3. CASE Current.fail = "garbage" /\ phase' = "loaded" /\ UNCHANGED held
    BY <2>1, <2>3, GarbageInv DEF UndoReturns
  <2> QED
    BY <2>1, <2>2, <2>3 DEF UndoReturns
<1>9. CASE DExitReturns
  BY <1>9, GiveBackInv DEF DExitReturns, ExitReturns
<1>10. CASE UNCHANGED vars
  BY <1>10, AsideInv
<1>11. ASSUME NEW o \in Object, Callback(o) \/ Trigger(o) PROVE UNCHANGED vars
  BY <1>11 DEF Callback, Trigger, Fire, CallbackRuns, TimerRearms, HrtimerRestarts,
        HandlerRuns, ThreadEnters, LoopTest, LoopBody, Returns, Complete, Aside
<1>12. FreeIrq \/ Interrupt => UNCHANGED vars
  BY DEF FreeIrq, Interrupt, Aside
<1>13. ReleasePlain \/ DelTimer \/ TaskletKill \/ HrtimerCancel => Releases
  BY DEF ReleasePlain, DelTimer, TaskletKill, HrtimerCancel
<1>14. ASSUME NEW o \in Object, StopReturns(o) PROVE Releases
  BY <1>14 DEF StopReturns
<1> QED
  BY <1>1, <1>2, <1>3, <1>4, <1>5, <1>6, <1>7, <1>8, <1>9, <1>10, <1>11, <1>12,
     <1>13, <1>14 DEF DNext, InitStep, ExitStep, all

----------------------------------------------------------------------------
(* What runs beside the driver                                             *)

\* The objects behind which something runs.
LEMMA Names ==
    /\ Timer \in Object /\ Tasklet \in Object /\ Work \in Object /\ Worker \in Object
    /\ Handler \in Object /\ Loops \subseteq Object /\ Threads = Loops \cup {Worker}
    /\ Loops \cup {Handler, Worker} \subseteq Object
    /\ (Loops \cup {Handler, Worker}) \cap {Timer, Tasklet, Work} = {}
    /\ Worker \notin Loops \cup {Handler}
    /\ Static \cap Object = {Worker}
  BY DEF Object, Threads, Loops, Timer, Tasklet, Work, Worker, Handler, One, Of, Static

\* Lively, element by element.
LEMMA LivelyIs ==
    /\ \A o : o \in Lively <=> o \in queued \/ (o \in Object /\ run[o] # "no")
    /\ \A o : o \in Lively' <=> o \in queued' \/ (o \in Object /\ run'[o] # "no")
  BY DEF Lively

\* The part of the invariant about what runs beside the driver.
DRest == DTypes /\ Backed /\ WorkerOwned

\* At a load nothing runs.
LEMMA RestLoad == ASSUME DRest, DLoad PROVE DRest'
  BY DEF DRest, DLoad, Load, DTypes, Backed, WorkerOwned, Lively, Stray

\* Steps of the driver that neither queue nor start anything and release
\* nothing.
LEMMA RestQuiet ==
    ASSUME DRest, driver' = driver, held \subseteq held', queued' \subseteq queued,
           run' = run, stop' \subseteq stop \cup Loops \cup {Handler}
    PROVE  DRest'
<1>1. Stray' = Stray
  BY DEF Stray
<1>2. Lively' \subseteq Lively
  BY LivelyIs
<1>3. DTypes'
  BY DEF DRest, DTypes
<1> QED
  BY <1>1, <1>2, <1>3 DEF DRest, Backed, WorkerOwned

\* A release of h, behind which nothing runs any more.
LEMMA RestRelease ==
    ASSUME DRest, NEW h, driver' = driver, held' = held \ Gone(h),
           queued' \subseteq queued, UNCHANGED <<run, stop>>,
           h \in Object => h \notin Lively' \/ h \in Stray
    PROVE  DRest'
<1>1. Stray' = Stray
  BY DEF Stray
<1>2. Lively' \subseteq Lively /\ Lively' \subseteq Object
  BY LivelyIs, Names DEF DRest, DTypes
<1>3. DTypes'
  BY DEF DRest, DTypes
<1>4. WorkerOwned'
  BY <1>2 DEF DRest, WorkerOwned
<1>5. Backed'
  <2> SUFFICES ASSUME NEW o \in Lively', o \notin Stray PROVE o \in held'
    BY <1>1 DEF Backed
  <2>1. o \in held /\ o \in Object
    BY <1>2 DEF DRest, Backed
  <2>2. o \notin Gone(h)
    <3>1. CASE h \in Object
      BY <3>1, GoneFacts
    <3>2. CASE h \notin Object
      BY <2>1, <3>2, GoneFacts
    <3> QED
      BY <3>1, <3>2
  <2> QED
    BY <2>1, <2>2
<1> QED
  BY <1>3, <1>4, <1>5 DEF DRest

\* A callback or a thread moves: what was not lively becomes so only if the
\* driver holds it or it is a stray.
LEMMA RestMoves ==
    ASSUME DRest, UNCHANGED <<driver, held, stop>>,
           queued' \subseteq {Timer, Tasklet, Work},
           run' \in [Object -> {"no", "start", "body", "test", "tail"}],
           Lively' \subseteq Lively \cup (held \ {Worker}) \cup (Stray \ {Worker})
    PROVE  DRest'
<1>1. Stray' = Stray
  BY DEF Stray
<1> QED
  BY <1>1 DEF DRest, DTypes, Backed, WorkerOwned

\* An object that is queued or started when it is acquired is held from then
\* on.
LEMMA RestAcquired == ASSUME DRest, LInv, PlanSound, DAcquired PROVE DRest'
<1> DEFINE o == Current.get
<1>1. at \in 1 .. Len(Steps)
  BY DEF LInv, InitInv, DAcquired, Acquired, PlanSound, Steps
<1>2. StepSound(at) /\ Current = Steps[at]
  BY <1>1 DEF PlanSound, Current, Steps
<1>3. /\ Current.fail = "free" => o \notin Object
      /\ o = Worker => driver = "completion"
  BY <1>2 DEF StepSound
<1>4. /\ held' = IF Current.fail = "free" THEN held \ {o} ELSE held \cup {o}
      /\ queued' = queued \cup ({o} \cap {Timer, Tasklet})
      /\ run' = [p \in Object |-> IF p = o /\ o \in Threads THEN "start" ELSE run[p]]
      /\ driver' = driver /\ stop' = stop
  BY DEF DAcquired, Acquired
<1>5. Stray' = Stray
  BY <1>4 DEF Stray
<1> HIDE DEF o
<1>6. DTypes'
  BY <1>4 DEF DRest, DTypes
<1>7. \A p \in Lively' : p \in Lively \/ (p = o /\ o \in Object)
  BY <1>4, LivelyIs, Names
<1>8. Backed'
  <2> SUFFICES ASSUME NEW p \in Lively', p \notin Stray PROVE p \in held'
    BY <1>5 DEF Backed
  <2>1. CASE p = o /\ o \in Object
    BY <2>1, <1>3, <1>4
  <2>2. CASE p \in Lively /\ p # o
    BY <2>2, <1>4 DEF DRest, Backed
  <2>3. CASE p \in Lively /\ p = o
    <3>1. o \in Object
      BY <2>3, LivelyIs, Names DEF DRest, DTypes
    <3> QED
      BY <3>1, <2>3, <1>3, <1>4
  <2> QED
    BY <2>1, <2>2, <2>3, <1>7
<1>9. WorkerOwned'
  BY <1>3, <1>4, <1>7 DEF DRest, WorkerOwned
<1> QED
  BY <1>6, <1>8, <1>9 DEF DRest

\* The module is gone or stays after an error path; static memory goes.
LEMMA RestGone ==
    ASSUME DRest, UNCHANGED <<driver, queued, run, stop>>, held \ Static \subseteq held'
    PROVE  DRest'
<1>1. Stray' = Stray /\ (driver = "completion" => Worker \in Stray)
  BY DEF Stray
<1>2. Lively' = Lively /\ Lively \subseteq Object
  BY LivelyIs, Names DEF DRest, DTypes, Lively
<1>3. Backed'
  BY <1>1, <1>2, Names DEF DRest, Backed, WorkerOwned
<1> QED
  BY <1>2, <1>3 DEF DRest, DTypes, WorkerOwned

\* A callback, handler or thread takes a step.
LEMMA RestCallback ==
    ASSUME DRest, NEW o \in Object, Callback(o) \/ Trigger(o)
    PROVE  DRest'
<1> DEFINE Places == {"no", "start", "body", "test", "tail"}
<1>1. /\ queued \subseteq {Timer, Tasklet, Work}
      /\ run \in [Object -> Places]
  BY DEF DRest, DTypes
<1>2. UNCHANGED <<driver, held, stop>>
  BY DEF Callback, Trigger, Fire, CallbackRuns, TimerRearms, HrtimerRestarts,
         HandlerRuns, ThreadEnters, LoopTest, LoopBody, Returns, Complete, Aside, vars
<1>3. ASSUME run[o] # "no" \/ o \in queued,
             NEW q \in SUBSET {Timer, Tasklet, Work}, q \subseteq queued \cup {o},
             queued' = q, NEW l \in Places, run' = [run EXCEPT ![o] = l]
      PROVE  DRest'
  <2>1. run' \in [Object -> Places] /\ (\A p \in Object : p # o => run'[p] = run[p])
    BY <1>1, <1>3
  <2>2. o \in Lively
    BY <1>3, LivelyIs
  <2>3. Lively' \subseteq Lively
    BY <1>3, <2>1, <2>2, LivelyIs
  <2> QED
    BY <1>2, <1>3, <2>1, <2>3, RestMoves
<1>4. CASE Fire(o)
  BY <1>1, <1>3, <1>4 DEF Fire, At
<1>5. CASE CallbackRuns(o)
  BY <1>1, <1>3, <1>5 DEF CallbackRuns, At
<1>6. CASE o = Timer /\ (TimerRearms \/ HrtimerRestarts)
  BY <1>1, <1>3, <1>6 DEF TimerRearms, HrtimerRestarts, At
<1>7. CASE o = Handler /\ HandlerRuns
  <2>1. /\ run' = [run EXCEPT ![Handler] = "no"] /\ run[Handler] = "body"
        /\ queued' = IF driver = "keyboard" THEN queued \cup {Work} ELSE queued
    BY <1>7 DEF HandlerRuns, At
  <2>2. run' \in [Object -> Places]
    BY <1>1, <2>1
  <2>3. \A p \in Object : run'[p] # "no" => run[p] # "no"
    BY <1>1, <2>1
  <2>4. Work # Worker /\ (driver = "keyboard" => Work \in Stray)
    BY Names DEF Stray
  <2>5. Lively' \subseteq Lively \cup (Stray \ {Worker})
    BY <2>1, <2>3, <2>4, LivelyIs
  <2>6. queued' \subseteq {Timer, Tasklet, Work}
    BY <1>1, <2>1
  <2> QED
    BY <1>2, <2>2, <2>5, <2>6, RestMoves
<1>8. CASE ThreadEnters(o)
  <2>1. o = Worker => o \notin stop
    BY Names DEF DRest, DTypes
  <2>2. PICK l \in {"no", "body", "test"} : run' = [run EXCEPT ![o] = l]
    BY <2>1, <1>8 DEF ThreadEnters, At
  <2> QED
    BY <1>1, <1>3, <1>8, <2>2 DEF ThreadEnters
<1>9. CASE LoopTest(o)
  BY <1>1, <1>3, <1>9 DEF LoopTest, At
<1>10. CASE LoopBody(o)
  BY <1>1, <1>3, <1>10 DEF LoopBody, At
<1>11. CASE Returns(o)
  BY <1>1, <1>3, <1>11 DEF Returns, At
<1>12. CASE o = Worker /\ Complete
  BY <1>1, <1>3, <1>12 DEF Complete, At
<1>13. CASE Trigger(o)
  <2>1. /\ driver = "irq" /\ o \in {Tasklet, Work} /\ run' = run
        /\ queued' = queued \cup {o}
    BY <1>13 DEF Trigger
  <2>2. o \in Stray /\ o # Worker
    BY <2>1, Names DEF Stray
  <2>3. Lively' \subseteq Lively \cup (Stray \ {Worker})
    BY <2>1, <2>2, LivelyIs
  <2>4. queued' \subseteq {Timer, Tasklet, Work}
    BY <1>1, <2>1
  <2> QED
    BY <1>1, <1>2, <2>1, <2>3, <2>4, RestMoves
<1> QED
  BY <1>4, <1>5, <1>6, <1>7, <1>8, <1>9, <1>10, <1>11, <1>12, <1>13 DEF Callback

\* A handler runs only while it is registered.
LEMMA RestInterrupt == ASSUME DRest, Interrupt PROVE DRest'
<1>1. /\ Handler \in held /\ run' = [run EXCEPT ![Handler] = "body"]
      /\ UNCHANGED <<driver, held, stop, queued>>
  BY DEF Interrupt, At, Aside, vars
<1>2. /\ queued \subseteq {Timer, Tasklet, Work}
      /\ run \in [Object -> {"no", "start", "body", "test", "tail"}]
  BY DEF DRest, DTypes
<1>3. /\ run' \in [Object -> {"no", "start", "body", "test", "tail"}]
      /\ \A p \in Object : p # Handler => run'[p] = run[p]
  BY <1>1, <1>2
<1>4. Handler # Worker
  BY Names
<1>5. Lively' \subseteq Lively \cup (held \ {Worker})
  BY <1>1, <1>3, <1>4, LivelyIs
<1> QED
  BY <1>1, <1>2, <1>3, <1>5, RestMoves

\* Every step keeps the part about what runs.
LEMMA RestStep == ASSUME DRest, LInv, PlanSound, [DNext]_all PROVE DRest'
<1>1. CASE DLoad
  BY <1>1, RestLoad
<1>2. CASE DUnload \/ DRefused \/ DInitReturns \/ FreeIrq \/ UNCHANGED all
  <2>1. UNCHANGED <<driver, held, queued, run>>
    BY <1>2 DEF DUnload, Unload, DRefused, Refused, DInitReturns, InitReturns,
          FreeIrq, deferred, Aside, vars, all
  <2>2. stop' \subseteq stop \cup {Handler}
    BY <1>2 DEF DUnload, DRefused, DInitReturns, FreeIrq, deferred, all
  <2> QED
    BY <2>1, <2>2, RestQuiet
<1>3. CASE DAcquired
  BY <1>3, RestAcquired
<1>4. CASE ReleasePlain
  BY <1>4, RestRelease DEF ReleasePlain, Releases, deferred
<1>5. CASE DelTimer
  <2>1. Timer \in Stray
    BY <1>5 DEF DelTimer, Stray
  <2> QED
    BY <1>5, <2>1, RestRelease DEF DelTimer, Releases, Releasing
<1>6. CASE HrtimerCancel
  <2>1. queued' = queued \ {Timer} /\ run' = run /\ run[Timer] = "no"
    BY <1>6 DEF HrtimerCancel
  <2>2. Timer \notin Lively'
    BY <2>1, LivelyIs
  <2> QED
    BY <1>6, <2>2, RestRelease DEF HrtimerCancel, Releases, Releasing
<1>7. CASE TaskletKill
  <2>1. Tasklet \notin Lively'
    BY <1>7, LivelyIs DEF TaskletKill, deferred
  <2> QED
    BY <1>7, <2>1, RestRelease DEF TaskletKill, Releases, Releasing, deferred
<1>8. ASSUME NEW o \in Object, StopReturns(o) PROVE DRest'
  <2>1. o \notin queued
    BY <1>8, Names DEF StopReturns, DRest, DTypes
  <2>2. o \notin Lively'
    BY <1>8, <2>1, LivelyIs DEF StopReturns, deferred
  <2> QED
    BY <1>8, <2>2, RestRelease DEF StopReturns, Releases, Releasing, deferred
<1>9. ASSUME NEW o \in Object, StopThread(o) PROVE DRest'
  <2>1. stop' \subseteq stop \cup Loops
    BY <1>9 DEF StopThread
  <2> QED
    BY <1>9, <2>1, RestQuiet DEF StopThread
<1>10. CASE DUndoReturns \/ DExitReturns
  BY <1>10, RestGone
     DEF DUndoReturns, UndoReturns, DExitReturns, ExitReturns, deferred
<1>11. CASE Interrupt
  BY <1>11, RestInterrupt
<1>12. ASSUME NEW o \in Object, Callback(o) \/ Trigger(o) PROVE DRest'
  BY <1>12, RestCallback
<1> QED
  BY <1>1, <1>2, <1>3, <1>4, <1>5, <1>6, <1>7, <1>8, <1>9, <1>10, <1>11, <1>12
     DEF DNext, InitStep, ExitStep

----------------------------------------------------------------------------
(* The plans: how a step leads from one stock to the next                  *)

\* Gone, kind by kind.
LEMMA GoneOf ==
    /\ \A kind : kind \notin {"mem", "kobj"} => \A i : Gone(<<kind, i>>) = {<<kind, i>>}
    /\ Gone(<<"mem", 0>>) = {<<"mem", 0>>, <<"state", 0>>, <<"state", 1>>}
    /\ Gone(<<"kobj", 0>>) = {<<"kobj", 0>>, <<"value", 0>>}
  BY DEF Gone, One, Of

\* Step n asks for g, does f about a refusal and then releases u; it finds S in
\* stock.
Is(n, g, f, u) == Steps[n].get = g /\ Steps[n].fail = f /\ Steps[n].undo = u
Has(n, S) == Stock(Steps, n) = S

\* A step that finds S, is sound, and leaves T in stock.
Leads(S, g, f, u, T) ==
    /\ T = S \cup {g}
    /\ g \in Objects \ {Worker} /\ u \in Seq(Objects)
    /\ f \in Outcomes \ {"free", "skip"}
    /\ driver \in Careful => f \in Mild
    /\ RestsOn(g) \subseteq S
    /\ f \in {"stop", "garbage"} => S \subseteq Kept(Steps)
    /\ f \in {"undo", "garbage"} => Orderly(S, u, Carry)

\* The first step finds nothing.
LEMMA HasFirst == Has(1, {})
  BY StockFirst DEF Has

\* A step that neither frees nor skips, from its stock to that of the next one.
LEMMA PlainStep ==
    ASSUME NEW n \in Nat \ {0}, NEW m \in Nat, m = n + 1, NEW S, NEW T, NEW g, NEW f,
           NEW u,
           Has(n, S), Is(n, g, f, u), Leads(S, g, f, u, T)
    PROVE  StepSound(n) /\ Has(m, T)
<1>1. StepSound(n)
  BY DEF Has, Is, Leads, StepSound
<1>2. Has(m, T)
  BY StockNext DEF Has, Is, Leads
<1> QED
  BY <1>1, <1>2

\* The lists of releases are sequences of objects.
LEMMA Tuples ==
    /\ <<>> \in Seq(Objects)
    /\ \A a \in Objects : <<a>> \in Seq(Objects)
    /\ \A a, b \in Objects : <<a, b>> \in Seq(Objects)
    /\ \A a, b, c \in Objects : <<a, b, c>> \in Seq(Objects)
    /\ \A a, b, c, d \in Objects : <<a, b, c, d>> \in Seq(Objects)
    /\ \A a, b, c, d, e \in Objects : <<a, b, c, d, e>> \in Seq(Objects)
  OBVIOUS

\* A static object that rests on nothing may be there as well.
LEMMA OrderlyMore ==
    ASSUME NEW S, NEW U, NEW x \in Static, NEW t, NEW rest,
           Orderly(S, t, rest), U = S \cup {x}, RestsOn(x) = {}
    PROVE  Orderly(U, t, rest)
  BY DEF Orderly, Covered, Present, Nested

\* The objects of a character device.
Region == One("region")
Cdev   == Of("cdev", 0)
Class  == One("class")
Device == Of("device", 0)
State  == Of("state", 0)
CharObjects == {Region, Cdev, Class, Device}

\* They are different, and rest on one another as follows.
LEMMA CharNames ==
    /\ CharObjects \cup {State} \subseteq Objects \ {Worker}
    /\ State \in Static
    /\ Region # Cdev /\ Region # Class /\ Region # Device /\ Cdev # Class
    /\ Cdev # Device /\ Class # Device
    /\ Gone(Region) = {Region} /\ Gone(Cdev) = {Cdev} /\ Gone(Class) = {Class}
    /\ Gone(Device) = {Device}
    /\ RestsOn(State) = {} /\ RestsOn(Region) = {} /\ RestsOn(Class) = {}
    /\ driver # "mydev" => RestsOn(Cdev) = {Region}
    /\ RestsOn(Device) = {Class, Region} \cup
                         (IF driver \in Prepared THEN {State} ELSE {})
    /\ State \notin CharObjects
  BY GoneOf DEF RestsOn, CharObjects, Region, Cdev, Class, Device, State, One, Of,
     Objects, Kinds,
     Worker, Static

\* The error paths and the exit function of a character device are in order.
LEMMA CharChain ==
    ASSUME driver # "mydev", NEW rest
    PROVE  /\ Orderly({}, <<>>, rest)
           /\ Orderly({Region}, <<Region>>, rest)
           /\ Orderly({Region, Cdev}, <<Cdev, Region>>, rest)
           /\ Orderly({Region, Cdev, Class}, <<Class, Cdev, Region>>, rest)
           /\ Orderly(CharObjects, CharExit, rest)
<1> USE CharNames DEF Orderly, Covered, Present, Nested
<1>1. RestsOn(Device) \cap {Cdev, Device} = {}
  BY DEF CharObjects
<1>4. CharExit = <<Device, Class, Cdev, Region>>
  BY DEF CharExit, Device, Class, Cdev, Region
<1>5. Orderly({}, <<>>, rest) /\ Orderly({Region}, <<Region>>, rest)
  OBVIOUS
<1>6. Orderly({Region, Cdev}, <<Cdev, Region>>, rest)
  OBVIOUS
<1>7. Orderly({Region, Cdev, Class}, <<Class, Cdev, Region>>, rest)
  OBVIOUS
<1>8. Covered(CharObjects, CharExit, rest) /\ Present(CharObjects, CharExit)
  BY <1>4 DEF CharObjects
<1>10. Nested(CharObjects, CharExit)
  BY <1>1, <1>4 DEF CharObjects
<1> QED
  BY <1>5, <1>6, <1>7, <1>8, <1>10

\* The same with the state that some drivers prepare first.
LEMMA CharWithState ==
    ASSUME driver # "mydev", NEW rest
    PROVE  /\ Orderly({State}, <<>>, rest)
           /\ Orderly({State, Region}, <<Region>>, rest)
           /\ Orderly({State, Region, Cdev}, <<Cdev, Region>>, rest)
           /\ Orderly({State, Region, Cdev, Class}, <<Class, Cdev, Region>>, rest)
           /\ Orderly(CharObjects \cup {State}, CharExit, rest)
<1> USE CharChain, CharNames, OrderlyMore
<1>1. Orderly({State}, <<>>, rest)
  OBVIOUS
<1>2. Orderly({State, Region}, <<Region>>, rest)
  OBVIOUS
<1>3. Orderly({State, Region, Cdev}, <<Cdev, Region>>, rest)
  OBVIOUS
<1>4. Orderly({State, Region, Cdev, Class}, <<Class, Cdev, Region>>, rest)
  OBVIOUS
<1>5. Orderly(CharObjects \cup {State}, CharExit, rest)
  OBVIOUS
<1> QED
  BY <1>1, <1>2, <1>3, <1>4, <1>5

\* Their releases are sequences of objects.
LEMMA CharTuples ==
    /\ <<>> \in Seq(Objects) /\ <<Region>> \in Seq(Objects)
    /\ <<Cdev, Region>> \in Seq(Objects) /\ <<Class, Cdev, Region>> \in Seq(Objects)
    /\ CharExit \in Seq(Objects)
<1>1. Region \in Objects /\ Cdev \in Objects /\ Class \in Objects /\ Device \in Objects
  BY CharNames DEF CharObjects
<1>2. CharExit = <<Device, Class, Cdev, Region>>
  BY DEF CharExit, Device, Class, Cdev, Region
<1> QED
  BY <1>1, <1>2, Tuples

\* Only 022 and 007 leave something behind.
LEMMA NoCarry == driver \notin {"keyboard", "gpio"} => Carry = {}
  BY DEF Carry

\* An exit function in order, with nothing left behind.
LEMMA ExitIs ==
    ASSUME NEW exit \in Seq(Objects), Plan[driver].exit = exit,
           Orderly(Kept(Steps), exit, {})
    PROVE  ExitSound
  BY DEF ExitSound, Orderly, Covered

----------------------------------------------------------------------------
(* The plans of the drivers                                                *)

\* 003: every label of storage_init undoes exactly what was done before.
LEMMA StorageSound == ASSUME driver = "storage" PROVE PlanSound
<1>1. /\ Len(Steps) = 5
      /\ Is(1, State, "never", <<>>)
      /\ Is(2, Region, "undo", <<>>)
      /\ Is(3, Cdev, "undo", <<Region>>)
      /\ Is(4, Class, "undo", <<Cdev, Region>>)
      /\ Is(5, Device, "undo", <<Class, Cdev, Region>>)
      /\ Plan[driver].exit = CharExit
  BY DEF Plan, Steps, StoragePlan, CharExit, Is, Certain, Checked, Step, State, Region,
         Cdev, Class, Device
<1>2. Kept(Steps) = CharObjects \cup {State}
  BY <1>1 DEF Kept, Is, CharObjects
<1>3. driver \in Prepared /\ Carry = {}
  BY NoCarry DEF Prepared
<1>4. StepSound(1) /\ Has(2, {State})
  <2>1. Leads({}, State, "never", <<>>, {State})
    BY CharNames, CharTuples DEF Leads, Outcomes, Mild, CharObjects
  <2> QED
    BY <1>1, <2>1, HasFirst, PlainStep
<1>5. StepSound(2) /\ Has(3, {State, Region})
  <2>1. Leads({State}, Region, "undo", <<>>, {State, Region})
    BY CharWithState, CharNames, CharTuples DEF Leads, Outcomes, Mild, CharObjects
  <2> QED
    BY <1>1, <1>4, <2>1, PlainStep
<1>6. StepSound(3) /\ Has(4, {State, Region, Cdev})
  <2>1. Leads({State, Region}, Cdev, "undo", <<Region>>, {State, Region, Cdev})
    BY CharWithState, CharNames, CharTuples DEF Leads, Outcomes, Mild, CharObjects
  <2> QED
    BY <1>1, <1>5, <2>1, PlainStep
<1>7. StepSound(4) /\ Has(5, {State, Region, Cdev, Class})
  <2>1. Leads({State, Region, Cdev}, Class, "undo", <<Cdev, Region>>,
              {State, Region, Cdev, Class})
    BY CharWithState, CharNames, CharTuples DEF Leads, Outcomes, Mild, CharObjects
  <2> QED
    BY <1>1, <1>6, <2>1, PlainStep
<1>8. StepSound(5) /\ Has(6, CharObjects \cup {State})
  <2>1. Leads({State, Region, Cdev, Class}, Device, "undo", <<Class, Cdev, Region>>,
              CharObjects \cup {State})
    BY <1>3, CharWithState, CharNames, CharTuples DEF Leads, Outcomes, Mild, CharObjects
  <2> QED
    BY <1>1, <1>7, <2>1, PlainStep
<1>9. ExitSound
  BY <1>1, <1>2, CharWithState, CharTuples, ExitIs
<1> QED
  BY <1>1, <1>2, <1>3, <1>4, <1>5, <1>6, <1>7, <1>8, <1>9 DEF PlanSound, Has

\* 011: the same four objects without the state.
LEMMA SkeletonSound == ASSUME driver = "skeleton" PROVE PlanSound
<1>1. /\ Len(Steps) = 4
      /\ Is(1, Region, "undo", <<>>)
      /\ Is(2, Cdev, "undo", <<Region>>)
      /\ Is(3, Class, "undo", <<Cdev, Region>>)
      /\ Is(4, Device, "undo", <<Class, Cdev, Region>>)
      /\ Plan[driver].exit = CharExit
  BY DEF Plan, Steps, SkeletonPlan, CharExit, Is, Checked, Step, Region, Cdev, Class,
         Device
<1>2. Kept(Steps) = CharObjects
  BY <1>1 DEF Kept, Is, CharObjects
<1>3. driver \notin Prepared /\ Carry = {}
  BY NoCarry DEF Prepared
<1>4. /\ Leads({}, Region, "undo", <<>>, {Region})
      /\ Leads({Region}, Cdev, "undo", <<Region>>, {Region, Cdev})
      /\ Leads({Region, Cdev}, Class, "undo", <<Cdev, Region>>, {Region, Cdev, Class})
      /\ Leads({Region, Cdev, Class}, Device, "undo", <<Class, Cdev, Region>>,
               CharObjects)
  BY <1>3, CharChain, CharNames, CharTuples DEF Leads, Outcomes, Mild, CharObjects
<1>5. StepSound(1) /\ Has(2, {Region})
  BY <1>1, <1>4, HasFirst, PlainStep
<1>6. StepSound(2) /\ Has(3, {Region, Cdev})
  BY <1>1, <1>4, <1>5, PlainStep
<1>7. StepSound(3) /\ Has(4, {Region, Cdev, Class})
  BY <1>1, <1>4, <1>6, PlainStep
<1>8. StepSound(4) /\ Has(5, CharObjects)
  BY <1>1, <1>4, <1>7, PlainStep
<1>9. ExitSound
  BY <1>1, <1>2, CharChain, CharTuples, ExitIs
<1> QED
  BY <1>1, <1>2, <1>3, <1>5, <1>6, <1>7, <1>8, <1>9 DEF PlanSound, Has

\* 021: the attribute group on top of the device.
Group == Of("group", 0)

\* 021: the error paths undo what was done, the attribute group included.
LEMMA IrqSound == ASSUME driver = "irq" PROVE PlanSound
<1>1. /\ Len(Steps) = 6
      /\ Is(1, State, "never", <<>>)
      /\ Is(2, Region, "undo", <<>>)
      /\ Is(3, Cdev, "undo", <<Region>>)
      /\ Is(4, Class, "undo", <<Cdev, Region>>)
      /\ Is(5, Device, "undo", <<Class, Cdev, Region>>)
      /\ Is(6, Group, "undo", CharExit)
      /\ Plan[driver].exit = <<Group, Device, Class, Cdev, Region>>
  BY DEF Plan, Steps, IrqPlan, CharExit, Is, Certain, Checked, Step, State, Region,
         Cdev, Class, Device, Group
<1>2. Kept(Steps) = CharObjects \cup {State, Group}
  BY <1>1 DEF Kept, Is, CharObjects
<1>3. driver \in Prepared /\ Carry = {}
  BY NoCarry DEF Prepared
<1>4. /\ Leads({}, State, "never", <<>>, {State})
      /\ Leads({State}, Region, "undo", <<>>, {State, Region})
      /\ Leads({State, Region}, Cdev, "undo", <<Region>>, {State, Region, Cdev})
      /\ Leads({State, Region, Cdev}, Class, "undo", <<Cdev, Region>>,
               {State, Region, Cdev, Class})
      /\ Leads({State, Region, Cdev, Class}, Device, "undo", <<Class, Cdev, Region>>,
               CharObjects \cup {State})
  BY <1>3, CharWithState, CharNames, CharTuples DEF Leads, Outcomes, Mild, CharObjects
<1>5. /\ Group \in Objects \ {Worker} /\ RestsOn(Group) = {Device}
      /\ Gone(Group) = {Group}
      /\ Group \notin CharObjects \cup {State}
  BY GoneOf DEF Group, Objects, Kinds, Worker, RestsOn, CharObjects, Region, Cdev,
     Class,
                Device, State, One, Of
<1>6. Leads(CharObjects \cup {State}, Group, "undo", CharExit,
            CharObjects \cup {State, Group})
  BY <1>3, <1>5, CharWithState, CharTuples DEF Leads, Outcomes, Mild, CharObjects
<1>7. StepSound(1) /\ Has(2, {State})
  BY <1>1, <1>4, HasFirst, PlainStep
<1>8. StepSound(2) /\ Has(3, {State, Region})
  BY <1>1, <1>4, <1>7, PlainStep
<1>9. StepSound(3) /\ Has(4, {State, Region, Cdev})
  BY <1>1, <1>4, <1>8, PlainStep
<1>10. StepSound(4) /\ Has(5, {State, Region, Cdev, Class})
  BY <1>1, <1>4, <1>9, PlainStep
<1>11. StepSound(5) /\ Has(6, CharObjects \cup {State})
  BY <1>1, <1>4, <1>10, PlainStep
<1>12. StepSound(6) /\ Has(7, CharObjects \cup {State, Group})
  BY <1>1, <1>6, <1>11, PlainStep
<1>13. ExitSound
  <2> DEFINE exit == <<Group, Device, Class, Cdev, Region>>
  <2>1. exit \in Seq(Objects)
    BY <1>5, CharNames, Tuples DEF CharObjects
  <2>2. Orderly(CharObjects \cup {State, Group}, exit, {})
    BY <1>5, CharNames DEF Orderly, Covered, Present, Nested, CharObjects
  <2> QED
    BY <1>1, <1>2, <2>1, <2>2, ExitIs
<1> QED
  BY <1>1, <1>2, <1>3, <1>7, <1>8, <1>9, <1>10, <1>11, <1>12, <1>13 DEF PlanSound, Has

\* 002 and 001: results are ignored, and the exit function releases all four
\* objects.
LEMMA KeypadSound == ASSUME driver \in {"keypad", "templog"} PROVE PlanSound
<1>1. /\ Len(Steps) = 4
      /\ Is(1, Class, "ignore", <<>>)
      /\ Is(2, Region, "stop", <<>>)
      /\ Is(3, Cdev, "ignore", <<>>)
      /\ Is(4, Device, "ignore", <<>>)
      /\ Plan[driver].exit = CharExit
  BY DEF Plan, Steps, KeypadPlan, TempLogPlan, Is, Unchecked, Step, Region, Cdev, Class,
         Device
<1>2. Kept(Steps) = CharObjects
  BY <1>1 DEF Kept, Is, CharObjects
<1>3. driver \notin Prepared \cup Careful /\ Carry = {}
  BY NoCarry DEF Prepared, Careful
<1>4. /\ Leads({}, Class, "ignore", <<>>, {Class})
      /\ Leads({Class}, Region, "stop", <<>>, {Class, Region})
      /\ Leads({Class, Region}, Cdev, "ignore", <<>>, {Class, Region, Cdev})
      /\ Leads({Class, Region, Cdev}, Device, "ignore", <<>>, CharObjects)
  BY <1>2, <1>3, CharNames, CharTuples DEF Leads, Outcomes, Mild, CharObjects
<1>5. StepSound(1) /\ Has(2, {Class})
  BY <1>1, <1>4, HasFirst, PlainStep
<1>6. StepSound(2) /\ Has(3, {Class, Region})
  BY <1>1, <1>4, <1>5, PlainStep
<1>7. StepSound(3) /\ Has(4, {Class, Region, Cdev})
  BY <1>1, <1>4, <1>6, PlainStep
<1>8. StepSound(4) /\ Has(5, CharObjects)
  BY <1>1, <1>4, <1>7, PlainStep
<1>9. ExitSound
  BY <1>1, <1>2, <1>3, CharChain, CharTuples, ExitIs
<1> QED
  BY <1>1, <1>2, <1>3, <1>5, <1>6, <1>7, <1>8, <1>9 DEF PlanSound, Has

\* 004, 005, 012 and 027: the four steps they share.
LEMMA FourObjectsSound ==
    ASSUME driver \in {"temp", "light", "multi", "signal"}
    PROVE  /\ \A n \in 1 .. 4 : StepSound(n) /\ Steps[n].fail # "free"
           /\ {Steps[n].get : n \in 1 .. 4} = CharObjects
           /\ Has(5, CharObjects)
<1> DEFINE Four(f) == /\ Is(1, Region, f, <<>>)
                      /\ Is(2, Cdev, "ignore", <<>>)
                      /\ Is(3, Class, "ignore", <<>>)
                      /\ Is(4, Device, "ignore", <<>>)
<1>1. PICK f \in {"ignore", "undo"} : Four(f)
  <2>1. CASE driver = "temp"
    <3>1. Four("ignore")
      BY <2>1 DEF Plan, Steps, TempPlan, FourObjects, Is, Unchecked, Step, Region, Cdev,
                  Class, Device
    <3> QED
      BY <3>1
  <2>2. CASE driver = "light"
    <3>1. Four("ignore")
      BY <2>2 DEF Plan, Steps, LightPlan, FourObjects, Is, Unchecked, Step, Region,
         Cdev,
                  Class, Device
    <3> QED
      BY <3>1
  <2>3. CASE driver = "multi"
    <3>1. Four("undo")
      BY <2>3 DEF Plan, Steps, MultiReaderPlan, FourObjects, Is, Unchecked, Checked,
         Step,
                  Region, Cdev, Class, Device
    <3> QED
      BY <3>1
  <2>4. CASE driver = "signal"
    <3>1. Four("ignore")
      BY <2>4 DEF Plan, Steps, SignalPlan, FourObjects, Is, Unchecked, Step, Region,
         Cdev,
                  Class, Device
    <3> QED
      BY <3>1
  <2> HIDE DEF Four
  <2> QED
    BY <2>1, <2>2, <2>3, <2>4
<1>3. driver \notin Prepared \cup Careful /\ driver # "mydev"
  BY DEF Prepared, Careful
<1>4. /\ Leads({}, Region, f, <<>>, {Region})
      /\ Leads({Region}, Cdev, "ignore", <<>>, {Region, Cdev})
      /\ Leads({Region, Cdev}, Class, "ignore", <<>>, {Region, Cdev, Class})
      /\ Leads({Region, Cdev, Class}, Device, "ignore", <<>>, CharObjects)
  BY <1>3, CharChain, CharNames, CharTuples DEF Leads, Outcomes, Mild, CharObjects
<1>5. StepSound(1) /\ Has(2, {Region})
  BY <1>1, <1>4, HasFirst, PlainStep
<1>6. StepSound(2) /\ Has(3, {Region, Cdev})
  BY <1>1, <1>4, <1>5, PlainStep
<1>7. StepSound(3) /\ Has(4, {Region, Cdev, Class})
  BY <1>1, <1>4, <1>6, PlainStep
<1>8. StepSound(4) /\ Has(5, CharObjects)
  BY <1>1, <1>4, <1>7, PlainStep
<1>9. {Steps[n].get : n \in 1 .. 4} = CharObjects
  BY <1>1 DEF Is, CharObjects
<1> QED
  BY <1>1, <1>5, <1>6, <1>7, <1>8, <1>9 DEF Is

\* 005 and 012 have nothing more.
LEMMA FourSound == ASSUME driver \in {"light", "multi"} PROVE PlanSound
<1>1. Len(Steps) = 4 /\ Plan[driver].exit = CharExit
  BY DEF Plan, Steps, LightPlan, MultiReaderPlan, FourObjects
<1>2. Kept(Steps) = CharObjects
  <2>1. DOMAIN Steps = 1 .. 4
    BY DEF Plan, Steps, LightPlan, MultiReaderPlan, FourObjects
  <2> QED
    BY <2>1, FourObjectsSound DEF Kept
<1>3. ExitSound
  BY <1>1, <1>2, CharChain, CharTuples, ExitIs
<1> QED
  BY <1>1, <1>2, <1>3, FourObjectsSound, NoCarry DEF PlanSound, Has

\* 004 prepares its state at the end.
LEMMA TempSound == ASSUME driver = "temp" PROVE PlanSound
<1>1. Len(Steps) = 5 /\ DOMAIN Steps = 1 .. 5 /\ Plan[driver].exit = CharExit
  BY DEF Plan, Steps, TempPlan, FourObjects
<1>2. Is(5, State, "never", <<>>)
  BY DEF Plan, Steps, TempPlan, FourObjects, Is, Certain, Step, State
<1>3. Kept(Steps) = CharObjects \cup {State}
  BY <1>1, <1>2, FourObjectsSound DEF Kept, Is
<1>4. Leads(CharObjects, State, "never", <<>>, CharObjects \cup {State})
  BY CharNames, CharTuples DEF Leads, Outcomes, Mild
<1>5. StepSound(5) /\ Has(6, CharObjects \cup {State})
  BY <1>2, <1>4, FourObjectsSound, PlainStep
<1>6. ExitSound
  BY <1>1, <1>3, CharWithState, CharTuples, ExitIs
<1> QED
  BY <1>1, <1>3, <1>5, <1>6, FourObjectsSound, NoCarry DEF PlanSound, Has

\* 027 has a handler on top.
LEMMA SignalSound == ASSUME driver = "signal" PROVE PlanSound
<1>1. /\ Len(Steps) = 5 /\ DOMAIN Steps = 1 .. 5
      /\ Plan[driver].exit = <<Handler>> \o CharExit
  BY DEF Plan, Steps, SignalPlan, FourObjects, Handler
<1>2. Is(5, Handler, "ignore", <<>>)
  BY DEF Plan, Steps, SignalPlan, FourObjects, Is, Unchecked, Step, Handler
<1>3. Kept(Steps) = CharObjects \cup {Handler}
  BY <1>1, <1>2, FourObjectsSound DEF Kept, Is
<1>4. /\ Handler \in Objects \ {Worker} /\ RestsOn(Handler) = {}
      /\ Gone(Handler) = {Handler} /\ Handler \notin CharObjects
  BY GoneOf DEF Handler, Objects, Kinds, Worker, RestsOn, CharObjects, Region, Cdev,
                Class, Device, One, Of
<1>5. Leads(CharObjects, Handler, "ignore", <<>>, CharObjects \cup {Handler})
  BY <1>4, CharTuples DEF Leads, Outcomes, Mild, Careful
<1>6. StepSound(5) /\ Has(6, CharObjects \cup {Handler})
  BY <1>2, <1>5, FourObjectsSound, PlainStep
<1>7. ExitSound
  <2> DEFINE exit == <<Handler>> \o CharExit
  <2>1. /\ Len(exit) = 5 /\ DOMAIN exit = 1 .. 5
        /\ exit[1] = Handler /\ exit[2] = Device /\ exit[3] = Class /\ exit[4] = Cdev
        /\ exit[5] = Region
    BY DEF CharExit, Device, Class, Cdev, Region
  <2>2. exit \in Seq(Objects)
    BY <1>4, CharTuples
  <2> HIDE DEF exit
  <2>3. /\ Covered(CharObjects \cup {Handler}, exit, {})
        /\ Present(CharObjects \cup {Handler}, exit)
    BY <1>4, <2>1, CharNames DEF Covered, Present, CharObjects
  <2>4. RestsOn(Device) = {Class, Region} /\ RestsOn(Cdev) = {Region}
    BY CharNames DEF Prepared
  <2>5. Nested(CharObjects \cup {Handler}, exit)
    BY <1>4, <2>1, <2>4, CharNames DEF Nested, CharObjects
  <2> QED
    BY <1>1, <1>3, <2>2, <2>3, <2>5, ExitIs DEF exit, Orderly
<1> QED
  BY <1>1, <1>3, <1>6, <1>7, FourObjectsSound, NoCarry DEF PlanSound, Has

\* Objects that rest on nothing and take nothing along.
Simple(o) == o \in Objects \ {Worker} /\ RestsOn(o) = {} /\ Gone(o) = {o}

\* The objects of the small modules are simple.
LEMMA SimpleObjects ==
    \A k \in {"misc", "driver", "platform", "timer", "tasklet", "t1", "t2", "pm",
              "files",
              "priv", "mapping", "gpio", "buffer", "config", "handler"} : Simple(One(k))
  BY GoneOf DEF Simple, Objects, Kinds, Worker, RestsOn, One

\* A plan of one simple object is sound.
LEMMA OnePlan ==
    ASSUME NEW o, NEW f \in {"undo", "ignore", "never"}, Simple(o),
           driver \notin {"keyboard", "gpio"}, driver \in Careful => f \in Mild,
           Steps = <<Step(o, f, <<>>)>>, Plan[driver].exit = <<o>>
    PROVE  PlanSound
<1>1. Len(Steps) = 1 /\ DOMAIN Steps = {1} /\ Is(1, o, f, <<>>)
  BY DEF Is, Step
<1>2. Kept(Steps) = {o}
  BY <1>1 DEF Kept, Is
<1>3. Orderly({}, <<>>, Carry) /\ Orderly({o}, <<o>>, {})
  BY DEF Simple, Orderly, Covered, Present, Nested
<1>4. <<>> \in Seq(Objects) /\ <<o>> \in Seq(Objects)
  BY Tuples DEF Simple
<1>5. Leads({}, o, f, <<>>, {o})
  BY <1>3, <1>4 DEF Leads, Simple, Outcomes, Mild
<1>6. StepSound(1) /\ Has(2, {o})
  BY <1>1, <1>5, HasFirst, PlainStep
<1>7. ExitSound
  BY <1>2, <1>3, <1>4, ExitIs
<1>8. Carry = {} /\ 1 .. 1 = {1}
  BY NoCarry
<1>9. Len(Steps) + 1 = 2
  BY <1>1
<1>10. Stock(Steps, Len(Steps) + 1) = Kept(Steps)
  BY <1>2, <1>6, <1>9 DEF Has
<1>11. \A n \in 1 .. Len(Steps) : StepSound(n)
  BY <1>1, <1>6, <1>8
<1> QED
  BY <1>1, <1>7, <1>8, <1>10, <1>11 DEF PlanSound

\* misc.c, 015, the device of 016, 028, 029, 031 and 032.
LEMMA OneSound ==
    ASSUME driver \in {"misc", "pltdrv", "pltdvc", "sensdvc", "ktimer", "hrtimer",
                       "softirq", "tasklet"}
    PROVE  PlanSound
<1> DEFINE Made(k, f) == /\ Steps = <<Step(One(k), f, <<>>)>>
                         /\ Plan[driver].exit = <<One(k)>>
<1>1. /\ driver = "misc"    => Made("misc", "undo")
      /\ driver = "pltdrv"  => Made("driver", "undo")
      /\ driver = "pltdvc"  => Made("platform", "undo")
  BY DEF Plan, Steps, MiscPlan, PltDrvPlan, PltDvcPlan, OneObject, Checked
<1>2. /\ driver = "sensdvc" => Made("platform", "ignore")
      /\ driver \in {"ktimer", "hrtimer"}  => Made("timer", "never")
      /\ driver \in {"softirq", "tasklet"} => Made("tasklet", "never")
  BY DEF Plan, Steps, SensorDvcPlan, TimerPlan, HrtimerPlan, SoftirqPlan, TaskletPlan,
         Unchecked, Certain
<1>3. ASSUME NEW k \in {"misc", "driver", "platform", "timer", "tasklet"},
             NEW f \in {"undo", "ignore", "never"}, Made(k, f),
             driver \in Careful => f \in Mild
      PROVE  PlanSound
  BY <1>3, SimpleObjects, OnePlan
<1>4. driver \in Careful => driver \in {"misc", "pltdrv", "pltdvc"}
  BY DEF Careful
<1>5. "undo" \in Mild /\ "never" \in Mild
  BY DEF Mild
<1> HIDE DEF Made
<1> QED
  BY <1>1, <1>2, <1>3, <1>4, <1>5

\* A plan of two simple objects, of which the second is not looked at, is
\* sound.
LEMMA TwoPlan ==
    ASSUME NEW o, NEW p, o # p, Simple(o), Simple(p),
           NEW f \in {"undo", "ignore", "null", "oops"},
           NEW g \in {"ignore", "null", "never"},
           driver \notin {"keyboard", "gpio"},
           driver \in Careful => f \in Mild /\ g \in Mild,
           Steps = <<Step(o, f, <<>>), Step(p, g, <<>>)>>,
           Plan[driver].exit \in {<<o, p>>, <<p, o>>}
    PROVE  PlanSound
<1>1. Len(Steps) = 2 /\ DOMAIN Steps = {1, 2} /\ Is(1, o, f, <<>>) /\ Is(2, p, g, <<>>)
  BY DEF Is, Step
<1>2. Kept(Steps) = {o, p}
  BY <1>1 DEF Kept, Is
<1>3. /\ Orderly({}, <<>>, Carry)
      /\ Orderly({o, p}, <<o, p>>, {}) /\ Orderly({o, p}, <<p, o>>, {})
  BY DEF Simple, Orderly, Covered, Present, Nested
<1>4. <<>> \in Seq(Objects) /\ <<o, p>> \in Seq(Objects) /\ <<p, o>> \in Seq(Objects)
  BY Tuples DEF Simple
<1>5. Leads({}, o, f, <<>>, {o}) /\ Leads({o}, p, g, <<>>, {o, p})
  BY <1>3, <1>4 DEF Leads, Simple, Outcomes, Mild
<1>6. StepSound(1) /\ Has(2, {o})
  BY <1>1, <1>5, HasFirst, PlainStep
<1>7. StepSound(2) /\ Has(3, {o, p})
  BY <1>1, <1>5, <1>6, PlainStep
<1>8. ExitSound
  BY <1>2, <1>3, <1>4, ExitIs
<1>9. Carry = {} /\ 1 .. 2 = {1, 2} /\ Len(Steps) + 1 = 3
  BY <1>1, NoCarry
<1>10. Stock(Steps, Len(Steps) + 1) = Kept(Steps)
  BY <1>2, <1>7, <1>9 DEF Has
<1>11. \A n \in 1 .. Len(Steps) : StepSound(n)
  BY <1>1, <1>6, <1>7, <1>9
<1> QED
  BY <1>1, <1>8, <1>9, <1>10, <1>11 DEF PlanSound

\* kThread.c, 023, 026 and 020.
LEMMA TwoSound ==
    ASSUME driver \in {"kthread", "atomic", "threads", "power"}
    PROVE  PlanSound
<1>1. CASE driver = "power"
  <2>1. /\ Steps = <<Step(One("files"), "undo", <<>>), Step(One("pm"), "never", <<>>)>>
        /\ Plan[driver].exit = <<One("pm"), One("files")>>
    BY <1>1 DEF Plan, Steps, PowerPlan, Checked, Certain
  <2>2. One("files") # One("pm") /\ "undo" \in Mild /\ "never" \in Mild
    BY DEF One, Mild
  <2> QED
    BY <1>1, <2>1, <2>2, SimpleObjects, TwoPlan
<1>2. CASE driver # "power"
  <2>1. PICK f \in {"ignore", "null", "oops"}, g \in {"ignore", "null"} :
          Steps = <<Step(One("t1"), f, <<>>), Step(One("t2"), g, <<>>)>>
    BY <1>2 DEF Plan, Steps, KThreadPlan, AtomicPlan, ThreadsPlan, Unchecked
  <2>2. Plan[driver].exit = <<One("t1"), One("t2")>>
    BY <1>2 DEF Plan, KThreadPlan, AtomicPlan, ThreadsPlan
  <2>3. One("t1") # One("t2") /\ driver \notin Careful
    BY <1>2 DEF One, Careful
  <2> QED
    BY <2>1, <2>2, <2>3, SimpleObjects, TwoPlan
<1> QED
  BY <1>1, <1>2

\* 022: nothing is left behind but the handler, which the next load finds.
LEMMA KeyboardSound == ASSUME driver = "keyboard" PROVE PlanSound
<1>1. /\ Len(Steps) = 2
      /\ Is(1, State, "never", <<>>) /\ Is(2, Handler, "undo", <<>>)
      /\ Plan[driver].exit = <<Of("handler", 1)>>
  BY DEF Plan, Steps, KeyboardPlan, Is, Certain, Checked, Step, State, Handler
<1>2. Kept(Steps) = {State, Handler} /\ Carry = {Handler}
  BY <1>1 DEF Kept, Is, Carry, Handler
<1>3. /\ Handler \in Objects \ {Worker} /\ RestsOn(Handler) = {}
      /\ Handler # One("gpio")
      /\ Of("handler", 1) \in Objects
  BY DEF Handler, Objects, Kinds, Worker, RestsOn, One, Of
<1>4. Orderly({State}, <<>>, Carry)
  BY CharWithState
<1>5. Leads({}, State, "never", <<>>, {State})
  BY CharNames, CharTuples DEF Leads, Outcomes, Mild
<1>6. Leads({State}, Handler, "undo", <<>>, {State, Handler})
  BY <1>3, <1>4, CharTuples DEF Leads, Outcomes, Mild
<1>7. StepSound(1) /\ Has(2, {State})
  <2>1. Is(1, State, "never", <<>>)
    BY <1>1
  <2> QED
    BY <2>1, <1>5, HasFirst, PlainStep
<1>8. StepSound(2) /\ Has(3, {State, Handler})
  <2>1. Is(2, Handler, "undo", <<>>)
    BY <1>1
  <2> QED
    BY <2>1, <1>6, <1>7, PlainStep
<1>9. ExitSound
  <2>1. <<Of("handler", 1)>> \in Seq(Objects)
    BY <1>3, Tuples
  <2>2. Covered({State, Handler}, <<Of("handler", 1)>>, Carry \ {One("gpio")})
    BY <1>2, <1>3, CharNames DEF Covered
  <2>3. Nested({State, Handler}, <<Of("handler", 1)>>)
    BY <1>3, CharNames DEF Nested
  <2> QED
    BY <1>1, <1>2, <2>1, <2>2, <2>3 DEF ExitSound
<1> QED
  BY <1>1, <1>2, <1>7, <1>8, <1>9 DEF PlanSound, Has

\* 007: a failed probe leaves at most the descriptor, and the attribute goes
\* with its kobject.
LEMMA GpioSound == ASSUME driver = "gpio" PROVE PlanSound
<1> DEFINE d == One("gpio")
           k == One("kobj")
           v == One("value")
<1>1. /\ Len(Steps) = 3
      /\ Is(1, d, "undo", <<>>) /\ Is(2, k, "undo", <<>>) /\ Is(3, v, "undo", <<k>>)
      /\ Plan[driver].exit = <<d, k>>
  BY DEF Plan, Steps, GpioPlan, Is, Checked, Step
<1>2. Kept(Steps) = {d, k, v} /\ Carry = {d}
  BY <1>1 DEF Kept, Is, Carry
<1>3. /\ {d, k, v} \subseteq Objects \ {Worker} /\ d # k /\ d # v /\ k # v
      /\ RestsOn(d) = {} /\ RestsOn(k) = {} /\ RestsOn(v) = {k}
      /\ Gone(d) = {d} /\ Gone(k) = {k, v}
  BY GoneOf DEF Objects, Kinds, Worker, RestsOn, One
<1>4. Carry \ {One("gpio")} = {}
  BY <1>2
<1> HIDE DEF d, k, v
<1>5. <<>> \in Seq(Objects) /\ <<k>> \in Seq(Objects) /\ <<d, k>> \in Seq(Objects)
  BY <1>3, Tuples
<1>6. /\ Orderly({}, <<>>, Carry) /\ Orderly({d}, <<>>, Carry)
      /\ Orderly({d, k}, <<k>>, Carry) /\ Orderly({d, k, v}, <<d, k>>, {})
  BY <1>2, <1>3 DEF Orderly, Covered, Present, Nested
<1>7. /\ Leads({}, d, "undo", <<>>, {d}) /\ Leads({d}, k, "undo", <<>>, {d, k})
      /\ Leads({d, k}, v, "undo", <<k>>, {d, k, v})
  BY <1>3, <1>5, <1>6 DEF Leads, Outcomes, Mild
<1>8. StepSound(1) /\ Has(2, {d})
  BY <1>1, <1>7, HasFirst, PlainStep
<1>9. StepSound(2) /\ Has(3, {d, k})
  BY <1>1, <1>7, <1>8, PlainStep
<1>10. StepSound(3) /\ Has(4, {d, k, v})
  BY <1>1, <1>7, <1>9, PlainStep
<1>11. ExitSound
  BY <1>1, <1>2, <1>5, <1>6, ExitIs
<1> QED
  BY <1>1, <1>2, <1>8, <1>9, <1>10, <1>11 DEF PlanSound, Has

\* 030: the worker is static.
LEMMA CompletionSound == ASSUME driver = "completion" PROVE PlanSound
<1>1. /\ Len(Steps) = 1 /\ Is(1, Worker, "ignore", <<>>) /\ Plan[driver].exit = <<>>
  BY DEF Plan, Steps, CompletionPlan, Is, Unchecked, Step, Worker
<1>2. Kept(Steps) = {Worker}
  BY <1>1 DEF Kept, Is
<1>3. Worker \in Objects /\ Worker \in Static /\ RestsOn(Worker) = {}
  BY DEF Worker, Objects, Kinds, Static, RestsOn, One, Of
<1>4. Stock(Steps, 1) = {} /\ Stock(Steps, 2) = {Worker}
  BY <1>1, StockFirst DEF Stock, Is
<1>5. StepSound(1)
  BY <1>1, <1>3, Tuples DEF StepSound, Is, Outcomes, Mild, Careful
<1>6. Orderly({Worker}, <<>>, {}) /\ <<>> \in Seq(Objects)
  BY <1>3 DEF Orderly, Covered, Present, Nested
<1>7. ExitSound
  BY <1>1, <1>2, <1>6, ExitIs
<1> QED
  BY <1>1, <1>2, <1>4, <1>5, <1>7, NoCarry DEF PlanSound

\* A buffer that is acquired and freed by the next step leaves the stock as it
\* was, also if it is refused and the next step is skipped.
LEMMA Buffered ==
    ASSUME NEW n \in Nat \ {0}, NEW m \in Nat \ {0}, m = n + 1, NEW l \in Nat,
           l = m + 1,
           NEW g, NEW f \in {"undo", "skip"}, Simple(g), g \notin Object,
           driver \in Careful, Len(Steps) \in Nat, m <= Len(Steps),
           Has(n, {}), Is(n, g, f, <<>>), Is(m, g, "free", <<>>)
    PROVE  StepSound(n) /\ StepSound(m) /\ Has(l, {})
<1>1. Stock(Steps, n + 1) = IF Steps[n].fail = "free"
                            THEN Stock(Steps, n) \ {Steps[n].get}
                            ELSE Stock(Steps, n) \cup {Steps[n].get}
  BY StockNext
<1>2. Stock(Steps, m + 1) = IF Steps[m].fail = "free"
                            THEN Stock(Steps, m) \ {Steps[m].get}
                            ELSE Stock(Steps, m) \cup {Steps[m].get}
  BY StockNext
<1>3. Stock(Steps, n) = {} /\ Stock(Steps, m) = {g}
  BY <1>1 DEF Has, Is
<1>4. Stock(Steps, l) = {} /\ Stock(Steps, n + 2) = {}
  <2>1. l = n + 2
    OBVIOUS
  <2> QED
    BY <1>2, <1>3, <2>1 DEF Is
<1>5. Orderly({}, <<>>, Carry) /\ <<>> \in Seq(Objects)
  BY DEF Orderly, Covered, Present, Nested
<1>6. StepSound(n)
  BY <1>3, <1>4, <1>5 DEF StepSound, Is, Simple, Outcomes, Mild
<1>7. StepSound(m)
  BY <1>3, <1>5 DEF StepSound, Is, Simple, Outcomes, Mild
<1> QED
  BY <1>4, <1>6, <1>7 DEF Has

\* 008: five buffers one after the other.
LEMMA KmallocSound == ASSUME driver = "kmalloc" PROVE PlanSound
<1> DEFINE b == One("buffer")
           c == One("config")
<1>1. /\ Len(Steps) = 10 /\ Plan[driver].exit = <<>>
      /\ Is(1, b, "undo", <<>>) /\ Is(2, b, "free", <<>>)
      /\ Is(3, c, "undo", <<>>) /\ Is(4, c, "free", <<>>)
      /\ Is(5, b, "undo", <<>>) /\ Is(6, b, "free", <<>>)
      /\ Is(7, b, "skip", <<>>) /\ Is(8, b, "free", <<>>)
      /\ Is(9, b, "skip", <<>>) /\ Is(10, b, "free", <<>>)
  BY DEF Plan, Steps, KmallocPlan, Is, Checked, Free, Step
<1>2. Kept(Steps) = {}
  BY <1>1 DEF Kept, Is
<1>3. Simple(b) /\ Simple(c) /\ b \notin Object /\ c \notin Object
  BY SimpleObjects DEF Object, Timer, Tasklet, Work, Handler, Threads, Loops, Worker,
     One, Of
<1>4. driver \in Careful /\ Carry = {}
  BY NoCarry DEF Careful
<1> HIDE DEF b, c
<1>5. StepSound(1) /\ StepSound(2) /\ Has(3, {})
  BY <1>1, <1>3, <1>4, HasFirst, Buffered
<1>6. StepSound(3) /\ StepSound(4) /\ Has(5, {})
  BY <1>1, <1>3, <1>4, <1>5, Buffered
<1>7. StepSound(5) /\ StepSound(6) /\ Has(7, {})
  BY <1>1, <1>3, <1>4, <1>6, Buffered
<1>8. StepSound(7) /\ StepSound(8) /\ Has(9, {})
  BY <1>1, <1>3, <1>4, <1>7, Buffered
<1>9. StepSound(9) /\ StepSound(10) /\ Has(11, {})
  BY <1>1, <1>3, <1>4, <1>8, Buffered
<1>10. ExitSound
  <2>1. Orderly({}, <<>>, {}) /\ <<>> \in Seq(Objects)
    BY DEF Orderly, Covered, Present, Nested
  <2> QED
    BY <1>1, <1>2, <2>1, ExitIs
<1>11. \A n \in 1 .. 10 : StepSound(n)
  BY <1>5, <1>6, <1>7, <1>8, <1>9
<1> QED
  BY <1>1, <1>2, <1>4, <1>9, <1>10, <1>11 DEF PlanSound, Has

\* The plans of the sensor drivers, written out.
LEMMA SensorPlans ==
    /\ \A a, b : SensorWith(<<a, b>>).init =
           <<Checked(One("priv"), <<>>), Checked(One("mapping"), <<One("priv")>>)>>
           \o <<Unchecked(One(a)), Unchecked(One(b))>>
    /\ \A a, b : SensorWith(<<a, b>>).exit =
           <<One(a), One(b)>> \o <<One("mapping"), One("priv")>>
    /\ \A a, b, c : SensorWith(<<a, b, c>>).init =
           <<Checked(One("priv"), <<>>), Checked(One("mapping"), <<One("priv")>>)>>
           \o <<Unchecked(One(a)), Unchecked(One(b)), Unchecked(One(c))>>
    /\ \A a, b, c : SensorWith(<<a, b, c>>).exit =
           <<One(a), One(b), One(c)>> \o <<One("mapping"), One("priv")>>
<1>1. /\ \A a, b : /\ [k \in DOMAIN <<a, b>> |-> One(<<a, b>>[k])] = <<One(a), One(b)>>
                   /\ [k \in DOMAIN <<a, b>> |-> Unchecked(One(<<a, b>>[k]))]
                      = <<Unchecked(One(a)), Unchecked(One(b))>>
  OBVIOUS
<1>2. /\ \A a, b, c :
          /\ [k \in DOMAIN <<a, b, c>> |-> One(<<a, b, c>>[k])]
             = <<One(a), One(b), One(c)>>
          /\ [k \in DOMAIN <<a, b, c>> |-> Unchecked(One(<<a, b, c>>[k]))]
             = <<Unchecked(One(a)), Unchecked(One(b)), Unchecked(One(c))>>
  OBVIOUS
<1> QED
  BY <1>1, <1>2 DEF SensorWith

\* 016, 017 and 018: the files go before the memory they show.
LEMMA SensorSound ==
    ASSUME driver \in {"sensor", "sensorDt", "sensorOf"}
    PROVE PlanSound
<1> DEFINE p == One("priv")
           m == One("mapping")
           t == One("temp")
           c == One("control")
           h == One("threshold")
           exit == Plan[driver].exit
<1>1. CASE driver # "sensorOf"
  <2>1. Plan[driver] = SensorWith(<<"temp", "control">>)
    BY <1>1 DEF Plan, SensorPlan, SensorDtPlan
  <2>2. /\ Steps = <<Checked(p, <<>>), Checked(m, <<p>>)>>
                   \o <<Unchecked(t), Unchecked(c)>>
        /\ exit = <<t, c>> \o <<m, p>>
    BY <2>1, SensorPlans DEF Steps
  <2>3. /\ Len(Steps) = 4
        /\ Is(1, p, "undo", <<>>) /\ Is(2, m, "undo", <<p>>)
        /\ Is(3, t, "ignore", <<>>) /\ Is(4, c, "ignore", <<>>)
    BY <2>2 DEF Is, Checked, Unchecked, Step
  <2>4. /\ {p, m, t, c} \subseteq Objects \ {Worker}
        /\ p # m /\ p # t /\ p # c /\ m # t /\ m # c /\ t # c
        /\ RestsOn(p) = {} /\ RestsOn(m) = {} /\ RestsOn(t) = {p, m}
        /\ RestsOn(c) = {p, m}
        /\ Gone(p) = {p} /\ Gone(m) = {m} /\ Gone(t) = {t} /\ Gone(c) = {c}
    <3>1. {p, m, t, c} \subseteq Objects \ {Worker}
      BY DEF Objects, Kinds, Worker, One
    <3>2. p # m /\ p # t /\ p # c /\ m # t /\ m # c /\ t # c
      BY DEF One
    <3>3. /\ RestsOn(p) = {} /\ RestsOn(m) = {} /\ RestsOn(t) = {p, m}
          /\ RestsOn(c) = {p, m}
      BY DEF RestsOn, One
    <3>4. Gone(p) = {p} /\ Gone(m) = {m} /\ Gone(t) = {t} /\ Gone(c) = {c}
      BY GoneOf DEF One
    <3> HIDE DEF p, m, t, c
    <3> QED
      BY <3>1, <3>2, <3>3, <3>4
  <2>5. /\ DOMAIN exit = 1 .. 4
        /\ exit[1] = t /\ exit[2] = c /\ exit[3] = m /\ exit[4] = p
    BY <2>2
  <2>6. exit \in Seq(Objects)
    <3>1. <<t, c>> \in Seq(Objects) /\ <<m, p>> \in Seq(Objects)
      BY <2>4, Tuples
    <3> QED
      BY <2>2, <3>1
  <2>7. driver \notin Careful /\ Carry = {}
    BY NoCarry DEF Careful
  <2> HIDE DEF p, m, t, c, exit
  <2>8. Kept(Steps) = {p, m, t, c}
    BY <2>3 DEF Kept, Is
  <2>9. /\ Orderly({}, <<>>, Carry) /\ Orderly({p}, <<p>>, Carry)
        /\ <<>> \in Seq(Objects) /\ <<p>> \in Seq(Objects)
    BY <2>4, Tuples DEF Orderly, Covered, Present, Nested
  <2>10. Orderly({p, m, t, c}, exit, {})
    BY <2>4, <2>5 DEF Orderly, Covered, Present, Nested
  <2>11. /\ Leads({}, p, "undo", <<>>, {p}) /\ Leads({p}, m, "undo", <<p>>, {p, m})
         /\ Leads({p, m}, t, "ignore", <<>>, {p, m, t})
         /\ Leads({p, m, t}, c, "ignore", <<>>, {p, m, t, c})
    BY <2>4, <2>7, <2>9 DEF Leads, Outcomes, Mild
  <2>12. StepSound(1) /\ Has(2, {p})
    BY <2>3, <2>11, HasFirst, PlainStep
  <2>13. StepSound(2) /\ Has(3, {p, m})
    BY <2>3, <2>11, <2>12, PlainStep
  <2>14. StepSound(3) /\ Has(4, {p, m, t})
    BY <2>3, <2>11, <2>13, PlainStep
  <2>15. StepSound(4) /\ Has(5, {p, m, t, c})
    BY <2>3, <2>11, <2>14, PlainStep
  <2>16. ExitSound
    BY <2>6, <2>8, <2>10, ExitIs DEF exit
  <2> QED
    BY <2>3, <2>7, <2>8, <2>12, <2>13, <2>14, <2>15, <2>16 DEF PlanSound, Has
<1>2. CASE driver = "sensorOf"
  <2>1. Plan[driver] = SensorWith(<<"temp", "control", "threshold">>)
    BY <1>2 DEF Plan, SensorOfPlan
  <2>2. /\ Steps = <<Checked(p, <<>>), Checked(m, <<p>>)>>
                   \o <<Unchecked(t), Unchecked(c), Unchecked(h)>>
        /\ exit = <<t, c, h>> \o <<m, p>>
    BY <2>1, SensorPlans DEF Steps
  <2>3. /\ Len(Steps) = 5
        /\ Is(1, p, "undo", <<>>) /\ Is(2, m, "undo", <<p>>)
        /\ Is(3, t, "ignore", <<>>) /\ Is(4, c, "ignore", <<>>)
        /\ Is(5, h, "ignore", <<>>)
    BY <2>2 DEF Is, Checked, Unchecked, Step
  <2>4. /\ {p, m, t, c, h} \subseteq Objects \ {Worker}
        /\ p # m /\ p # t /\ p # c /\ m # t /\ m # c /\ t # c
        /\ h # p /\ h # m /\ h # t /\ h # c
        /\ RestsOn(p) = {} /\ RestsOn(m) = {} /\ RestsOn(t) = {p, m}
        /\ RestsOn(c) = {p, m}
        /\ RestsOn(h) = {p, m}
        /\ Gone(p) = {p} /\ Gone(m) = {m} /\ Gone(t) = {t} /\ Gone(c) = {c}
        /\ Gone(h) = {h}
    <3>1. {p, m, t, c, h} \subseteq Objects \ {Worker}
      BY DEF Objects, Kinds, Worker, One
    <3>2. /\ p # m /\ p # t /\ p # c /\ m # t /\ m # c /\ t # c
          /\ h # p /\ h # m /\ h # t /\ h # c
      BY DEF One
    <3>3. /\ RestsOn(p) = {} /\ RestsOn(m) = {} /\ RestsOn(t) = {p, m}
          /\ RestsOn(c) = {p, m} /\ RestsOn(h) = {p, m}
      BY DEF RestsOn, One
    <3>4. /\ Gone(p) = {p} /\ Gone(m) = {m} /\ Gone(t) = {t} /\ Gone(c) = {c}
          /\ Gone(h) = {h}
      BY GoneOf DEF One
    <3> HIDE DEF p, m, t, c, h
    <3> QED
      BY <3>1, <3>2, <3>3, <3>4
  <2>5. /\ DOMAIN exit = 1 .. 5
        /\ exit[1] = t /\ exit[2] = c /\ exit[3] = h /\ exit[4] = m /\ exit[5] = p
    BY <2>2
  <2>6. exit \in Seq(Objects)
    <3>1. <<t, c, h>> \in Seq(Objects) /\ <<m, p>> \in Seq(Objects)
      BY <2>4, Tuples
    <3> QED
      BY <2>2, <3>1
  <2>7. driver \notin Careful /\ Carry = {}
    BY <1>2, NoCarry DEF Careful
  <2> HIDE DEF p, m, t, c, h, exit
  <2>8. Kept(Steps) = {p, m, t, c, h}
    BY <2>3 DEF Kept, Is
  <2>9. /\ Orderly({}, <<>>, Carry) /\ Orderly({p}, <<p>>, Carry)
        /\ <<>> \in Seq(Objects) /\ <<p>> \in Seq(Objects)
    BY <2>4, Tuples DEF Orderly, Covered, Present, Nested
  <2>10. Orderly({p, m, t, c, h}, exit, {})
    BY <2>4, <2>5 DEF Orderly, Covered, Present, Nested
  <2>11. /\ Leads({}, p, "undo", <<>>, {p}) /\ Leads({p}, m, "undo", <<p>>, {p, m})
         /\ Leads({p, m}, t, "ignore", <<>>, {p, m, t})
         /\ Leads({p, m, t}, c, "ignore", <<>>, {p, m, t, c})
         /\ Leads({p, m, t, c}, h, "ignore", <<>>, {p, m, t, c, h})
    BY <2>4, <2>7, <2>9 DEF Leads, Outcomes, Mild
  <2>12. StepSound(1) /\ Has(2, {p})
    BY <2>3, <2>11, HasFirst, PlainStep
  <2>13. StepSound(2) /\ Has(3, {p, m})
    BY <2>3, <2>11, <2>12, PlainStep
  <2>14. StepSound(3) /\ Has(4, {p, m, t})
    BY <2>3, <2>11, <2>13, PlainStep
  <2>15. StepSound(4) /\ Has(5, {p, m, t, c})
    BY <2>3, <2>11, <2>14, PlainStep
  <2>16. StepSound(5) /\ Has(6, {p, m, t, c, h})
    BY <2>3, <2>11, <2>15, PlainStep
  <2>17. ExitSound
    BY <2>6, <2>8, <2>10, ExitIs DEF exit
  <2> QED
    BY <2>3, <2>7, <2>8, <2>12, <2>13, <2>14, <2>15, <2>16, <2>17 DEF PlanSound, Has
<1> QED
  BY <1>1, <1>2

\* 014: the rollback is complete, also when the init function then returns a
\* wild value.
LEMMA PollSound == ASSUME driver = "poll" PROVE PlanSound
<1> DEFINE t == Of("state", 1)
           w == Of("device", 1)
           u == [k \in 1 .. 0 |-> Of("device", 0 - k)] \o <<Class, Cdev, Region>>
           x == [k \in 1 .. 1 |-> Of("device", 1 - k)] \o <<Class, Cdev, Region>>
           exit == <<Device, w, Class, Cdev, Region>>
<1>1. /\ Len(Steps) = 7
      /\ Is(1, Region, "undo", <<>>) /\ Is(2, Cdev, "undo", <<Region>>)
      /\ Is(3, Class, "undo", <<Cdev, Region>>)
      /\ Is(4, State, "never", <<>>) /\ Is(5, Device, "garbage", u)
      /\ Is(6, t, "never", <<>>) /\ Is(7, w, "garbage", x)
      /\ Plan[driver].exit = exit
  <2>1. /\ PollTurn(0) = <<Step(State, "never", <<>>), Step(Device, "garbage", u)>>
        /\ PollTurn(1) = <<Step(t, "never", <<>>), Step(w, "garbage", x)>>
    BY DEF PollTurn, Certain, State, Class, Cdev, Region, Device
  <2>2. /\ Steps = <<Step(Region, "undo", <<>>), Step(Cdev, "undo", <<Region>>),
                     Step(Class, "undo", <<Cdev, Region>>)>>
                   \o PollTurn(0) \o PollTurn(1)
        /\ Plan[driver].exit = exit
    BY DEF Plan, Steps, PollPlan, Checked, Region, Cdev, Class, Device
  <2> HIDE DEF t, w, u, x, exit
  <2>3. Steps = <<Step(Region, "undo", <<>>), Step(Cdev, "undo", <<Region>>),
                  Step(Class, "undo", <<Cdev, Region>>)>>
                \o <<Step(State, "never", <<>>), Step(Device, "garbage", u)>>
                \o <<Step(t, "never", <<>>), Step(w, "garbage", x)>>
    BY <2>1, <2>2
  <2>4. /\ Len(Steps) = 7
        /\ Steps[1] = Step(Region, "undo", <<>>)
        /\ Steps[2] = Step(Cdev, "undo", <<Region>>)
        /\ Steps[3] = Step(Class, "undo", <<Cdev, Region>>)
        /\ Steps[4] = Step(State, "never", <<>>)
        /\ Steps[5] = Step(Device, "garbage", u)
        /\ Steps[6] = Step(t, "never", <<>>) /\ Steps[7] = Step(w, "garbage", x)
    BY <2>3
  <2>5. Plan[driver].exit = exit
    BY <2>2
  <2> QED
    BY <2>4, <2>5 DEF Is, Step
<1>2. /\ {t, w} \subseteq Objects \ {Worker} /\ t # State /\ w # Device /\ t # w
      /\ {t, w} \cap (CharObjects \cup {State}) = {}
      /\ RestsOn(t) = {} /\ RestsOn(w) = {Class, Region, t} /\ Gone(w) = {w}
      /\ RestsOn(Device) = {Class, Region, State} /\ t \in Static
  BY GoneOf DEF Objects, Kinds, Worker, RestsOn, Prepared, Static, CharObjects, Region,
                Cdev, Class, Device, State, One, Of
<1>3. u = <<Class, Cdev, Region>>
  <2>1. [k \in 1 .. 0 |-> Of("device", 0 - k)] = <<>>
    OBVIOUS
  <2> QED
    BY <2>1, CharTuples, ConcatEmptySeq
<1>4. x = CharExit
  <2>1. [k \in 1 .. 1 |-> Of("device", 1 - k)] = <<Device>>
    BY DEF Device
  <2>2. CharExit = <<Device, Class, Cdev, Region>>
    BY DEF CharExit, Device, Class, Cdev, Region
  <2>3. x \in Seq(Objects) /\ Len(x) = Len(CharExit)
    BY <2>1, <2>2, CharTuples, CharNames DEF CharObjects
  <2>4. \A i \in 1 .. Len(x) : x[i] = CharExit[i]
    BY <2>1, <2>2
  <2> QED
    BY <2>3, <2>4, CharTuples, SeqEqual
<1>5. driver \notin Careful /\ Carry = {}
  BY NoCarry DEF Careful
<1>6. Kept(Steps) = CharObjects \cup {State, t, w}
  BY <1>1 DEF Kept, Is, CharObjects
<1> HIDE DEF t, w, u, x, exit
<1>7. {Region, Cdev, Class, State} = {State, Region, Cdev, Class}
  OBVIOUS
<1>8. /\ Orderly(CharObjects \cup {State, t}, CharExit, Carry)
  <2>1. Orderly(CharObjects \cup {State}, CharExit, Carry)
    BY CharWithState
  <2>2. CharObjects \cup {State, t} = (CharObjects \cup {State}) \cup {t}
    OBVIOUS
  <2> QED
    BY <1>2, <2>1, <2>2, OrderlyMore
<1>9. /\ Leads({}, Region, "undo", <<>>, {Region})
      /\ Leads({Region}, Cdev, "undo", <<Region>>, {Region, Cdev})
      /\ Leads({Region, Cdev}, Class, "undo", <<Cdev, Region>>, {Region, Cdev, Class})
      /\ Leads({Region, Cdev, Class}, State, "never", <<>>,
               {Region, Cdev, Class, State})
  BY <1>5, CharChain, CharNames, CharTuples DEF Leads, Outcomes, Mild, CharObjects
<1>10. Leads({Region, Cdev, Class, State}, Device, "garbage", u,
             CharObjects \cup {State})
  BY <1>2, <1>3, <1>5, <1>6, <1>7, CharWithState, CharNames, CharTuples
     DEF Leads, Outcomes, CharObjects
<1>11. Leads(CharObjects \cup {State}, t, "never", <<>>, CharObjects \cup {State, t})
  BY <1>2, <1>5, CharTuples DEF Leads, Outcomes, Mild
<1>12. Leads(CharObjects \cup {State, t}, w, "garbage", x,
              CharObjects \cup {State, t, w})
  BY <1>2, <1>4, <1>5, <1>6, <1>8, CharTuples DEF Leads, Outcomes, CharObjects
<1>13. StepSound(1) /\ Has(2, {Region})
  BY <1>1, <1>9, HasFirst, PlainStep
<1>14. StepSound(2) /\ Has(3, {Region, Cdev})
  BY <1>1, <1>9, <1>13, PlainStep
<1>15. StepSound(3) /\ Has(4, {Region, Cdev, Class})
  BY <1>1, <1>9, <1>14, PlainStep
<1>16. StepSound(4) /\ Has(5, {Region, Cdev, Class, State})
  BY <1>1, <1>9, <1>15, PlainStep
<1>17. StepSound(5) /\ Has(6, CharObjects \cup {State})
  BY <1>1, <1>10, <1>16, PlainStep
<1>18. StepSound(6) /\ Has(7, CharObjects \cup {State, t})
  BY <1>1, <1>11, <1>17, PlainStep
<1>19. StepSound(7) /\ Has(8, CharObjects \cup {State, t, w})
  BY <1>1, <1>12, <1>18, PlainStep
<1>20. ExitSound
  <2>1. exit \in Seq(Objects)
    BY <1>2, CharNames, Tuples DEF exit, CharObjects
  <2>2. /\ DOMAIN exit = 1 .. 5 /\ exit[1] = Device /\ exit[2] = w /\ exit[3] = Class
        /\ exit[4] = Cdev /\ exit[5] = Region
    BY DEF exit
  <2>3. /\ Covered(CharObjects \cup {State, t, w}, exit, {})
        /\ Present(CharObjects \cup {State, t, w}, exit)
    BY <1>2, <2>2, CharNames DEF Covered, Present, CharObjects
  <2>4. Nested(CharObjects \cup {State, t, w}, exit)
    BY <1>2, <2>2, CharNames DEF Nested, CharObjects
  <2> QED
    BY <1>1, <1>6, <2>1, <2>3, <2>4, ExitIs DEF Orderly
<1> QED
  BY <1>1, <1>5, <1>6, <1>13, <1>14, <1>15, <1>16, <1>17, <1>18, <1>19, <1>20
     DEF PlanSound, Has

----------------------------------------------------------------------------
(* The loop of 010                                                         *)

\* Releases p, after which R is left, followed by releases that are in order
\* for R.
LEMMA OrderlyCat ==
    ASSUME NEW S, NEW R \in SUBSET S, NEW p \in Seq(Objects), NEW q \in Seq(Objects),
           NEW rest,
           Present(S, p), Nested(S, p), Orderly(R, q, rest),
           \A r \in S : r \in R <=> \A k \in DOMAIN p : r \notin Gone(p[k])
    PROVE  Orderly(S, p \o q, rest)
<1> DEFINE t == p \o q
           m == Len(p)
           n == Len(q)
<1>1. /\ m \in Nat /\ n \in Nat /\ DOMAIN p = 1 .. m /\ DOMAIN q = 1 .. n
      /\ DOMAIN t = 1 .. m + n
      /\ \A k \in 1 .. m : t[k] = p[k]
      /\ \A k \in 1 .. n : t[m + k] = q[k]
  OBVIOUS
<1>2. \A k \in 1 .. m + n : \/ k \in 1 .. m /\ t[k] = p[k]
                            \/ k - m \in 1 .. n /\ t[k] = q[k - m]
  BY <1>1
<1> HIDE DEF t, m, n
<1>3. Covered(S, t, rest)
  <2> SUFFICES ASSUME NEW r \in S, r \notin Static \cup rest
               PROVE  \E k \in DOMAIN t : r \in Gone(t[k])
    BY DEF Covered
  <2>1. CASE r \in R
    <3>1. PICK k \in 1 .. n : r \in Gone(q[k])
      BY <2>1, <1>1 DEF Orderly, Covered
    <3>2. m + k \in DOMAIN t
      BY <3>1, <1>1
    <3> QED
      BY <3>1, <3>2, <1>1
  <2>2. CASE r \notin R
    <3>1. PICK k \in 1 .. m : r \in Gone(p[k])
      BY <2>2, <1>1
    <3>2. k \in DOMAIN t
      BY <3>1, <1>1
    <3> QED
      BY <3>1, <3>2, <1>1
  <2> QED
    BY <2>1, <2>2
<1>4. Present(S, t)
  <2> SUFFICES ASSUME NEW k \in 1 .. m + n
               PROVE  t[k] \in S /\ \A j \in 1 .. k - 1 : t[k] \notin Gone(t[j])
    BY <1>1 DEF Present
  <2>1. CASE k \in 1 .. m /\ t[k] = p[k]
    <3>1. p[k] \in S /\ \A j \in 1 .. k - 1 : p[k] \notin Gone(p[j])
      BY <2>1, <1>1 DEF Present
    <3>2. \A j \in 1 .. k - 1 : t[j] = p[j]
      BY <2>1, <1>1
    <3> QED
      BY <2>1, <3>1, <3>2
  <2>2. ASSUME NEW i \in 1 .. n, k = m + i, t[k] = q[i]
        PROVE  t[k] \in S /\ \A j \in 1 .. k - 1 : t[k] \notin Gone(t[j])
    <3>1. q[i] \in R /\ \A j \in 1 .. i - 1 : q[i] \notin Gone(q[j])
      BY <1>1 DEF Orderly, Present
    <3>2. ASSUME NEW j \in 1 .. k - 1 PROVE q[i] \notin Gone(t[j])
      <4>1. CASE j \in 1 .. m /\ t[j] = p[j]
        BY <4>1, <3>1, <1>1
      <4>2. CASE j - m \in 1 .. n /\ t[j] = q[j - m]
        <5>1. j - m \in 1 .. i - 1
          BY <4>2, <2>2, <1>1
        <5> QED
          BY <5>1, <4>2, <3>1
      <4>3. j \in 1 .. m + n
        BY <1>1
      <4> QED
        BY <4>1, <4>2, <4>3, <1>2
    <3> QED
      BY <2>2, <3>1, <3>2
  <2>3. CASE k - m \in 1 .. n /\ t[k] = q[k - m]
    <3>1. k = m + (k - m)
      BY <1>1
    <3> QED
      BY <2>2, <2>3, <3>1
  <2> QED
    BY <2>1, <2>3, <1>2
<1>5. Nested(S, t)
  <2> SUFFICES ASSUME NEW k \in 1 .. m + n, NEW r \in S, RestsOn(r) \cap Gone(t[k]) # {}
               PROVE  \E j \in 1 .. k : r \in Gone(t[j])
    BY <1>1 DEF Nested
  <2>1. CASE k \in 1 .. m /\ t[k] = p[k]
    <3>1. PICK j \in 1 .. k : r \in Gone(p[j])
      BY <2>1, <1>1 DEF Nested
    <3>2. t[j] = p[j]
      BY <2>1, <3>1, <1>1
    <3> QED
      BY <3>1, <3>2
  <2>2. CASE k - m \in 1 .. n /\ t[k] = q[k - m] /\ r \in R
    <3>1. PICK j \in 1 .. k - m : r \in Gone(q[j])
      BY <2>2, <1>1 DEF Orderly, Nested
    <3>2. m + j \in 1 .. k /\ t[m + j] = q[j]
      BY <2>2, <3>1, <1>1
    <3> QED
      BY <3>1, <3>2
  <2>3. CASE k - m \in 1 .. n /\ t[k] = q[k - m] /\ r \notin R
    <3>1. PICK j \in 1 .. m : r \in Gone(p[j])
      BY <2>3, <1>1
    <3>2. j \in 1 .. k /\ t[j] = p[j]
      BY <2>3, <3>1, <1>1
    <3> QED
      BY <3>1, <3>2
  <2> QED
    BY <2>1, <2>2, <2>3, <1>2
<1> QED
  BY <1>3, <1>4, <1>5 DEF Orderly, t

\* 010: the array, the state of device i and the objects of its turn.
Mem     == One("mem")
St(i)   == Of("state", i)
Cd(i)   == Of("cdev", i)
Dv(i)   == Of("device", i)
Da(i)   == Of("data", i)
Sa(i)   == Of("stats", i)
Re(i)   == Of("reset", i)
Part(i) == {Cd(i), Dv(i), Da(i), Sa(i), Re(i)}
Base    == {Region, Class, Mem}
Last    == <<Mem, Class, Region>>

\* The objects of a turn are different, and rest on one another as follows.
LEMMA TurnNames ==
    ASSUME driver = "mydev", NEW i \in {0, 1}
    PROVE  /\ Part(i) \cup {St(i)} \subseteq Objects \ {Worker}
           /\ Cd(i) # Dv(i) /\ Cd(i) # Da(i) /\ Cd(i) # Sa(i) /\ Cd(i) # Re(i)
           /\ Dv(i) # Da(i) /\ Dv(i) # Sa(i) /\ Dv(i) # Re(i)
           /\ Da(i) # Sa(i) /\ Da(i) # Re(i) /\ Sa(i) # Re(i)
           /\ RestsOn(Cd(i)) = {Region, Mem}
           /\ RestsOn(Dv(i)) = {Class, Region, St(i)}
           /\ RestsOn(Da(i)) = {Dv(i)} /\ RestsOn(Sa(i)) = {Dv(i)}
           /\ RestsOn(Re(i)) = {Dv(i)}
           /\ RestsOn(St(i)) = {}
           /\ Gone(Cd(i)) = {Cd(i)} /\ Gone(Dv(i)) = {Dv(i)} /\ Gone(Da(i)) = {Da(i)}
           /\ Gone(Sa(i)) = {Sa(i)} /\ Gone(Re(i)) = {Re(i)}
           /\ Part(i) \cap (Base \cup {St(0), St(1)}) = {}
           /\ St(i) \in Static
<1>1. Part(i) \cup {St(i)} \subseteq Objects \ {Worker}
  BY DEF Part, St, Cd, Dv, Da, Sa, Re, Of, One, Objects, Kinds, Worker
<1>2. /\ Cd(i) # Dv(i) /\ Cd(i) # Da(i) /\ Cd(i) # Sa(i) /\ Cd(i) # Re(i)
      /\ Dv(i) # Da(i) /\ Dv(i) # Sa(i) /\ Dv(i) # Re(i)
      /\ Da(i) # Sa(i) /\ Da(i) # Re(i) /\ Sa(i) # Re(i)
  BY DEF Cd, Dv, Da, Sa, Re, Of
<1>3. /\ RestsOn(Cd(i)) = {Region, Mem}
      /\ RestsOn(Dv(i)) = {Class, Region, St(i)}
      /\ RestsOn(Da(i)) = {Dv(i)} /\ RestsOn(Sa(i)) = {Dv(i)}
      /\ RestsOn(Re(i)) = {Dv(i)}
      /\ RestsOn(St(i)) = {}
  BY DEF Region, Class, Mem, St, Cd, Dv, Da, Sa, Re, Of, One, RestsOn, Prepared
<1>4. /\ Gone(Cd(i)) = {Cd(i)} /\ Gone(Dv(i)) = {Dv(i)} /\ Gone(Da(i)) = {Da(i)}
      /\ Gone(Sa(i)) = {Sa(i)} /\ Gone(Re(i)) = {Re(i)}
  BY GoneOf DEF Cd, Dv, Da, Sa, Re, Of
<1>5. Part(i) \cap (Base \cup {St(0), St(1)}) = {} /\ St(i) \in Static
  BY DEF Part, Base, Static, Region, Class, Mem, St, Cd, Dv, Da, Sa, Re, Of, One
<1> QED
  BY <1>1, <1>2, <1>3, <1>4, <1>5

\* The releases of one turn, in front of releases that are in order already.
LEMMA TurnOrderly ==
    ASSUME driver = "mydev", NEW i \in {0, 1}, NEW S, NEW q \in Seq(Objects), NEW rest,
           S \cap Part(i) = {}, \A r \in S : RestsOn(r) \cap Part(i) = {},
           Orderly(S, q, rest)
    PROVE  /\ Orderly(S \cup {Cd(i)}, <<Cd(i)>> \o q, rest)
           /\ Orderly(S \cup {Cd(i), Dv(i)}, <<Dv(i), Cd(i)>> \o q, rest)
           /\ Orderly(S \cup {Cd(i), Dv(i), Da(i)},
                      <<Da(i)>> \o (<<Dv(i), Cd(i)>> \o q), rest)
           /\ Orderly(S \cup {Cd(i), Dv(i), Da(i), Sa(i)},
                      <<Sa(i)>> \o (<<Da(i)>> \o (<<Dv(i), Cd(i)>> \o q)), rest)
           /\ Orderly(S \cup Part(i), OwnPart(i) \o q, rest)
           /\ <<Cd(i)>> \o q \in Seq(Objects) /\ <<Dv(i), Cd(i)>> \o q \in Seq(Objects)
           /\ <<Da(i)>> \o (<<Dv(i), Cd(i)>> \o q) \in Seq(Objects)
           /\ <<Sa(i)>> \o (<<Da(i)>> \o (<<Dv(i), Cd(i)>> \o q)) \in Seq(Objects)
           /\ OwnPart(i) \o q \in Seq(Objects)
<1> DEFINE c == Cd(i)
           d == Dv(i)
           a == Da(i)
           b == Sa(i)
           e == Re(i)
           own == OwnPart(i)
<1>1. /\ {c, d, a, b, e} \subseteq Objects
      /\ c # d /\ c # a /\ c # b /\ c # e /\ d # a /\ d # b /\ d # e /\ a # b /\ a # e
      /\ b # e
      /\ RestsOn(a) = {d} /\ RestsOn(b) = {d} /\ RestsOn(e) = {d}
      /\ Gone(c) = {c} /\ Gone(d) = {d} /\ Gone(a) = {a} /\ Gone(b) = {b}
      /\ Gone(e) = {e}
  BY TurnNames DEF Part
<1>2. RestsOn(c) \cap {c, d, a, b, e} = {} /\ RestsOn(d) \cap {c, d, a, b, e} = {}
  <2>1. {Class, Region, Mem, St(i)} \cap Part(i) = {}
    BY TurnNames DEF Base
  <2> QED
    BY <2>1, TurnNames DEF Part
<1>3. S \cap {c, d, a, b, e} = {} /\ \A r \in S : RestsOn(r) \cap {c, d, a, b, e} = {}
  BY DEF Part
<1>4. /\ own \in Seq(Objects) /\ DOMAIN own = 1 .. 5
      /\ own[1] = e /\ own[2] = b /\ own[3] = a /\ own[4] = d /\ own[5] = c
  <2>1. own = <<e, b, a>> \o <<d, c>>
    BY DEF OwnPart, Attributes, Cd, Dv, Da, Sa, Re
  <2>2. <<e, b, a>> \in Seq(Objects) /\ <<d, c>> \in Seq(Objects)
    BY <1>1, Tuples
  <2> HIDE DEF own
  <2> QED
    BY <2>1, <2>2
<1>5. <<c>> \in Seq(Objects) /\ <<d, c>> \in Seq(Objects) /\ <<a>> \in Seq(Objects)
      /\ <<b>> \in Seq(Objects)
  BY <1>1, Tuples
<1>6. Part(i) = {c, d, a, b, e}
  BY DEF Part
<1> HIDE DEF c, d, a, b, e, own
<1> DEFINE q1 == <<d, c>> \o q
           q2 == <<a>> \o q1
           q3 == <<b>> \o q2
<1>7. /\ <<c>> \o q \in Seq(Objects) /\ q1 \in Seq(Objects) /\ own \o q \in Seq(Objects)
  BY <1>4, <1>5
<1>8. q2 \in Seq(Objects)
  BY <1>5, <1>7
<1>9. q3 \in Seq(Objects)
  BY <1>5, <1>8
<1>10. Orderly(S \cup {c}, <<c>> \o q, rest)
  <2> DEFINE T == S \cup {c}
  <2>1. Present(T, <<c>>) /\ Nested(T, <<c>>)
    BY <1>1, <1>2, <1>3 DEF Present, Nested
  <2>2. \A r \in T : r \in S <=> \A k \in DOMAIN <<c>> : r \notin Gone(<<c>>[k])
    BY <1>1, <1>3
  <2> QED
    BY <1>5, <2>1, <2>2, OrderlyCat
<1>11. Orderly(S \cup {c, d}, q1, rest)
  <2> DEFINE T == S \cup {c, d}
  <2>1. Present(T, <<d, c>>) /\ Nested(T, <<d, c>>)
    BY <1>1, <1>2, <1>3 DEF Present, Nested
  <2>2. \A r \in T : r \in S <=> \A k \in DOMAIN <<d, c>> : r \notin Gone(<<d, c>>[k])
    BY <1>1, <1>3
  <2> QED
    BY <1>5, <2>1, <2>2, OrderlyCat
<1> HIDE DEF q1
<1>12. Orderly(S \cup {c, d, a}, q2, rest)
  <2> DEFINE T == S \cup {c, d, a}
  <2>1. Present(T, <<a>>) /\ Nested(T, <<a>>)
    BY <1>1, <1>2, <1>3 DEF Present, Nested
  <2>2. \A r \in T : r \in S \cup {c, d} <=>
                       \A k \in DOMAIN <<a>> : r \notin Gone(<<a>>[k])
    BY <1>1, <1>3
  <2> QED
    BY <1>5, <1>7, <1>11, <2>1, <2>2, OrderlyCat
<1> HIDE DEF q2
<1>13. Orderly(S \cup {c, d, a, b}, q3, rest)
  <2> DEFINE T == S \cup {c, d, a, b}
  <2>1. Present(T, <<b>>) /\ Nested(T, <<b>>)
    BY <1>1, <1>2, <1>3 DEF Present, Nested
  <2>2. \A r \in T : r \in S \cup {c, d, a} <=>
                       \A k \in DOMAIN <<b>> : r \notin Gone(<<b>>[k])
    BY <1>1, <1>3
  <2> QED
    BY <1>5, <1>8, <1>12, <2>1, <2>2, OrderlyCat
<1>14. Orderly(S \cup {c, d, a, b, e}, own \o q, rest)
  <2> DEFINE T == S \cup {c, d, a, b, e}
  <2>1. Present(T, own) /\ Nested(T, own)
    BY <1>1, <1>2, <1>3, <1>4 DEF Present, Nested
  <2>2. \A r \in T : r \in S <=> \A k \in DOMAIN own : r \notin Gone(own[k])
    BY <1>1, <1>3, <1>4
  <2> QED
    BY <1>4, <2>1, <2>2, OrderlyCat
<1> QED
  BY <1>6, <1>7, <1>8, <1>9, <1>10, <1>11, <1>12, <1>13, <1>14
     DEF q1, q2, q3, c, d, a, b, e, own

\* The steps of the turn for device i begin at n, and their error paths end
\* with q; they find the stock S, which q puts in order; they are sound and add
\* the part of device i.
TurnAt(i, n, q) ==
    /\ Is(n, Cd(i), "undo", q)
    /\ Is(n + 1, Dv(i), "undo", <<Cd(i)>> \o q)
    /\ Is(n + 2, Da(i), "undo", <<Dv(i), Cd(i)>> \o q)
    /\ Is(n + 3, Sa(i), "undo", <<Da(i)>> \o (<<Dv(i), Cd(i)>> \o q))
    /\ Is(n + 4, Re(i), "undo", <<Sa(i)>> \o (<<Da(i)>> \o (<<Dv(i), Cd(i)>> \o q)))
TurnFits(i, S, q) ==
    /\ q \in Seq(Objects)
    /\ Base \cup {St(i)} \subseteq S
    /\ S \cap Part(i) = {}
    /\ \A r \in S : RestsOn(r) \cap Part(i) = {}
    /\ Orderly(S, q, Carry)
TurnDone(i, n, S) ==
    /\ StepSound(n) /\ StepSound(n + 1) /\ StepSound(n + 2) /\ StepSound(n + 3)
    /\ StepSound(n + 4)
    /\ Has(n + 5, S \cup Part(i))

\* One turn of the loop of mydev_init.
LEMMA TurnSound ==
    ASSUME driver = "mydev", NEW i \in {0, 1}, NEW n \in Nat \ {0}, NEW S, NEW q,
           TurnAt(i, n, q), TurnFits(i, S, q), Has(n, S)
    PROVE  TurnDone(i, n, S)
<1> DEFINE c == Cd(i)
           d == Dv(i)
           a == Da(i)
           b == Sa(i)
           e == Re(i)
           q1 == <<c>> \o q
           q2 == <<d, c>> \o q
           q3 == <<a>> \o q2
           q4 == <<b>> \o q3
<1>1. /\ Is(n, c, "undo", q) /\ Is(n + 1, d, "undo", q1) /\ Is(n + 2, a, "undo", q2)
      /\ Is(n + 3, b, "undo", q3) /\ Is(n + 4, e, "undo", q4)
  BY DEF TurnAt
<1>2. /\ Orderly(S \cup {c}, q1, Carry) /\ Orderly(S \cup {c, d}, q2, Carry)
      /\ Orderly(S \cup {c, d, a}, q3, Carry) /\ Orderly(S \cup {c, d, a, b}, q4, Carry)
      /\ q1 \in Seq(Objects) /\ q2 \in Seq(Objects) /\ q3 \in Seq(Objects)
      /\ q4 \in Seq(Objects)
  BY TurnOrderly DEF TurnFits
<1>3. {c, d, a, b, e} \subseteq Objects \ {Worker} /\ Part(i) = {c, d, a, b, e}
  BY TurnNames DEF Part
<1>4. /\ RestsOn(c) \subseteq S /\ RestsOn(d) \subseteq S
      /\ RestsOn(a) = {d} /\ RestsOn(b) = {d} /\ RestsOn(e) = {d}
  BY TurnNames DEF Base, TurnFits
<1> HIDE DEF c, d, a, b, e, q1, q2, q3, q4
<1>5. /\ Leads(S, c, "undo", q, S \cup {c})
      /\ Leads(S \cup {c}, d, "undo", q1, S \cup {c, d})
      /\ Leads(S \cup {c, d}, a, "undo", q2, S \cup {c, d, a})
      /\ Leads(S \cup {c, d, a}, b, "undo", q3, S \cup {c, d, a, b})
      /\ Leads(S \cup {c, d, a, b}, e, "undo", q4, S \cup {c, d, a, b, e})
  BY <1>2, <1>3, <1>4 DEF Leads, Outcomes, Mild, TurnFits
<1>6. StepSound(n) /\ Has(n + 1, S \cup {c})
  BY <1>1, <1>5, PlainStep
<1>7. StepSound(n + 1) /\ Has(n + 2, S \cup {c, d})
  BY <1>1, <1>5, <1>6, PlainStep
<1>8. StepSound(n + 2) /\ Has(n + 3, S \cup {c, d, a})
  BY <1>1, <1>5, <1>7, PlainStep
<1>9. StepSound(n + 3) /\ Has(n + 4, S \cup {c, d, a, b})
  BY <1>1, <1>5, <1>8, PlainStep
<1>10. StepSound(n + 4) /\ Has(n + 5, S \cup {c, d, a, b, e})
  BY <1>1, <1>5, <1>9, PlainStep
<1> QED
  BY <1>3, <1>6, <1>7, <1>8, <1>9, <1>10 DEF TurnDone

\* What the two turns have to do with each other, and with what was there
\* before.
LEMMA TurnsApart ==
    ASSUME driver = "mydev"
    PROVE  /\ Part(0) \cap Part(1) = {} /\ St(0) # St(1)
           /\ \A r \in Part(0) : RestsOn(r) \cap Part(1) = {}
           /\ \A r \in Part(1) : RestsOn(r) \cap Part(0) = {}
           /\ \A r \in Base \cup {St(0), St(1)} : RestsOn(r) = {}
           /\ Base \subseteq Objects \ {Worker}
           /\ Gone(Mem) = {Mem, St(0), St(1)} /\ Gone(Class) = {Class}
           /\ Gone(Region) = {Region}
           /\ Mem # Class /\ Mem # Region /\ Class # Region
           /\ Base \cap {St(0), St(1)} = {}
<1>1. Part(0) \cap Part(1) = {} /\ St(0) # St(1)
  BY DEF Part, St, Cd, Dv, Da, Sa, Re, Of
<1>2. /\ RestsOn(Mem) = {} /\ RestsOn(Class) = {} /\ RestsOn(Region) = {}
      /\ RestsOn(St(0)) = {} /\ RestsOn(St(1)) = {}
  BY DEF RestsOn, Mem, Class, Region, St, One, Of
<1>3. /\ Base \subseteq Objects \ {Worker}
      /\ Mem # Class /\ Mem # Region /\ Class # Region
      /\ Base \cap {St(0), St(1)} = {}
  BY DEF Base, Mem, Class, Region, St, One, Of, Objects, Kinds, Worker
<1>4. /\ Gone(Mem) = {Mem, St(0), St(1)} /\ Gone(Class) = {Class}
      /\ Gone(Region) = {Region}
  BY GoneOf DEF Mem, Class, Region, St, One, Of
<1>5. ASSUME NEW i \in {0, 1}, NEW j \in {0, 1}, i # j, NEW r \in Part(i)
      PROVE  RestsOn(r) \cap Part(j) = {}
  <2>1. RestsOn(r) \subseteq Base \cup {St(0), St(1)} \cup Part(i)
    BY <1>5, TurnNames DEF Part, Base
  <2>2. Part(i) \cap Part(j) = {}
    BY <1>1, <1>5
  <2>3. Part(j) \cap (Base \cup {St(0), St(1)}) = {}
    BY TurnNames
  <2> QED
    BY <2>1, <2>2, <2>3
<1>6. /\ \A r \in Part(0) : RestsOn(r) \cap Part(1) = {}
      /\ \A r \in Part(1) : RestsOn(r) \cap Part(0) = {}
  BY <1>5
<1>7. \A r \in Base \cup {St(0), St(1)} : RestsOn(r) = {}
  BY <1>2 DEF Base
<1> QED
  BY <1>1, <1>3, <1>4, <1>6, <1>7

\* The releases at the end of every error path and of mydev_exit.
LEMMA LastOrderly ==
    ASSUME driver = "mydev", NEW rest
    PROVE  /\ Last \in Seq(Objects)
           /\ Orderly({}, <<>>, rest)
           /\ Orderly({Region}, <<Region>>, rest)
           /\ Orderly({Region, Class}, <<Class, Region>>, rest)
           /\ Orderly(Base \cup {St(0)}, Last, rest)
           /\ Orderly(Base \cup {St(0), St(1)}, Last, rest)
<1>1. /\ DOMAIN Last = 1 .. 3 /\ Last[1] = Mem /\ Last[2] = Class /\ Last[3] = Region
      /\ Last \in Seq(Objects)
  <2>1. Mem \in Objects /\ Class \in Objects /\ Region \in Objects
    BY TurnsApart DEF Base
  <2> QED
    BY <2>1, Tuples DEF Last
<1>2. /\ Orderly({}, <<>>, rest) /\ Orderly({Region}, <<Region>>, rest)
      /\ Orderly({Region, Class}, <<Class, Region>>, rest)
  BY TurnsApart DEF Orderly, Covered, Present, Nested, Base
<1>3. ASSUME NEW S, Base \subseteq S, S \subseteq Base \cup {St(0), St(1)}
      PROVE  Orderly(S, Last, rest)
  <2>1. \A r \in S : RestsOn(r) = {}
    BY <1>3, TurnsApart
  <2>2. Covered(S, Last, rest)
    BY <1>1, <1>3, TurnsApart DEF Covered, Base
  <2>3. Present(S, Last)
    <3>1. Mem \in S /\ Class \in S /\ Region \in S
      BY <1>3 DEF Base
    <3>2. Class \notin Gone(Mem) /\ Region \notin Gone(Mem) /\ Region \notin Gone(Class)
      BY TurnsApart DEF Base
    <3> QED
      BY <1>1, <3>1, <3>2 DEF Present
  <2> QED
    BY <2>1, <2>2, <2>3 DEF Orderly, Nested
<1> QED
  BY <1>1, <1>2, <1>3

\* 010: every label of mydev_init undoes what its turn and the turns before it
\* did.
LEMMA MyDevSound == ASSUME driver = "mydev" PROVE PlanSound
<1> DEFINE one == Base \cup {St(0)}
           two == (one \cup Part(0)) \cup {St(1)}
           p == ErrLoop(0)
           q == ErrLoop(1)
           exit == OwnPart(0) \o (OwnPart(1) \o Last)
           u1 == <<Cd(0)>> \o p
           u2 == <<Dv(0), Cd(0)>> \o p
           u3 == <<Da(0)>> \o u2
           u4 == <<Sa(0)>> \o u3
           v1 == <<Cd(1)>> \o q
           v2 == <<Dv(1), Cd(1)>> \o q
           v3 == <<Da(1)>> \o v2
           v4 == <<Sa(1)>> \o v3
           turn == <<Step(St(0), "never", <<>>), Step(Cd(0), "undo", p),
                   Step(Dv(0), "undo", u1), Step(Da(0), "undo", u2),
                   Step(Sa(0), "undo", u3), Step(Re(0), "undo", u4)>>
           next == <<Step(St(1), "never", <<>>), Step(Cd(1), "undo", q),
                   Step(Dv(1), "undo", v1), Step(Da(1), "undo", v2),
                   Step(Sa(1), "undo", v3), Step(Re(1), "undo", v4)>>
<1>1. /\ Len(Steps) = 15
      /\ Is(1, Region, "undo", <<>>) /\ Is(2, Class, "undo", <<Region>>)
      /\ Is(3, Mem, "undo", <<Class, Region>>)
      /\ Is(4, St(0), "never", <<>>) /\ Is(5, Cd(0), "undo", p)
      /\ Is(6, Dv(0), "undo", u1) /\ Is(7, Da(0), "undo", u2)
      /\ Is(8, Sa(0), "undo", u3) /\ Is(9, Re(0), "undo", u4)
      /\ Is(10, St(1), "never", <<>>) /\ Is(11, Cd(1), "undo", q)
      /\ Is(12, Dv(1), "undo", v1) /\ Is(13, Da(1), "undo", v2)
      /\ Is(14, Sa(1), "undo", v3) /\ Is(15, Re(1), "undo", v4)
  <2>1. MyDevTurn(0) = turn
    BY DEF MyDevTurn, Certain, Checked, St, Cd, Dv, Da, Sa, Re
  <2>2. MyDevTurn(1) = next
    BY DEF MyDevTurn, Certain, Checked, St, Cd, Dv, Da, Sa, Re
  <2>3. Steps = <<Step(Region, "undo", <<>>), Step(Class, "undo", <<Region>>),
                  Step(Mem, "undo", <<Class, Region>>)>> \o MyDevTurn(0) \o MyDevTurn(1)
    BY DEF Plan, Steps, MyDevPlan, Checked, Region, Class, Mem
  <2> HIDE DEF p, q, u1, u2, u3, u4, v1, v2, v3, v4
  <2>4. Steps = <<Step(Region, "undo", <<>>), Step(Class, "undo", <<Region>>),
                  Step(Mem, "undo", <<Class, Region>>)>> \o turn \o next
    BY <2>1, <2>2, <2>3
  <2>5. /\ Len(Steps) = 15
        /\ Steps[1] = Step(Region, "undo", <<>>)
        /\ Steps[2] = Step(Class, "undo", <<Region>>)
        /\ Steps[3] = Step(Mem, "undo", <<Class, Region>>)
        /\ Steps[4] = Step(St(0), "never", <<>>) /\ Steps[5] = Step(Cd(0), "undo", p)
        /\ Steps[6] = Step(Dv(0), "undo", u1) /\ Steps[7] = Step(Da(0), "undo", u2)
        /\ Steps[8] = Step(Sa(0), "undo", u3) /\ Steps[9] = Step(Re(0), "undo", u4)
        /\ Steps[10] = Step(St(1), "never", <<>>) /\ Steps[11] = Step(Cd(1), "undo", q)
        /\ Steps[12] = Step(Dv(1), "undo", v1) /\ Steps[13] = Step(Da(1), "undo", v2)
        /\ Steps[14] = Step(Sa(1), "undo", v3) /\ Steps[15] = Step(Re(1), "undo", v4)
    BY <2>4
  <2> QED
    BY <2>5 DEF Is, Step
<1>2. TurnAt(0, 5, p) /\ TurnAt(1, 11, q)
  BY <1>1 DEF TurnAt
<1>3. Carry = {}
  BY NoCarry
<1> HIDE DEF u1, u2, u3, u4, v1, v2, v3, v4
<1>4. p = Last
  <2>1. p = <<>> \o Last
    BY DEF ErrLoop, Last, Mem, Class, Region
  <2> HIDE DEF p
  <2> QED
    BY <2>1, LastOrderly, ConcatEmptySeq
<1>5. q = OwnPart(0) \o Last
  BY DEF ErrLoop, Last, Mem, Class, Region
<1> HIDE DEF p, q
<1>6. /\ one \cap Part(0) = {} /\ two \cap Part(1) = {}
      /\ \A r \in one : RestsOn(r) \cap Part(0) = {}
      /\ \A r \in two : RestsOn(r) \cap Part(1) = {}
  BY TurnsApart, TurnNames
<1>7. Orderly(one, p, Carry) /\ p \in Seq(Objects)
  BY <1>4, LastOrderly
<1>8. Orderly(two, q, Carry) /\ q \in Seq(Objects)
  <2>1. Orderly(one \cup Part(0), q, Carry) /\ q \in Seq(Objects)
    BY <1>4, <1>5, <1>6, <1>7, TurnOrderly
  <2>2. RestsOn(St(1)) = {} /\ St(1) \in Static
    BY TurnNames
  <2> QED
    BY <2>1, <2>2, OrderlyMore
<1>9. Plan[driver].exit = exit /\ exit \in Seq(Objects)
      /\ Orderly((Base \cup {St(0), St(1)} \cup Part(1)) \cup Part(0), exit, {})
  <2>1. Plan[driver].exit = OwnPart(0) \o OwnPart(1) \o Last
    BY DEF Plan, MyDevPlan, Last, Mem, Class, Region
  <2> DEFINE S == Base \cup {St(0), St(1)}
             T == S \cup Part(1)
             r == OwnPart(1) \o Last
  <2>2. Orderly(S, Last, {}) /\ Last \in Seq(Objects)
    BY LastOrderly
  <2>3. S \cap Part(1) = {} /\ \A x \in S : RestsOn(x) \cap Part(1) = {}
    BY TurnsApart, TurnNames
  <2>4. T \cap Part(0) = {} /\ \A x \in T : RestsOn(x) \cap Part(0) = {}
    BY TurnsApart, TurnNames
  <2> HIDE DEF S
  <2>5. Orderly(T, r, {}) /\ r \in Seq(Objects)
    BY <2>2, <2>3, TurnOrderly
  <2>6. OwnPart(1) \in Seq(Objects) /\ OwnPart(0) \in Seq(Objects)
    <3>1. \A i \in {0, 1} : OwnPart(i) = <<Re(i), Sa(i), Da(i)>> \o <<Dv(i), Cd(i)>>
      BY DEF OwnPart, Attributes, Cd, Dv, Da, Sa, Re
    <3>2. \A i \in {0, 1} : {Re(i), Sa(i), Da(i), Dv(i), Cd(i)} \subseteq Objects
      BY TurnNames DEF Part
    <3>3. \A i \in {0, 1} : /\ <<Re(i), Sa(i), Da(i)>> \in Seq(Objects)
                             /\ <<Dv(i), Cd(i)>> \in Seq(Objects)
      BY <3>2, Tuples
    <3>4. ASSUME NEW i \in {0, 1} PROVE OwnPart(i) \in Seq(Objects)
      <4> DEFINE x == <<Re(i), Sa(i), Da(i)>>
                 y == <<Dv(i), Cd(i)>>
      <4>1. OwnPart(i) = x \o y /\ x \in Seq(Objects) /\ y \in Seq(Objects)
        BY <3>1, <3>3
      <4> HIDE DEF x, y
      <4> QED
        BY <4>1
    <3> QED
      BY <3>4
  <2>7. OwnPart(0) \o OwnPart(1) \o Last = exit
    BY <2>2, <2>6, ConcatAssociative
  <2> HIDE DEF T, r
  <2>8. Orderly(T \cup Part(0), OwnPart(0) \o r, {}) /\ OwnPart(0) \o r \in Seq(Objects)
    BY <2>4, <2>5, TurnOrderly
  <2> QED
    BY <2>1, <2>7, <2>8 DEF S, T, r
<1> HIDE DEF exit
<1>10. Kept(Steps) = two \cup Part(1)
       /\ Kept(Steps) = (Base \cup {St(0), St(1)} \cup Part(1)) \cup Part(0)
  <2>1. DOMAIN Steps = 1 .. 15
    BY <1>1
  <2>2. \A n \in 1 .. 15 : Steps[n].fail # "free"
    BY <1>1 DEF Is
  <2>3. \A n \in 1 .. 15 : Steps[n].get \in two \cup Part(1)
    BY <1>1 DEF Is, Part, Base
  <2>4. \A r \in two \cup Part(1) : \E n \in 1 .. 15 : r = Steps[n].get
    BY <1>1 DEF Is, Part, Base
  <2> HIDE DEF two
  <2>5. Kept(Steps) = two \cup Part(1)
    BY <2>1, <2>2, <2>3, <2>4 DEF Kept
  <2> QED
    BY <2>5 DEF two
<1>11. ExitSound
  BY <1>9, <1>10, ExitIs
<1>12. /\ Leads({}, Region, "undo", <<>>, {Region})
       /\ Leads({Region}, Class, "undo", <<Region>>, {Region, Class})
       /\ Leads({Region, Class}, Mem, "undo", <<Class, Region>>, Base)
       /\ Leads(Base, St(0), "never", <<>>, one)
       /\ Leads(one \cup Part(0), St(1), "never", <<>>, two)
  <2>1. /\ <<>> \in Seq(Objects) /\ <<Region>> \in Seq(Objects)
        /\ <<Class, Region>> \in Seq(Objects)
    BY TurnsApart, Tuples DEF Base
  <2>2. /\ {Region, Class, Mem, St(0), St(1)} \subseteq Objects \ {Worker}
        /\ \A r \in {Region, Class, Mem, St(0), St(1)} : RestsOn(r) = {}
    BY TurnsApart, TurnNames DEF Base
  <2> QED
    BY <1>3, <2>1, <2>2, LastOrderly DEF Leads, Outcomes, Mild, Base
<1> HIDE DEF one, two
<1>13. StepSound(1) /\ Has(2, {Region})
  BY <1>1, <1>12, HasFirst, PlainStep
<1>14. StepSound(2) /\ Has(3, {Region, Class})
  BY <1>1, <1>12, <1>13, PlainStep
<1>15. StepSound(3) /\ Has(4, Base)
  BY <1>1, <1>12, <1>14, PlainStep
<1>16. StepSound(4) /\ Has(5, one)
  BY <1>1, <1>12, <1>15, PlainStep
<1>17. StepSound(5) /\ StepSound(6) /\ StepSound(7) /\ StepSound(8) /\ StepSound(9)
       /\ Has(10, one \cup Part(0))
  <2>1. TurnFits(0, one, p)
    BY <1>6, <1>7 DEF TurnFits, one, two
  <2>2. TurnDone(0, 5, one)
    BY <2>1, <1>2, <1>16, TurnSound
  <2> QED
    BY <2>2 DEF TurnDone
<1>18. StepSound(10) /\ Has(11, two)
  BY <1>1, <1>12, <1>17, PlainStep
<1>19. StepSound(11) /\ StepSound(12) /\ StepSound(13) /\ StepSound(14) /\ StepSound(15)
       /\ Has(16, two \cup Part(1))
  <2>1. TurnFits(1, two, q)
    BY <1>6, <1>8 DEF TurnFits, one, two
  <2>2. TurnDone(1, 11, two)
    BY <2>1, <1>2, <1>18, TurnSound
  <2> QED
    BY <2>2 DEF TurnDone
<1> QED
  BY <1>1, <1>3, <1>10, <1>11, <1>13, <1>14, <1>15, <1>16, <1>17, <1>18, <1>19
     DEF PlanSound, Has

----------------------------------------------------------------------------
(* The theorems                                                            *)

\* Every plan is sound.
LEMMA AllSound == ASSUME driver \in DOMAIN Plan PROVE PlanSound
<1>1. DOMAIN Plan =
          {"storage", "skeleton", "irq", "mydev", "poll", "keypad", "templog", "temp",
           "light", "multi", "signal", "keyboard", "sensor", "sensorDt", "sensorOf",
           "power", "gpio", "misc", "pltdrv", "pltdvc", "sensdvc", "kmalloc", "ktimer",
           "hrtimer", "softirq", "tasklet", "kthread", "atomic", "threads",
           "completion"}
  BY DEF Plan
<1>2. driver \in {"misc", "pltdrv", "pltdvc", "sensdvc", "ktimer", "hrtimer", "softirq",
                  "tasklet"} => PlanSound
  BY OneSound
<1>3. driver \in {"kthread", "atomic", "threads", "power"} => PlanSound
  BY TwoSound
<1> QED
  BY <1>1, <1>2, <1>3, StorageSound, SkeletonSound, IrqSound, MyDevSound, PollSound,
     KeypadSound, FourSound, TempSound, SignalSound, KeyboardSound, GpioSound,
     CompletionSound, KmallocSound, SensorSound

\* 026: its exit function releases its two threads and nothing else.
ThreadsOnly ==
    driver = "threads" /\ phase = "exit" =>
        \A k \in DOMAIN release : release[k] \in Loops

\* Every step keeps that.
LEMMA ThreadsStep == ASSUME LInv, ThreadsOnly, [DNext]_all PROVE ThreadsOnly'
<1> SUFFICES ASSUME driver' = "threads", phase' = "exit"
             PROVE  \A k \in DOMAIN release' : release'[k] \in Loops
  BY DEF ThreadsOnly, Loops
<1>1. release \in Seq(Objects)
  BY DEF LInv, LTypes
<1>2. ASSUME UNCHANGED <<driver, phase, release>>
      PROVE  \A k \in DOMAIN release' : release'[k] \in Loops
  BY <1>2 DEF ThreadsOnly
<1>3. ASSUME UNCHANGED <<driver, phase>>, release # <<>>, release' = Tail(release)
      PROVE  \A k \in DOMAIN release' : release'[k] \in Loops
  BY <1>1, <1>3 DEF ThreadsOnly
<1>4. CASE Unload
  <2>1. release' = <<One("t1"), One("t2")>>
    BY <1>4 DEF Unload, Plan, ThreadsPlan
  <2> QED
    BY <2>1 DEF Loops
<1>5. CASE Releases
  BY <1>3, <1>5 DEF Releases
<1>6. ASSUME UNCHANGED vars PROVE \A k \in DOMAIN release' : release'[k] \in Loops
  BY <1>2, <1>6 DEF vars
<1>7. CASE Load \/ Acquired \/ Refused \/ InitReturns \/ UndoReturns \/ ExitReturns
  BY <1>7, <1>2 DEF Load, Acquired, Refused, InitReturns, UndoReturns, ExitReturns
<1>8. ASSUME NEW o, StopThread(o) PROVE \A k \in DOMAIN release' : release'[k] \in Loops
  BY <1>8, <1>2, <1>3 DEF StopThread, Releasing
<1>9. CASE Interrupt \/ FreeIrq
  BY <1>9, <1>6 DEF Interrupt, FreeIrq, Aside
<1>10. ASSUME NEW o, Callback(o) \/ Trigger(o)
       PROVE  \A k \in DOMAIN release' : release'[k] \in Loops
  BY <1>10, <1>6 DEF Callback, Trigger, Fire, CallbackRuns, TimerRearms,
     HrtimerRestarts,
     HandlerRuns, ThreadEnters, LoopTest, LoopBody, Returns, Complete, Aside
<1>11. ASSUME NEW o,
          StopReturns(o) PROVE \A k \in DOMAIN release' : release'[k] \in Loops
  BY <1>11, <1>5 DEF StopReturns
<1>12. CASE ReleasePlain \/ DelTimer \/ TaskletKill \/ HrtimerCancel
  BY <1>12, <1>5 DEF ReleasePlain, DelTimer, TaskletKill, HrtimerCancel
<1>13. CASE UNCHANGED all
  BY <1>13, <1>6 DEF all
<1> QED
  BY <1>4, <1>7, <1>8, <1>9, <1>10, <1>11, <1>12, <1>13
     DEF DNext, DLoad, DUnload, InitStep, ExitStep, DAcquired, DRefused, DInitReturns,
         DUndoReturns, DExitReturns

----------------------------------------------------------------------------

\* Whichever drivers are loaded and unloaded, however often, with any
\* acquisition refused and their callbacks, handlers and threads at any point:
\* in every state what is held is bounded by the steps made, the releases still
\* to come cover it, and what runs is held.
THEOREM DeferredInvariant == DSpec => [](DInv /\ ThreadsOnly)
<1>1. DInit => DInv /\ ThreadsOnly
  <2> SUFFICES ASSUME DInit PROVE DInv /\ ThreadsOnly
    OBVIOUS
  <2>1. LTypes /\ ThreadsOnly
    <3>1. driver \in DOMAIN Plan
      BY DriversAssumption DEF DInit, Init
    <3> QED
      BY <3>1, Tuples DEF DInit, Init, LTypes, ThreadsOnly
  <2>2. /\ AbsentHoldsNothing /\ InitInv /\ LoadedInv /\ UndoInv /\ ReleaseInv
        /\ NothingDangles
    BY DEF DInit, Init, AbsentHoldsNothing, InitInv, LoadedInv, UndoInv, ReleaseInv,
           NothingDangles
  <2>3. DTypes
    BY DEF DInit, DTypes
  <2>4. Lively = {}
    BY DEF DInit, Lively
  <2> QED
    BY <2>1, <2>2, <2>3, <2>4 DEF DInv, LInv, Backed, WorkerOwned
<1>2. DInv /\ ThreadsOnly /\ [DNext]_all => (DInv /\ ThreadsOnly)'
  <2> SUFFICES ASSUME DInv, ThreadsOnly, [DNext]_all PROVE (DInv /\ ThreadsOnly)'
    OBVIOUS
  <2>1. LInv /\ DRest /\ PlanSound
    BY AllSound DEF DInv, DRest, LInv, LTypes
  <2>2. LInv'
    BY <2>1, DNextInv
  <2>3. DRest'
    BY <2>1, RestStep
  <2>4. ThreadsOnly'
    BY <2>1, ThreadsStep
  <2> QED
    BY <2>2, <2>3, <2>4 DEF DInv, DRest
<1> QED
  BY <1>1, <1>2, PTL DEF DSpec

\* The error paths and exit functions of all thirty drivers leave nothing
\* registered, but for the two leftovers of 022 and 007.
THEOREM NothingIsLeftBehind == DSpec => []AbsentHoldsNothing
<1>1. DInv => AbsentHoldsNothing
  BY DEF DInv, LInv
<1> QED
  BY <1>1, DeferredInvariant, PTL

\* insmod succeeds only with every object of the driver in place: always for
\* the careful drivers, unless something was refused for the others.
THEOREM LoadingIsComplete == DSpec => []LoadedIsComplete
<1>1. DInv => LoadedIsComplete
  BY DEF DInv, LInv, LoadedInv, Clean, Steps, LoadedIsComplete
<1> QED
  BY <1>1, DeferredInvariant, PTL

\* No error path, exit function or kfree releases what is not held, and
\* kthread_stop of 026 is never handed an error pointer.
THEOREM ReleasesAreHeld == DSpec => []ReleasesOnlyHeld
<1>1. DInv /\ ThreadsOnly => ReleasesOnlyHeld
  <2> SUFFICES ASSUME DInv, ThreadsOnly PROVE ReleasesOnlyHeld
    OBVIOUS
  <2>1. PlanSound /\ LTypes /\ InitInv /\ UndoInv /\ ReleaseInv
    BY AllSound DEF DInv, LInv, LTypes
  <2>2. ASSUME phase \in {"undo", "exit"}, release # <<>>, driver # "keyboard", Clean
        PROVE  Head(release) \in held
    <3>1. release \in Seq(Objects) /\ Present(held, release)
      BY <2>1, <2>2 DEF LTypes, ReleaseInv
    <3>2. 1 \in DOMAIN release /\ Head(release) = release[1]
      BY <2>2, <3>1
    <3> QED
      BY <3>1, <3>2 DEF Present
  <2>3. ASSUME phase \in {"undo", "exit"}, release # <<>>, driver = "threads"
        PROVE  Head(release) \in held \/ IsNull(Head(release))
    <3>1. /\ Len(Steps) = 2 /\ DOMAIN Steps = {1, 2}
          /\ Steps[1] = Step(One("t1"), "null", <<>>)
          /\ Steps[2] = Step(One("t2"), "null", <<>>)
      BY <2>3 DEF Steps, Plan, ThreadsPlan
    <3>2. phase = "exit"
      <4>1. at \in 1 .. Len(Steps) => Steps[at].fail = "null"
        BY <3>1 DEF Step
      <4> QED
        BY <2>1, <2>3, <4>1 DEF UndoInv
    <3>3. Head(release) \in Loops
      <4>1. release \in Seq(Objects)
        BY <2>1 DEF LTypes
      <4>2. 1 \in DOMAIN release /\ Head(release) = release[1]
        BY <2>3, <4>1
      <4> QED
        BY <2>3, <3>2, <4>2 DEF ThreadsOnly
    <3> QED
      BY <3>1, <3>3 DEF IsNull, Loops, Steps
  <2>4. ASSUME phase = "init", at <= Len(Steps), Steps[at].fail = "free"
        PROVE  Steps[at].get \in held
    <3>1. at \in 1 .. Len(Steps)
      BY <2>1, <2>4 DEF InitInv, PlanSound
    <3>2. StepSound(at)
      BY <2>1, <3>1 DEF PlanSound
    <3> QED
      BY <2>1, <2>4, <3>2 DEF StepSound, InitInv, Clean
  <2> QED
    BY <2>2, <2>3, <2>4 DEF ReleasesOnlyHeld, Clean, Current, Steps
<1> QED
  BY <1>1, DeferredInvariant, PTL

\* While loading, rolling back and unloading, nothing that is registered loses
\* what it rests on.
THEOREM NestingIsKept == DSpec => []NothingDangles
<1>1. DInv => NothingDangles
  BY DEF DInv, LInv
<1> QED
  BY <1>1, DeferredInvariant, PTL

\* Once a module is gone, nothing of it runs or is going to run but the strays
\* of 028, 030, 021 and 022: hrtimer_cancel, tasklet_kill, free_irq and
\* kthread_stop wait for what they stop.
THEOREM NothingRunsAfterUnload == DSpec => []NothingRunsOnceGone
<1>1. DInv => NothingRunsOnceGone
  <2> SUFFICES ASSUME DInv, phase = "absent" PROVE Lively \subseteq Stray
    BY DEF NothingRunsOnceGone
  <2>1. held \subseteq Leftover /\ Lively \subseteq held \cup Stray
    BY DEF DInv, LInv, AbsentHoldsNothing, Backed
  <2>2. Lively \subseteq Object
    BY DEF DInv, DTypes, Lively, Object
  <2>3. Leftover \cap Object \subseteq Stray
    BY DEF Leftover, Stray, Object, Timer, Tasklet, Work, Worker, Handler, Threads,
       Loops, One, Of
  <2> QED
    BY <2>1, <2>2, <2>3
<1> QED
  BY <1>1, DeferredInvariant, PTL
============================================================================
