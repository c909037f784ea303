---------------------------- MODULE DriverProofs ----------------------------
(***************************************************************************)
(* Proofs about the drivers that work without a lock: the character device *)
(* skeleton, the attributes of the platform drivers, the interrupt         *)
(* demonstration, the signal driver, the temperature sensor, the light and *)
(* the linked list.  For each, an inductive invariant and the theorem that *)
(* the property the run of MCDevices checks holds for any number of        *)
(* processes, values and nodes.                                            *)
(***************************************************************************)
EXTENDS Skeleton, SensorAttr, IrqDemo, SignalDriver, TempSensor, LightDevice,
        LinkedList, SequenceTheorems, NaturalsInduction, WellFoundedInduction,
        TLAPS

----------------------------------------------------------------------------
(* 011_chrdev_skeleton                                                     *)

\* The range of every variable of the skeleton.
SkelTypes ==
    /\ buffer_size \in 0 .. SKEL_SIZE
    /\ spos \in [SkelUser -> Nat]
    /\ spc \in [SkelUser -> {"idle", "clamp", "give", "take"}]
    /\ slen \in [SkelUser -> Nat]
    /\ checked \in [SkelUser -> 0 .. SKEL_SIZE]
    /\ shrunk \subseteq SkelUser

\* A write always fits; a read between its two looks at buffer_size has seen
\* its position inside the contents, and still does unless a write has
\* left it behind.
SkelBounds ==
    \A u \in SkelUser :
        /\ spc[u] = "take" => spos[u] + slen[u] <= SKEL_SIZE
        /\ spc[u] = "clamp" => /\ spos[u] < checked[u]
                               /\ u \notin shrunk => spos[u] <= buffer_size
        /\ spc[u] = "give" /\ u \notin shrunk => spos[u] + slen[u] <= SKEL_SIZE

SkelInv == SkelTypes /\ SkelBounds

\* The unsigned difference of two sizes: it wraps around only below zero.
LEMMA Difference ==
    ASSUME NEW a \in Int, NEW b \in Int, a - b <= SKEL_SIZE
    PROVE  /\ (a - b) % (SizeMax + 1) \in Nat
           /\ b <= a => (a - b) % (SizeMax + 1) = a - b
<1>1. SizeMax \in Nat /\ SKEL_SIZE \in Nat /\ SKEL_SIZE < SizeMax
  BY SkelAssumption
<1> DEFINE d == a - b
           m == SizeMax + 1
<1>2. d \in Int /\ m \in Nat /\ m > 0 /\ d < m
  BY <1>1
<1> HIDE DEF d, m
<1>3. d % m \in 0 .. m - 1
  BY <1>2
<1>4. 0 <= d => d % m = d
  BY <1>2
<1>5. b <= a => 0 <= d
  BY DEF d
<1> QED
  BY <1>2, <1>3, <1>4, <1>5 DEF d, m

\* Every step of the skeleton driver keeps its invariant.
LEMMA SkelStep == SkelInv /\ [SkelNext]_skelVars => SkelInv'
<1> SUFFICES ASSUME SkelInv, [SkelNext]_skelVars PROVE SkelInv'
  OBVIOUS
<1> USE SkelAssumption DEF SkelInv, SkelTypes, SkelBounds
<1>1. ASSUME NEW u \in SkelUser, NEW n \in SkelSeeks, Llseek(u, n)
      PROVE  SkelInv'
  BY <1>1 DEF Llseek
<1>2. ASSUME NEW u \in SkelUser, NEW n \in SkelLengths, ReadCheck(u, n)
      PROVE  SkelInv'
  BY <1>2 DEF ReadCheck, SGoto
<1>3. ASSUME NEW u \in SkelUser, NEW n \in SkelLengths, WriteClamp(u, n)
      PROVE  SkelInv'
  BY <1>3 DEF WriteClamp, SGoto, AtMost
<1>4. ASSUME NEW u \in SkelUser, ReadClamp(u) PROVE SkelInv'
  <2>1. PICK size \in {checked[u], buffer_size} :
           slen' = [slen EXCEPT ![u] = AtMost(@, (size - spos[u]) % (SizeMax + 1))]
    BY <1>4 DEF ReadClamp
  <2> DEFINE left == (size - spos[u]) % (SizeMax + 1)
  <2>2. size \in 0 .. SKEL_SIZE /\ spos[u] \in Nat /\ slen[u] \in Nat
    BY <2>1
  <2>3. left \in Nat /\ (spos[u] <= size => left = size - spos[u])
    BY <2>2, Difference
  <2> HIDE DEF left
  <2>4. /\ AtMost(slen[u], left) \in Nat
        /\ spos[u] <= size => spos[u] + AtMost(slen[u], left) <= SKEL_SIZE
    BY <2>2, <2>3 DEF AtMost
  <2>5. slen' = [slen EXCEPT ![u] = AtMost(slen[u], left)]
    BY <2>1 DEF left
  <2>6. u \notin shrunk => spos[u] <= size
    BY <1>4, <2>1, <2>2 DEF ReadClamp
  <2> QED
    BY <1>4, <2>4, <2>5, <2>6 DEF ReadClamp, SGoto
<1>5. ASSUME NEW u \in SkelUser, ReadGive(u) PROVE SkelInv'
  BY <1>5 DEF ReadGive, SkelReturns, SGoto
<1>6. ASSUME NEW u \in SkelUser, WriteFault(u) PROVE SkelInv'
  BY <1>6 DEF WriteFault, SkelReturns, SGoto
<1>7. ASSUME NEW u \in SkelUser, WriteDone(u) PROVE SkelInv'
  BY <1>7 DEF WriteDone, SkelReturns, SGoto
<1>8. CASE UNCHANGED skelVars
  BY <1>8 DEF skelVars
<1> QED
  BY <1>1, <1>2, <1>3, <1>4, <1>5, <1>6, <1>7, <1>8 DEF SkelNext

\* my_read and my_write copy from and to the inside of the buffer, for a buffer
\* of any size and any number of files; only a read that a write has left behind
\* may run on beyond the end.
THEOREM SkeletonCopiesInside == SkelSpec => []CopiesInside
<1>1. SkelInit => SkelInv
  BY SkelAssumption DEF SkelInit, SkelInv, SkelTypes, SkelBounds
<1>2. SkelInv => CopiesInside
  BY DEF SkelInv, SkelBounds, CopiesInside
<1> QED
  BY <1>1, <1>2, SkelStep, PTL DEF SkelSpec

----------------------------------------------------------------------------
(* 007, 016, 017 and 018: the attributes                                   *)

\* The range of the variables the argument needs.
AttrTypes ==
    /\ kind \in {"sensor", "gpio"}
    /\ apc \in [AttrUser -> {"idle", "keep", "load", "set"}]
    /\ doubtful \in BOOLEAN
    /\ shown \in Nat
    /\ aval \in [AttrUser -> Nat]

\* A store that is under way with another one is known to overlap, only stores
\* under way do.
OverlapKnown ==
    /\ overlap \subseteq Storing
    /\ \A u, v \in Storing : u # v => u \in overlap

\* A store on its own is about to set the hardware to what is shown; before a
\* store has kept its number, what is shown is what was set.
AttrAgree ==
    /\ \A u \in AttrUser : apc[u] = "set" /\ u \notin overlap => aval[u] = shown
    /\ ~doubtful /\ (\A u \in AttrUser : apc[u] \in {"idle", "keep"}) =>
          hardware = Level(shown)

AttrInv == AttrTypes /\ OverlapKnown /\ AttrAgree

\* Every step of a store or a show keeps the invariant of the attribute.
LEMMA AttrStep == AttrInv /\ [AttrNext]_attrVars => AttrInv'
<1> SUFFICES ASSUME AttrInv, [AttrNext]_attrVars PROVE AttrInv'
  OBVIOUS
<1> USE DEF AttrInv, AttrTypes, OverlapKnown, AttrAgree, Storing, Level
<1>1. CASE Rebind
  BY <1>1 DEF Rebind
<1>2. ASSUME NEW u \in AttrUser, NEW v \in AttrValues, StoreCall(u, v)
      PROVE  AttrInv'
  BY <1>2, AttrAssumption DEF StoreCall
<1>3. ASSUME NEW u \in AttrUser, Keep(u) PROVE AttrInv'
  BY <1>3 DEF Keep
<1>4. ASSUME NEW u \in AttrUser, NoNumber(u) PROVE AttrInv'
  BY <1>4 DEF NoNumber
<1>5. ASSUME NEW u \in AttrUser, ReadBack(u) PROVE AttrInv'
  BY <1>5 DEF ReadBack
<1>6. ASSUME NEW u \in AttrUser, SetHardware(u) PROVE AttrInv'
  <2>1. /\ u \in Storing /\ aval[u] \in Nat
        /\ apc' = [apc EXCEPT ![u] = "idle"] /\ overlap' = overlap \ {u}
        /\ hardware' = Level(aval[u]) /\ kind' = kind /\ shown' = shown
        /\ aval' = [aval EXCEPT ![u] = 0]
    BY <1>6 DEF SetHardware
  <2>2. doubtful' = (u \in overlap)
    BY <1>6, Zenon DEF SetHardware
  <2>3. doubtful' \in BOOLEAN /\ (~doubtful' => u \notin overlap)
    <3> DEFINE o == u \in overlap
    <3> HIDE DEF o
    <3>2. doubtful' = o
      BY <2>2, Zenon DEF o
    <3>3. CASE o
      BY <3>2, <3>3 DEF o
    <3>4. CASE ~o
      BY <3>2, <3>4 DEF o
    <3> QED
      BY <3>3, <3>4
  <2>4. AttrTypes' /\ OverlapKnown'
    BY <2>1, <2>3
  <2>5. ASSUME u \notin overlap PROVE hardware' = Level(shown)'
    BY <1>6, <2>1, <2>5 DEF SetHardware
  <2>6. \A v \in AttrUser : apc'[v] = "set" /\ v \notin overlap' =>
                              aval'[v] = shown'
    BY <2>1
  <2> QED
    BY <2>3, <2>4, <2>5, <2>6
<1>7. CASE UNCHANGED attrVars
  BY <1>7 DEF attrVars
<1> QED
  BY <1>1, <1>2, <1>3, <1>4, <1>5, <1>6, <1>7 DEF AttrNext

\* What control_show and value_show report is what the register or the line was
\* set to, between stores and once a store has run on its own, for any number
\* of processes that write to the attribute.
THEOREM AttributesShowWhatIsSet == AttrSpec => []ShownIsSet
<1>1. AttrInit => AttrInv
  <2> SUFFICES ASSUME AttrInit PROVE AttrInv
    OBVIOUS
  <2>1. doubtful \in BOOLEAN /\ (~doubtful => kind # "sensor")
    BY DEF AttrInit
  <2>2. kind # "sensor" => hardware = Level(shown)
    BY DEF AttrInit, Level
  <2> QED
    BY <2>1, <2>2 DEF AttrInit, AttrInv, AttrTypes, OverlapKnown, AttrAgree, Storing
<1>2. AttrInv => ShownIsSet
  BY DEF AttrInv, AttrTypes, AttrAgree, ShownIsSet, Storing
<1> QED
  BY <1>1, <1>2, AttrStep, PTL DEF AttrSpec

----------------------------------------------------------------------------
(* 021_interrupt_handler                                                   *)

\* The range of the variables the argument needs.
IrqTypes ==
    /\ count \in [Counter -> Nat]
    /\ ran \in [Counter -> Nat]
    /\ exec \in [Deferrable -> {"no", "load", "store"}]
    /\ register \in [Deferrable -> Nat]

IrqInv == IrqTypes /\ CountsExact

\* Every schedule, reset and execution keeps the invariant of the counters.
LEMMA IrqStep == IrqInv /\ [IrqNext]_irqVars => IrqInv'
<1> SUFFICES ASSUME IrqInv, [IrqNext]_irqVars PROVE IrqInv'
  OBVIOUS
<1> USE DEF IrqInv, IrqTypes, CountsExact
<1>0. Deferrable \subseteq Counter
  BY DEF Counter
<1>1. ASSUME NEW u \in IrqUser, NEW d \in Deferrable, Schedule(u, d)
      PROVE  IrqInv'
  BY <1>1 DEF Schedule
<1>2. ASSUME NEW u \in IrqUser, ResetCall(u) PROVE IrqInv'
  BY <1>2 DEF ResetCall
<1>3. ASSUME NEW u \in IrqUser, NEW c \in Counter, ResetStore(u, c)
      PROVE  IrqInv'
  BY <1>0, <1>3 DEF ResetStore
<1>4. ASSUME NEW d \in Deferrable, Begin(d) PROVE IrqInv'
  BY <1>4 DEF Begin
<1>5. ASSUME NEW d \in Deferrable, LoadCount(d) PROVE IrqInv'
  BY <1>0, <1>5 DEF LoadCount
<1>6. ASSUME NEW d \in Deferrable, StoreCount(d) PROVE IrqInv'
  BY <1>0, <1>6 DEF StoreCount
<1>7. CASE UNCHANGED irqVars
  BY <1>7 DEF irqVars
<1> QED
  BY <1>1, <1>2, <1>3, <1>4, <1>5, <1>6, <1>7 DEF IrqNext, Execution

\* tasklet_count and work_queue_count are exact without a lock, for any number of
\* users and requests, unless a reset falls into the middle of an increment.
THEOREM CountersAreExact == IrqSpec => []CountsExact
<1>1. IrqInit => IrqInv
  BY DEF IrqInit, IrqInv, IrqTypes, CountsExact, Counter
<1>2. IrqInv => CountsExact
  BY DEF IrqInv
<1> QED
  BY <1>1, <1>2, IrqStep, PTL DEF IrqSpec

----------------------------------------------------------------------------
(* 027_sig_send                                                            *)

\* The range of every variable of the signal driver.
SignalTypes ==
    /\ task \in Process \cup {NULL}
    /\ life \in [Process -> {"unborn", "running", "exiting", "dead"}]
    /\ holders \in [File -> SUBSET Process]
    /\ clearing \subseteq Process
    /\ handler \in {"idle", "send"}
    /\ sharing \subseteq Process
    /\ crossed \in BOOLEAN
    /\ registered \in Process \cup {NULL}
    /\ overtaken \in BOOLEAN

\* Only the living hold files or release them, and who never shared one holds its
\* files alone.
HoldersAlive ==
    /\ \A p \in clearing : life[p] \in {"running", "exiting"}
    /\ \A f \in File, p \in Process :
          p \in holders[f] => /\ life[p] \in {"running", "exiting"}
                              /\ p \notin sharing => holders[f] = {p}

\* A registered task that never shared a file still has one, or is on its way to
\* withdraw.
TaskHolds ==
    task # NULL /\ task \notin sharing =>
        task \in clearing \/ \E f \in File : task \in holders[f]

\* A registration that met no release half way stands, and nobody but its owner
\* is about to store NULL.
RegistrationStands ==
    registered # NULL /\ ~overtaken => task = registered /\ clearing \subseteq {registered}

\* The handler's second look finds the task of the first one.
TaskSeen == handler = "send" /\ ~crossed => task # NULL

SignalInv == SignalTypes /\ HoldersAlive /\ TaskHolds /\ RegistrationStands /\ TaskSeen

\* Every registration, release, exit and interrupt keeps the invariant of the
\* signal driver.
LEMMA SignalStep == SignalInv /\ [SignalNext]_signalVars => SignalInv'
<1> SUFFICES ASSUME SignalInv, [SignalNext]_signalVars PROVE SignalInv'
  OBVIOUS
<1> USE SignalAssumption
    DEF SignalInv, SignalTypes, HoldersAlive, TaskHolds, RegistrationStands, TaskSeen,
        processes, past, Runs
<1>1. ASSUME NEW p \in Process, NEW f \in File, Open(p, f) PROVE SignalInv'
  BY <1>1 DEF Open
<1>2. ASSUME NEW p \in Process, NEW f \in File, etx_ioctl(p, f) PROVE SignalInv'
  BY <1>2 DEF etx_ioctl
<1>3. ASSUME NEW p \in Process, NEW f \in File, Close(p, f) PROVE SignalInv'
  <2>1. /\ p \in holders[f] /\ life[p] \in {"running", "exiting"}
        /\ UNCHANGED <<task, life, handler, sharing, crossed, registered, overtaken>>
        /\ holders' = [holders EXCEPT ![f] = @ \ {p}]
    BY <1>3 DEF Close
  <2>2. CASE holders[f] # {p}
    <3>1. clearing' = clearing /\ p \in sharing
      BY <1>3, <2>1, <2>2 DEF Close
    <3> QED
      BY <2>1, <3>1
  <2>3. CASE holders[f] = {p} /\ task = p
    <3>1. clearing' = clearing \cup {p}
      BY <1>3, <2>3 DEF Close, etx_release
    <3> QED
      BY <2>1, <2>3, <3>1
  <2>4. CASE holders[f] = {p} /\ task # p
    <3>1. clearing' = clearing
      BY <1>3, <2>4 DEF Close, etx_release
    <3> QED
      BY <2>1, <2>4, <3>1
  <2> QED
    BY <2>2, <2>3, <2>4
<1>4. ASSUME NEW p \in Process, NEW q \in Process, Fork(p, q) PROVE SignalInv'
  <2>1. /\ life[p] = "running" /\ life[q] = "unborn" /\ p # q
        /\ life' = [life EXCEPT ![q] = "running"]
        /\ UNCHANGED <<task, clearing, handler, crossed, registered, overtaken>>
        /\ \A f \in File : q \notin holders[f]
    BY <1>4 DEF Fork
  <2>2. /\ holders' \in [File -> SUBSET Process]
        /\ \A f \in File : /\ p \in holders[f] => holders'[f] = holders[f] \cup {q}
                           /\ p \notin holders[f] => holders'[f] = holders[f]
    BY <1>4 DEF Fork
  <2>3. /\ sharing \subseteq sharing' /\ sharing' \subseteq Process
        /\ sharing' \subseteq sharing \cup {p, q}
        /\ (\E f \in File : p \in holders[f]) => p \in sharing' /\ q \in sharing'
    BY <1>4 DEF Fork
  <2>4. HoldersAlive'
    <3> SUFFICES ASSUME NEW f \in File, NEW r \in Process, r \in holders'[f]
                 PROVE  /\ life'[r] \in {"running", "exiting"}
                        /\ r \notin sharing' => holders'[f] = {r}
      BY <2>1
    <3>1. CASE p \in holders[f]
      BY <2>1, <2>2, <2>3, <3>1
    <3>2. CASE p \notin holders[f]
      BY <2>1, <2>2, <2>3, <3>2
    <3> QED
      BY <3>1, <3>2
  <2>5. TaskHolds'
    BY <2>1, <2>2, <2>3
  <2> QED
    BY <2>1, <2>2, <2>3, <2>4, <2>5
<1>5. ASSUME NEW p \in Process, Exit(p) PROVE SignalInv'
  BY <1>5 DEF Exit
<1>6. ASSUME NEW p \in Process, Die(p) PROVE SignalInv'
  BY <1>6 DEF Die
<1>7. ASSUME NEW p \in Process, ReleaseStores(p) PROVE SignalInv'
  <2>1. /\ p \in clearing /\ clearing' = clearing \ {p} /\ task' = NULL
        /\ registered' = (IF registered = p THEN NULL ELSE registered)
        /\ UNCHANGED <<life, holders, sharing, handler, overtaken>>
    BY <1>7 DEF ReleaseStores
  <2>2. crossed' \in BOOLEAN /\ (handler = "send" => crossed')
    BY <1>7, Zenon DEF ReleaseStores
  <2>3. RegistrationStands'
    BY <2>1
  <2> QED
    BY <2>1, <2>2, <2>3
<1>8. CASE HandlerTests
  BY <1>8 DEF HandlerTests
<1>9. CASE HandlerSends
  BY <1>9 DEF HandlerSends
<1>10. CASE UNCHANGED signalVars
  BY <1>10 DEF signalVars
<1> QED
  BY <1>1, <1>2, <1>3, <1>4, <1>5, <1>6, <1>7, <1>8, <1>9, <1>10 DEF SignalNext

\* send_sig_info is never handed a task that is gone, however many processes
\* register, fork, close and exit, as long as the registered one never shared
\* a file of the device; and a registration is wiped out by nobody but its owner
\* unless a release had made its test before.
THEOREM SignalsFindTheirTask == SignalSpec => []SignalsReachTheLiving
<1>1. SignalInit => SignalInv
  BY SignalAssumption
     DEF SignalInit, SignalInv, SignalTypes, HoldersAlive, TaskHolds,
         RegistrationStands, TaskSeen
<1>2. SignalInv => SignalsReachTheLiving
  BY SignalAssumption
     DEF SignalInv, SignalTypes, HoldersAlive, TaskHolds, RegistrationStands,
         TaskSeen, SignalsReachTheLiving
<1> QED
  BY <1>1, <1>2, SignalStep, PTL DEF SignalSpec

----------------------------------------------------------------------------
(* 004_temp_sens_atomic                                                    *)

\* The range of the variables the argument needs.
TempTypes ==
    /\ sensor \in [current_temp : Int, high_threshold : Int,
                   low_threshold : Int, alert_count : Nat]
    /\ setup \in 1 .. 5
    /\ tpc \in [Reporter -> {"idle", "high", "low", "alert"}]
    /\ new_temp \in [Reporter -> Int]
    /\ seen \in [Reporter -> [fresh : BOOLEAN, tame : BOOLEAN,
                              inside : BOOLEAN, outside : BOOLEAN]]
    /\ must \in Nat /\ may \in Nat

\* A call under way has taken note of the present thresholds; one that is to
\* count an alert was outside them.  One that has compared its temperature with
\* the high threshold, was never inside and saw the thresholds in order, is
\* still below the low one: a single assignment cannot move both thresholds past
\* the temperature.
TempNoted ==
    \A p \in Reporter : tpc[p] # "idle" =>
        /\ seen[p].tame => Ordered(sensor)
        /\ InRange(new_temp[p], sensor) => seen[p].inside
        /\ ~InRange(new_temp[p], sensor) => seen[p].outside
        /\ tpc[p] = "alert" => seen[p].outside
        /\ tpc[p] = "low" /\ seen[p].tame /\ ~seen[p].inside =>
              new_temp[p] < sensor.low_threshold

\* While temp_init assigns no call counts as fresh.
SetupFirst ==
    setup <= 4 => must = 0 /\ \A p \in Reporter : ~seen[p].fresh

TempInv ==
    /\ TempTypes /\ TempNoted /\ SetupFirst
    /\ sensor.alert_count <= may /\ must <= sensor.alert_count

\* What Change does to the notes of a call.
LEMMA ChangeNoted ==
    ASSUME TempInv, NEW s, Change(s), UNCHANGED <<tpc, new_temp>>,
           s \in [current_temp : Int, high_threshold : Int,
                  low_threshold : Int, alert_count : Nat],
           \/ s.high_threshold = sensor.high_threshold
           \/ s.low_threshold = sensor.low_threshold
    PROVE  /\ TempNoted'
           /\ seen' \in [Reporter -> [fresh : BOOLEAN, tame : BOOLEAN,
                                      inside : BOOLEAN, outside : BOOLEAN]]
           /\ \A p \in Reporter : seen'[p].fresh = seen[p].fresh
<1> USE DEF TempInv, TempTypes
<1>1. /\ sensor' = s
      /\ \A p \in Reporter : tpc[p] = "idle" => seen'[p] = seen[p]
      /\ \A p \in Reporter : tpc[p] # "idle" =>
            /\ seen'[p].fresh = seen[p].fresh
            /\ seen'[p].tame <=> seen[p].tame /\ Ordered(s)
            /\ seen'[p].inside <=> seen[p].inside \/ InRange(new_temp[p], s)
            /\ seen'[p].outside <=> seen[p].outside \/ ~InRange(new_temp[p], s)
  BY DEF Change
<1>2. seen' \in [Reporter -> [fresh : BOOLEAN, tame : BOOLEAN,
                              inside : BOOLEAN, outside : BOOLEAN]]
  BY DEF Change
<1>3. TempNoted'
  <2> SUFFICES ASSUME NEW p \in Reporter, tpc[p] # "idle"
               PROVE  /\ seen'[p].tame => Ordered(s)
                      /\ InRange(new_temp[p], s) => seen'[p].inside
                      /\ ~InRange(new_temp[p], s) => seen'[p].outside
                      /\ tpc[p] = "alert" => seen'[p].outside
                      /\ tpc[p] = "low" /\ seen'[p].tame /\ ~seen'[p].inside =>
                            new_temp[p] < s.low_threshold
    BY <1>1 DEF TempNoted
  <2>1. ASSUME tpc[p] = "low", seen'[p].tame, ~seen'[p].inside
        PROVE  new_temp[p] < s.low_threshold
    <3>1. /\ new_temp[p] < sensor.low_threshold
          /\ Ordered(s) /\ Ordered(sensor) /\ ~InRange(new_temp[p], s)
      BY <1>1, <2>1 DEF TempNoted
    <3>2. /\ new_temp[p] \in Int /\ s.low_threshold \in Int
          /\ s.high_threshold \in Int /\ sensor.low_threshold \in Int
          /\ sensor.high_threshold \in Int
      OBVIOUS
    <3> QED
      BY <3>1, <3>2 DEF Ordered, InRange
  <2> QED
    BY <1>1, <2>1 DEF TempNoted
<1> QED
  BY <1>1, <1>2, <1>3

\* The end of a call, with or without an alert.
LEMMA TempReturnsInv ==
    ASSUME TempInv, NEW p \in Reporter, TempReturns(p),
           UNCHANGED <<setup, new_temp, reports>>,
           \/ /\ sensor' = [sensor EXCEPT !.alert_count = @ + 1]
              /\ seen[p].outside
           \/ /\ sensor' = sensor
              /\ ~(seen[p].tame /\ ~seen[p].inside)
    PROVE  TempInv'
<1> USE DEF TempInv, TempTypes
<1>1. /\ tpc' = [tpc EXCEPT ![p] = "idle"]
      /\ seen' = [seen EXCEPT ![p] = Unwatched]
  BY DEF TempReturns
<1>2. /\ must' \in Nat /\ may' \in Nat /\ must <= must' /\ must' <= must + 1
      /\ ~seen[p].fresh => must' = must
      /\ ~(seen[p].tame /\ ~seen[p].inside) => must' = must
      /\ may <= may' /\ (seen[p].outside => may' = may + 1)
  BY DEF TempReturns
<1>3. /\ sensor'.low_threshold = sensor.low_threshold
      /\ sensor'.high_threshold = sensor.high_threshold
      /\ sensor' \in [current_temp : Int, high_threshold : Int,
                      low_threshold : Int, alert_count : Nat]
  OBVIOUS
<1>4. TempTypes'
  BY <1>1, <1>2, <1>3 DEF Unwatched
<1>5. TempNoted'
  BY <1>1, <1>3 DEF TempNoted, Ordered, InRange
<1>6. SetupFirst'
  BY <1>1, <1>2 DEF SetupFirst, Unwatched
<1>7. sensor'.alert_count <= may' /\ must' <= sensor'.alert_count
  BY <1>2
<1> QED
  BY <1>4, <1>5, <1>6, <1>7

\* Every step of a reporter keeps the bounds on the alert counter.
LEMMA TempStep == TempInv /\ [TempNext]_tempVars => TempInv'
<1> SUFFICES ASSUME TempInv, [TempNext]_tempVars PROVE TempInv'
  OBVIOUS
<1> USE DEF TempInv, TempTypes
<1>1. CASE TempSetup
  <2> DEFINE c == IF setup = 1 THEN 25 ELSE sensor.current_temp
             h == IF setup = 2 THEN 30 ELSE sensor.high_threshold
             l == IF setup = 3 THEN 20 ELSE sensor.low_threshold
             n == IF setup = 4 THEN 0  ELSE sensor.alert_count
             s == [sensor EXCEPT !.current_temp = c, !.high_threshold = h,
                                 !.low_threshold = l, !.alert_count = n]
  <2>1. /\ Change(s) /\ setup' = setup + 1 /\ setup <= 4
        /\ UNCHANGED <<tpc, new_temp, reports, must, may>>
    BY <1>1 DEF TempSetup
  <2>2. /\ s \in [current_temp : Int, high_threshold : Int,
                  low_threshold : Int, alert_count : Nat]
        /\ \/ s.high_threshold = sensor.high_threshold
           \/ s.low_threshold = sensor.low_threshold
        /\ s.alert_count <= sensor.alert_count
    <3>1. /\ c \in Int /\ h \in Int /\ l \in Int /\ n \in Nat
          /\ h = sensor.high_threshold \/ l = sensor.low_threshold
          /\ n <= sensor.alert_count
      OBVIOUS
    <3> HIDE DEF c, h, l, n
    <3>2. /\ s.high_threshold = h /\ s.low_threshold = l /\ s.alert_count = n
          /\ s \in [current_temp : Int, high_threshold : Int,
                    low_threshold : Int, alert_count : Nat]
      BY <3>1
    <3> HIDE DEF s
    <3> QED
      BY <3>1, <3>2
  <2> HIDE DEF s
  <2>3. sensor' = s
    BY <2>1 DEF Change
  <2>4. /\ TempNoted'
        /\ seen' \in [Reporter -> [fresh : BOOLEAN, tame : BOOLEAN,
                                   inside : BOOLEAN, outside : BOOLEAN]]
        /\ \A p \in Reporter : seen'[p].fresh = seen[p].fresh
    BY <2>1, <2>2, ChangeNoted
  <2>5. SetupFirst' /\ must' = 0
    BY <2>1, <2>4 DEF SetupFirst
  <2> QED
    BY <2>1, <2>2, <2>3, <2>4, <2>5
<1>2. ASSUME NEW p \in Reporter, NEW v \in Thresholds,
             SetHigh(p, v) \/ SetLow(p, v)
      PROVE  TempInv'
  <2>1. PICK s \in [current_temp : Int, high_threshold : Int,
                    low_threshold : Int, alert_count : Nat] :
           /\ Change(s) /\ s.alert_count = sensor.alert_count
           /\ \/ s.high_threshold = sensor.high_threshold
              \/ s.low_threshold = sensor.low_threshold
    <3>1. CASE SetHigh(p, v)
      <4> DEFINE s == [sensor EXCEPT !.high_threshold = v]
      <4>1. /\ s \in [current_temp : Int, high_threshold : Int,
                      low_threshold : Int, alert_count : Nat]
            /\ s.alert_count = sensor.alert_count
            /\ s.low_threshold = sensor.low_threshold
        BY TempAssumption
      <4>2. Change(s)
        BY <3>1 DEF SetHigh
      <4> HIDE DEF s
      <4> QED
        BY <4>1, <4>2
    <3>2. CASE SetLow(p, v)
      <4> DEFINE s == [sensor EXCEPT !.low_threshold = v]
      <4>1. /\ s \in [current_temp : Int, high_threshold : Int,
                      low_threshold : Int, alert_count : Nat]
            /\ s.alert_count = sensor.alert_count
            /\ s.high_threshold = sensor.high_threshold
        BY TempAssumption
      <4>2. Change(s)
        BY <3>2 DEF SetLow
      <4> HIDE DEF s
      <4> QED
        BY <4>1, <4>2
    <3> QED
      BY <1>2, <3>1, <3>2
  <2>2. UNCHANGED <<setup, tpc, new_temp, reports, must, may>>
    BY <1>2 DEF SetHigh, SetLow
  <2>3. sensor' = s
    BY <2>1 DEF Change
  <2>4. /\ TempNoted'
        /\ seen' \in [Reporter -> [fresh : BOOLEAN, tame : BOOLEAN,
                                   inside : BOOLEAN, outside : BOOLEAN]]
        /\ \A q \in Reporter : seen'[q].fresh = seen[q].fresh
    BY <2>1, <2>2, ChangeNoted
  <2>5. SetupFirst'
    BY <2>2, <2>4 DEF SetupFirst
  <2> QED
    BY <2>1, <2>2, <2>3, <2>4, <2>5
<1>3. ASSUME NEW p \in Reporter, NEW t \in Temps, TempWrite(p, t)
      PROVE  TempInv'
  <2>1. /\ new_temp' = [new_temp EXCEPT ![p] = t]
        /\ sensor' = [sensor EXCEPT !.current_temp = t]
        /\ tpc' = [tpc EXCEPT ![p] = "high"]
        /\ seen' = [seen EXCEPT ![p] = Watch(t, setup > 4, sensor)]
        /\ UNCHANGED <<setup, must, may>> /\ t \in Int
    BY <1>3, TempAssumption DEF TempWrite
  <2> DEFINE w == Watch(t, setup > 4, sensor)
  <2>2. /\ w \in [fresh : BOOLEAN, tame : BOOLEAN, inside : BOOLEAN,
                  outside : BOOLEAN]
        /\ w.fresh <=> setup > 4
        /\ w.tame <=> Ordered(sensor)
        /\ w.inside <=> InRange(t, sensor)
        /\ w.outside <=> ~InRange(t, sensor)
    <3> DEFINE f == setup > 4
               o == Ordered(sensor)
               i == InRange(t, sensor)
    <3>1. f \in BOOLEAN /\ o \in BOOLEAN /\ i \in BOOLEAN
      BY DEF Ordered, InRange
    <3>2. w = [fresh |-> f, tame |-> o, inside |-> i, outside |-> ~i]
      BY DEF Watch
    <3> HIDE DEF f, o, i, w
    <3>3. /\ w \in [fresh : BOOLEAN, tame : BOOLEAN, inside : BOOLEAN,
                    outside : BOOLEAN]
          /\ (w.fresh <=> f) /\ (w.tame <=> o) /\ (w.inside <=> i)
          /\ w.outside <=> ~i
      BY <3>1, <3>2
    <3> QED
      BY <3>3 DEF f, o, i
  <2>3. seen' = [seen EXCEPT ![p] = w]
    BY <2>1
  <2> HIDE DEF w
  <2>4. TempTypes'
    BY <2>1, <2>2, <2>3
  <2>5. /\ sensor'.low_threshold = sensor.low_threshold
        /\ sensor'.high_threshold = sensor.high_threshold
        /\ sensor'.alert_count = sensor.alert_count
    BY <2>1
  <2>6. TempNoted'
    BY <2>1, <2>2, <2>3, <2>5 DEF TempNoted, Ordered, InRange
  <2>7. SetupFirst'
    BY <2>1, <2>2, <2>3 DEF SetupFirst
  <2> QED
    BY <2>1, <2>4, <2>5, <2>6, <2>7
<1>4. ASSUME NEW p \in Reporter, TestHigh(p) PROVE TempInv'
  <2>1. /\ tpc[p] = "high"
        /\ UNCHANGED <<sensor, setup, new_temp, reports, seen, must, may>>
        /\ tpc' = [tpc EXCEPT ![p] = IF new_temp[p] > sensor.high_threshold
                                     THEN "alert" ELSE "low"]
    BY <1>4 DEF TestHigh
  <2>2. TempTypes' /\ SetupFirst'
    BY <2>1 DEF SetupFirst
  <2>3. /\ new_temp[p] \in Int /\ sensor.high_threshold \in Int
        /\ sensor.low_threshold \in Int
    OBVIOUS
  <2>4. /\ tpc'[p] = "alert" => ~InRange(new_temp[p], sensor)
        /\ tpc'[p] = "low" => new_temp[p] <= sensor.high_threshold
        /\ tpc'[p] \in {"alert", "low"}
    <3>1. CASE new_temp[p] > sensor.high_threshold
      BY <2>1, <2>3, <3>1 DEF InRange
    <3>2. CASE ~(new_temp[p] > sensor.high_threshold)
      BY <2>1, <2>3, <3>2
    <3> QED
      BY <3>1, <3>2
  <2>5. ASSUME tpc'[p] = "low", seen[p].tame, ~seen[p].inside
        PROVE  new_temp[p] < sensor.low_threshold
    BY <2>1, <2>3, <2>4, <2>5 DEF TempNoted, InRange
  <2>6. TempNoted'
    BY <2>1, <2>4, <2>5 DEF TempNoted, InRange, Ordered
  <2> QED
    BY <2>1, <2>2, <2>6
<1>5. ASSUME NEW p \in Reporter, TestLow(p) PROVE TempInv'
  <2>1. CASE TempReturns(p) /\ new_temp[p] >= sensor.low_threshold
    <3>1. ~(seen[p].tame /\ ~seen[p].inside)
      BY <1>5, <2>1 DEF TestLow, TempNoted
    <3>2. sensor' = sensor /\ UNCHANGED <<setup, new_temp, reports>>
      BY <1>5 DEF TestLow
    <3> QED
      BY <2>1, <3>1, <3>2, TempReturnsInv
  <2>2. CASE /\ new_temp[p] < sensor.low_threshold
             /\ tpc' = [tpc EXCEPT ![p] = "alert"]
             /\ UNCHANGED <<seen, must, may>>
    <3>1. UNCHANGED <<sensor, setup, new_temp, reports>> /\ tpc[p] = "low"
      BY <1>5 DEF TestLow
    <3>2. TempTypes' /\ SetupFirst'
      BY <2>2, <3>1 DEF SetupFirst
    <3>3. TempNoted'
      BY <2>2, <3>1 DEF TempNoted, InRange, Ordered
    <3> QED
      BY <2>2, <3>1, <3>2, <3>3
  <2> QED
    BY <1>5, <2>1, <2>2 DEF TestLow
<1>6. ASSUME NEW p \in Reporter, Alert(p) PROVE TempInv'
  <2>1. seen[p].outside /\ TempReturns(p) /\ UNCHANGED <<setup, new_temp, reports>>
        /\ sensor' = [sensor EXCEPT !.alert_count = @ + 1]
    BY <1>6 DEF Alert, TempNoted
  <2> QED
    BY <2>1, TempReturnsInv
<1>7. CASE UNCHANGED tempVars
  BY <1>7 DEF tempVars, TempNoted, SetupFirst, InRange, Ordered
<1> QED
  BY <1>1, <1>2, <1>3, <1>4, <1>5, <1>6, <1>7 DEF TempNext

\* The alerts of temp_write add up for any number of processes, temperatures and
\* thresholds.
THEOREM AlertsAddUp == TempSpec => []AlertsAccounted
<1>1. TempInit => TempInv
  BY DEF TempInit, TempInv, TempTypes, TempNoted, SetupFirst, Unwatched
<1>2. TempInv => AlertsAccounted
  BY DEF TempInv, AlertsAccounted
<1> QED
  BY <1>1, <1>2, TempStep, PTL DEF TempSpec

----------------------------------------------------------------------------
(* 005_atomic_light                                                        *)

Triple == [state : Int, brightness : Int, temperature : Int]

\* The range of every variable of the light.
LightTypes ==
    /\ light \in Triple /\ status \in Triple
    /\ lpc \in [LightUser -> {"idle", "w1", "w2", "w3", "r1", "r2", "r3", "give"}]
    /\ local \in [LightUser -> Triple]
    /\ tainted \in BOOLEAN
    /\ was \in [LightUser -> Seq(Triple)]

\* Writes that are under way together are known to overlap, only writes under
\* way do.
ClashKnown ==
    /\ clash \subseteq Writing
    /\ \A u, v \in Writing : u # v => u \in clash

\* A write on its own has left its values in the light so far; between writes the
\* light is as it should be.
WriteSettles ==
    /\ \A u \in Writing \ clash :
          /\ lpc[u] \in {"w2", "w3"} => light.state = local[u].state
          /\ lpc[u] = "w3" => light.brightness = local[u].brightness
    /\ Writing = {} /\ ~tainted => light = status

\* Two lights that differ in one integer at most.
OneApart(a, b) ==
    \/ a.state = b.state /\ a.brightness = b.brightness
    \/ a.state = b.state /\ a.temperature = b.temperature
    \/ a.brightness = b.brightness /\ a.temperature = b.temperature

\* What the read of u has loaded so far agrees with the light l.
LoadedFrom(u, l) ==
    /\ lpc[u] \in {"r2", "r3", "give"} => local[u].state = Shown(l).state
    /\ lpc[u] \in {"r3", "give"} => local[u].brightness = Shown(l).brightness
    /\ lpc[u] = "give" => local[u].temperature = Shown(l).temperature

\* The lights a read has noted are at most two, one integer apart, the last of
\* them the present one; what was loaded is from one of them.
ReadNoted ==
    \A u \in LightUser : was[u] # <<>> =>
        /\ lpc[u] \in {"r1", "r2", "r3", "give"}
        /\ Len(was[u]) \in {1, 2}
        /\ lpc[u] # "give" => was[u][Len(was[u])] = light
        /\ Len(was[u]) = 2 => OneApart(was[u][1], was[u][2])
        /\ \E i \in 1 .. Len(was[u]) : LoadedFrom(u, was[u][i])

LightInv == LightTypes /\ ClashKnown /\ WriteSettles /\ ReadNoted

\* Two lights with the same integers are the same.
LEMMA TripleEqual ==
    ASSUME NEW a \in Triple, NEW b \in Triple, a.state = b.state,
           a.brightness = b.brightness, a.temperature = b.temperature
    PROVE  a = b
<1>1. a = [state |-> a.state, brightness |-> a.brightness,
           temperature |-> a.temperature]
  BY DEF Triple
<1>2. b = [state |-> b.state, brightness |-> b.brightness,
           temperature |-> b.temperature]
  BY DEF Triple
<1> QED
  BY <1>1, <1>2

\* A read shows three integers.
LEMMA ShownType ==
    ASSUME NEW l \in Triple PROVE Shown(l) \in Triple
<1>1. l.brightness \in Int /\ l.temperature \in Int
  BY DEF Triple
<1>2. l.brightness % 256 \in Int /\ l.temperature % 256 \in Int
  BY <1>1
<1> QED
  BY <1>2 DEF Shown, Triple

\* Append leaves the first element of a sequence where it is.
LEMMA AppendKeepsFirst ==
    ASSUME NEW S, NEW w \in Seq(S), NEW l \in S, Len(w) >= 1
    PROVE  Append(w, l)[1] = w[1]
OBVIOUS

\* A second light is noted.
LEMMA AppendSecond ==
    ASSUME NEW S, NEW w \in Seq(S), NEW l \in S, Len(w) = 1
    PROVE  /\ w # <<>> /\ Len(Append(w, l)) = 2
           /\ Append(w, l)[1] = w[1] /\ Append(w, l)[2] = l
<1>1. Len(Append(w, l)) = 2 /\ Append(w, l)[2] = l
  BY AppendProperties
<1>2. Append(w, l)[1] = w[1]
  <2>1. Len(w) >= 1
    OBVIOUS
  <2> QED
    BY <2>1, AppendKeepsFirst, Zenon
<1>3. w # <<>>
  BY EmptySeq
<1> QED
  BY <1>1, <1>2, <1>3

\* One atomic_set, as the reads under way see it.
LEMMA SetNoted ==
    ASSUME LightInv, NEW l \in Triple, OneApart(light, l), Set(l),
           \A u \in LightUser : was[u] # <<>> =>
               lpc'[u] = lpc[u] /\ local'[u] = local[u]
    PROVE  /\ ReadNoted' /\ light' = l
           /\ was' \in [LightUser -> Seq(Triple)]
<1> USE DEF LightInv, LightTypes
<1>1. light' = l
  BY DEF Set
<1>2. ASSUME NEW u \in LightUser
      PROVE  \/ u \in Reading /\ Len(was[u]) = 1 /\ was'[u] = Append(was[u], l)
             \/ was'[u] = <<>>
             \/ /\ was'[u] = was[u]
                /\ u \notin Reading \/ Len(was[u]) \notin {1, 2}
  BY DEF Set
<1>3. was' \in [LightUser -> Seq(Triple)]
  <2>1. \A u \in LightUser : was'[u] \in Seq(Triple)
    <3> SUFFICES ASSUME NEW u \in LightUser PROVE was'[u] \in Seq(Triple)
      OBVIOUS
    <3>1. was[u] \in Seq(Triple)
      OBVIOUS
    <3>2. Append(was[u], l) \in Seq(Triple) /\ <<>> \in Seq(Triple)
      BY <3>1
    <3> QED
      BY <1>2, <3>1, <3>2
  <2>2. /\ DOMAIN was' = LightUser
        /\ was' = [u \in DOMAIN was' |-> was'[u]]
    BY DEF Set
  <2> QED
    BY <2>1, <2>2
<1>4. ReadNoted'
  <2> SUFFICES ASSUME NEW u \in LightUser, was'[u] # <<>>
               PROVE  /\ lpc'[u] \in {"r1", "r2", "r3", "give"}
                      /\ Len(was'[u]) \in {1, 2}
                      /\ lpc'[u] # "give" => was'[u][Len(was'[u])] = l
                      /\ Len(was'[u]) = 2 => OneApart(was'[u][1], was'[u][2])
                      /\ \E i \in 1 .. Len(was'[u]) : LoadedFrom(u, was[u][i])'
    BY <1>1 DEF ReadNoted, OneApart
  <2>1. CASE u \in Reading /\ Len(was[u]) = 1 /\ was'[u] = Append(was[u], l)
    <3>1. /\ Len(was'[u]) = 2 /\ was'[u][1] = was[u][1] /\ was'[u][2] = l
          /\ was[u] # <<>>
      <4>1. was[u] \in Seq(Triple)
        OBVIOUS
      <4> HIDE DEF LightInv, LightTypes
      <4> QED
        BY <2>1, <4>1, AppendSecond
    <3>2. lpc[u] # "give" /\ was[u][1] = light /\ LoadedFrom(u, was[u][1])
      BY <2>1, <3>1 DEF ReadNoted, Reading
    <3>3. LoadedFrom(u, was[u][1])' /\ 1 \in 1 .. 2
      BY <3>1, <3>2 DEF LoadedFrom
    <3>4. OneApart(was'[u][1], was'[u][2])
      BY <3>1, <3>2
    <3>5. \E i \in 1 .. 2 : LoadedFrom(u, was[u][i])'
      BY <3>3
    <3>6. lpc'[u] \in {"r1", "r2", "r3", "give"}
      BY <3>1 DEF ReadNoted
    <3> HIDE DEF LightInv, LightTypes
    <3> QED
      BY <3>1, <3>4, <3>5, <3>6
  <2>2. CASE was'[u] = was[u] /\ (u \notin Reading \/ Len(was[u]) \notin {1, 2})
    BY <2>2 DEF ReadNoted, Reading, LoadedFrom
  <2> QED
    BY <1>2, <2>1, <2>2
<1> QED
  BY <1>1, <1>3, <1>4

\* A step that leaves the light and the reads under way alone.
LEMMA SameNoted ==
    ASSUME LightInv, light' = light, was' = was,
           \A u \in LightUser : was[u] # <<>> =>
               lpc'[u] = lpc[u] /\ local'[u] = local[u]
    PROVE  ReadNoted'
BY DEF LightInv, ReadNoted, LoadedFrom, OneApart

\* light_write, from its call to its last store.
LEMMA LightWriteInv ==
    ASSUME LightInv, NEW u \in LightUser, NEW s \in Statuses, LightWrite(u, s)
    PROVE  LightInv'
<1> USE DEF LightInv, LightTypes
<1>0. s \in Triple
  <2>1. s \in lightStatus
    BY LightAssumption
  <2>2. s = [state |-> s.state, brightness |-> s.brightness,
             temperature |-> s.temperature]
    BY <2>1 DEF lightStatus
  <2>3. /\ s.state \in {0, 1}
        /\ s.brightness \in 0 .. 255 /\ s.temperature \in 0 .. 255
    BY <2>1 DEF lightStatus
  <2> HIDE DEF LightInv, LightTypes
  <2>4. s.state \in Int /\ s.brightness \in Int /\ s.temperature \in Int
    BY <2>3
  <2> QED
    BY <2>2, <2>4 DEF Triple
<1>1. /\ lpc[u] = "idle" /\ lpc' = [lpc EXCEPT ![u] = "w1"]
      /\ local' = [local EXCEPT ![u] = s]
      /\ clash' = IF Writing = {} THEN clash ELSE clash \cup Writing \cup {u}
      /\ UNCHANGED <<light, status, tainted, was>>
  BY DEF LightWrite, LGoto
<1>2. Writing' = Writing \cup {u} /\ u \notin Writing
  BY <1>1 DEF Writing
<1>3. LightTypes'
  BY <1>0, <1>1
<1>4. ClashKnown'
  BY <1>1, <1>2 DEF ClashKnown
<1>5. WriteSettles'
  <2>1. Writing' # {}
    BY <1>2
  <2>2. \A v \in Writing' \ clash' : lpc'[v] = "w1"
    BY <1>1, <1>2 DEF ClashKnown, Writing
  <2> QED
    BY <2>1, <2>2 DEF WriteSettles
<1>6. ReadNoted'
  <2>1. was[u] = <<>>
    BY <1>1 DEF ReadNoted
  <2> QED
    BY <1>1, <2>1, SameNoted
<1> QED
  BY <1>3, <1>4, <1>5, <1>6

\* The first two stores of a write.
LEMMA LightStoreInv ==
    ASSUME LightInv, NEW u \in LightUser, StoreState(u) \/ StoreBrightness(u)
    PROVE  LightInv'
<1> USE DEF LightInv, LightTypes
<1>1. PICK l \in Triple :
         /\ Set(l) /\ OneApart(light, l)
         /\ \/ /\ lpc[u] = "w1" /\ lpc' = [lpc EXCEPT ![u] = "w2"]
               /\ l.state = local[u].state
            \/ /\ lpc[u] = "w2" /\ lpc' = [lpc EXCEPT ![u] = "w3"]
               /\ l.state = light.state /\ l.brightness = local[u].brightness
  <2>1. CASE StoreState(u)
    <3> DEFINE l == [light EXCEPT !.state = local[u].state]
    <3>1. l \in Triple /\ OneApart(light, l) /\ l.state = local[u].state
      BY DEF Triple, OneApart
    <3>2. Set(l) /\ lpc[u] = "w1" /\ lpc' = [lpc EXCEPT ![u] = "w2"]
      BY <2>1 DEF StoreState, LGoto
    <3> HIDE DEF l
    <3> QED
      BY <3>1, <3>2
  <2>2. CASE StoreBrightness(u)
    <3> DEFINE l == [light EXCEPT !.brightness = local[u].brightness]
    <3>1. l \in Triple /\ OneApart(light, l) /\ l.state = light.state
          /\ l.brightness = local[u].brightness
      BY DEF Triple, OneApart
    <3>2. Set(l) /\ lpc[u] = "w2" /\ lpc' = [lpc EXCEPT ![u] = "w3"]
      BY <2>2 DEF StoreBrightness, LGoto
    <3> HIDE DEF l
    <3> QED
      BY <3>1, <3>2
  <2> QED
    BY <2>1, <2>2
<1>2. UNCHANGED <<local, status, tainted, clash>> /\ light' = l
  BY <1>1 DEF StoreState, StoreBrightness, Set
<1>3. Writing' = Writing /\ u \in Writing
  BY <1>1 DEF Writing
<1>4. ReadNoted' /\ was' \in [LightUser -> Seq(Triple)]
  <2>1. was[u] = <<>>
    BY <1>1 DEF ReadNoted
  <2> QED
    BY <1>1, <1>2, <2>1, SetNoted
<1>5. LightTypes'
  BY <1>1, <1>2, <1>4
<1>6. ClashKnown'
  BY <1>2, <1>3 DEF ClashKnown
<1>7. WriteSettles'
  <2>1. \A v \in Writing \ clash : v = u
    BY <1>3 DEF ClashKnown
  <2>2. Writing' # {}
    BY <1>3
  <2>3. \A v \in Writing \ clash :
           /\ lpc'[v] \in {"w2", "w3"} => l.state = local[v].state
           /\ lpc'[v] = "w3" => l.brightness = local[v].brightness
    BY <1>1, <2>1 DEF WriteSettles
  <2> QED
    BY <1>2, <1>3, <2>2, <2>3 DEF WriteSettles
<1> QED
  BY <1>4, <1>5, <1>6, <1>7

\* The last store of a write, and its return.
LEMMA LightWrittenInv ==
    ASSUME LightInv, NEW u \in LightUser, StoreTemperature(u)
    PROVE  LightInv'
<1> USE DEF LightInv, LightTypes
<1> DEFINE l == [light EXCEPT !.temperature = local[u].temperature]
<1>1. /\ lpc[u] = "w3" /\ lpc' = [lpc EXCEPT ![u] = "idle"] /\ Set(l)
      /\ clash' = clash \ {u} /\ local' = [local EXCEPT ![u] = Dark]
      /\ status' = IF u \in clash THEN status ELSE local[u]
  BY DEF StoreTemperature, LGoto
<1>2. /\ l \in Triple /\ OneApart(light, l) /\ l.state = light.state
      /\ l.brightness = light.brightness /\ l.temperature = local[u].temperature
  BY DEF Triple, OneApart
<1>3. tainted' \in BOOLEAN /\ (u \in clash => tainted')
  <2> DEFINE o == u \in clash
  <2> HIDE DEF o
  <2>1. tainted' = o
    BY Zenon DEF StoreTemperature, o
  <2>2. CASE o
    BY <2>1, <2>2 DEF o
  <2>3. CASE ~o
    BY <2>1, <2>3 DEF o
  <2> QED
    BY <2>2, <2>3
<1> HIDE DEF l
<1>4. Writing' = Writing \ {u} /\ u \in Writing
  BY <1>1 DEF Writing
<1>5. ReadNoted' /\ was' \in [LightUser -> Seq(Triple)] /\ light' = l
  <2>1. was[u] = <<>>
    BY <1>1 DEF ReadNoted
  <2> QED
    BY <1>1, <1>2, <2>1, SetNoted
<1>6. LightTypes'
  <2>1. Dark \in Triple
    BY DEF Dark, Triple
  <2> QED
    BY <1>1, <1>2, <1>3, <1>5, <2>1
<1>7. ClashKnown'
  BY <1>1, <1>4 DEF ClashKnown
<1>8. WriteSettles'
  <2>1. \A v \in Writing' \ clash' : FALSE
    BY <1>1, <1>4 DEF ClashKnown
  <2>2. ASSUME u \notin clash PROVE light' = status'
    <3>1. light.state = local[u].state /\ light.brightness = local[u].brightness
      BY <1>1, <1>4, <2>2 DEF WriteSettles
    <3>2. local[u] \in Triple
      OBVIOUS
    <3>3. l = local[u]
      BY <1>2, <3>1, <3>2, TripleEqual
    <3> QED
      BY <1>1, <1>5, <2>2, <3>3
  <2> QED
    BY <1>3, <2>1, <2>2 DEF WriteSettles
<1> QED
  BY <1>5, <1>6, <1>7, <1>8

\* light_read begins.
LEMMA LightReadInv ==
    ASSUME LightInv, NEW u \in LightUser, LightRead(u)
    PROVE  LightInv'
<1> USE DEF LightInv, LightTypes
<1>1. /\ lpc[u] = "idle" /\ lpc' = [lpc EXCEPT ![u] = "r1"]
      /\ was' = [was EXCEPT ![u] = <<light>>]
      /\ UNCHANGED <<light, local, status, tainted, clash>>
  BY DEF LightRead, LGoto
<1>2. Writing' = Writing
  BY <1>1 DEF Writing
<1>3. <<light>> \in Seq(Triple) /\ Len(<<light>>) = 1 /\ <<light>>[1] = light
  OBVIOUS
<1>4. LightTypes'
  BY <1>1, <1>3
<1>5. ClashKnown' /\ WriteSettles'
  BY <1>1, <1>2 DEF ClashKnown, WriteSettles, Writing
<1>6. ReadNoted'
  <2> SUFFICES ASSUME NEW v \in LightUser, was'[v] # <<>>
               PROVE  /\ lpc'[v] \in {"r1", "r2", "r3", "give"}
                      /\ Len(was'[v]) \in {1, 2}
                      /\ lpc'[v] # "give" => was'[v][Len(was'[v])] = light
                      /\ Len(was'[v]) = 2 => OneApart(was'[v][1], was'[v][2])
                      /\ \E i \in 1 .. Len(was'[v]) : LoadedFrom(v, was[v][i])'
    BY <1>1 DEF ReadNoted, OneApart
  <2>1. CASE v = u
    <3>1. was'[v] = <<light>> /\ lpc'[v] = "r1"
      BY <1>1, <2>1
    <3>2. LoadedFrom(v, was[v][1])' /\ 1 \in 1 .. Len(was'[v])
      BY <1>3, <3>1 DEF LoadedFrom
    <3> QED
      BY <1>3, <3>1, <3>2
  <2>2. CASE v # u
    BY <1>1, <2>2 DEF ReadNoted, LoadedFrom, OneApart
  <2> QED
    BY <2>1, <2>2
<1> QED
  BY <1>4, <1>5, <1>6

\* One atomic_read: what is loaded now agrees with the present light, and if the
\* light has changed since the read began, with one of the two.
LEMMA LightLoadInv ==
    ASSUME LightInv, NEW u \in LightUser,
           LoadState(u) \/ LoadBrightness(u) \/ LoadTemperature(u)
    PROVE  LightInv'
<1> USE DEF LightInv, LightTypes
<1>1. /\ UNCHANGED <<light, status, tainted, clash, was>>
      /\ local' \in [LightUser -> Triple]
      /\ \A v \in LightUser : v # u => local'[v] = local[v]
      /\ \/ /\ lpc[u] = "r1" /\ lpc' = [lpc EXCEPT ![u] = "r2"]
            /\ local'[u].state = Shown(light).state
         \/ /\ lpc[u] = "r2" /\ lpc' = [lpc EXCEPT ![u] = "r3"]
            /\ local'[u].state = local[u].state
            /\ local'[u].brightness = Shown(light).brightness
         \/ /\ lpc[u] = "r3" /\ lpc' = [lpc EXCEPT ![u] = "give"]
            /\ local'[u].state = local[u].state
            /\ local'[u].brightness = local[u].brightness
            /\ local'[u].temperature = Shown(light).temperature
  <2> DEFINE s == Shown(light)
  <2>1. s \in Triple /\ local[u] \in Triple
    BY ShownType
  <2> HIDE DEF s
  <2>2. CASE LoadState(u)
    <3>1. local' = [local EXCEPT ![u]["state"] = s["state"]]
      BY <2>2 DEF LoadState, Fetch, s
    <3>2. /\ local' \in [LightUser -> Triple] /\ local'[u].state = s.state
          /\ \A v \in LightUser : v # u => local'[v] = local[v]
      BY <2>1, <3>1 DEF Triple
    <3> QED
      BY <2>2, <3>2 DEF LoadState, Fetch, LGoto, s
  <2>3. CASE LoadBrightness(u)
    BY <2>1, <2>3 DEF LoadBrightness, Fetch, LGoto, Triple, s
  <2>4. CASE LoadTemperature(u)
    BY <2>1, <2>4 DEF LoadTemperature, Fetch, LGoto, Triple, s
  <2> QED
    BY <2>2, <2>3, <2>4
<1>2. Writing' = Writing /\ u \notin Writing
  BY <1>1 DEF Writing
<1>3. LightTypes'
  BY <1>1
<1>4. ClashKnown' /\ WriteSettles'
  BY <1>1, <1>2 DEF ClashKnown, WriteSettles, Writing
<1>5. ASSUME was[u] # <<>>
      PROVE  \E i \in 1 .. Len(was[u]) : LoadedFrom(u, was[u][i])'
  <2>1. PICK i \in 1 .. Len(was[u]) : LoadedFrom(u, was[u][i])
    BY <1>5 DEF ReadNoted
  <2>2. /\ Len(was[u]) \in {1, 2} /\ was[u][Len(was[u])] = light
        /\ Len(was[u]) = 2 => OneApart(was[u][1], was[u][2])
    BY <1>1, <1>5 DEF ReadNoted
  <2>3. CASE was[u][i] = light
    BY <1>1, <2>1, <2>3 DEF LoadedFrom
  <2>4. CASE was[u][i] # light
    <3> HIDE DEF LightInv, LightTypes
    <3>1. i = 1 /\ Len(was[u]) = 2 /\ was[u][2] = light
      <4>1. i # Len(was[u])
        BY <2>2, <2>4
      <4> DEFINE n == Len(was[u])
      <4>2. n \in {1, 2} /\ i \in 1 .. n /\ i # n
        BY <2>1, <2>2, <4>1
      <4> HIDE DEF n
      <4>3. i = 1 /\ n = 2
        BY <4>2
      <4> QED
        BY <2>2, <4>3 DEF n
    <3> DEFINE a == was[u][1]
    <3>2. OneApart(a, light) /\ LoadedFrom(u, a) /\ a' = a
      BY <1>1, <2>1, <2>2, <3>1
    <3>3. lpc'[u] \in {"r2", "r3", "give"} /\ u \in DOMAIN lpc
      BY <1>1 DEF LightInv, LightTypes
    <3> HIDE DEF a
    <3>4. LoadedFrom(u, a)' \/ LoadedFrom(u, light)'
      <4>1. CASE lpc[u] = "r1"
        BY <1>1, <3>3, <4>1 DEF LoadedFrom
      <4>2. CASE lpc[u] = "r2"
        BY <1>1, <3>2, <3>3, <4>2 DEF LoadedFrom, OneApart, Shown
      <4>3. CASE lpc[u] = "r3"
        BY <1>1, <3>2, <3>3, <4>3 DEF LoadedFrom, OneApart, Shown
      <4> QED
        BY <1>1, <4>1, <4>2, <4>3
    <3>5. was[u][1]' = a' /\ was[u][2]' = light' /\ 1 \in 1 .. Len(was[u])
          /\ 2 \in 1 .. Len(was[u])
      BY <1>1, <3>1 DEF a
    <3> QED
      BY <3>4, <3>5
  <2> QED
    BY <2>3, <2>4
<1>6. ReadNoted'
  <2> SUFFICES ASSUME NEW v \in LightUser, was[v] # <<>>
               PROVE  /\ lpc'[v] \in {"r1", "r2", "r3", "give"}
                      /\ Len(was[v]) \in {1, 2}
                      /\ lpc'[v] # "give" => was[v][Len(was[v])] = light
                      /\ Len(was[v]) = 2 => OneApart(was[v][1], was[v][2])
                      /\ \E i \in 1 .. Len(was[v]) : LoadedFrom(v, was[v][i])'
    BY <1>1 DEF ReadNoted, OneApart
  <2>1. CASE v = u
    <3>1. lpc'[u] \in {"r2", "r3", "give"} /\ lpc[u] # "give"
      BY <1>1
    <3> QED
      BY <1>5, <2>1, <3>1 DEF ReadNoted
  <2>2. CASE v # u
    <3>1. lpc'[v] = lpc[v] /\ local'[v] = local[v] /\ was' = was
      BY <1>1, <2>2
    <3>2. \A i \in 1 .. Len(was[v]) :
             LoadedFrom(v, was[v][i]) => LoadedFrom(v, was[v][i])'
      BY <3>1 DEF LoadedFrom
    <3> QED
      BY <3>1, <3>2 DEF ReadNoted
  <2> QED
    BY <2>1, <2>2
<1> QED
  BY <1>3, <1>4, <1>6

\* light_read returns.
LEMMA LightGiveInv ==
    ASSUME LightInv, NEW u \in LightUser, Give(u)
    PROVE  LightInv'
<1> USE DEF LightInv, LightTypes
<1>1. /\ lpc[u] = "give" /\ lpc' = [lpc EXCEPT ![u] = "idle"]
      /\ was' = [was EXCEPT ![u] = <<>>]
      /\ local' = [local EXCEPT ![u] = Dark]
      /\ UNCHANGED <<light, status, tainted, clash>>
  BY DEF Give, LGoto
<1>2. Writing' = Writing /\ u \notin Writing
  BY <1>1 DEF Writing
<1>3. LightTypes'
  <2>1. Dark \in Triple /\ <<>> \in Seq(Triple)
    BY DEF Dark, Triple
  <2> QED
    BY <1>1, <2>1
<1>4. ClashKnown' /\ WriteSettles'
  BY <1>1, <1>2 DEF ClashKnown, WriteSettles, Writing
<1>5. ReadNoted'
  BY <1>1 DEF ReadNoted, LoadedFrom, OneApart
<1> QED
  BY <1>3, <1>4, <1>5

\* A command of light_ioctl.
LEMMA LightCommandInv ==
    ASSUME LightInv, NEW u \in LightUser, NEW v \in Int,
           NEW field \in {"state", "brightness"}, Command(u, field, v)
    PROVE  LightInv'
<1> USE DEF LightInv, LightTypes
<1> DEFINE l == [light EXCEPT ![field] = v]
           s == [status EXCEPT ![field] = v]
<1>1. /\ lpc[u] = "idle" /\ Set(l) /\ UNCHANGED <<lpc, local>>
      /\ clash' = clash \cup Writing
      /\ status' = IF Writing = {} THEN s ELSE status
  BY DEF Command
<1>2. /\ tainted' \in BOOLEAN
      /\ Writing = {} /\ ~tainted' => ~tainted
      /\ Writing # {} => tainted'
  BY DEF Command
<1>3. /\ l \in Triple /\ s \in Triple /\ OneApart(light, l)
      /\ light = status => l = s
  BY DEF Triple, OneApart
<1> HIDE DEF l, s
<1>4. Writing' = Writing
  BY <1>1 DEF Writing
<1>5. ReadNoted' /\ was' \in [LightUser -> Seq(Triple)] /\ light' = l
  BY <1>1, <1>3, SetNoted
<1>6. LightTypes'
  BY <1>1, <1>2, <1>3, <1>5
<1>7. ClashKnown'
  BY <1>1, <1>4 DEF ClashKnown
<1>8. WriteSettles'
  BY <1>1, <1>2, <1>3, <1>4, <1>5 DEF WriteSettles
<1> QED
  BY <1>5, <1>6, <1>7, <1>8

\* Every step of the light device keeps its invariant.
LEMMA LightStep == LightInv /\ [LightNext]_lightVars => LightInv'
<1> SUFFICES ASSUME LightInv, [LightNext]_lightVars PROVE LightInv'
  OBVIOUS
<1>1. CASE UNCHANGED lightVars
  BY <1>1 DEF lightVars, LightInv, LightTypes, ClashKnown, WriteSettles, Writing,
              ReadNoted, LoadedFrom, OneApart
<1>2. ASSUME NEW u \in LightUser,
             LED_ON(u) \/ LED_OFF(u) \/ \E v \in Brightness : LED_SET_BRIGHTNESS(u, v)
      PROVE  LightInv'
  <2>1. PICK v \in Int, field \in {"state", "brightness"} : Command(u, field, v)
    BY <1>2, LightAssumption DEF LED_ON, LED_OFF, LED_SET_BRIGHTNESS
  <2> QED
    BY <2>1, LightCommandInv
<1> QED
  BY <1>1, <1>2, LightWriteInv, LightStoreInv, LightWrittenInv, LightReadInv,
     LightLoadInv, LightGiveInv DEF LightNext

\* Three separate atomics still give a whole status, for any number of processes
\* and statuses: between writes to whom it is owed, and to a read during which
\* at most one of them was set.
THEOREM LightStatusWhole == LightSpec => []StatusWhole
<1>1. LightInit => LightInv
  <2> SUFFICES ASSUME LightInit PROVE LightInv
    OBVIOUS
  <2>1. Dark \in Triple /\ <<>> \in Seq(Triple)
    BY DEF Dark, Triple
  <2> QED
    BY <2>1 DEF LightInit, LightInv, LightTypes, ClashKnown, WriteSettles, Writing,
                ReadNoted
<1>2. LightInv => StatusWhole
  <2> SUFFICES ASSUME LightInv PROVE StatusWhole
    OBVIOUS
  <2>1. ASSUME NEW u \in LightUser, lpc[u] = "give", was[u] # <<>>
        PROVE  \E i \in DOMAIN was[u] : local[u] = Shown(was[u][i])
    <3>1. PICK i \in 1 .. Len(was[u]) : LoadedFrom(u, was[u][i])
      BY <2>1 DEF LightInv, ReadNoted
    <3>2. was[u] \in Seq(Triple) /\ local[u] \in Triple
      BY DEF LightInv, LightTypes
    <3>3. was[u][i] \in Triple /\ i \in DOMAIN was[u]
      BY <3>1, <3>2
    <3>4. Shown(was[u][i]) \in Triple
      BY <3>3, ShownType
    <3> DEFINE s == Shown(was[u][i])
    <3>5. /\ s.state = local[u].state /\ s.brightness = local[u].brightness
          /\ s.temperature = local[u].temperature
      BY <2>1, <3>1 DEF LoadedFrom
    <3>6. s = local[u]
      BY <3>2, <3>4, <3>5, TripleEqual
    <3> QED
      BY <3>3, <3>6
  <2> QED
    BY <2>1 DEF LightInv, WriteSettles, StatusWhole
<1> QED
  BY <1>1, <1>2, LightStep, PTL DEF LightSpec
----------------------------------------------------------------------------
(* 024_linked_list                                                         *)

\* Where a link can point, and the nodes with the head.
Linked == Node \cup {Head_Node}

\* The range of every variable of the list.
ListTypes ==
    /\ next \in [Linked -> Linked \cup {POISON}]
    /\ prev \in [Linked -> Linked \cup {POISON}]
    /\ data \in [Node -> Nat]
    /\ allocated \subseteq Node
    /\ call \in 1 .. Len(Script) + 1
    /\ cursor \in allocated \cup {Head_Node, POISON}
    /\ visited \in Seq(Node)
    /\ added \in [Linked -> Nat]

\* Every node on the list was added by a call of its own, before this one.
AddedBefore ==
    /\ added[Head_Node] = 0
    /\ \A n \in allocated : added[n] > 0 /\ added[n] < call
    /\ \A n, m \in allocated : added[n] = added[m] => n = m

\* The nodes the loop has left behind, in the direction of the list.
Passed(n) == cursor = Head_Node \/ added[n] < added[cursor]
PassedBack(n) == cursor = Head_Node \/ added[n] > added[cursor]

\* A walk has come by what it has left behind.
WalkSoFar(name) ==
    /\ tmp = POISON
    /\ expected = allocated
    /\ name = "traverse" => Forward(visited, {n \in allocated : Passed(n)})
    /\ name = "reverse" => Backward(visited, {n \in allocated : PassedBack(n)})

\* A deleting loop has noted the successor of its cursor, and has deleted what
\* should go of what it has left behind.
LoopSoFar(name) ==
    /\ tmp = next[cursor]
    /\ expected = {n \in allocated : Passed(n) \/ ~Deletes(name, n)}

\* Between two calls; the last walk is still known.
AtRest ==
    /\ tmp = POISON
    /\ expected = allocated
    /\ call > 1 /\ Script[call - 1][1] = "traverse" => Forward(visited, allocated)
    /\ call > 1 /\ Script[call - 1][1] = "reverse" => Backward(visited, allocated)

CallSoFar ==
    /\ cursor = POISON => AtRest
    /\ cursor # POISON =>
          /\ call <= Len(Script)
          /\ Script[call][1] # "add"
          /\ Script[call][1] \in {"traverse", "reverse"} => WalkSoFar(Script[call][1])
          /\ Script[call][1] \in {"remove", "cleanup"} => LoopSoFar(Script[call][1])

ListInv == ListTypes /\ AddedBefore /\ Ring(allocated) /\ CallSoFar

----------------------------------------------------------------------------

\* The calls of the script have names and numbers.
LEMMA ScriptCalls ==
    /\ Len(Script) \in Nat
    /\ \A i \in 1 .. Len(Script) : Script[i][2] \in Nat
    /\ \A i \in 1 .. Len(Script) :
          Script[i][1] \in {"add", "traverse", "reverse", "remove", "cleanup"}
BY DEF Script

\* A set of natural numbers has a least element.
LEMMA LeastInside ==
    ASSUME NEW S \in SUBSET Nat, S # {}
    PROVE  Min(S) \in S
<1> DEFINE R == OpToRel(<, Nat)
<1>1. IsWellFoundedOn(R, Nat)
  BY NatLessThanWellFounded
<1>2. PICK m \in S : \A n \in S : ~(<<n, m>> \in R)
  <2> HIDE DEF R
  <2> QED
    BY <1>1, WFMin
<1>3. R = {p \in Nat \X Nat : p[1] < p[2]}
  BY Zenon DEF OpToRel
<1> HIDE DEF R
<1>4. \A n \in S : n < m => <<n, m>> \in R
  BY <1>3
<1>5. \A n \in S : ~(n < m) /\ n \in Nat /\ m \in Nat
  BY <1>2, <1>4
<1>6. \A n \in S : m <= n
  BY <1>5
<1> QED
  BY <1>6 DEF Min

\* What stands in the order of insertion where.
LEMMA OrderFacts ==
    ASSUME ListInv
    PROVE  /\ \A a \in allocated \cup {Head_Node} : added[a] \in Nat /\ a \in Linked
           /\ \A a, b \in allocated \cup {Head_Node} : added[a] = added[b] => a = b
           /\ \A a \in allocated : added[Head_Node] < added[a] /\ a # Head_Node
           /\ \A a \in allocated \cup {Head_Node} : a # POISON
           /\ Head_Node # POISON
BY NodeAssumption DEF ListInv, ListTypes, AddedBefore, Linked, Head_Node, POISON

\* Follows, for a given order of insertion.
After(w, a, b, nodes) ==
    /\ a \in nodes \cup {Head_Node} /\ b \in nodes \cup {Head_Node}
    /\ b # Head_Node => w[a] < w[b]
    /\ \A n \in nodes : w[a] < w[n] => b # Head_Node /\ ~(w[n] < w[b])

\* The ring in terms of After, before and after a step.
LEMMA RingAfter ==
    /\ Ring(allocated) <=> \A a \in allocated \cup {Head_Node} :
                              /\ After(added, a, next[a], allocated)
                              /\ After(added, prev[a], a, allocated)
    /\ Ring(allocated)' <=> \A a \in allocated' \cup {Head_Node} :
                              /\ After(added', a, next'[a], allocated')
                              /\ After(added', prev'[a], a, allocated')
BY DEF Ring, Follows, After, Head_Node

\* list_add_tail: the new node comes after all others.
LEMMA AddRing ==
    ASSUME ListInv, AddNode PROVE Ring(allocated)'
<1> DEFINE n == Min(Node \ allocated)
           last == prev[Head_Node]
           A == allocated
           H == Head_Node
<1>1. n \in Node \ allocated
  BY NodeAssumption, LeastInside DEF AddNode
<1>0. \A a \in A \cup {H} : After(added, a, next[a], A) /\ After(added, prev[a], a, A)
  BY RingAfter DEF ListInv
<1>2. /\ last \in A \cup {H}
      /\ \A a \in A : ~(added[last] < added[a])
  BY <1>0 DEF After
<1>3. /\ allocated' = A \cup {n} /\ n # H /\ n # last
      /\ next' = [next EXCEPT ![last] = n, ![n] = H]
      /\ prev' = [prev EXCEPT ![H] = n, ![n] = last]
      /\ added' = [added EXCEPT ![n] = call]
  BY <1>1, <1>2, NodeAssumption DEF AddNode, Head_Node
<1>h. /\ n \in Linked /\ H \in Linked /\ last \in Linked
      /\ \A a \in A \cup {H} : a # n
      /\ call \in Nat /\ next \in [Linked -> Linked \cup {POISON}]
      /\ prev \in [Linked -> Linked \cup {POISON}] /\ added \in [Linked -> Nat]
      /\ \A a \in A : added[a] < call
      /\ added[H] = 0 /\ 0 < call
  <2>1. call \in Nat /\ 0 < call
    BY ScriptCalls DEF ListInv, ListTypes
  <2>2. last \in Linked /\ n \in Linked /\ H \in Linked
    BY <1>1, <1>2 DEF ListInv, ListTypes, Linked
  <2>3. \A a \in A \cup {H} : a # n
    BY <1>1, <1>3
  <2> QED
    BY <2>1, <2>2, <2>3 DEF ListInv, ListTypes, AddedBefore
<1> HIDE DEF n, last, A, H
<1>4. /\ next'[last] = n /\ next'[n] = H
      /\ \A a \in A \cup {H} : a # last => next'[a] = next[a]
      /\ prev'[H] = n /\ prev'[n] = last
      /\ \A a \in A : prev'[a] = prev[a]
      /\ added'[n] = call /\ call \in Nat
      /\ \A a \in A \cup {H} : added'[a] = added[a] /\ added[a] < call
  BY <1>1, <1>2, <1>3, <1>h, OrderFacts DEF A, H
<1>5. ASSUME NEW a \in A \cup {H}, a # last, next[a] = H PROVE FALSE
  <2>1. \A b \in A : ~(added[a] < added[b])
    BY <1>0, <1>5 DEF After, H
  <2>2. added[a] \in Nat /\ added[last] \in Nat /\ added[a] # added[last]
    BY <1>2, <1>5, OrderFacts DEF A, H
  <2>3. CASE last = H
    BY <1>2, <1>5, <2>2, <2>3, OrderFacts DEF A, H
  <2>4. CASE last \in A
    <3>1. added[last] < added[a]
      BY <2>1, <2>2, <2>4
    <3> QED
      BY <1>2, <1>5, <2>2, <2>4, <3>1, OrderFacts DEF A, H
  <2> QED
    BY <1>2, <2>3, <2>4
<1>6. ASSUME NEW a \in A \cup {H}, a # last
      PROVE  After(added', a, next'[a], A \cup {n})
  BY <1>0, <1>1, <1>4, <1>5, <1>6, OrderFacts DEF After, A, H
<1>7. After(added', last, n, A \cup {n}) /\ After(added', n, H, A \cup {n})
  BY <1>1, <1>2, <1>4, OrderFacts DEF After, A, H
<1>8. ASSUME NEW a \in A PROVE After(added', prev'[a], a, A \cup {n})
  BY <1>0, <1>1, <1>4, OrderFacts DEF After, A, H
<1> QED
  BY <1>3, <1>4, <1>6, <1>7, <1>8, RingAfter DEF A, H

\* Two nodes that one and the same node follows are the same.
LEMMA AfterOne ==
    ASSUME ListInv, NEW a, NEW b, NEW c \in allocated,
           After(added, a, c, allocated), After(added, b, c, allocated)
    PROVE  a = b
<1>1. /\ added[a] \in Nat /\ added[b] \in Nat /\ added[c] \in Nat
      /\ a \in allocated \cup {Head_Node} /\ b \in allocated \cup {Head_Node}
      /\ added[a] < added[c] /\ added[b] < added[c]
  BY OrderFacts DEF After
<1>2. ASSUME added[a] < added[b] PROVE FALSE
  <2>1. b \in allocated
    BY <1>1, <1>2, OrderFacts
  <2> QED
    BY <1>1, <1>2, <2>1 DEF After
<1>3. ASSUME added[b] < added[a] PROVE FALSE
  <2>1. a \in allocated
    BY <1>1, <1>3, OrderFacts
  <2> QED
    BY <1>1, <1>3, <2>1 DEF After
<1>4. added[a] = added[b]
  BY <1>1, <1>2, <1>3
<1> QED
  BY <1>1, <1>4, OrderFacts

\* Two nodes that follow one and the same node are the same.
LEMMA BeforeOne ==
    ASSUME ListInv, NEW a, NEW b, NEW c \in allocated,
           After(added, c, a, allocated), After(added, c, b, allocated)
    PROVE  a = b
<1>1. /\ a \in allocated \cup {Head_Node} /\ b \in allocated \cup {Head_Node}
      /\ a \in allocated => added[c] < added[a] /\ added[a] \in Nat
      /\ b \in allocated => added[c] < added[b] /\ added[b] \in Nat
      /\ added[c] \in Nat
  BY OrderFacts DEF After
<1>2. CASE a = Head_Node \/ b = Head_Node
  BY <1>1, <1>2, OrderFacts DEF After
<1>3. CASE a \in allocated /\ b \in allocated
  <2>1. ~(added[a] < added[b]) /\ ~(added[b] < added[a])
    BY <1>1, <1>3, OrderFacts DEF After
  <2>2. added[a] = added[b]
    BY <1>1, <1>3, <2>1
  <2> QED
    BY <1>3, <2>2, OrderFacts
<1> QED
  BY <1>1, <1>2, <1>3

\* list_del: the neighbours of the node are linked to each other.
LEMMA DeleteRing ==
    ASSUME ListInv, cursor \in allocated, UNCHANGED added,
           next' = Unlinked(next, prev), prev' = Unlinked(prev, next),
           allocated' = allocated \ {cursor}
    PROVE  Ring(allocated)'
<1> DEFINE c == cursor
           p == prev[c]
           q == next[c]
           A == allocated
           B == allocated \ {c}
           H == Head_Node
<1>1. \A a \in A \cup {H} : After(added, a, next[a], A) /\ After(added, prev[a], a, A)
  BY RingAfter DEF ListInv
<1>2. /\ After(added, p, c, A) /\ After(added, c, q, A)
      /\ p \in A \cup {H} /\ q \in A \cup {H} /\ added[p] < added[c]
      /\ q # H => added[c] < added[q]
  BY <1>1, OrderFacts DEF After
<1>3. p # c /\ q # c /\ c # H /\ p \in B \cup {H} /\ q \in B \cup {H}
  BY <1>2, OrderFacts
<1>4. /\ next \in [Linked -> Linked \cup {POISON}]
      /\ prev \in [Linked -> Linked \cup {POISON}]
      /\ \A a \in A \cup {H} : a \in Linked
  BY OrderFacts DEF ListInv, ListTypes
<1>5. /\ next' = [next EXCEPT ![p] = q, ![c] = POISON]
      /\ prev' = [prev EXCEPT ![q] = p, ![c] = POISON]
      /\ allocated' = B /\ added' = added
  BY DEF Unlinked
<1> HIDE DEF c, p, q, A, B, H
<1>6. /\ next'[p] = q /\ prev'[q] = p
      /\ \A a \in B \cup {H} : /\ a # p => next'[a] = next[a]
                               /\ a # q => prev'[a] = prev[a]
  BY <1>2, <1>3, <1>4, <1>5 DEF A, B, H
<1>7. After(added, p, q, B)
  <2>1. \A n \in B : /\ ~(added[p] < added[n] /\ added[n] < added[c])
                     /\ added[c] < added[n] => q # H /\ ~(added[n] < added[q])
                     /\ added[n] \in Nat /\ added[n] # added[c]
    BY <1>2, <1>3, OrderFacts DEF After, A, B, H, c
  <2>2. /\ added[p] \in Nat /\ added[c] \in Nat
        /\ q # H => added[q] \in Nat /\ added[p] < added[q]
    BY <1>2, OrderFacts DEF A, H, c
  <2> QED
    BY <1>2, <1>3, <2>1, <2>2 DEF After, H
<1>8. ASSUME NEW a \in B \cup {H}, a # p PROVE After(added, a, next[a], B)
  <2>1. After(added, a, next[a], A)
    BY <1>1 DEF A, B, H
  <2>2. next[a] # c
    BY <1>2, <1>8, <2>1, AfterOne DEF A, c
  <2> QED
    BY <2>1, <2>2 DEF After, A, B, H
<1>9. ASSUME NEW a \in B \cup {H}, a # q PROVE After(added, prev[a], a, B)
  <2>1. After(added, prev[a], a, A)
    BY <1>1 DEF A, B, H
  <2>2. prev[a] # c
    BY <1>2, <1>9, <2>1, BeforeOne DEF A, c
  <2> QED
    BY <2>1, <2>2 DEF After, A, B, H
<1>10. ASSUME NEW a \in B \cup {H}
       PROVE  After(added, a, next'[a], B) /\ After(added, prev'[a], a, B)
  BY <1>6, <1>7, <1>8, <1>9
<1> QED
  BY <1>5, <1>10, RingAfter DEF H

----------------------------------------------------------------------------
\* A node at the end of a sequence.
LEMMA ToSetAppend ==
    ASSUME NEW w \in Seq(Node), NEW e \in Node
    PROVE  /\ Append(w, e) \in Seq(Node)
           /\ ToSet(Append(w, e)) = ToSet(w) \cup {e}
           /\ DOMAIN Append(w, e) = 1 .. Len(w) + 1
           /\ \A i \in 1 .. Len(w) : Append(w, e)[i] = w[i] /\ w[i] \in ToSet(w)
           /\ Append(w, e)[Len(w) + 1] = e
           /\ Len(w) \in Nat
<1>1. /\ Append(w, e) \in Seq(Node) /\ Len(w) \in Nat
      /\ Len(Append(w, e)) = Len(w) + 1
      /\ \A i \in 1 .. Len(w) : Append(w, e)[i] = w[i]
      /\ Append(w, e)[Len(w) + 1] = e
      /\ DOMAIN w = 1 .. Len(w)
      /\ DOMAIN Append(w, e) = 1 .. Len(w) + 1
  OBVIOUS
<1>2. \A i \in 1 .. Len(w) : w[i] \in ToSet(w)
  BY <1>1 DEF ToSet
<1> DEFINE x == Append(w, e)
<1> HIDE DEF x
<1>3. ToSet(x) = ToSet(w) \cup {e}
  BY <1>1 DEF ToSet, x
<1> QED
  BY <1>1, <1>2, <1>3 DEF x

\* A walk takes another step in the order of insertion, or against it.
LEMMA ForwardAppend ==
    ASSUME NEW w \in Seq(Node), NEW e \in Node, NEW S, Forward(w, S),
           \A n \in S : added[n] < added[e]
    PROVE  Forward(Append(w, e), S \cup {e})
<1> DEFINE x == Append(w, e)
<1>1. /\ ToSet(x) = S \cup {e} /\ DOMAIN x = 1 .. Len(w) + 1 /\ Len(w) \in Nat
      /\ \A i \in 1 .. Len(w) : x[i] = w[i] /\ w[i] \in S
      /\ x[Len(w) + 1] = e /\ DOMAIN w = 1 .. Len(w)
  BY ToSetAppend DEF Forward
<1> HIDE DEF x
<1>2. ASSUME NEW i \in DOMAIN x, NEW j \in DOMAIN x, i < j
      PROVE  added[x[i]] < added[x[j]]
  <2>1. i \in 1 .. Len(w)
    BY <1>1, <1>2
  <2>2. CASE j = Len(w) + 1
    BY <1>1, <2>1, <2>2
  <2>3. CASE j \in 1 .. Len(w)
    BY <1>1, <1>2, <2>1, <2>3 DEF Forward
  <2> QED
    BY <1>1, <2>2, <2>3
<1> QED
  BY <1>1, <1>2 DEF Forward, x

\* The same against the order.
LEMMA BackwardAppend ==
    ASSUME NEW w \in Seq(Node), NEW e \in Node, NEW S, Backward(w, S),
           \A n \in S : added[n] > added[e]
    PROVE  Backward(Append(w, e), S \cup {e})
<1> DEFINE x == Append(w, e)
<1>1. /\ ToSet(x) = S \cup {e} /\ DOMAIN x = 1 .. Len(w) + 1 /\ Len(w) \in Nat
      /\ \A i \in 1 .. Len(w) : x[i] = w[i] /\ w[i] \in S
      /\ x[Len(w) + 1] = e /\ DOMAIN w = 1 .. Len(w)
  BY ToSetAppend DEF Backward
<1> HIDE DEF x
<1>2. ASSUME NEW i \in DOMAIN x, NEW j \in DOMAIN x, i < j
      PROVE  added[x[i]] > added[x[j]]
  <2>1. i \in 1 .. Len(w)
    BY <1>1, <1>2
  <2>2. CASE j = Len(w) + 1
    BY <1>1, <2>1, <2>2
  <2>3. CASE j \in 1 .. Len(w)
    BY <1>1, <1>2, <2>1, <2>3 DEF Backward
  <2> QED
    BY <1>1, <2>2, <2>3
<1> QED
  BY <1>1, <1>2 DEF Backward, x

\* What is left behind when a loop moves on along next: nothing at its start,
\* then the node it stood on.
LEMMA PassedMoves ==
    ASSUME ListInv
    PROVE  /\ \A n \in allocated :
                 /\ next[Head_Node] # Head_Node /\ ~(added[n] < added[next[Head_Node]])
                 /\ prev[Head_Node] # Head_Node /\ ~(added[n] > added[prev[Head_Node]])
           /\ \A n, c \in allocated :
                 /\ (next[c] = Head_Node \/ added[n] < added[next[c]])
                        <=> (added[n] < added[c] \/ n = c)
                 /\ (prev[c] = Head_Node \/ added[n] > added[prev[c]])
                        <=> (added[n] > added[c] \/ n = c)
           /\ \A a \in allocated \cup {Head_Node} :
                 next[a] \in allocated \cup {Head_Node} /\ prev[a] \in allocated \cup {Head_Node}
<1>1. \A a \in allocated \cup {Head_Node} :
         /\ After(added, a, next[a], allocated) /\ After(added, prev[a], a, allocated)
         /\ next[a] \in allocated \cup {Head_Node} /\ prev[a] \in allocated \cup {Head_Node}
  BY RingAfter DEF ListInv, After
<1>2. ASSUME NEW n \in allocated
      PROVE  next[Head_Node] # Head_Node /\ ~(added[n] < added[next[Head_Node]])
  BY <1>1, OrderFacts DEF After
<1>3. ASSUME NEW n \in allocated, NEW c \in allocated
      PROVE  (next[c] = Head_Node \/ added[n] < added[next[c]])
                <=> (added[n] < added[c] \/ n = c)
  <2>1. After(added, c, next[c], allocated) /\ next[c] \in allocated \cup {Head_Node}
    BY <1>1
  <2>2. added[n] \in Nat /\ added[c] \in Nat /\ added[next[c]] \in Nat
    BY <2>1, OrderFacts
  <2>3. added[n] = added[c] <=> n = c
    BY OrderFacts
  <2> QED
    BY <2>1, <2>2, <2>3 DEF After
<1>4. ASSUME NEW n \in allocated
      PROVE  prev[Head_Node] # Head_Node /\ ~(added[n] > added[prev[Head_Node]])
  BY <1>1, OrderFacts DEF After
<1>5. ASSUME NEW n \in allocated, NEW c \in allocated
      PROVE  (prev[c] = Head_Node \/ added[n] > added[prev[c]])
                <=> (added[n] > added[c] \/ n = c)
  <2>1. After(added, prev[c], c, allocated) /\ prev[c] \in allocated \cup {Head_Node}
    BY <1>1
  <2>2. added[n] \in Nat /\ added[c] \in Nat /\ added[prev[c]] \in Nat
    BY <2>1, OrderFacts
  <2>3. (added[n] = added[c] <=> n = c) /\ c # Head_Node /\ added[Head_Node] < added[n]
    BY OrderFacts
  <2> QED
    BY <2>1, <2>2, <2>3 DEF After
<1> QED
  BY <1>1, <1>2, <1>3, <1>4, <1>5

----------------------------------------------------------------------------
\* add_node appends a node.
LEMMA AddNodeStep ==
    ASSUME ListInv, AddNode PROVE ListInv'
<1> DEFINE n == Min(Node \ allocated)
           last == prev[Head_Node]
<1>1. n \in Node \ allocated
  BY NodeAssumption, LeastInside DEF AddNode
<1>2. /\ call \in Nat /\ call > 0 /\ call <= Len(Script) /\ Len(Script) \in Nat
      /\ Script[call][1] = "add" /\ Script[call][2] \in Nat
  BY ScriptCalls DEF ListInv, ListTypes, AddNode, Calling
<1>3. cursor = POISON /\ AtRest
  BY <1>2 DEF ListInv, CallSoFar
<1>4. last \in allocated \cup {Head_Node} /\ last \in Linked /\ n \in Linked
      /\ Head_Node \in Linked
  BY <1>1, PassedMoves, OrderFacts DEF ListInv, ListTypes, Linked
<1>5. /\ allocated' = allocated \cup {n}
      /\ data' = [data EXCEPT ![n] = Script[call][2]]
      /\ next' = [next EXCEPT ![last] = n, ![n] = Head_Node]
      /\ prev' = [prev EXCEPT ![Head_Node] = n, ![n] = last]
      /\ expected' = expected \cup {n}
      /\ added' = [added EXCEPT ![n] = call]
      /\ call' = call + 1
      /\ cursor' = cursor /\ tmp' = tmp /\ visited' = visited
  BY DEF AddNode, Argument
<1> HIDE DEF n, last
<1>6. ListTypes'
  <2>1. /\ next' \in [Linked -> Linked \cup {POISON}]
        /\ prev' \in [Linked -> Linked \cup {POISON}]
    BY <1>4, <1>5 DEF ListInv, ListTypes
  <2>2. data' \in [Node -> Nat] /\ added' \in [Linked -> Nat]
    BY <1>1, <1>2, <1>4, <1>5 DEF ListInv, ListTypes
  <2>3. allocated' \subseteq Node /\ call' \in 1 .. Len(Script) + 1
    BY <1>1, <1>2, <1>5 DEF ListInv, ListTypes
  <2> QED
    BY <1>3, <1>5, <2>1, <2>2, <2>3 DEF ListInv, ListTypes
<1>7. AddedBefore'
  <2>1. /\ added'[n] = call /\ n # Head_Node
        /\ \A a \in Linked : a # n => added'[a] = added[a]
    BY <1>1, <1>4, <1>5, NodeAssumption DEF ListInv, ListTypes, Head_Node
  <2>2. \A a \in allocated : a # n /\ a \in Linked
    BY <1>1, OrderFacts
  <2> QED
    BY <1>2, <1>4, <1>5, <2>1, <2>2, OrderFacts DEF ListInv, ListTypes, AddedBefore
<1>8. CallSoFar'
  <2>1. call' - 1 = call
    BY <1>2, <1>5
  <2> QED
    BY <1>2, <1>3, <1>5, <2>1 DEF CallSoFar, AtRest
<1> QED
  BY <1>6, <1>7, <1>8, AddRing DEF ListInv

\* add_node returns without a node.
LEMMA AddFailsStep ==
    ASSUME ListInv, AddFails PROVE ListInv'
<1>1. /\ call \in Nat /\ call > 0 /\ call <= Len(Script) /\ Len(Script) \in Nat
      /\ Script[call][1] = "add"
  BY ScriptCalls DEF ListInv, ListTypes, AddFails, Calling
<1>2. cursor = POISON /\ AtRest
  BY <1>1 DEF ListInv, CallSoFar
<1>3. call' = call + 1 /\ call' - 1 = call
  BY <1>1 DEF AddFails
<1>4. ListTypes' /\ AddedBefore'
  BY <1>1, <1>3, OrderFacts DEF AddFails, ListInv, ListTypes, AddedBefore
<1>5. Ring(allocated)'
  BY RingAfter DEF AddFails, ListInv
<1>6. CallSoFar'
  BY <1>1, <1>2, <1>3 DEF AddFails, CallSoFar, AtRest
<1> QED
  BY <1>4, <1>5, <1>6 DEF ListInv

\* A step that leaves the list alone.
LEMMA SameRing ==
    ASSUME ListInv, UNCHANGED <<next, prev, data, allocated, added>>,
           call' \in 1 .. Len(Script) + 1, call' >= call,
           cursor' \in allocated \cup {Head_Node, POISON}, visited' \in Seq(Node)
    PROVE  ListTypes' /\ AddedBefore' /\ Ring(allocated)'
<1>1. ListTypes'
  BY DEF ListInv, ListTypes
<1>2. AddedBefore'
  <2>1. call \in Nat /\ call' \in Nat /\ \A n \in allocated : added[n] \in Nat
    BY OrderFacts, ScriptCalls DEF ListInv, ListTypes
  <2> QED
    BY <2>1 DEF ListInv, AddedBefore
<1>3. Ring(allocated)'
  BY RingAfter DEF ListInv
<1> QED
  BY <1>1, <1>2, <1>3

\* traverse_list.
LEMMA TraverseStep ==
    ASSUME ListInv, TraverseList PROVE ListInv'
<1> USE DEF TraverseList, Walk
<1>1. /\ call \in Nat /\ call > 0 /\ call <= Len(Script) /\ Len(Script) \in Nat
      /\ Script[call][1] = "traverse" /\ Head_Node # POISON
  BY ScriptCalls, OrderFacts DEF ListInv, ListTypes, Calling
<1>2. UNCHANGED <<next, prev, data, allocated, tmp, expected, added>>
  OBVIOUS
<1>3. CASE cursor = POISON
  <2>1. cursor' = next[Head_Node] /\ visited' = <<>> /\ call' = call
    BY <1>1, <1>3
  <2>2. cursor' \in allocated \cup {Head_Node} /\ cursor' # POISON
    BY <2>1, PassedMoves, OrderFacts
  <2>3. tmp = POISON /\ expected = allocated
    BY <1>3 DEF ListInv, CallSoFar, AtRest
  <2>4. \A n \in allocated : ~Passed(n)'
    BY <1>2, <2>1, PassedMoves DEF Passed
  <2>5. Forward(visited, {n \in allocated : Passed(n)})'
    BY <1>2, <2>1, <2>4 DEF Forward, ToSet
  <2>6. CallSoFar'
    BY <1>1, <1>2, <2>1, <2>2, <2>3, <2>5 DEF CallSoFar, WalkSoFar
  <2>7. <<>> \in Seq(Node) /\ call' \in 1 .. Len(Script) + 1 /\ call' >= call
    BY <1>1, <2>1
  <2> QED
    BY <1>2, <2>1, <2>2, <2>6, <2>7, SameRing DEF ListInv
<1>4. CASE cursor \in allocated
  <2>1. /\ cursor \notin {POISON, Head_Node} /\ visited \in Seq(Node)
        /\ cursor \in Node
    BY <1>4, OrderFacts DEF ListInv, ListTypes
  <2>2. cursor' = next[cursor] /\ visited' = Append(visited, cursor) /\ call' = call
    BY <1>4, <2>1
  <2>3. cursor' \in allocated \cup {Head_Node} /\ cursor' # POISON
    BY <1>4, <2>2, PassedMoves, OrderFacts
  <2>4. /\ tmp = POISON /\ expected = allocated
        /\ Forward(visited, {n \in allocated : Passed(n)})
    BY <1>1, <2>1 DEF ListInv, CallSoFar, WalkSoFar
  <2> DEFINE S == {n \in allocated : Passed(n)}
             T == {n \in allocated : cursor' = Head_Node \/ added[n] < added[cursor']}
  <2>5. T = S \cup {cursor}
    BY <1>4, <2>1, <2>2, PassedMoves DEF Passed
  <2>6. \A n \in S : added[n] < added[cursor]
    BY <2>1 DEF Passed
  <2>7. Forward(Append(visited, cursor), S \cup {cursor})
    <3> HIDE DEF S, T
    <3> QED
      BY <2>1, <2>4, <2>6, ForwardAppend DEF S
  <2>8. Forward(visited, {n \in allocated : Passed(n)})'
    <3>1. {n \in allocated : Passed(n)}' = S \cup {cursor}
      BY <1>2, <2>5 DEF Passed
    <3> HIDE DEF S, T
    <3> QED
      BY <1>2, <2>2, <2>7, <3>1 DEF Forward
  <2>9. CallSoFar'
    <3> HIDE DEF S, T
    <3> QED
      BY <1>1, <1>2, <2>2, <2>3, <2>4, <2>8 DEF CallSoFar, WalkSoFar
  <2>10. visited' \in Seq(Node) /\ call' \in 1 .. Len(Script) + 1 /\ call' >= call
    BY <1>1, <2>1, <2>2
  <2> QED
    BY <1>2, <2>3, <2>9, <2>10, SameRing DEF ListInv
<1>5. CASE cursor = Head_Node
  <2>1. cursor' = POISON /\ visited' = visited /\ call' = call + 1 /\ call' - 1 = call
    BY <1>1, <1>5
  <2>2. /\ tmp = POISON /\ expected = allocated
        /\ Forward(visited, {n \in allocated : Passed(n)})
    BY <1>1, <1>5 DEF ListInv, CallSoFar, WalkSoFar
  <2>3. {n \in allocated : Passed(n)} = allocated
    BY <1>5 DEF Passed
  <2>4. Forward(visited, allocated)'
    BY <1>2, <2>1, <2>2, <2>3 DEF Forward
  <2>5. CallSoFar'
    BY <1>1, <1>2, <2>1, <2>2, <2>4 DEF CallSoFar, AtRest
  <2>6. visited' \in Seq(Node) /\ call' \in 1 .. Len(Script) + 1 /\ call' >= call
    BY <1>1, <2>1 DEF ListInv, ListTypes
  <2> QED
    BY <1>2, <2>1, <2>5, <2>6, SameRing DEF ListInv
<1> QED
  BY <1>3, <1>4, <1>5 DEF ListInv, ListTypes

\* traverse_list_reverse.
LEMMA ReverseStep ==
    ASSUME ListInv, TraverseListReverse PROVE ListInv'
<1> USE DEF TraverseListReverse, Walk
<1>1. /\ call \in Nat /\ call > 0 /\ call <= Len(Script) /\ Len(Script) \in Nat
      /\ Script[call][1] = "reverse" /\ Head_Node # POISON
  BY ScriptCalls, OrderFacts DEF ListInv, ListTypes, Calling
<1>2. UNCHANGED <<next, prev, data, allocated, tmp, expected, added>>
  OBVIOUS
<1>3. CASE cursor = POISON
  <2>1. cursor' = prev[Head_Node] /\ visited' = <<>> /\ call' = call
    BY <1>1, <1>3
  <2>2. cursor' \in allocated \cup {Head_Node} /\ cursor' # POISON
    BY <2>1, PassedMoves, OrderFacts
  <2>3. tmp = POISON /\ expected = allocated
    BY <1>3 DEF ListInv, CallSoFar, AtRest
  <2>4. \A n \in allocated : ~PassedBack(n)'
    BY <1>2, <2>1, PassedMoves DEF PassedBack
  <2>5. Backward(visited, {n \in allocated : PassedBack(n)})'
    BY <1>2, <2>1, <2>4 DEF Backward, ToSet
  <2>6. CallSoFar'
    BY <1>1, <1>2, <2>1, <2>2, <2>3, <2>5 DEF CallSoFar, WalkSoFar
  <2>7. <<>> \in Seq(Node) /\ call' \in 1 .. Len(Script) + 1 /\ call' >= call
    BY <1>1, <2>1
  <2> QED
    BY <1>2, <2>1, <2>2, <2>6, <2>7, SameRing DEF ListInv
<1>4. CASE cursor \in allocated
  <2>1. /\ cursor \notin {POISON, Head_Node} /\ visited \in Seq(Node)
        /\ cursor \in Node
    BY <1>4, OrderFacts DEF ListInv, ListTypes
  <2>2. cursor' = prev[cursor] /\ visited' = Append(visited, cursor) /\ call' = call
    BY <1>4, <2>1
  <2>3. cursor' \in allocated \cup {Head_Node} /\ cursor' # POISON
    BY <1>4, <2>2, PassedMoves, OrderFacts
  <2>4. /\ tmp = POISON /\ expected = allocated
        /\ Backward(visited, {n \in allocated : PassedBack(n)})
    BY <1>1, <2>1 DEF ListInv, CallSoFar, WalkSoFar
  <2> DEFINE S == {n \in allocated : PassedBack(n)}
             T == {n \in allocated : cursor' = Head_Node \/ added[n] > added[cursor']}
  <2>5. T = S \cup {cursor}
    BY <1>4, <2>1, <2>2, PassedMoves DEF PassedBack
  <2>6. \A n \in S : added[n] > added[cursor]
    BY <2>1 DEF PassedBack
  <2>7. Backward(Append(visited, cursor), S \cup {cursor})
    <3> HIDE DEF S, T
    <3> QED
      BY <2>1, <2>4, <2>6, BackwardAppend DEF S
  <2>8. Backward(visited, {n \in allocated : PassedBack(n)})'
    <3>1. {n \in allocated : PassedBack(n)}' = S \cup {cursor}
      BY <1>2, <2>5 DEF PassedBack
    <3> HIDE DEF S, T
    <3> QED
      BY <1>2, <2>2, <2>7, <3>1 DEF Backward
  <2>9. CallSoFar'
    <3> HIDE DEF S, T
    <3> QED
      BY <1>1, <1>2, <2>2, <2>3, <2>4, <2>8 DEF CallSoFar, WalkSoFar
  <2>10. visited' \in Seq(Node) /\ call' \in 1 .. Len(Script) + 1 /\ call' >= call
    BY <1>1, <2>1, <2>2
  <2> QED
    BY <1>2, <2>3, <2>9, <2>10, SameRing DEF ListInv
<1>5. CASE cursor = Head_Node
  <2>1. cursor' = POISON /\ visited' = visited /\ call' = call + 1 /\ call' - 1 = call
    BY <1>1, <1>5
  <2>2. /\ tmp = POISON /\ expected = allocated
        /\ Backward(visited, {n \in allocated : PassedBack(n)})
    BY <1>1, <1>5 DEF ListInv, CallSoFar, WalkSoFar
  <2>3. {n \in allocated : PassedBack(n)} = allocated
    BY <1>5 DEF PassedBack
  <2>4. Backward(visited, allocated)'
    BY <1>2, <2>1, <2>2, <2>3 DEF Backward
  <2>5. CallSoFar'
    BY <1>1, <1>2, <2>1, <2>2, <2>4 DEF CallSoFar, AtRest
  <2>6. visited' \in Seq(Node) /\ call' \in 1 .. Len(Script) + 1 /\ call' >= call
    BY <1>1, <2>1 DEF ListInv, ListTypes
  <2> QED
    BY <1>2, <2>1, <2>5, <2>6, SameRing DEF ListInv
<1> QED
  BY <1>3, <1>4, <1>5 DEF ListInv, ListTypes

\* The head of a deleting loop.
LEMMA LoopStartStep ==
    ASSUME ListInv, NEW name \in {"remove", "cleanup"}, LoopStart(name)
    PROVE  ListInv'
<1>1. /\ call \in Nat /\ call > 0 /\ call <= Len(Script) /\ Len(Script) \in Nat
      /\ Script[call][1] = name /\ cursor = POISON /\ call' = call
      /\ cursor' = next[Head_Node] /\ tmp' = next[next[Head_Node]]
      /\ expected' = {n \in expected : ~Deletes(name, n)}
      /\ UNCHANGED <<next, prev, data, allocated, visited, added>>
  BY ScriptCalls DEF ListInv, ListTypes, LoopStart, Calling
<1>2. cursor' \in allocated \cup {Head_Node} /\ cursor' # POISON
  BY <1>1, PassedMoves, OrderFacts
<1>3. expected = allocated
  BY <1>1 DEF ListInv, CallSoFar, AtRest
<1>4. \A n \in allocated : ~Passed(n)' /\ (Deletes(name, n)' <=> Deletes(name, n))
  BY <1>1, PassedMoves DEF Passed, Deletes, Argument
<1>5. expected' = {n \in allocated' : Passed(n)' \/ ~Deletes(name, n)'}
  BY <1>1, <1>3, <1>4
<1>6. LoopSoFar(name)'
  BY <1>1, <1>5 DEF LoopSoFar
<1>7. CallSoFar'
  BY <1>1, <1>2, <1>6 DEF CallSoFar
<1>8. ListTypes' /\ AddedBefore' /\ Ring(allocated)'
  BY <1>1, <1>2, SameRing DEF ListInv, ListTypes
<1> QED
  BY <1>7, <1>8 DEF ListInv

\* A turn of a deleting loop: tmp still leads on when the cursor is gone.
LEMMA LoopBodyStep ==
    ASSUME ListInv, NEW name \in {"remove", "cleanup"}, LoopBody(name)
    PROVE  ListInv'
<1>1. /\ call \in Nat /\ call > 0 /\ call <= Len(Script) /\ Len(Script) \in Nat
      /\ Script[call][1] = name /\ cursor \in Node /\ call' = call
      /\ cursor' = tmp /\ tmp' = next'[tmp]
      /\ UNCHANGED <<data, visited, expected, added>>
  BY ScriptCalls DEF ListInv, ListTypes, LoopBody, Calling
<1>2. cursor \in allocated /\ cursor \notin {POISON, Head_Node}
  BY <1>1, NodeAssumption DEF ListInv, ListTypes, Head_Node, POISON
<1>3. /\ tmp = next[cursor]
      /\ expected = {n \in allocated : Passed(n) \/ ~Deletes(name, n)}
  BY <1>1, <1>2 DEF ListInv, CallSoFar, LoopSoFar
<1>4. /\ cursor' \in allocated \cup {Head_Node} /\ cursor' # POISON /\ cursor' # cursor
      /\ prev[cursor] \in allocated \cup {Head_Node}
  <2>1. next[cursor] \in allocated \cup {Head_Node} /\ After(added, cursor, next[cursor], allocated)
    BY <1>2, PassedMoves, RingAfter DEF ListInv
  <2> QED
    BY <1>1, <1>2, <1>3, <2>1, PassedMoves, OrderFacts DEF After
<1>5. \A n \in allocated : /\ Passed(n)' <=> added[n] < added[cursor] \/ n = cursor
                           /\ Passed(n) <=> added[n] < added[cursor]
                           /\ Deletes(name, n)' <=> Deletes(name, n)
  BY <1>1, <1>2, <1>3, PassedMoves DEF Passed, Deletes, Argument
<1>6. CASE Deletes(name, cursor)
  <2>1. /\ next' = Unlinked(next, prev) /\ prev' = Unlinked(prev, next)
        /\ allocated' = allocated \ {cursor}
    BY <1>6 DEF LoopBody
  <2>2. expected' = {n \in allocated' : Passed(n)' \/ ~Deletes(name, n)'}
    <3>1. ~(added[cursor] < added[cursor])
      BY <1>2, OrderFacts
    <3> QED
      BY <1>1, <1>2, <1>3, <1>5, <1>6, <2>1, <3>1
  <2>3. CallSoFar'
    BY <1>1, <1>4, <2>2 DEF CallSoFar, LoopSoFar
  <2>4. ListTypes'
    <3>1. /\ prev[cursor] \in Linked /\ next[cursor] \in Linked /\ cursor \in Linked
      BY <1>1, <1>2, <1>3, <1>4, OrderFacts
    <3>2. /\ next' \in [Linked -> Linked \cup {POISON}]
          /\ prev' \in [Linked -> Linked \cup {POISON}]
      BY <2>1, <3>1 DEF Unlinked, ListInv, ListTypes
    <3>3. cursor' \in allocated' \cup {Head_Node, POISON}
      BY <1>4, <2>1
    <3> QED
      BY <1>1, <2>1, <3>2, <3>3 DEF ListInv, ListTypes
  <2>5. AddedBefore'
    BY <1>1, <2>1 DEF ListInv, AddedBefore
  <2>6. Ring(allocated)'
    BY <1>1, <1>2, <2>1, DeleteRing
  <2> QED
    BY <2>3, <2>4, <2>5, <2>6 DEF ListInv
<1>7. CASE ~Deletes(name, cursor)
  <2>1. UNCHANGED <<next, prev, allocated>>
    BY <1>7 DEF LoopBody
  <2>2. expected' = {n \in allocated' : Passed(n)' \/ ~Deletes(name, n)'}
    BY <1>1, <1>2, <1>3, <1>5, <1>7, <2>1
  <2>3. CallSoFar'
    BY <1>1, <1>4, <2>2 DEF CallSoFar, LoopSoFar
  <2>4. ListTypes' /\ AddedBefore' /\ Ring(allocated)'
    BY <1>1, <1>4, <2>1, SameRing DEF ListInv, ListTypes
  <2> QED
    BY <2>3, <2>4 DEF ListInv
<1> QED
  BY <1>6, <1>7

\* The end of a deleting loop: everything was looked at.
LEMMA LoopEndStep ==
    ASSUME ListInv, NEW name \in {"remove", "cleanup"}, LoopEnd(name)
    PROVE  ListInv'
<1>1. /\ call \in Nat /\ call > 0 /\ call <= Len(Script) /\ Len(Script) \in Nat
      /\ Script[call][1] = name /\ cursor = Head_Node /\ call' = call + 1
      /\ cursor' = POISON /\ tmp' = POISON
      /\ UNCHANGED <<next, prev, data, allocated, visited, expected, added>>
  BY ScriptCalls DEF ListInv, ListTypes, LoopEnd, Calling
<1>2. Head_Node # POISON /\ call' - 1 = call
  BY <1>1, OrderFacts
<1>3. expected = allocated
  BY <1>1, <1>2 DEF ListInv, CallSoFar, LoopSoFar, Passed
<1>4. CallSoFar'
  BY <1>1, <1>2, <1>3 DEF CallSoFar, AtRest
<1>5. ListTypes' /\ AddedBefore' /\ Ring(allocated)'
  BY <1>1, SameRing DEF ListInv, ListTypes
<1> QED
  BY <1>4, <1>5 DEF ListInv

----------------------------------------------------------------------------
\* The empty list.
LEMMA InitListInv == ListInit => ListInv
<1> SUFFICES ASSUME ListInit PROVE ListInv
  OBVIOUS
<1>1. /\ next[Head_Node] = Head_Node /\ prev[Head_Node] = Head_Node
      /\ added[Head_Node] = 0 /\ allocated = {} /\ expected = {}
      /\ cursor = POISON /\ tmp = POISON /\ call = 1 /\ visited = <<>>
  BY DEF ListInit
<1>2. ListTypes
  BY ScriptCalls DEF ListInit, ListTypes, Linked
<1>3. AddedBefore /\ CallSoFar
  BY <1>1 DEF AddedBefore, CallSoFar, AtRest
<1>4. Ring(allocated)
  BY <1>1 DEF Ring, Follows
<1> QED
  BY <1>2, <1>3, <1>4 DEF ListInv

\* The list of 024 is sound at every moment, however many nodes there are and
\* whichever allocations fail.  Of the script the proof uses no more than that
\* its calls are among the five.
THEOREM ListIsSound == ListSpec => []ListSound
<1>1. ListInv /\ [ListNext]_listVars => ListInv'
  <2> SUFFICES ASSUME ListInv, [ListNext]_listVars PROVE ListInv'
    OBVIOUS
  <2>1. CASE UNCHANGED listVars
    <3>1. ListTypes' /\ AddedBefore' /\ Ring(allocated)'
      BY <2>1, RingAfter DEF listVars, ListInv, ListTypes, AddedBefore
    <3>2. CallSoFar'
      BY <2>1 DEF listVars, ListInv, CallSoFar, AtRest, WalkSoFar, LoopSoFar,
                  Passed, PassedBack, Deletes, Argument, Forward, Backward
    <3> QED
      BY <3>1, <3>2 DEF ListInv
  <2> QED
    BY <2>1, AddNodeStep, AddFailsStep, TraverseStep, ReverseStep,
       LoopStartStep, LoopBodyStep, LoopEndStep DEF ListNext
<1>2. ListInv => ListSound
  <2> SUFFICES ASSUME ListInv PROVE ListSound
    OBVIOUS
  <2>1. ASSUME call <= Len(Script), cursor # POISON
        PROVE  /\ cursor \in allocated \cup {Head_Node}
               /\ tmp \in allocated \cup {Head_Node, POISON}
               /\ tmp = POISON => Script[call][1] \in {"traverse", "reverse"}
    <3>1. cursor \in allocated \cup {Head_Node}
      BY <2>1 DEF ListInv, ListTypes
    <3>2. Script[call][1] \in {"traverse", "reverse", "remove", "cleanup"}
      BY <2>1, ScriptCalls DEF ListInv, ListTypes, CallSoFar
    <3> QED
      BY <2>1, <3>1, <3>2, PassedMoves, OrderFacts
         DEF ListInv, CallSoFar, WalkSoFar, LoopSoFar
  <2>2. ASSUME cursor = POISON
        PROVE  /\ allocated = expected /\ Ring(expected)
               /\ call > 1 /\ Script[call - 1][1] = "traverse" => Forward(visited, expected)
               /\ call > 1 /\ Script[call - 1][1] = "reverse" => Backward(visited, expected)
    BY <2>2 DEF ListInv, CallSoFar, AtRest
  <2> QED
    BY <2>1, <2>2 DEF ListSound
<1> QED
  BY <1>1, <1>2, InitListInv, PTL DEF ListSpec
=============================================================================
