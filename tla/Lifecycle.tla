----------------------------- MODULE Lifecycle -----------------------------
(***************************************************************************)
(* Loading and unloading of the drivers.  module_init, or the probe        *)
(* function of a platform driver, acquires kernel objects one after the    *)
(* other, any of which may be refused; a careful driver then gives back    *)
(* what it had acquired and returns the error.  module_exit, or remove,    *)
(* gives everything back.                                                  *)
(*                                                                         *)
(* What the kernel does when it is handed the error value of an earlier    *)
(* refusal is not modelled: such a call acquires or releases nothing, or   *)
(* goes on as if nothing were wrong.                                       *)
(*                                                                         *)
(* A driver is described by its plan: the steps of its init function, with *)
(* the releases the code makes when the step fails, and the releases of    *)
(* its exit function, each in the order of the source.  Deferred puts the  *)
(* steps together with what runs beside them.                              *)
(***************************************************************************)
EXTENDS Integers, Sequences

CONSTANT Drivers   \* the drivers that may be loaded

\* One object of the kernel, and one object of the minor i.
One(kind)   == <<kind, 0>>
Of(kind, i) == <<kind, i>>

\* A step of an init function.  fail says what a refusal leads to: "undo" makes
\* the releases and returns the error, "ignore" goes on with the next step and
\* keeps the error value, "null" puts NULL in its place, "skip" passes over the
\* next step too, "stop" leaves the function with 0, "garbage" makes the releases
\* and returns a value read from outside an array, "oops" dereferences the error
\* value; "never" means the step cannot fail, "free" that it releases the object.
Step(get, fail, undo) == [get |-> get, fail |-> fail, undo |-> undo]
Checked(get, undo)    == Step(get, "undo", undo)
Unchecked(get)        == Step(get, "ignore", <<>>)
Certain(get)          == Step(get, "never", <<>>)
Free(get)             == Step(get, "free", <<>>)

\* 003 and 011: region, cdev, class and device, with the same four releases.
StoragePlan ==
    [init |-> <<Certain(Of("state", 0)),
                Checked(One("region"), <<>>),
                Checked(Of("cdev", 0), <<One("region")>>),
                Checked(One("class"),  <<Of("cdev", 0), One("region")>>),
                Checked(Of("device", 0),
                        <<One("class"), Of("cdev", 0), One("region")>>)>>,
     exit |-> <<Of("device", 0), One("class"), Of("cdev", 0), One("region")>>]

\* Faulty variant: the result of class_create is not looked at.
SkeletonUnchecked ==
    [init |-> <<Checked(One("region"), <<>>),
                Checked(Of("cdev", 0), <<One("region")>>),
                Unchecked(One("class")),
                Checked(Of("device", 0),
                        <<One("class"), Of("cdev", 0), One("region")>>)>>,
     exit |-> <<Of("device", 0), One("class"), Of("cdev", 0), One("region")>>]

SkeletonPlan ==
    [init |-> <<Checked(One("region"), <<>>),
                Checked(Of("cdev", 0), <<One("region")>>),
                Checked(One("class"),  <<Of("cdev", 0), One("region")>>),
                Checked(Of("device", 0),
                        <<One("class"), Of("cdev", 0), One("region")>>)>>,
     exit |-> <<Of("device", 0), One("class"), Of("cdev", 0), One("region")>>]

\* 021: one attribute group on top of the device.
IrqPlan ==
    [init |-> <<Certain(Of("state", 0)),
                Checked(One("region"), <<>>),
                Checked(Of("cdev", 0), <<One("region")>>),
                Checked(One("class"),  <<Of("cdev", 0), One("region")>>),
                Checked(Of("device", 0),
                        <<One("class"), Of("cdev", 0), One("region")>>),
                Checked(Of("group", 0),
                        <<Of("device", 0), One("class"), Of("cdev", 0),
                          One("region")>>)>>,
     exit |-> <<Of("group", 0), Of("device", 0), One("class"), Of("cdev", 0),
                One("region")>>]

----------------------------------------------------------------------------
(* 010: an array of two devices with three attribute files each            *)

Attributes(i) == <<Of("reset", i), Of("stats", i), Of("data", i)>>
\* Faulty variant: the files are removed after their device.
OwnPartSwapped(i) == <<Of("device", i), Of("cdev", i)>> \o Attributes(i)

OwnPart(i)    == Attributes(i) \o <<Of("device", i), Of("cdev", i)>>

\* Faulty variant: the loop stops before device 0.
ErrLoopShort(i) == <<One("mem"), One("class"), One("region")>>

\* err_loop: the devices before i, of which there is at most one, then the rest.
ErrLoop(i) == (IF i = 0 THEN <<>> ELSE OwnPart(0))
              \o <<One("mem"), One("class"), One("region")>>

\* One turn of the loop of mydev_init; the labels err_attr_reset, err_attr_stats
\* and err_attr fall through into one another.
MyDevTurn(i) ==
    LET errAttr  == <<Of("device", i), Of("cdev", i)>> \o ErrLoop(i)
        errStats == <<Of("data", i)>> \o errAttr
        errReset == <<Of("stats", i)>> \o errStats
    IN <<Certain(Of("state", i)),
         Checked(Of("cdev", i), ErrLoop(i)),
         Checked(Of("device", i), <<Of("cdev", i)>> \o ErrLoop(i)),
         Checked(Of("data", i), errAttr),
         Checked(Of("stats", i), errStats),
         Checked(Of("reset", i), errReset)>>

MyDevPlan ==
    [init |-> <<Checked(One("region"), <<>>),
                Checked(One("class"), <<One("region")>>),
                Checked(One("mem"), <<One("class"), One("region")>>)>>
              \o MyDevTurn(0) \o MyDevTurn(1),
     exit |-> OwnPart(0) \o OwnPart(1)
              \o <<One("mem"), One("class"), One("region")>>]

----------------------------------------------------------------------------
(* 014: two devices behind one cdev.  When device_create fails, i is -1 by *)
(* the time the function returns PTR_ERR(my_devices[i]).                   *)

PollTurn(i) ==
    <<Certain(Of("state", i)),
      Step(Of("device", i), "garbage",
           [k \in 1 .. i |-> Of("device", i - k)]
           \o <<One("class"), Of("cdev", 0), One("region")>>)>>

PollPlan ==
    [init |-> <<Checked(One("region"), <<>>),
                Checked(Of("cdev", 0), <<One("region")>>),
                Checked(One("class"), <<Of("cdev", 0), One("region")>>)>>
              \o PollTurn(0) \o PollTurn(1),
     exit |-> <<Of("device", 0), Of("device", 1), One("class"), Of("cdev", 0),
                One("region")>>]

----------------------------------------------------------------------------
(* Drivers that do not look at every result                                *)

CharExit == <<Of("device", 0), One("class"), Of("cdev", 0), One("region")>>

\* 002: without a region nothing more is acquired, and 0 is returned.
KeypadPlan ==
    [init |-> <<Unchecked(One("class")),
                Step(One("region"), "stop", <<>>),
                Unchecked(Of("cdev", 0)),
                Unchecked(Of("device", 0))>>,
     exit |-> CharExit]

\* 001: the same.
TempLogPlan ==
    [init |-> <<Unchecked(One("class")),
                Step(One("region"), "stop", <<>>),
                Unchecked(Of("cdev", 0)),
                Unchecked(Of("device", 0))>>,
     exit |-> CharExit]

\* 004, 005, 012 and 027 ask for the same four objects and take what they get.
FourObjects == <<Unchecked(One("region")), Unchecked(Of("cdev", 0)),
                 Unchecked(One("class")), Unchecked(Of("device", 0))>>

\* 004 sets its thresholds once the device has appeared.
TempPlan ==
    [init |-> FourObjects \o <<Certain(Of("state", 0))>>,
     exit |-> CharExit]

LightPlan == [init |-> FourObjects, exit |-> CharExit]

\* 012 examines the first result.
MultiReaderPlan ==
    [init |-> <<Checked(One("region"), <<>>)>> \o Tail(FourObjects),
     exit |-> CharExit]

\* 027 has an interrupt handler on top.
SignalPlan ==
    [init |-> FourObjects \o <<Unchecked(Of("handler", 0))>>,
     exit |-> <<Of("handler", 0)>> \o CharExit]

\* 022: the handler is registered with the cookie &kb_work (0) and released with
\* the cookie keyboard_irq_handler (1); free_irq finds no such handler.
KeyboardPlan ==
    [init |-> <<Certain(Of("state", 0)),
                Checked(Of("handler", 0), <<>>)>>,
     exit |-> <<Of("handler", 1)>>]

----------------------------------------------------------------------------
(* Platform drivers: what probe acquires and remove releases.  Memory and  *)
(* mapping of the sensor drivers are managed: the kernel releases them     *)
(* after a failed probe and after remove, the last one first.              *)

\* A sensor with these attribute files; the region is found and mapped.
SensorWith(files) ==
    [init |-> <<Checked(One("priv"), <<>>),
                Checked(One("mapping"), <<One("priv")>>)>>
              \o [k \in DOMAIN files |-> Unchecked(One(files[k]))],
     exit |-> [k \in DOMAIN files |-> One(files[k])]
              \o <<One("mapping"), One("priv")>>]

SensorPlan   == SensorWith(<<"temp", "control">>)                \* 016
SensorDtPlan == SensorWith(<<"temp", "control">>)                \* 017
SensorOfPlan == SensorWith(<<"temp", "control", "threshold">>)   \* 018

\* 020: the attribute group of the platform device, and runtime management.
PowerPlan ==
    [init |-> <<Checked(One("files"), <<>>), Certain(One("pm"))>>,
     exit |-> <<One("pm"), One("files")>>]

\* 007: neither failure gives the descriptor back; kobject_put takes the
\* attributes along (see Gone).
GpioPlan ==
    [init |-> <<Checked(One("gpio"), <<>>), Checked(One("kobj"), <<>>),
                Checked(One("value"), <<One("kobj")>>)>>,
     exit |-> <<One("gpio"), One("kobj")>>]

----------------------------------------------------------------------------
(* Registrations of one object, and memory that init frees again           *)

OneObject(o) == [init |-> <<Checked(o, <<>>)>>, exit |-> <<o>>]

MiscPlan      == OneObject(One("misc"))       \* 001_driver_misc/misc.c
PltDrvPlan    == OneObject(One("driver"))     \* 015, the driver
PltDvcPlan    == OneObject(One("platform"))   \* 015, the device

\* 016, the device: the result of the registration is not looked at.
SensorDvcPlan == [init |-> <<Unchecked(One("platform"))>>,
                  exit |-> <<One("platform")>>]

\* 008: every buffer is freed before the next one is asked for; the last two are
\* freed only if they were obtained.
KmallocPlan ==
    [init |-> <<Checked(One("buffer"), <<>>), Free(One("buffer")),
                Checked(One("config"), <<>>), Free(One("config")),
                Checked(One("buffer"), <<>>), Free(One("buffer")),
                Step(One("buffer"), "skip", <<>>), Free(One("buffer")),
                Step(One("buffer"), "skip", <<>>), Free(One("buffer"))>>,
     exit |-> <<>>]

----------------------------------------------------------------------------
(* Modules whose init functions leave something running (see Deferred)     *)

TimerPlan   == [init |-> <<Certain(One("timer"))>>,         \* 028
                exit |-> <<One("timer")>>]
HrtimerPlan == [init |-> <<Certain(One("timer"))>>,         \* 029
                exit |-> <<One("timer")>>]
SoftirqPlan == [init |-> <<Certain(One("tasklet"))>>,       \* 031
                exit |-> <<One("tasklet")>>]
TaskletPlan == [init |-> <<Certain(One("tasklet"))>>,       \* 032
                exit |-> <<One("tasklet")>>]

\* kThread.c hands the first result to wake_up_process and keeps the second.
KThreadPlan ==
    [init |-> <<Step(One("t1"), "oops", <<>>), Unchecked(One("t2"))>>,
     exit |-> <<One("t1"), One("t2")>>]

\* 023 keeps whatever kthread_run returns.
AtomicPlan ==
    [init |-> <<Unchecked(One("t1")), Unchecked(One("t2"))>>,
     exit |-> <<One("t1"), One("t2")>>]

\* Faulty variant: the error pointers are kept.
ThreadsKeepErrors ==
    [init |-> <<Unchecked(One("t1")), Unchecked(One("t2"))>>,
     exit |-> <<One("t1"), One("t2")>>]

\* 026 puts NULL in place of an error pointer.
ThreadsPlan ==
    [init |-> <<Step(One("t1"), "null", <<>>), Step(One("t2"), "null", <<>>)>>,
     exit |-> <<One("t1"), One("t2")>>]

\* 030 starts a worker and leaves it alone.
CompletionPlan == [init |-> <<Unchecked(One("worker"))>>, exit |-> <<>>]

----------------------------------------------------------------------------
Plan ==
    [storage  |-> StoragePlan,   skeleton |-> SkeletonPlan,
     irq      |-> IrqPlan,       mydev    |-> MyDevPlan,
     poll     |-> PollPlan,      keypad   |-> KeypadPlan,
     templog  |-> TempLogPlan,   temp     |-> TempPlan,
     light    |-> LightPlan,     multi    |-> MultiReaderPlan,
     signal   |-> SignalPlan,    keyboard |-> KeyboardPlan,
     sensor   |-> SensorPlan,    sensorDt |-> SensorDtPlan,
     sensorOf |-> SensorOfPlan,  power    |-> PowerPlan,
     gpio     |-> GpioPlan,      misc     |-> MiscPlan,
     pltdrv   |-> PltDrvPlan,    pltdvc   |-> PltDvcPlan,
     sensdvc  |-> SensorDvcPlan, kmalloc  |-> KmallocPlan,
     ktimer   |-> TimerPlan,     hrtimer  |-> HrtimerPlan,
     softirq  |-> SoftirqPlan,   tasklet  |-> TaskletPlan,
     kthread  |-> KThreadPlan,   atomic   |-> AtomicPlan,
     threads  |-> ThreadsPlan,   completion |-> CompletionPlan]

ASSUME DriversAssumption == Drivers \subseteq DOMAIN Plan

----------------------------------------------------------------------------
VARIABLES
    driver,   \* the driver at hand
    phase,    \* "absent", "init", "undo", "loaded", "exit" or "oops"
    at,       \* the step of the init function reached
    release,  \* releases still to be made
    failed,   \* an acquisition was refused since the load began
    held      \* the objects the driver has acquired

vars == <<driver, phase, at, release, failed, held>>

Init ==
    /\ driver \in Drivers
    /\ phase = "absent"
    /\ at = 1
    /\ release = <<>>
    /\ failed = FALSE
    /\ held = {}

\* insmod calls the init function, or a device is bound and probe called.
Load ==
    /\ phase = "absent"
    /\ phase' = "init"
    /\ at' = 1
    /\ failed' = FALSE
    /\ UNCHANGED <<driver, release, held>>

Current == Plan[driver].init[at]

\* The current step of the init function succeeds.
Acquired ==
    /\ phase = "init"
    /\ at <= Len(Plan[driver].init)
    /\ held' = IF Current.fail = "free" THEN held \ {Current.get}
               ELSE held \cup {Current.get}
    /\ at' = at + 1
    /\ UNCHANGED <<driver, phase, release, failed>>

\* The current step fails.
Refused ==
    /\ phase = "init"
    /\ at <= Len(Plan[driver].init)
    /\ Current.fail \notin {"never", "free"}
    /\ failed' = TRUE
    /\ \/ /\ Current.fail \in {"ignore", "null"}
          /\ at' = at + 1
          /\ UNCHANGED <<phase, release>>
       \/ /\ Current.fail = "skip"
          /\ at' = at + 2
          /\ UNCHANGED <<phase, release>>
       \/ /\ Current.fail = "oops"
          /\ phase' = "oops"
          /\ UNCHANGED <<at, release>>
       \/ /\ Current.fail = "stop"
          /\ phase' = "loaded"
          /\ UNCHANGED <<at, release>>
       \/ /\ Current.fail \in {"undo", "garbage"}
          /\ phase' = "undo"
          /\ release' = Current.undo
          /\ UNCHANGED at
    /\ UNCHANGED <<driver, held>>

\* The init function returns 0.
InitReturns ==
    /\ phase = "init"
    /\ at > Len(Plan[driver].init)
    /\ phase' = "loaded"
    /\ UNCHANGED <<driver, at, release, failed, held>>

\* What is no longer there once r is released: the locks and buffers that live
\* in the allocated array go with it, the attributes with their kobject.
Gone(r) ==
    {r} \cup CASE r = One("mem")  -> {Of("state", i) : i \in 0 .. 1}
               [] r = One("kobj") -> {One("value")}
               [] OTHER           -> {}

\* The pointer to o is NULL, and the exit function tests it: o was refused.
IsNull(o) == o \notin held /\ \E i \in DOMAIN Plan[driver].init :
                  Plan[driver].init[i] = Step(o, "null", <<>>)

Releases ==
    /\ phase \in {"undo", "exit"}
    /\ release # <<>>
    /\ held' = held \ Gone(Head(release))
    /\ release' = Tail(release)
    /\ UNCHANGED <<driver, phase, at, failed>>

\* The memory of a static object goes with the module, a thread nobody waits for
\* when it returns.
Static == {Of("state", i) : i \in 0 .. 1} \cup {One("worker")}

\* An init function that rolled back returns: the module is discarded if the
\* value is negative and stays loaded otherwise.
UndoReturns ==
    /\ phase = "undo"
    /\ release = <<>>
    /\ \/ phase' = "absent" /\ held' = held \ Static
       \/ Current.fail = "garbage" /\ phase' = "loaded" /\ UNCHANGED held
    /\ UNCHANGED <<driver, at, release, failed>>

\* rmmod calls the exit function, and discards the module.
Unload ==
    /\ phase = "loaded"
    /\ phase' = "exit"
    /\ release' = Plan[driver].exit
    /\ UNCHANGED <<driver, at, failed, held>>

ExitReturns ==
    /\ phase = "exit"
    /\ release = <<>>
    /\ phase' = "absent"
    /\ held' = held \ Static
    /\ UNCHANGED <<driver, at, release, failed>>

----------------------------------------------------------------------------
(* Properties                                                              *)

\* What a driver is known to leave behind: 022 releases its handler under the
\* wrong cookie, and a probe of 007 that fails keeps its descriptor.
Leftover == CASE driver = "keyboard"        -> {Of("handler", 0)}
              [] driver = "gpio" /\ failed -> {One("gpio")}
              [] OTHER                      -> {}

\* A module that is not loaded has left nothing registered in the kernel: every
\* error path of the init function and the exit function release everything,
\* also after acquisitions whose failure was ignored.  Leftover names the two
\* exceptions.
AbsentHoldsNothing == phase = "absent" => held \subseteq Leftover

\* The drivers that look at every result and hand it on.
Careful == {"storage", "skeleton", "irq", "mydev", "keyboard", "power", "gpio",
            "misc", "pltdrv", "pltdvc", "kmalloc"}

\* The drivers that prepare the state of a device before the device appears.
Prepared == {"storage", "irq", "mydev", "poll"}

\* The objects an init function asks for and does not free itself.
Kept(steps) == {steps[i].get : i \in DOMAIN steps}
               \ {steps[i].get : i \in {j \in DOMAIN steps : steps[j].fail = "free"}}

\* insmod succeeds only if every object of the driver is there: in a careful
\* driver always, in the others if nothing was refused.
LoadedIsComplete ==
    phase = "loaded" /\ (driver \in Careful \/ ~failed) =>
        held = Kept(Plan[driver].init)

\* An error path, the exit function or a kfree never releases what is not held:
\* nothing is released twice, no label releases what was not yet acquired, and
\* 026 never stops a thread it could not create.
ReleasesOnlyHeld ==
    /\ /\ phase \in {"undo", "exit"} /\ release # <<>>
       /\ driver # "keyboard" /\ (driver \in Careful \cup {"threads"} \/ ~failed)
       => Head(release) \in held \/ IsNull(Head(release))
    /\ phase = "init" /\ at <= Len(Plan[driver].init) /\ Current.fail = "free"
       => Current.get \in held

\* What an object rests on: a cdev on its numbers, and on the memory it is in,
\* a device on its class and on the state its file operations use, an attribute
\* on its device or on the memory it shows.  004 prepares its state too late for
\* this, and 007 gives the descriptor back before the attribute that sets it.
RestsOn(r) ==
    LET i == r[2] IN
    CASE r[1] = "cdev"   -> {One("region")} \cup
                            (IF driver = "mydev" THEN {One("mem")} ELSE {})
      [] r[1] = "device" -> {One("class"), One("region")} \cup
                            (IF driver \in Prepared THEN {Of("state", i)} ELSE {})
      [] r[1] \in {"data", "stats", "reset", "group"} -> {Of("device", i)}
      [] r[1] \in {"temp", "control", "threshold"} -> {One("priv"), One("mapping")}
      [] r[1] = "value"  -> {One("kobj")}
      [] OTHER           -> {}

\* At every moment of loading, rolling back and unloading, nothing that is
\* registered has lost what it rests on: acquisitions and releases are nested.
NothingDangles ==
    driver \in Careful \/ ~failed => \A r \in held : RestsOn(r) \subseteq held
============================================================================
