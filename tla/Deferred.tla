------------------------------ MODULE Deferred ------------------------------
(***************************************************************************)
(* What runs beside the init and exit functions of Lifecycle: a timer that *)
(* re-arms itself (028), a high-resolution timer (029), tasklets (031 and  *)
(* 032), pairs of kernel threads (001_driver_misc/kThread.c, 023, 026), a  *)
(* worker that completes a completion (030), the tasklet and the work item *)
(* that users of 021 start, the handlers of 022 and 027 and the work item  *)
(* of 022.  Loading, rolling back and unloading run against all of these.  *)
(*                                                                         *)
(* The counters they keep are left out: that of 021 is the matter of       *)
(* IrqDemo, the signal of 027 that of SignalDriver, and the others are     *)
(* only written to the log.  Once the module is gone, or an error pointer  *)
(* was dereferenced, what would still run is undefined, and the model      *)
(* stops.                                                                  *)
(***************************************************************************)
EXTENDS Lifecycle

Timer   == One("timer")
Tasklet == One("tasklet")
Work    == One("work")
Worker  == One("worker")
Handler == Of("handler", 0)
Loops   == {One("t1"), One("t2")}       \* threads that loop until they are stopped
Threads == Loops \cup {Worker}
Object  == {Timer, Tasklet, Work, Handler} \cup Threads

VARIABLES
    queued,   \* armed timers, scheduled tasklets and work items
    run,      \* where a callback or thread is: "no" if it is not running
    stop,     \* threads and handlers whose end the exit function waits for
    done      \* my_completion has been completed

deferred == <<queued, run, stop, done>>
all      == <<vars, deferred>>

DInit ==
    /\ Init
    /\ queued = {}
    /\ run = [o \in Object |-> "no"]
    /\ stop = {}
    /\ done = FALSE

Lively == queued \cup {o \in Object : run[o] # "no"}
Alive  == phase \notin {"absent", "oops"}
At(o, label) == run' = [run EXCEPT ![o] = label]

\* Only the callbacks' own state changes.
Aside == UNCHANGED vars

----------------------------------------------------------------------------
(* The init functions                                                      *)

\* insmod; static data start afresh.
DLoad ==
    /\ Load
    /\ Lively = {}
    /\ stop' = {}
    /\ done' = FALSE
    /\ UNCHANGED <<queued, run>>

\* A step succeeds.  add_timer, hrtimer_start and tasklet_schedule queue their
\* object; kthread_run, or kthread_create and wake_up_process, start a thread.
DAcquired ==
    /\ Acquired
    /\ LET o == Current.get IN
       /\ queued' = queued \cup ({o} \cap {Timer, Tasklet})
       /\ run' = [p \in Object |-> IF p = o /\ o \in Threads THEN "start" ELSE run[p]]
    /\ UNCHANGED <<stop, done>>

DRefused == Refused /\ UNCHANGED deferred

\* The init function returns; that of 030 waits for the completion first.
DInitReturns ==
    /\ InitReturns
    /\ driver = "completion" => done
    /\ UNCHANGED deferred

----------------------------------------------------------------------------
(* The callbacks and the threads                                           *)

\* trigger_work, trigger_tasklet, and the commands 'T' and 'W' of irq_write.  The
\* file operations of 021 have no owner: a file that was opened once the cdev was
\* there can be written to until the module is gone.
Trigger(o) ==
    /\ driver = "irq" /\ Alive /\ o \in {Tasklet, Work}
    /\ \E i \in 1 .. at - 1 : Plan[driver].init[i].get = Of("cdev", 0)
    /\ queued' = queued \cup {o}
    /\ Aside /\ UNCHANGED <<run, stop, done>>

\* The interrupt line is raised, and a handler is registered for it.
Interrupt ==
    /\ Alive /\ Handler \in held \ stop /\ run[Handler] = "no"
    /\ At(Handler, "body")
    /\ Aside /\ UNCHANGED <<queued, stop, done>>

\* keyboard_irq_handler schedules kb_work; that of 027 sends a signal.
HandlerRuns ==
    /\ Alive /\ run[Handler] = "body"
    /\ queued' = IF driver = "keyboard" THEN queued \cup {Work} ELSE queued
    /\ At(Handler, "no")
    /\ Aside /\ UNCHANGED <<stop, done>>

\* A timer expires, or the turn of a tasklet or a work item has come.
Fire(o) ==
    /\ Alive /\ o \in queued /\ run[o] = "no"
    /\ queued' = queued \ {o}
    /\ At(o, "body")
    /\ Aside /\ UNCHANGED <<stop, done>>

\* timer_callback re-arms its timer with mod_timer, then returns.
TimerRearms ==
    /\ Alive /\ driver = "ktimer" /\ run[Timer] = "body"
    /\ queued' = queued \cup {Timer}
    /\ At(Timer, "tail")
    /\ Aside /\ UNCHANGED <<stop, done>>

\* hrt_timer_callback returns HRTIMER_RESTART: the kernel queues the timer again
\* in the same critical section in which it marks the callback as finished.
HrtimerRestarts ==
    /\ Alive /\ driver = "hrtimer" /\ run[Timer] = "body"
    /\ queued' = queued \cup {Timer}
    /\ At(Timer, "no")
    /\ Aside /\ UNCHANGED <<stop, done>>

\* A tasklet function or a work function runs to its end.
CallbackRuns(o) ==
    /\ Alive /\ o \in {Tasklet, Work} /\ run[o] = "body"
    /\ At(o, "no")
    /\ Aside /\ UNCHANGED <<queued, stop, done>>

\* A new thread enters its function, unless it was stopped before.
ThreadEnters(o) ==
    /\ Alive /\ run[o] = "start"
    /\ At(o, CASE o \in stop -> "no" [] o = Worker -> "body" [] OTHER -> "test")
    /\ Aside /\ UNCHANGED <<queued, stop, done>>

\* Faulty variant: the loop does not ask kthread_should_stop.
LoopForever(o) ==
    /\ Alive /\ run[o] = "test"
    /\ At(o, "body")
    /\ Aside /\ UNCHANGED <<queued, stop, done>>

\* while (!kthread_should_stop())
LoopTest(o) ==
    /\ Alive /\ run[o] = "test"
    /\ At(o, IF o \in stop THEN "tail" ELSE "body")
    /\ Aside /\ UNCHANGED <<queued, stop, done>>

\* One turn of the loop, the sleep included.
LoopBody(o) ==
    /\ Alive /\ o \in Loops /\ run[o] = "body"
    /\ At(o, "test")
    /\ Aside /\ UNCHANGED <<queued, stop, done>>

\* worker_fn signals the completion, ...
Complete ==
    /\ Alive /\ run[Worker] = "body"
    /\ done' = TRUE
    /\ At(Worker, "tail")
    /\ Aside /\ UNCHANGED <<queued, stop>>

\* ... and then, like any callback or thread function, it has to return.
Returns(o) ==
    /\ Alive /\ run[o] = "tail"
    /\ At(o, "no")
    /\ Aside /\ UNCHANGED <<queued, stop, done>>

----------------------------------------------------------------------------
(* The error paths and the exit functions                                  *)

Releasing(o) == phase \in {"undo", "exit"} /\ release # <<>> /\ o = Head(release)

\* An object that nothing runs behind.
ReleasePlain ==
    /\ Releases
    /\ Head(release) \notin Object
    /\ UNCHANGED deferred

\* del_timer takes the timer off its queue and does not wait for the callback.
DelTimer ==
    /\ driver = "ktimer" /\ Releasing(Timer) /\ Releases
    /\ queued' = queued \ {Timer}
    /\ UNCHANGED <<run, stop, done>>

\* Faulty variant: hrtimer_try_to_cancel, which does not wait either.
HrtimerTryCancel ==
    /\ driver = "hrtimer" /\ Releasing(Timer) /\ Releases
    /\ queued' = queued \ {Timer}
    /\ UNCHANGED <<run, stop, done>>

\* hrtimer_cancel tries again until the callback is not running.
HrtimerCancel ==
    /\ driver = "hrtimer" /\ Releasing(Timer) /\ run[Timer] = "no" /\ Releases
    /\ queued' = queued \ {Timer}
    /\ UNCHANGED <<run, stop, done>>

\* tasklet_kill waits until the tasklet is neither scheduled nor running.
TaskletKill ==
    /\ Releasing(Tasklet) /\ Tasklet \notin Lively /\ Releases
    /\ UNCHANGED deferred

\* free_irq: no further interrupt reaches the handler, ...  A handler that could
\* not be registered is not found either.
FreeIrq ==
    /\ Releasing(Handler) /\ Handler \notin stop
    /\ stop' = stop \cup {Handler}
    /\ Aside /\ UNCHANGED <<queued, run, done>>

\* if (thread) kthread_stop(thread): a request to an existing thread, nothing for
\* NULL, a wild access for an error pointer.
StopThread(o) ==
    /\ o \in Loops \ stop /\ Releasing(o)
    /\ CASE o \in held -> stop' = stop \cup {o} /\ UNCHANGED <<phase, release>>
         [] IsNull(o)  -> release' = Tail(release) /\ UNCHANGED <<phase, stop>>
         [] OTHER      -> phase' = "oops" /\ UNCHANGED <<release, stop>>
    /\ UNCHANGED <<driver, at, failed, held, queued, run, done>>

\* ... and the end of the wait for the handler or the thread.
StopReturns(o) ==
    /\ o \in stop /\ Releasing(o) /\ run[o] = "no" /\ Releases
    /\ UNCHANGED deferred

DUndoReturns == UndoReturns /\ UNCHANGED deferred

\* rmmod; the exit function of 030 has nothing to release.
DUnload      == Unload      /\ UNCHANGED deferred
DExitReturns == ExitReturns /\ UNCHANGED deferred

----------------------------------------------------------------------------
Callback(o) ==
    \/ Fire(o) \/ CallbackRuns(o)
    \/ o = Timer /\ (TimerRearms \/ HrtimerRestarts)
    \/ o = Handler /\ HandlerRuns
    \/ ThreadEnters(o) \/ LoopTest(o) \/ LoopBody(o) \/ Returns(o)
    \/ o = Worker /\ Complete

InitStep == DAcquired \/ DRefused \/ DInitReturns
ExitStep == \/ ReleasePlain \/ DelTimer \/ TaskletKill \/ FreeIrq
            \/ \E o \in Object : StopThread(o) \/ StopReturns(o)
            \/ DUndoReturns \/ DExitReturns

DNext ==
    \/ DLoad \/ DUnload \/ InitStep \/ ExitStep \/ HrtimerCancel \/ Interrupt
    \/ \E o \in Object : Callback(o) \/ Trigger(o)

\* Callbacks, threads and the init and exit functions proceed; hrtimer_cancel,
\* which asks again and again, meets the half second in which the callback is not
\* running.
Fairness ==
    /\ WF_all(InitStep) /\ WF_all(ExitStep) /\ SF_all(HrtimerCancel)
    /\ \A o \in Object : WF_all(Callback(o))

DSpec == DInit /\ [][DNext]_all /\ Fairness

----------------------------------------------------------------------------
(* Properties                                                              *)

\* What outlives its module: 028 uses del_timer on a timer that re-arms itself,
\* 030 leaves its worker alone, 021 neither kills its tasklet nor cancels its work
\* item, and 022 does not get its handler released and does not cancel its work.
Stray == CASE driver = "ktimer"     -> {Timer}
           [] driver = "completion" -> {Worker}
           [] driver = "irq"        -> {Tasklet, Work}
           [] driver = "keyboard"   -> {Handler, Work}
           [] OTHER                 -> {}

\* Once the module is gone, after a failed load or after rmmod, nothing of it runs
\* or is going to run but the strays named, whatever its callbacks, handlers and
\* threads were doing at that moment.
NothingRunsOnceGone == phase = "absent" => Lively \subseteq Stray

\* Loading, rolling back and unloading come to an end, except that 030 waits for
\* ever for a worker that could not be created.
LoadAndUnloadEnd ==
    /\ phase \in {"init", "undo"} ~>
          phase \notin {"init", "undo"} \/ (driver = "completion" /\ failed)
    /\ phase = "exit" ~> phase # "exit"
=============================================================================
