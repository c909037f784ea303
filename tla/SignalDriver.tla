---------------------------- MODULE SignalDriver ----------------------------
(***************************************************************************)
(* 027_sig_send/sigdrv.c: a process registers itself through an ioctl, and *)
(* the interrupt handler sends it a signal.  The driver keeps the pointer  *)
(* of the task without a reference and forgets it when that task closes    *)
(* its file for the last time.                                             *)
(*                                                                         *)
(* Processes open the device, register, fork, close and exit as they like; *)
(* sigusr.c is one of them: it opens, registers and waits to be killed.  A *)
(* file is released when its last holder closes it, in the context of that *)
(* holder; exit closes what is open, one file after the other.  Nothing is *)
(* locked: the release reads the pointer and then stores NULL, and the     *)
(* handler reads it twice, for the test and for the signal.                *)
(***************************************************************************)
EXTENDS Integers

CONSTANTS
    Process,      \* processes
    First,        \* those that run at the beginning; others are forked
    File,         \* open files of the device
    NULL

ASSUME SignalAssumption == First \subseteq Process /\ NULL \notin Process

VARIABLES
    task,       \* the registered task
    life,       \* "unborn", "running", "exiting" or "dead"
    holders,    \* per file: the processes that have it open
    clearing,   \* processes between the test and the store of etx_release
    handler,    \* where irq_handler is: "idle" or "send"

    \* History.
    sharing,    \* processes that have had a file in common with another one
    crossed,    \* a release has stored NULL since the handler made its test
    registered, \* the last process to register, NULL once it has withdrawn
    overtaken   \* it registered while some release was half way

processes  == <<life, holders, sharing>>
past       == <<registered, overtaken>>
signalVars == <<task, processes, clearing, handler, crossed, past>>

SignalInit ==
    /\ task = NULL
    /\ life = [p \in Process |-> IF p \in First THEN "running" ELSE "unborn"]
    /\ holders = [f \in File |-> {}]
    /\ clearing = {}
    /\ handler = "idle"
    /\ sharing = {}
    /\ crossed = FALSE
    /\ registered = NULL
    /\ overtaken = FALSE

\* The process runs in user space; one that is inside etx_release does nothing
\* else.
Runs(p) == life[p] = "running" /\ p \notin clearing

Open(p, f) ==
    /\ Runs(p) /\ holders[f] = {}
    /\ holders' = [holders EXCEPT ![f] = {p}]
    /\ UNCHANGED <<task, life, clearing, handler, sharing, crossed, past>>

\* REG_CURRENT_TASK; any other command changes nothing.
etx_ioctl(p, f) ==
    /\ Runs(p) /\ p \in holders[f]
    /\ task' = p
    /\ registered' = p
    /\ overtaken' = (clearing # {})
    /\ UNCHANGED <<processes, clearing, handler, crossed>>

\* The child has every file of its parent.
Fork(p, q) ==
    /\ Runs(p) /\ life[q] = "unborn"
    /\ life' = [life EXCEPT ![q] = "running"]
    /\ holders' = [f \in File |-> IF p \in holders[f] THEN holders[f] \cup {q}
                                  ELSE holders[f]]
    /\ sharing' = IF \E f \in File : p \in holders[f] THEN sharing \cup {p, q}
                  ELSE sharing
    /\ UNCHANGED <<task, clearing, handler, crossed, past>>

\* Faulty variant: the release leaves the registration alone.
ReleaseForgets(p) == UNCHANGED clearing

\* if (task == get_current())
etx_release(p) == clearing' = IF task = p THEN clearing \cup {p} ELSE clearing

\* task = NULL, whatever has been registered since the test.
ReleaseStores(p) ==
    /\ p \in clearing
    /\ clearing' = clearing \ {p}
    /\ task' = NULL
    /\ crossed' = (crossed \/ handler = "send")
    /\ registered' = IF registered = p THEN NULL ELSE registered
    /\ UNCHANGED <<processes, handler, overtaken>>

\* close(2), by the program or on its way out.
Close(p, f) ==
    /\ life[p] \in {"running", "exiting"} /\ p \notin clearing /\ p \in holders[f]
    /\ holders' = [holders EXCEPT ![f] = @ \ {p}]
    /\ IF holders[f] = {p} THEN etx_release(p) ELSE UNCHANGED clearing
    /\ UNCHANGED <<task, life, handler, sharing, crossed, past>>

\* exit(2), or a signal that kills.
Exit(p) ==
    /\ Runs(p)
    /\ life' = [life EXCEPT ![p] = "exiting"]
    /\ UNCHANGED <<task, holders, clearing, handler, sharing, crossed, past>>

\* All files closed: the task is freed.
Die(p) ==
    /\ life[p] = "exiting" /\ p \notin clearing /\ \A f \in File : p \notin holders[f]
    /\ life' = [life EXCEPT ![p] = "dead"]
    /\ UNCHANGED <<task, holders, clearing, handler, sharing, crossed, past>>

----------------------------------------------------------------------------
(* irq_handler                                                             *)

\* if (task != NULL)
HandlerTests ==
    /\ handler = "idle" /\ task # NULL
    /\ handler' = "send"
    /\ crossed' = FALSE
    /\ UNCHANGED <<task, processes, clearing, past>>

\* send_sig_info(SIGETX, &info, task)
HandlerSends ==
    /\ handler = "send"
    /\ handler' = "idle"
    /\ UNCHANGED <<task, processes, clearing, crossed, past>>

SignalNext ==
    \/ HandlerTests \/ HandlerSends
    \/ \E p \in Process :
          \/ \E f \in File : Open(p, f) \/ etx_ioctl(p, f) \/ Close(p, f)
          \/ \E q \in Process : Fork(p, q)
          \/ ReleaseStores(p) \/ Exit(p) \/ Die(p)

SignalSpec == SignalInit /\ [][SignalNext]_signalVars

----------------------------------------------------------------------------
(* Properties                                                              *)

\* The pointer the driver keeps without a reference is good.  It is NULL or a task
\* that still exists, however a program that has its files to itself ends, and
\* whoever registers or closes in between; only processes that inherited or passed
\* on a file may leave a dead task behind.  Whoever registers stays registered until
\* it withdraws or another one takes its place, except that a release which
\* had made its test before the registration may still wipe it out.  The handler's
\* second look finds NULL only if some release, not necessarily that of the task it
\* saw, stored it after the first.
SignalsReachTheLiving ==
    /\ task # NULL /\ life[task] = "dead" => task \in sharing
    /\ registered # NULL /\ ~overtaken => task = registered
    /\ handler = "send" /\ ~crossed => task # NULL
=============================================================================
