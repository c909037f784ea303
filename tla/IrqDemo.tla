------------------------------ MODULE IrqDemo ------------------------------
(***************************************************************************)
(* 021_interrupt_handler/irq_handler_kernel.c: users schedule a tasklet    *)
(* and a work item, each of which counts its executions, and reset the     *)
(* counts.  The counters are plain variables: an increment is a load and a *)
(* store, and the stores of a reset may reach memory in any order.         *)
(*                                                                         *)
(* The kernel runs a tasklet, or a work item, on one processor at a time;  *)
(* scheduling it while it is pending has no effect, scheduling it while it *)
(* runs makes it run again.  No interrupt is ever requested for            *)
(* irq_handler, so interrupt_count is only ever set to zero.  The reads of *)
(* the counters (irq_read, irq_count, irq_info) change nothing.            *)
(***************************************************************************)
EXTENDS Integers

CONSTANTS
    IrqUser,      \* processes that write to the device or its attributes
    MaxTriggers   \* bound: requests in all

ASSUME IrqAssumption == MaxTriggers \in Nat

Deferrable == {"tasklet", "work"}            \* demo_tasklet and demo_work
Counter    == Deferrable \cup {"interrupt"}

VARIABLES
    count,      \* interrupt_count, tasklet_count and work_queue_count
    pending,    \* what is scheduled
    exec,       \* where tasklet_func and work_func are: "no", "load" or "store"
    register,   \* the count they have loaded
    zeroing,    \* per user: the counters a reset has still to set
    triggers,   \* requests so far

    \* History.
    asked,      \* scheduled, and no execution has begun since
    ran,        \* executions that ended since the counter was last reset
    undone      \* counters whose last reset met an increment half way

irqVars == <<count, pending, exec, register, zeroing, triggers, asked, ran, undone>>

IrqInit ==
    /\ count = [c \in Counter |-> 0]
    /\ pending = {}
    /\ exec = [d \in Deferrable |-> "no"]
    /\ register = [d \in Deferrable |-> 0]
    /\ zeroing = [u \in IrqUser |-> {}]
    /\ triggers = 0
    /\ asked = {}
    /\ ran = [c \in Counter |-> 0]
    /\ undone = {}

----------------------------------------------------------------------------
(* irq_write and the attributes                                            *)

\* Faulty variant: nothing is scheduled while the function is running.
ScheduleIfIdle(u, d) ==
    /\ zeroing[u] = {} /\ triggers < MaxTriggers
    /\ triggers' = triggers + 1
    /\ pending' = IF exec[d] = "no" THEN pending \cup {d} ELSE pending
    /\ asked' = asked \cup {d}
    /\ UNCHANGED <<count, exec, register, zeroing, ran, undone>>

\* trigger_tasklet, trigger_work, and the commands 'T' and 'W'.
Schedule(u, d) ==
    /\ zeroing[u] = {} /\ triggers < MaxTriggers
    /\ triggers' = triggers + 1
    /\ pending' = pending \cup {d}
    /\ asked' = asked \cup {d}
    /\ UNCHANGED <<count, exec, register, zeroing, ran, undone>>

\* reset_count and the command 'R': three assignments.
ResetCall(u) ==
    /\ zeroing[u] = {} /\ triggers < MaxTriggers
    /\ triggers' = triggers + 1
    /\ zeroing' = [zeroing EXCEPT ![u] = Counter]
    /\ UNCHANGED <<count, pending, exec, register, asked, ran, undone>>

ResetStore(u, c) ==
    /\ c \in zeroing[u]
    /\ zeroing' = [zeroing EXCEPT ![u] = @ \ {c}]
    /\ count' = [count EXCEPT ![c] = 0]
    /\ ran' = [ran EXCEPT ![c] = 0]
    /\ undone' = IF c \in Deferrable /\ exec[c] = "store"
                 THEN undone \cup {c} ELSE undone \ {c}
    /\ UNCHANGED <<pending, exec, register, triggers, asked>>

----------------------------------------------------------------------------
(* tasklet_func and work_func                                              *)

\* The kernel takes d off its list and calls the function.
Begin(d) ==
    /\ d \in pending /\ exec[d] = "no"
    /\ pending' = pending \ {d}
    /\ asked' = asked \ {d}
    /\ exec' = [exec EXCEPT ![d] = "load"]
    /\ UNCHANGED <<count, register, zeroing, triggers, ran, undone>>

LoadCount(d) ==
    /\ exec[d] = "load"
    /\ register' = [register EXCEPT ![d] = count[d]]
    /\ exec' = [exec EXCEPT ![d] = "store"]
    /\ UNCHANGED <<count, pending, zeroing, triggers, asked, ran, undone>>

\* Faulty variant: the work function counts for the tasklet.
StoreCountSlip(d) ==
    /\ exec[d] = "store"
    /\ count' = [count EXCEPT !["tasklet"] = register[d] + 1]
    /\ ran' = [ran EXCEPT ![d] = @ + 1]
    /\ exec' = [exec EXCEPT ![d] = "no"]
    /\ UNCHANGED <<pending, register, zeroing, triggers, asked, undone>>

StoreCount(d) ==
    /\ exec[d] = "store"
    /\ count' = [count EXCEPT ![d] = register[d] + 1]
    /\ ran' = [ran EXCEPT ![d] = @ + 1]
    /\ exec' = [exec EXCEPT ![d] = "no"]
    /\ UNCHANGED <<pending, register, zeroing, triggers, asked, undone>>

Execution(d) == Begin(d) \/ LoadCount(d) \/ StoreCount(d)

IrqNext ==
    \/ \E u \in IrqUser : \/ \E d \in Deferrable : Schedule(u, d)
                          \/ ResetCall(u)
                          \/ \E c \in Counter : ResetStore(u, c)
    \/ \E d \in Deferrable : Execution(d)

\* The softirq and the worker threads get to run.
IrqFairness == \A d \in Deferrable : WF_irqVars(Execution(d))

IrqSpec == IrqInit /\ [][IrqNext]_irqVars /\ IrqFairness

----------------------------------------------------------------------------
(* Properties                                                              *)

\* Without any lock the counts are exact: each is the number of executions that
\* ended since it was last reset, unless that reset fell between the load and the
\* store of an increment, which then restores the old count.
CountsExact ==
    \A d \in Deferrable :
        d \notin undone =>
            /\ count[d] = ran[d]
            /\ exec[d] = "store" => register[d] = count[d]

\* Every request is followed by an execution that begins after it, also if it came
\* while the function was running.
RequestsServed == \A d \in Deferrable : d \in asked ~> d \notin asked
=============================================================================
