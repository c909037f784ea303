----------------------------- MODULE SensorAttr -----------------------------
(***************************************************************************)
(* The attributes of the platform drivers 007, 016, 017 and 018.  Each     *)
(* driver remembers what was last stored (led_state, control_value) beside *)
(* the hardware, a line or a register, that it set.  Stores through        *)
(* different open files run beside one another.                            *)
(*                                                                         *)
(* 016, 017 and 018 convert the text to a local variable and use that for  *)
(* both; 007 converts it to led_state and reads that again for the line.   *)
(* Text that is no number changes nothing in the former and sets the line  *)
(* to led_state once more in the latter.                                   *)
(***************************************************************************)
EXTENDS Integers

CONSTANTS
    AttrUser,     \* processes that write to the attribute
    AttrValues    \* the numbers they write

ASSUME AttrAssumption == AttrValues \subseteq Nat

VARIABLES
    kind,      \* "sensor" (016, 017, 018) or "gpio" (007)
    shown,     \* control_value, or led_state
    hardware,  \* the register at base_addr + 4, or the line: 0 or 1
    apc,       \* where each process is in the store function
    aval,      \* the local val, or led_state as gpiod_set_value is handed it

    \* History.
    doubtful,  \* stores overlapped, or probe ran, since the last store on its own
    overlap    \* stores that another one has overlapped

attrVars == <<kind, shown, hardware, apc, aval, doubtful, overlap>>

\* What the hardware is set to for v.
Level(v) == IF kind = "sensor" THEN v ELSE IF v = 0 THEN 0 ELSE 1

\* probe: 007 asks for the line as an output that is low; the others leave the
\* register as it is.
AttrInit ==
    /\ kind \in {"sensor", "gpio"}
    /\ shown = 0
    /\ hardware \in IF kind = "sensor" THEN AttrValues ELSE {0}
    /\ apc = [u \in AttrUser |-> "idle"]
    /\ aval = [u \in AttrUser |-> 0]
    /\ doubtful = (kind = "sensor")
    /\ overlap = {}

Storing == {u \in AttrUser : apc[u] # "idle"}

\* The device is unbound and bound again: remove waits for the stores to end.
\* control_value is allocated afresh, led_state is static and stays.
Rebind ==
    /\ Storing = {}
    /\ shown' = IF kind = "sensor" THEN 0 ELSE shown
    /\ hardware' = IF kind = "sensor" THEN hardware ELSE 0
    /\ doubtful' = TRUE
    /\ UNCHANGED <<kind, apc, aval, overlap>>

\* control_store or value_store is called, ...
StoreCall(u, v) ==
    /\ apc[u] = "idle"
    /\ overlap' = IF Storing = {} THEN overlap ELSE overlap \cup Storing \cup {u}
    /\ apc' = [apc EXCEPT ![u] = "keep"]
    /\ aval' = [aval EXCEPT ![u] = v]
    /\ UNCHANGED <<kind, shown, hardware, doubtful>>

\* ... remembers the number, ...
Keep(u) ==
    /\ apc[u] = "keep"
    /\ shown' = aval[u]
    /\ apc' = [apc EXCEPT ![u] = IF kind = "sensor" THEN "set" ELSE "load"]
    /\ UNCHANGED <<kind, hardware, aval, doubtful, overlap>>

\* ... or finds that there is none; 016 to 018 return.
NoNumber(u) ==
    /\ apc[u] = "keep"
    /\ apc' = [apc EXCEPT ![u] = IF kind = "sensor" THEN "idle" ELSE "load"]
    /\ overlap' = IF kind = "sensor" THEN overlap \ {u} ELSE overlap
    /\ aval' = [aval EXCEPT ![u] = 0]
    /\ UNCHANGED <<kind, shown, hardware, doubtful>>

\* 007 passes led_state to gpiod_set_value.
ReadBack(u) ==
    /\ apc[u] = "load"
    /\ aval' = [aval EXCEPT ![u] = shown]
    /\ apc' = [apc EXCEPT ![u] = "set"]
    /\ UNCHANGED <<kind, shown, hardware, doubtful, overlap>>

\* Faulty variant: the line is set to the opposite of led_state.
SetInverted(u) ==
    /\ apc[u] = "set"
    /\ hardware' = IF kind = "gpio" THEN 1 - Level(aval[u]) ELSE aval[u]
    /\ apc' = [apc EXCEPT ![u] = "idle"]
    /\ aval' = [aval EXCEPT ![u] = 0]
    /\ doubtful' = (u \in overlap)
    /\ overlap' = overlap \ {u}
    /\ UNCHANGED <<kind, shown>>

\* iowrite32 or gpiod_set_value, and the return.
SetHardware(u) ==
    /\ apc[u] = "set"
    /\ hardware' = Level(aval[u])
    /\ apc' = [apc EXCEPT ![u] = "idle"]
    /\ aval' = [aval EXCEPT ![u] = 0]
    /\ doubtful' = (u \in overlap)
    /\ overlap' = overlap \ {u}
    /\ UNCHANGED <<kind, shown>>

AttrNext ==
    \/ Rebind
    \/ \E u \in AttrUser :
          \/ \E v \in AttrValues : StoreCall(u, v)
          \/ Keep(u) \/ NoNumber(u) \/ ReadBack(u) \/ SetHardware(u)

AttrSpec == AttrInit /\ [][AttrNext]_attrVars

----------------------------------------------------------------------------
(* Properties                                                              *)

\* Between stores the driver's idea of the hardware is right, once a store has
\* run on its own since the device was bound or since stores overlapped.
ShownIsSet == Storing = {} /\ ~doubtful => hardware = Level(shown)
=============================================================================
