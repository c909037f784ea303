---------------------------- MODULE LightDevice ----------------------------
(***************************************************************************)
(* 005_atomic_light/light_kernel.c: a light whose state, brightness and    *)
(* temperature are three atomic integers.  light_write stores and          *)
(* light_read loads them one after the other, the ioctl commands set one   *)
(* of them.                                                                *)
(*                                                                         *)
(* LED_GET_STATE and LED_GET_BRIGHTNESS read one atomic, open and release  *)
(* only log, and a call whose copy from user space faults changes nothing: *)
(* none of these is a step of the model.                                   *)
(***************************************************************************)
EXTENDS Integers, Sequences

CONSTANTS
    LightUser,    \* processes that use the device
    Statuses,     \* statuses they write
    Brightness    \* integers they pass to LED_SET_BRIGHTNESS

\* lightStatus as user space sees it: a truth value and two bytes.
lightStatus == [state : {0, 1}, brightness : 0 .. 255, temperature : 0 .. 255]

ASSUME LightAssumption == Statuses \subseteq lightStatus /\ Brightness \subseteq Int

VARIABLES
    light,     \* g_state, g_brightness and g_temperature
    lpc,       \* where each process is
    local,     \* lWrite or lRead

    \* History.
    status,    \* the status that the writes and commands, one by one, add up to
    tainted,   \* writes or commands have overlapped since the last write on its own
    clash,     \* writes that another write or a command has overlapped
    was        \* per read: the lights since it began, none after a second store

lightVars == <<light, lpc, local, status, tainted, clash, was>>

\* What a read of this light yields: (uint8_t) takes the last eight bits.
Shown(l) == [state |-> IF l.state # 0 THEN 1 ELSE 0,
             brightness |-> l.brightness % 256, temperature |-> l.temperature % 256]

Dark == [state |-> 0, brightness |-> 0, temperature |-> 25]

LightInit ==
    /\ light = Dark
    /\ lpc = [u \in LightUser |-> "idle"]
    /\ local = [u \in LightUser |-> Dark]
    /\ status = Dark
    /\ tainted = FALSE
    /\ clash = {}
    /\ was = [u \in LightUser |-> <<>>]

Writing == {u \in LightUser : lpc[u] \in {"w1", "w2", "w3"}}
Reading == {u \in LightUser : lpc[u] \in {"r1", "r2", "r3"}}

LGoto(u, label) == lpc' = [lpc EXCEPT ![u] = label]

\* One atomic_set, and what the reads under way see of it.
Set(l) ==
    /\ light' = l
    /\ was' = [u \in LightUser |->
                 CASE u \in Reading /\ Len(was[u]) = 1 -> Append(was[u], l)
                   [] u \in Reading /\ Len(was[u]) = 2 -> <<>>
                   [] OTHER                            -> was[u]]

----------------------------------------------------------------------------
(* light_write                                                             *)

LightWrite(u, s) ==
    /\ lpc[u] = "idle"
    /\ local' = [local EXCEPT ![u] = s]
    /\ clash' = IF Writing = {} THEN clash ELSE clash \cup Writing \cup {u}
    /\ LGoto(u, "w1")
    /\ UNCHANGED <<light, status, tainted, was>>

StoreState(u) ==
    /\ lpc[u] = "w1"
    /\ Set([light EXCEPT !.state = local[u].state])
    /\ LGoto(u, "w2")
    /\ UNCHANGED <<local, status, tainted, clash>>

StoreBrightness(u) ==
    /\ lpc[u] = "w2"
    /\ Set([light EXCEPT !.brightness = local[u].brightness])
    /\ LGoto(u, "w3")
    /\ UNCHANGED <<local, status, tainted, clash>>

\* Faulty variant: the last store repeats the brightness.
StoreTemperatureSlip(u) ==
    /\ lpc[u] = "w3"
    /\ Set([light EXCEPT !.temperature = local[u].brightness])
    /\ LGoto(u, "idle")
    /\ clash' = clash \ {u}
    /\ tainted' = (u \in clash)
    /\ status' = IF u \in clash THEN status ELSE local[u]
    /\ local' = [local EXCEPT ![u] = Dark]

\* The last store, and the return.
StoreTemperature(u) ==
    /\ lpc[u] = "w3"
    /\ Set([light EXCEPT !.temperature = local[u].temperature])
    /\ LGoto(u, "idle")
    /\ clash' = clash \ {u}
    /\ tainted' = (u \in clash)
    /\ status' = IF u \in clash THEN status ELSE local[u]
    /\ local' = [local EXCEPT ![u] = Dark]

----------------------------------------------------------------------------
(* light_read                                                              *)

LightRead(u) ==
    /\ lpc[u] = "idle"
    /\ was' = [was EXCEPT ![u] = <<light>>]
    /\ LGoto(u, "r1")
    /\ UNCHANGED <<light, local, status, tainted, clash>>

Fetch(u, label, next, field) ==
    /\ lpc[u] = label
    /\ local' = [local EXCEPT ![u][field] = Shown(light)[field]]
    /\ LGoto(u, next)
    /\ UNCHANGED <<light, status, tainted, clash, was>>

LoadState(u)       == Fetch(u, "r1", "r2", "state")
LoadBrightness(u)  == Fetch(u, "r2", "r3", "brightness")
LoadTemperature(u) == Fetch(u, "r3", "give", "temperature")

\* copy_to_user, and the return.
Give(u) ==
    /\ lpc[u] = "give"
    /\ was' = [was EXCEPT ![u] = <<>>]
    /\ local' = [local EXCEPT ![u] = Dark]
    /\ LGoto(u, "idle")
    /\ UNCHANGED <<light, status, tainted, clash>>

----------------------------------------------------------------------------
(* light_ioctl                                                             *)

\* A command sets one of the three integers.
Command(u, field, v) ==
    /\ lpc[u] = "idle"
    /\ Set([light EXCEPT ![field] = v])
    /\ clash' = clash \cup Writing
    /\ tainted' = (tainted \/ Writing # {})
    /\ status' = IF Writing = {} THEN [status EXCEPT ![field] = v] ELSE status
    /\ UNCHANGED <<lpc, local>>

LED_ON(u)                == Command(u, "state", 1)
LED_OFF(u)               == Command(u, "state", 0)
LED_SET_BRIGHTNESS(u, v) == Command(u, "brightness", v)

LightNext ==
    \E u \in LightUser :
        \/ \E s \in Statuses : LightWrite(u, s)
        \/ StoreState(u) \/ StoreBrightness(u) \/ StoreTemperature(u)
        \/ LightRead(u)
        \/ LoadState(u) \/ LoadBrightness(u) \/ LoadTemperature(u) \/ Give(u)
        \/ LED_ON(u) \/ LED_OFF(u)
        \/ \E v \in Brightness : LED_SET_BRIGHTNESS(u, v)

LightSpec == LightInit /\ [][LightNext]_lightVars

----------------------------------------------------------------------------
(* Properties                                                              *)

\* What three separate atomics still guarantee.  Between writes the light is what
\* the writes and commands add up to; after writes or commands that overlapped,
\* the next write on its own repairs it.  And a read during which at most one of
\* the three was set shows a status the light had at one moment.
StatusWhole ==
    /\ Writing = {} /\ ~tainted => light = status
    /\ \A u \in LightUser :
          lpc[u] = "give" /\ was[u] # <<>> =>
              \E i \in DOMAIN was[u] : local[u] = Shown(was[u][i])
=============================================================================
