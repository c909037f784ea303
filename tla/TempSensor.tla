----------------------------- MODULE TempSensor -----------------------------
(***************************************************************************)
(* 004_temp_sens_atomic/temp_kernel.c: a sensor of four atomic counters.   *)
(* A write of a temperature compares it with the two thresholds, which     *)
(* other processes may be changing, and counts an alert if it lies outside *)
(* them.  The device appears before temp_init has set the counters, so the *)
(* four assignments run beside the first calls.                            *)
(*                                                                         *)
(* TEMP_GET_CURRENT and TEMP_GET_ALERTS each read one atomic and change    *)
(* nothing; a call whose copy from user space faults changes nothing       *)
(* either.  Neither is a step of the model.                                *)
(***************************************************************************)
EXTENDS Integers

CONSTANTS
    Reporter,     \* processes that write temperatures and set thresholds
    Temps,        \* temperatures they write
    Thresholds,   \* thresholds they set
    MaxReports    \* bound: temperatures written in all

ASSUME TempAssumption == /\ Temps \subseteq Int /\ Thresholds \subseteq Int
                         /\ MaxReports \in Nat

VARIABLES
    sensor,     \* the four counters
    setup,      \* the assignment temp_init has come to, 5 after the last
    tpc,        \* where each process is in temp_write
    new_temp,   \* the local new_temp
    reports,    \* temperatures written so far

    \* History.
    seen,       \* per call: what the thresholds have been since it began
    must, may   \* finished calls that had to raise, or may have raised, an alert

tempVars == <<sensor, setup, tpc, new_temp, reports, seen, must, may>>

InRange(t, s) == s.low_threshold <= t /\ t <= s.high_threshold
Ordered(s)    == s.low_threshold <= s.high_threshold

\* fresh: temp_init was through when the call began.  tame: low was never above
\* high.  inside, outside: there was a moment at which t was.
Watch(t, isFresh, s) ==
    [fresh |-> isFresh, tame |-> Ordered(s),
     inside |-> InRange(t, s), outside |-> ~InRange(t, s)]

Unwatched == [fresh |-> FALSE, tame |-> TRUE, inside |-> FALSE, outside |-> FALSE]

TempInit ==
    /\ sensor = [current_temp |-> 0, high_threshold |-> 0, low_threshold |-> 0,
                 alert_count |-> 0]
    /\ setup = 1
    /\ tpc = [p \in Reporter |-> "idle"]
    /\ new_temp = [p \in Reporter |-> 0]
    /\ reports = 0
    /\ seen = [p \in Reporter |-> Unwatched]
    /\ must = 0
    /\ may = 0

\* The counters change, and every call under way takes note of the thresholds.
Change(s) ==
    /\ sensor' = s
    /\ seen' = [p \in Reporter |->
                  IF tpc[p] = "idle" THEN seen[p] ELSE
                  [fresh   |-> seen[p].fresh,
                   tame    |-> seen[p].tame /\ Ordered(s),
                   inside  |-> seen[p].inside \/ InRange(new_temp[p], s),
                   outside |-> seen[p].outside \/ ~InRange(new_temp[p], s)]]

\* The end of temp_init: 25, 30, 20 and 0 are assigned one after the other.
TempSetup ==
    /\ setup <= 4
    /\ Change([sensor EXCEPT
                 !.current_temp   = IF setup = 1 THEN 25 ELSE @,
                 !.high_threshold = IF setup = 2 THEN 30 ELSE @,
                 !.low_threshold  = IF setup = 3 THEN 20 ELSE @,
                 !.alert_count    = IF setup = 4 THEN 0  ELSE @])
    /\ setup' = setup + 1
    /\ UNCHANGED <<tpc, new_temp, reports, must, may>>

\* TEMP_SET_HIGH and TEMP_SET_LOW.
SetHigh(p, v) ==
    /\ tpc[p] = "idle"
    /\ Change([sensor EXCEPT !.high_threshold = v])
    /\ UNCHANGED <<setup, tpc, new_temp, reports, must, may>>

SetLow(p, v) ==
    /\ tpc[p] = "idle"
    /\ Change([sensor EXCEPT !.low_threshold = v])
    /\ UNCHANGED <<setup, tpc, new_temp, reports, must, may>>

----------------------------------------------------------------------------
(* temp_write                                                              *)

TempWrite(p, t) ==
    /\ tpc[p] = "idle" /\ reports < MaxReports
    /\ reports' = reports + 1
    /\ new_temp' = [new_temp EXCEPT ![p] = t]
    /\ sensor' = [sensor EXCEPT !.current_temp = t]
    /\ tpc' = [tpc EXCEPT ![p] = "high"]
    /\ seen' = [seen EXCEPT ![p] = Watch(t, setup > 4, sensor)]
    /\ UNCHANGED <<setup, must, may>>

\* The call returns.
TempReturns(p) ==
    /\ tpc' = [tpc EXCEPT ![p] = "idle"]
    /\ must' = IF seen[p].fresh /\ seen[p].tame /\ ~seen[p].inside
               THEN must + 1 ELSE must
    /\ may' = IF seen[p].outside THEN may + 1 ELSE may
    /\ seen' = [seen EXCEPT ![p] = Unwatched]

\* new_temp > atomic_read(&sensor.high_threshold), ...
TestHigh(p) ==
    /\ tpc[p] = "high"
    /\ tpc' = [tpc EXCEPT ![p] = IF new_temp[p] > sensor.high_threshold
                                 THEN "alert" ELSE "low"]
    /\ UNCHANGED <<sensor, setup, new_temp, reports, seen, must, may>>

\* Faulty variant: the temperature is read back from the sensor.
TestLowShared(p) ==
    /\ tpc[p] = "low"
    /\ \/ /\ sensor.current_temp < sensor.low_threshold
          /\ tpc' = [tpc EXCEPT ![p] = "alert"]
          /\ UNCHANGED <<seen, must, may>>
       \/ /\ sensor.current_temp >= sensor.low_threshold
          /\ TempReturns(p)
    /\ UNCHANGED <<sensor, setup, new_temp, reports>>

\* ... or new_temp < atomic_read(&sensor.low_threshold)
TestLow(p) ==
    /\ tpc[p] = "low"
    /\ \/ /\ new_temp[p] < sensor.low_threshold
          /\ tpc' = [tpc EXCEPT ![p] = "alert"]
          /\ UNCHANGED <<seen, must, may>>
       \/ /\ new_temp[p] >= sensor.low_threshold
          /\ TempReturns(p)
    /\ UNCHANGED <<sensor, setup, new_temp, reports>>

Alert(p) ==
    /\ tpc[p] = "alert"
    /\ sensor' = [sensor EXCEPT !.alert_count = @ + 1]
    /\ TempReturns(p)
    /\ UNCHANGED <<setup, new_temp, reports>>

TempNext ==
    \/ TempSetup
    \/ \E p \in Reporter :
          \/ \E v \in Thresholds : SetHigh(p, v) \/ SetLow(p, v)
          \/ \E t \in Temps : TempWrite(p, t)
          \/ TestHigh(p) \/ TestLow(p) \/ Alert(p)

TempSpec == TempInit /\ [][TempNext]_tempVars

----------------------------------------------------------------------------
(* Properties                                                              *)

\* Although temp_write reads the two thresholds at different moments, the alerts
\* add up once temp_init is through: each temperature that was outside the
\* thresholds from the beginning to the end of its call is counted (as long as
\* nobody put low above high meanwhile), and none is counted that was inside
\* them all the time.
AlertsAccounted ==
    setup > 4 => must <= sensor.alert_count /\ sensor.alert_count <= may
=============================================================================
