----------------------------- MODULE MCDevices -----------------------------
(***************************************************************************)
(* Small instances of seven models in one run.  The drivers have nothing   *)
(* in common, so no behaviour is lost if each one is explored with the     *)
(* others at rest: device says which one is at work.                       *)
(***************************************************************************)
EXTENDS TempSensor, LightDevice, IrqDemo, SignalDriver, LinkedList,
        Skeleton, SensorAttr

CONSTANTS p1, p2, p3, f1, f2

TwoUsers == {p1, p2}
Family   == {p1, p2, p3}
TwoFiles == {f1, f2}

Evening == [state |-> 1, brightness |-> 9, temperature |-> 30]
Night   == [state |-> 0, brightness |-> 7, temperature |-> 40]
TwoStatuses == {Evening, Night}

VARIABLE device   \* the driver at work

all == <<device, tempVars, lightVars, irqVars, signalVars,
         listVars, skelVars, attrVars>>

Init ==
    /\ device \in {"temp", "light", "irq", "signal", "list", "skel", "attr"}
    /\ TempInit /\ LightInit /\ IrqInit /\ SignalInit /\ ListInit
    /\ SkelInit /\ AttrInit
    /\ device # "attr" => kind = "gpio"

Next ==
    /\ UNCHANGED device
    /\ \/ /\ device = "temp" /\ TempNext
          /\ UNCHANGED <<lightVars, irqVars, signalVars, listVars, skelVars, attrVars>>
       \/ /\ device = "light" /\ LightNext
          /\ UNCHANGED <<tempVars, irqVars, signalVars, listVars, skelVars, attrVars>>
       \/ /\ device = "irq" /\ IrqNext
          /\ UNCHANGED <<tempVars, lightVars, signalVars, listVars, skelVars, attrVars>>
       \/ /\ device = "signal" /\ SignalNext
          /\ UNCHANGED <<tempVars, lightVars, irqVars, listVars, skelVars, attrVars>>
       \/ /\ device = "list" /\ ListNext
          /\ UNCHANGED <<tempVars, lightVars, irqVars, signalVars, skelVars, attrVars>>
       \/ /\ device = "skel" /\ SkelNext
          /\ UNCHANGED <<tempVars, lightVars, irqVars, signalVars, listVars, attrVars>>
       \/ /\ device = "attr" /\ AttrNext
          /\ UNCHANGED <<tempVars, lightVars, irqVars, signalVars, listVars, skelVars>>

Spec == Init /\ [][Next]_all /\ IrqFairness
============================================================================
