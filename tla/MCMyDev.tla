------------------------------ MODULE MCMyDev ------------------------------
(***************************************************************************)
(* Two threads that share one open file of one device.                     *)
(***************************************************************************)
EXTENDS MyDev

CONSTANTS t1, t2

MCThread  == {t1, t2}
OneFile   == [f \in File |-> 0]
MCSeeks   == {-1, 0, 2}
============================================================================
