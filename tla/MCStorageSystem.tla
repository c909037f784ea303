-------------------------- MODULE MCStorageSystem --------------------------
(***************************************************************************)
(* Small instances of the storage device with its mirror.                  *)
(***************************************************************************)
EXTENDS MirrorHistory

CONSTANTS p1, p2

MCProc     == {p1, p2}
MCBytes    == {0, 65}
MCKeys     == {65}
OwnPath    == [p \in Proc |-> p]
Aligned    == {0, 2}

MirrorOps   == {"write", "mirror", "backup"}
TearOps     == {"write", "mirror"}
============================================================================
