-------------------------- MODULE MCStorageDevice --------------------------
(***************************************************************************)
(* Small instances of the storage device: two threads, two sectors of two  *)
(* bytes, one payload byte, one good key and one bad one.                  *)
(***************************************************************************)
EXTENDS StorageHistory

CONSTANTS p1, p2

MCProc    == {p1, p2}
MCOffsets == {0, 1, 3, 4}
MCLengths == {0, 2}
MCKeys    == {65}
MCBytes   == {0, 65}
============================================================================
