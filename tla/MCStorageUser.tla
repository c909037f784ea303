--------------------------- MODULE MCStorageUser ---------------------------
(***************************************************************************)
(* main() of storage_user.c, alone on the device's eight sectors of one    *)
(* byte each.                                                              *)
(***************************************************************************)
EXTENDS StorageUser

CONSTANT main

OneProc == {main}
MCBytes == {0, 66}
MCKeys  == {66}
MCPath  == [p \in Proc |-> "storage_backup.bin"]
============================================================================
