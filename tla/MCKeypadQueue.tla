--------------------------- MODULE MCKeypadQueue ---------------------------
(***************************************************************************)
(* Small instances of the keypad queue: a buffer of two slots, so that it  *)
(* fills, empties and wraps around, empty or filled by keypad_init.        *)
(***************************************************************************)
EXTENDS KeypadQueue

CONSTANTS t1, t2

TwoThreads == {t1, t2}
EmptyMap   == <<>>
LongMap    == <<"a", "b", "a", "b">>
============================================================================
