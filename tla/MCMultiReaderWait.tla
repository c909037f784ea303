------------------------- MODULE MCMultiReaderWait -------------------------
(***************************************************************************)
(* Small instances of the multi-reader device: two readers, one writer, a  *)
(* buffer of two characters.                                               *)
(***************************************************************************)
EXTENDS MultiReaderWait

CONSTANTS r1, r2, w1

TwoReaders == {r1, r2}
OneWriter  == {w1}
============================================================================
