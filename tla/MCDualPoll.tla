----------------------------- MODULE MCDualPoll -----------------------------
(***************************************************************************)
(* Small instances of the dual poll device.                                *)
(***************************************************************************)
EXTENDS DualPoll

CONSTANTS app, blk, wr

None      == {}
OneApp    == {app}
OneBlk    == {blk}
OneWriter == {wr}
=============================================================================
