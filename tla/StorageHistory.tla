--------------------------- MODULE StorageHistory ---------------------------
(***************************************************************************)
(* The storage device implements AtomicStorage.  The history variable      *)
(* before holds the bytes of the device as they were when storage_mutex    *)
(* was last free; a thread's stores take effect in it all at once, when    *)
(* the thread releases the mutex.                                          *)
(***************************************************************************)
EXTENDS StorageDevice

VARIABLE before

hvars == <<vars, before>>

HInit == Init /\ before = storage_buffer

HNext == /\ Next
         /\ before' = IF storage_mutex' = NoProc THEN storage_buffer' ELSE before

HSpec == HInit /\ [][HNext]_hvars

\* What a read has copied to user space when it is about to release the mutex,
\* and the flags GET_LOCK_INFO has gathered: what the call hands out.
Got == [p \in Proc |-> IF pc[p] = "unlock" /\ call[p].op = "read"
                       THEN [from |-> call[p].off, data |-> out[p]]
                       ELSE [from |-> 0, data |-> <<>>]]

Told == [p \in Proc |-> IF pc[p] \in {"unlock", "give"} /\ call[p].op = "info"
                        THEN lock_info[p]
                        ELSE <<>>]

Atomic == INSTANCE AtomicStorage WITH mem <- before, locks <- sector_lock_state,
                                      got <- Got, told <- Told

\* To a client the device is an atomic memory with lockable sectors: writes,
\* erasures, lock changes, reads (the bytes they hand out, those of a copy that
\* faulted included) and lock reports of several threads do not interleave.
ImplementsAtomic == Atomic!ASpec
=============================================================================
