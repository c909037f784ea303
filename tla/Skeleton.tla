------------------------------ MODULE Skeleton ------------------------------
(***************************************************************************)
(* 011_chrdev_skeleton/driver.c: read and write of a buffer that all files *)
(* share, without any lock.  Each process has a file of its own.  Of the   *)
(* contents only their size matters.                                       *)
(*                                                                         *)
(* my_read looks at buffer_size twice, for the end of the contents and for *)
(* the bytes that are left; a compiler may load it once or twice.  The     *)
(* difference is unsigned: it wraps around if the contents have shrunk.    *)
(***************************************************************************)
EXTENDS Integers

CONSTANTS
    SkelUser,     \* processes, each with a file
    SKEL_SIZE,    \* BUF_SIZE, 1024 in the code
    SizeMax,      \* the largest value of a size_t
    SkelLengths,  \* lengths passed to read and write
    SkelSeeks     \* positions asked of llseek

ASSUME SkelAssumption == /\ SKEL_SIZE \in Nat \ {0}
                         /\ SizeMax \in Nat /\ SizeMax > SKEL_SIZE
                         /\ SkelLengths \subseteq Nat /\ SkelSeeks \subseteq Nat

VARIABLES
    buffer_size,
    spos,      \* per file: the position
    spc,       \* where each process is
    slen,      \* the local len
    checked,   \* the buffer_size a read has compared its position with

    \* History.
    shrunk     \* reads under way whose position was left behind by a write

skelVars == <<buffer_size, spos, spc, slen, checked, shrunk>>

SkelInit ==
    /\ buffer_size = 0
    /\ spos = [u \in SkelUser |-> 0]
    /\ spc = [u \in SkelUser |-> "idle"]
    /\ slen = [u \in SkelUser |-> 0]
    /\ checked = [u \in SkelUser |-> 0]
    /\ shrunk = {}

SGoto(u, label) == spc' = [spc EXCEPT ![u] = label]
AtMost(n, bound) == IF n > bound THEN bound ELSE n

\* The call ends with the position moved by n.
SkelReturns(u, n) ==
    /\ SGoto(u, "idle")
    /\ spos' = [spos EXCEPT ![u] = @ + n]
    /\ slen' = [slen EXCEPT ![u] = 0]
    /\ checked' = [checked EXCEPT ![u] = 0]

\* default_llseek.
Llseek(u, n) ==
    /\ spc[u] = "idle"
    /\ spos' = [spos EXCEPT ![u] = n]
    /\ UNCHANGED <<buffer_size, spc, slen, checked, shrunk>>

----------------------------------------------------------------------------
(* my_read                                                                 *)

\* if (*pos >= buffer_size) return 0;
ReadCheck(u, n) ==
    /\ spc[u] = "idle"
    /\ spos[u] < buffer_size
    /\ slen' = [slen EXCEPT ![u] = n]
    /\ checked' = [checked EXCEPT ![u] = buffer_size]
    /\ shrunk' = shrunk \ {u}
    /\ SGoto(u, "clamp")
    /\ UNCHANGED <<buffer_size, spos>>

\* available = buffer_size - *pos; len is at most that.
ReadClamp(u) ==
    /\ spc[u] = "clamp"
    /\ \E size \in {checked[u], buffer_size} :
          slen' = [slen EXCEPT ![u] = AtMost(@, (size - spos[u]) % (SizeMax + 1))]
    /\ SGoto(u, "give")
    /\ UNCHANGED <<buffer_size, spos, checked, shrunk>>

\* copy_to_user, all of it or with a fault.
ReadGive(u) ==
    /\ spc[u] = "give"
    /\ SkelReturns(u, slen[u]) \/ SkelReturns(u, 0)
    /\ UNCHANGED <<buffer_size, shrunk>>

----------------------------------------------------------------------------
(* my_write                                                                *)

\* Faulty variant: len is at most the size of the whole buffer.
WriteClampWhole(u, n) ==
    /\ spc[u] = "idle"
    /\ spos[u] < SKEL_SIZE
    /\ slen' = [slen EXCEPT ![u] = AtMost(n, SKEL_SIZE)]
    /\ SGoto(u, "take")
    /\ UNCHANGED <<buffer_size, spos, checked, shrunk>>

\* At the end of the buffer -ENOSPC; otherwise len is at most what is left.
WriteClamp(u, n) ==
    /\ spc[u] = "idle"
    /\ spos[u] < SKEL_SIZE
    /\ slen' = [slen EXCEPT ![u] = AtMost(n, SKEL_SIZE - spos[u])]
    /\ SGoto(u, "take")
    /\ UNCHANGED <<buffer_size, spos, checked, shrunk>>

\* copy_from_user faults: the position and the size stay.
WriteFault(u) ==
    /\ spc[u] = "take"
    /\ SkelReturns(u, 0)
    /\ UNCHANGED <<buffer_size, shrunk>>

\* All bytes are in the buffer; the contents end where this write ended.
WriteDone(u) ==
    /\ spc[u] = "take"
    /\ buffer_size' = spos[u] + slen[u]
    /\ shrunk' = shrunk \cup {v \in SkelUser : spc[v] = "clamp" /\ spos[v] > buffer_size'}
    /\ SkelReturns(u, slen[u])

SkelNext ==
    \E u \in SkelUser :
        \/ \E n \in SkelSeeks : Llseek(u, n)
        \/ \E n \in SkelLengths : ReadCheck(u, n) \/ WriteClamp(u, n)
        \/ ReadClamp(u) \/ ReadGive(u) \/ WriteFault(u) \/ WriteDone(u)

SkelSpec == SkelInit /\ [][SkelNext]_skelVars

----------------------------------------------------------------------------
(* Properties                                                              *)

\* A copy from or to the buffer stays inside it, whatever other files do to its
\* size; only a read whose position a write has left behind between the two
\* looks at buffer_size may run on beyond the end.
CopiesInside ==
    \A u \in SkelUser :
        spc[u] \in {"give", "take"} /\ u \notin shrunk =>
            spos[u] + slen[u] <= SKEL_SIZE
=============================================================================
