--------------------------- MODULE AtomicStorage ---------------------------
(***************************************************************************)
(* What the storage device promises: a memory of bytes in sectors that can *)
(* be locked.  Stores, lock changes, reads and lock reports are each one   *)
(* indivisible step; no store touches a byte of a locked sector; what a    *)
(* read hands out is one stretch of the memory, and a lock report all the  *)
(* flags, as they are in that step.  The result codes of the calls are not *)
(* part of it.                                                             *)
(***************************************************************************)
EXTENDS Integers

CONSTANTS Proc, HalfField, SectorSize, Payload

NumSectors == 2 * HalfField
Total      == NumSectors * SectorSize
Address    == 0 .. Total - 1

VARIABLES
    mem,     \* the bytes
    locks,   \* the locked sectors
    got,     \* the bytes a client has just read, and where they begin
    told     \* the lock flags a client has just been told

avars == <<mem, locks, got, told>>

NoRead == [from |-> 0, data |-> <<>>]

AInit == /\ mem = [a \in Address |-> 0]
         /\ locks = [s \in 0 .. NumSectors - 1 |-> FALSE]
         /\ got = [p \in Proc |-> NoRead]
         /\ told = [p \in Proc |-> <<>>]

\* Bytes from .. to - 1 receive v, bytes to .. end - 1 receive zero (to < end
\* when the writer's own buffer could not be read to its end).
Store(from, to, end, v) ==
    /\ \A a \in Address : from <= a /\ a < end => ~locks[a \div SectorSize]
    /\ mem' = [a \in Address |-> IF from <= a /\ a < end
                                 THEN IF a < to THEN v ELSE 0
                                 ELSE mem[a]]
    /\ UNCHANGED <<locks, got, told>>

SetTo(s, b) == locks' = [locks EXCEPT ![s] = b] /\ UNCHANGED <<mem, got, told>>

\* p receives the n bytes from address from on.
Read(p, from, n) ==
    /\ from + n <= Total
    /\ got' = [got EXCEPT ![p] =
                 [from |-> from, data |-> [i \in 1 .. n |-> mem[from + i - 1]]]]
    /\ UNCHANGED <<mem, locks, told>>

\* p receives the flags of all the sectors.
Report(p) ==
    /\ told' = [told EXCEPT ![p] = [i \in 1 .. NumSectors |-> locks[i - 1]]]
    /\ UNCHANGED <<mem, locks, got>>

\* The call of p that received them is over.
Forget(p) ==
    /\ \/ got' = [got EXCEPT ![p] = NoRead] /\ UNCHANGED told
       \/ told' = [told EXCEPT ![p] = <<>>] /\ UNCHANGED got
    /\ UNCHANGED <<mem, locks>>

ANext ==
    \/ \E p \in Proc : Report(p) \/ Forget(p)
    \/ \E p \in Proc, from, n \in 0 .. Total : Read(p, from, n)
    \/ \E s \in 0 .. NumSectors - 1, b \in BOOLEAN : SetTo(s, b)
    \/ \E from, to, end \in 0 .. Total, v \in Payload \cup {0} :
          Store(from, to, end, v)

ASpec == AInit /\ [][ANext]_avars
============================================================================
