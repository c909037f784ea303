---------------------------- MODULE BoundedFifo ----------------------------
(***************************************************************************)
(* What the keypad queue promises: a first-in first-out queue of keys that *)
(* holds at most QUEUE_SIZE of them.  Keys are added at its end while      *)
(* there is room and taken from its head, one indivisible step each.       *)
(***************************************************************************)
EXTENDS Naturals, Sequences

CONSTANTS QUEUE_SIZE, Key, Keymap

VARIABLE fifo

\* The keys of the module parameter are queued first, as many as fit.
FInit == fifo = SubSeq(Keymap, 1, IF Len(Keymap) < QUEUE_SIZE
                                  THEN Len(Keymap) ELSE QUEUE_SIZE)

Put(k) == Len(fifo) < QUEUE_SIZE /\ fifo' = Append(fifo, k)
Take   == fifo # <<>> /\ fifo' = Tail(fifo)

FNext == Take \/ \E k \in Key : Put(k)
FSpec == FInit /\ [][FNext]_fifo
============================================================================
