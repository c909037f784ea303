--------------------------- MODULE StorageMirror ---------------------------
(***************************************************************************)
(* The mirror module, storage_mirror_kernel.c: mirror_sector copies one    *)
(* sector of the storage device into mirror_buffer, vblock_backup_to_file  *)
(* dumps mirror_buffer to a file.  Both work under mirror_mutex.  The      *)
(* storage device is only read: storage_buffer is the variable of module   *)
(* StorageDevice, and other threads may change it between any two steps.   *)
(***************************************************************************)
EXTENDS Integers, Sequences

CONSTANTS Proc, NoProc, HalfField, SectorSize, Payload,
          PathOf   \* the file each thread backs up to

Total   == 2 * HalfField * SectorSize
Byte    == Payload \cup {0}
Sectors == 0 .. 2 * HalfField - 1
Paths   == {PathOf[p] : p \in Proc}

ENOENT      == -2
EIO         == -5
EINVAL      == -22
ENOSPC      == -28
ERESTARTSYS == -512

VARIABLES
    storage_buffer,  \* the device's bytes (read only)
    mirror_buffer,   \* the mirror's bytes
    mirror_mutex,    \* the thread that holds it, or NoProc
    mpc,             \* where each thread is inside this module
    msector,         \* the argument of mirror_sector
    mpos,            \* bytes copied into the mirror, or "pos" of the backup
    written,         \* bytes kernel_write accepted
    mret,            \* "ret", then the value returned
    file             \* the contents of the backup files

mvars == <<mirror_buffer, mirror_mutex, mpc, msector, mpos, written, mret, file>>

MInit ==
    /\ mirror_buffer = [a \in 0 .. Total - 1 |-> 0]
    /\ mirror_mutex = NoProc
    /\ mpc = [p \in Proc |-> "out"]
    /\ msector = [p \in Proc |-> 0]
    /\ mpos = [p \in Proc |-> 0]
    /\ written = [p \in Proc |-> 0]
    /\ mret = [p \in Proc |-> 0]
    /\ file = [f \in Paths |-> <<>>]

MGoto(p, label) == mpc' = [mpc EXCEPT ![p] = label]

\* mirror_mutex is taken; the caller goes on at its copy or its write loop.
MAcquire(p) ==
    /\ mirror_mutex = NoProc
    /\ mirror_mutex' = p
    /\ \/ mpc[p] = "m_lock" /\ MGoto(p, "m_copy")
       \/ mpc[p] = "b_lock" /\ MGoto(p, "b_write")
    /\ UNCHANGED <<mirror_buffer, msector, mpos, written, mret, file>>

----------------------------------------------------------------------------
(* mirror_sector                                                           *)

\* The call, with the range check at its head.
MirrorCall(p, s) ==
    /\ mpc[p] = "out"
    /\ msector' = [msector EXCEPT ![p] = s]
    /\ MGoto(p, IF s \in Sectors THEN "m_lock" ELSE "m_ret")
    /\ UNCHANGED <<mirror_buffer, mirror_mutex, mpos, written, mret, file>>

\* A signal ends the wait: the function returns without copying.
MirrorInterrupted(p) ==
    /\ mpc[p] = "m_lock"
    /\ mirror_mutex # NoProc
    /\ MGoto(p, "m_ret")
    /\ UNCHANGED <<mirror_buffer, mirror_mutex, msector, mpos, written, mret,
                   file>>

\* Faulty variant: the source of the copy is the head of the device.
MirrorByteFromHead(p) ==
    LET a == msector[p] * SectorSize + mpos[p] IN
    /\ mpc[p] = "m_copy"
    /\ mpos[p] < SectorSize
    /\ mirror_buffer' = [mirror_buffer EXCEPT ![a] = storage_buffer[mpos[p]]]
    /\ mpos' = [mpos EXCEPT ![p] = @ + 1]
    /\ UNCHANGED <<mirror_mutex, mpc, msector, written, mret, file>>

\* One byte of memcpy.
MirrorByte(p) ==
    LET a == msector[p] * SectorSize + mpos[p] IN
    /\ mpc[p] = "m_copy"
    /\ mpos[p] < SectorSize
    /\ mirror_buffer' = [mirror_buffer EXCEPT ![a] = storage_buffer[a]]
    /\ mpos' = [mpos EXCEPT ![p] = @ + 1]
    /\ UNCHANGED <<mirror_mutex, mpc, msector, written, mret, file>>

MirrorUnlock(p) ==
    /\ mpc[p] = "m_copy"
    /\ mpos[p] = SectorSize
    /\ mirror_mutex' = NoProc
    /\ MGoto(p, "m_ret")
    /\ UNCHANGED <<mirror_buffer, msector, mpos, written, mret, file>>

----------------------------------------------------------------------------
(* vblock_backup_to_file                                                   *)

\* The call with an empty path, and with the path of p.
BackupCall(p) ==
    /\ mpc[p] = "out"
    /\ \/ mret' = [mret EXCEPT ![p] = EINVAL] /\ MGoto(p, "b_ret")
       \/ UNCHANGED mret /\ MGoto(p, "b_open")
    /\ UNCHANGED <<mirror_buffer, mirror_mutex, msector, mpos, written, file>>

\* filp_open truncates the file; it may fail instead.
BackupOpen(p) ==
    /\ mpc[p] = "b_open"
    /\ \/ /\ file' = [file EXCEPT ![PathOf[p]] = <<>>]
          /\ MGoto(p, "b_lock")
          /\ UNCHANGED mret
       \/ /\ mret' = [mret EXCEPT ![p] = ENOENT]
          /\ MGoto(p, "b_ret")
          /\ UNCHANGED file
    /\ UNCHANGED <<mirror_buffer, mirror_mutex, msector, mpos, written>>

\* A signal ends the wait; the file has been truncated already.
BackupInterrupted(p) ==
    /\ mpc[p] = "b_lock"
    /\ mirror_mutex # NoProc
    /\ mret' = [mret EXCEPT ![p] = ERESTARTSYS]
    /\ MGoto(p, "b_ret")
    /\ UNCHANGED <<mirror_buffer, mirror_mutex, msector, mpos, written, file>>

\* Faulty variant: every kernel_write starts at the head of the mirror.
OverwriteFromHead(f, pos, n) ==
    [i \in 1 .. (IF pos + n > Len(f) THEN pos + n ELSE Len(f)) |->
        IF i > pos /\ i <= pos + n THEN mirror_buffer[i - pos - 1]
        ELSE IF i <= Len(f) THEN f[i] ELSE 0]

\* The contents f after n bytes of the mirror are written at pos: a file that
\* ends before pos is extended with zeroes.
Overwrite(f, pos, n) ==
    [i \in 1 .. (IF pos + n > Len(f) THEN pos + n ELSE Len(f)) |->
        IF i > pos /\ i <= pos + n THEN mirror_buffer[i - 1]
        ELSE IF i <= Len(f) THEN f[i] ELSE 0]

\* kernel_write accepts n bytes, possibly fewer than asked for.
BackupWrite(p, n) ==
    /\ mpc[p] = "b_write"
    /\ mpos[p] < Total
    /\ n \in 1 .. Total - mpos[p]
    /\ file' = [file EXCEPT ![PathOf[p]] = Overwrite(@, mpos[p], n)]
    /\ mpos' = [mpos EXCEPT ![p] = @ + n]
    /\ written' = [written EXCEPT ![p] = @ + n]
    /\ UNCHANGED <<mirror_buffer, mirror_mutex, mpc, msector, mret>>

\* kernel_write fails (a full disk, say) or accepts nothing.
BackupWriteFails(p) ==
    /\ mpc[p] = "b_write"
    /\ mpos[p] < Total
    /\ \E e \in {ENOSPC, EIO} : mret' = [mret EXCEPT ![p] = e]
    /\ MGoto(p, "b_unlock")
    /\ UNCHANGED <<mirror_buffer, mirror_mutex, msector, mpos, written, file>>

BackupLoopEnd(p) ==
    /\ mpc[p] = "b_write"
    /\ mpos[p] >= Total
    /\ mret' = [mret EXCEPT ![p] = IF written[p] = Total THEN 0 ELSE EIO]
    /\ MGoto(p, "b_unlock")
    /\ UNCHANGED <<mirror_buffer, mirror_mutex, msector, mpos, written, file>>

\* Faulty variant: a failed write returns with the mutex held.
BackupUnlockOnSuccess(p) ==
    /\ mpc[p] = "b_unlock"
    /\ mirror_mutex' = IF mret[p] = 0 THEN NoProc ELSE mirror_mutex
    /\ MGoto(p, "b_ret")
    /\ UNCHANGED <<mirror_buffer, msector, mpos, written, mret, file>>

BackupUnlock(p) ==
    /\ mpc[p] = "b_unlock"
    /\ mirror_mutex' = NoProc
    /\ MGoto(p, "b_ret")
    /\ UNCHANGED <<mirror_buffer, msector, mpos, written, mret, file>>

----------------------------------------------------------------------------
\* Back in storage_ioctl; the locals are gone.
MReturn(p) ==
    /\ mpc[p] \in {"m_ret", "b_ret"}
    /\ MGoto(p, "out")
    /\ msector' = [msector EXCEPT ![p] = 0]
    /\ mpos' = [mpos EXCEPT ![p] = 0]
    /\ written' = [written EXCEPT ![p] = 0]
    /\ mret' = [mret EXCEPT ![p] = 0]
    /\ UNCHANGED <<mirror_buffer, mirror_mutex, file>>

MDisturb(p) == MirrorInterrupted(p) \/ BackupInterrupted(p) \/ BackupWriteFails(p)

MLocalStep(p) ==
    \/ MirrorByte(p) \/ MirrorUnlock(p)
    \/ BackupOpen(p) \/ BackupLoopEnd(p) \/ BackupUnlock(p)
    \/ \E n \in 1 .. Total : BackupWrite(p, n)

\* Every variable of the mirror keeps its type.
MTypeOK ==
    /\ mirror_buffer \in [0 .. Total - 1 -> Byte]
    /\ mirror_mutex \in Proc \cup {NoProc}
    /\ mpc \in [Proc -> {"out", "m_lock", "m_copy", "m_ret", "b_open", "b_lock",
                         "b_write", "b_unlock", "b_ret"}]
    /\ msector \in [Proc -> Sectors]
    /\ mpos \in [Proc -> 0 .. Total]
    /\ written \in [Proc -> 0 .. Total]
    /\ mret \in [Proc -> Int]
    /\ file \in [Paths -> Seq(Byte)]
============================================================================
