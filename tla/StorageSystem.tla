--------------------------- MODULE StorageSystem ---------------------------
(***************************************************************************)
(* The storage device together with its mirror: IOCTL_MIRROR_SECTOR and    *)
(* IOCTL_BACKUP_TO_FILE of storage_kernel.c run the functions exported by  *)
(* storage_mirror_kernel.c in the calling thread.  storage_mutex is not    *)
(* held during these calls.                                                *)
(***************************************************************************)
EXTENDS StorageDevice

CONSTANT PathOf   \* the file each thread backs up to

VARIABLES mirror_buffer, mirror_mutex, mpc, msector, mpos, written, mret, file

M == INSTANCE StorageMirror

mvars == <<mirror_buffer, mirror_mutex, mpc, msector, mpos, written, mret, file>>
svars == <<vars, mvars>>

SInit == Init /\ M!MInit

\* A client calls the driver; the two mirror commands call on into the mirror.
SClientCall(p) ==
    /\ ClientCall(p)
    /\ CASE pc'[p] = "mirror" -> M!MirrorCall(p, call'[p].sector)
         [] pc'[p] = "backup" -> M!BackupCall(p)
         [] OTHER             -> UNCHANGED mvars

\* The exported function returns and so does the ioctl: with 0 from
\* mirror_sector, with the function's value from vblock_backup_to_file.
SReturn(p) ==
    /\ \/ mpc[p] = "m_ret" /\ MirrorReturn(p)
       \/ mpc[p] = "b_ret" /\ BackupReturn(p, mret[p])
    /\ M!MReturn(p)

DeviceStep(p) == (LocalStep(p) \/ Disturb(p) \/ Acquire(p)) /\ UNCHANGED mvars
MirrorStep(p) ==
    (M!MLocalStep(p) \/ M!MDisturb(p) \/ M!MAcquire(p)) /\ UNCHANGED vars

SNext == \E p \in Proc :
    SClientCall(p) \/ DeviceStep(p) \/ MirrorStep(p) \/ SReturn(p)

\* A running thread is scheduled again, and the hand-off of the kernel's mutexes
\* keeps a waiter from being overtaken for ever.
SFairness == \A p \in Proc :
    /\ WF_svars(LocalStep(p) /\ UNCHANGED mvars)
    /\ WF_svars(M!MLocalStep(p) /\ UNCHANGED vars)
    /\ WF_svars(SReturn(p))
    /\ SF_svars(Acquire(p) /\ UNCHANGED mvars)
    /\ SF_svars(M!MAcquire(p) /\ UNCHANGED vars)

SSpec == SInit /\ [][SNext]_svars /\ SFairness

----------------------------------------------------------------------------
\* Every variable of the mirror keeps its type, and a thread is inside the
\* mirror exactly while its ioctl is.
STypeOK ==
    /\ M!MTypeOK
    /\ \A p \in Proc : mpc[p] # "out" <=> pc[p] \in {"mirror", "backup"}

\* The contents of a file that holds the whole mirror.
MirrorImage == [i \in 1 .. STORAGE_TOTAL_SIZE |-> mirror_buffer[i - 1]]

\* A backup that is about to return 0 has left one moment's image of the whole
\* mirror in its file, however many partial writes it took.
BackupIsMirrorImage ==
    \A p \in Proc : mpc[p] = "b_unlock" /\ mret[p] = 0 =>
        file[PathOf[p]] = MirrorImage

\* A mirrored sector is a copy of the sector as some write left it.
MirrorNotTorn == mirror_mutex = NoProc => NotMixed(mirror_buffer)

\* Every call into the device returns, the mirror's included: the two mutexes
\* cannot lock each other out.
SCallsReturn == \A p \in Proc : pc[p] # "idle" ~> pc[p] = "idle"
============================================================================
