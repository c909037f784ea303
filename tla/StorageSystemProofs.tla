------------------------ MODULE StorageSystemProofs ------------------------
(***************************************************************************)
(* Theorems about the storage device together with its mirror, for every   *)
(* number of threads, sectors and bytes: mirror_mutex protects the mirror, *)
(* a copy that nothing overtook is exact, and a backup leaves an image of  *)
(* the whole mirror.                                                       *)
(***************************************************************************)
EXTENDS MirrorHistory, StorageDeviceProofs

\* The control points of the mirror at which the thread holds mirror_mutex.
Holding == {"m_copy", "b_write", "b_unlock"}

\* Exactly the thread inside a critical section of the mirror owns mirror_mutex.
MirrorMutexHeld == \A p \in Proc : mpc[p] \in Holding <=> mirror_mutex = p

\* A thread that has not begun to copy or to write has moved nothing; a copy
\* stays inside its sector; a backup has written what it has moved over.
Progress ==
    \A p \in Proc :
        /\ mpc[p] \in {"out", "m_lock", "b_open", "b_lock"}
              => mpos[p] = 0 /\ written[p] = 0
        /\ mpc[p] = "m_copy" => mpos[p] <= SectorSize
        /\ mpc[p] \in {"b_write", "b_unlock"} => written[p] = mpos[p]
        /\ mpc[p] = "b_unlock" /\ mret[p] = 0 => mpos[p] = M!Total

\* The inductive invariant of the composition, next to that of the device.
SysInv ==
    /\ STypeOK
    /\ MirrorMutexHeld
    /\ mret \in [Proc -> BackupResults]
    /\ Progress

\* The first k bytes of the mirror, as they appear in a file.
Image(k) == [i \in 1 .. k |-> mirror_buffer[i - 1]]

\* What a backup that has opened its file has written so far is the head of the
\* mirror as it is now.
FileIsImage ==
    \A p \in Proc : mpc[p] \in {"b_lock", "b_write", "b_unlock"} =>
        file[PathOf[p]] = Image(mpos[p])

----------------------------------------------------------------------------
(* The mirror as the device sees it                                        *)

\* The error codes of the mirror are those the device knows.
LEMMA MirrorCodes ==
    /\ M!ENOENT \in BackupResults /\ M!EIO \in BackupResults
    /\ M!EINVAL \in BackupResults /\ M!ENOSPC \in BackupResults
    /\ M!ERESTARTSYS \in BackupResults /\ 0 \in BackupResults
    /\ M!ENOSPC # 0 /\ M!EIO # 0
    /\ BackupResults \subseteq Int
BY DEF BackupResults, M!ENOENT, M!EIO, M!EINVAL, M!ENOSPC, M!ERESTARTSYS, ENOENT,
       EIO, EINVAL, ENOSPC, ERESTARTSYS

\* The size of the mirror is that of the device, and holds a sector at least.
LEMMA MirrorSize ==
    /\ M!Total = STORAGE_TOTAL_SIZE
    /\ M!Total \in Nat
    /\ SectorSize <= M!Total
    /\ M!Byte = Byte
    /\ M!Sectors = Sectors
    /\ 0 .. M!Total - 1 = Address
<1>1. HalfField \in Nat \ {0} /\ SectorSize \in Nat \ {0}
  BY SizeAssumption
<1>2. 2 * HalfField \in Nat /\ 2 * HalfField >= 1
  BY <1>1
<1>3. ASSUME NEW h \in Nat, NEW s \in Nat, h >= 1 PROVE s <= h * s /\ h * s \in Nat
  BY <1>3
<1>4. M!Total = 2 * HalfField * SectorSize
  BY DEF M!Total
<1> QED
  BY <1>1, <1>2, <1>3, <1>4
  DEF M!Byte, M!Sectors, STORAGE_TOTAL_SIZE, STORAGE_NUM_SECTORS, Byte, Sectors,
      Address

\* What a client's call does to the mirror: nothing, or a call into it that the
\* ioctl has checked.
LEMMA ClientSplit ==
    ASSUME NEW p \in Proc, SClientCall(p)
    PROVE  /\ ClientCall(p)
           /\ \/ pc'[p] = "mirror" /\ M!MirrorCall(p, call'[p].sector)
              \/ pc'[p] = "backup" /\ M!BackupCall(p)
              \/ /\ pc'[p] \notin {"mirror", "backup"}
                 /\ UNCHANGED mvars
BY DEF SClientCall

\* Outside the mirror's own calls a step of the device neither enters nor leaves
\* the mirror.
LEMMA DeviceStepOutside ==
    ASSUME IndInv, NEW p \in Proc,
           LocalStep(p) \/ Disturb(p) \/ Acquire(p)
    PROVE  /\ pc[p] \notin {"mirror", "backup"}
           /\ pc'[p] \notin {"mirror", "backup"}
           /\ \A q \in Proc \ {p} : pc'[q] = pc[q]
<1>1. pc \in [Proc -> Critical \cup {"idle", "lock", "give", "mirror", "backup"}]
  BY DEF IndInv, TypeOK
<1>2. CASE LocalStep(p)
  BY <1>1, <1>2
  DEF LocalStep, ReadByte, ReadDone, CheckLocks, StoreByte, StoreDone, SetLock,
      InfoCopy, InfoGive, Release, Goto, Return
<1>3. CASE Disturb(p)
  BY <1>1, <1>3 DEF Disturb, ReadFault, WriteFault, Interrupted, Goto, Return
<1>4. CASE Acquire(p)
  BY <1>1, <1>4 DEF Acquire, Goto, AfterLock
<1> QED
  BY <1>2, <1>3, <1>4

\* A client calls from user space, and only its own control moves.
LEMMA ClientCallMoves ==
    ASSUME IndInv, NEW p \in Proc, ClientCall(p)
    PROVE  /\ pc[p] = "idle"
           /\ \A q \in Proc \ {p} : pc'[q] = pc[q]
<1>1. pc \in [Proc -> Critical \cup {"idle", "lock", "give", "mirror", "backup"}]
  BY DEF IndInv, TypeOK
<1> QED
  BY <1>1
  DEF ClientCall, ReadCall, WriteCall, IoctlReject, SectorIoctl, UnlockIoctl,
      InfoIoctl, BackupIoctl, Reject, Enter

\* A call that comes back from the mirror is in user space again.
LEMMA MirrorSideMoves ==
    ASSUME IndInv, NEW p \in Proc, NEW r,
           MirrorReturn(p) \/ BackupReturn(p, r)
    PROVE  pc'[p] = "idle" /\ \A q \in Proc \ {p} : pc'[q] = pc[q]
<1>1. pc \in [Proc -> Critical \cup {"idle", "lock", "give", "mirror", "backup"}]
  BY DEF IndInv, TypeOK
<1> QED
  BY <1>1 DEF MirrorReturn, BackupReturn, Return

----------------------------------------------------------------------------
(* The steps of the composition as steps of the device                     *)

\* Every step of the composition is a step of the device or leaves it alone, so
\* the device's invariant carries over.
LEMMA StepIsDeviceStep ==
    ASSUME mret \in [Proc -> BackupResults], [SNext]_svars
    PROVE  [Next]_vars
<1>1. CASE UNCHANGED svars
  BY <1>1 DEF svars
<1>2. ASSUME NEW p \in Proc, SClientCall(p) PROVE Next
  BY <1>2, ClientSplit DEF Next
<1>3. ASSUME NEW p \in Proc, DeviceStep(p) PROVE Next
  BY <1>3 DEF DeviceStep, Next
<1>4. ASSUME NEW p \in Proc, MirrorStep(p) PROVE UNCHANGED vars
  BY <1>4 DEF MirrorStep
<1>5. ASSUME NEW p \in Proc, SReturn(p) PROVE Next
  <2>1. mret[p] \in BackupResults
    OBVIOUS
  <2>2. MirrorSide(p)
    BY <1>5, <2>1 DEF SReturn, MirrorSide
  <2> QED
    BY <2>2 DEF Next
<1> QED
  BY <1>1, <1>2, <1>3, <1>4, <1>5 DEF SNext

----------------------------------------------------------------------------
(* The inductive invariant of the composition                              *)

\* It holds before the first call.
LEMMA InitSysInv == SInit => SysInv
<1> SUFFICES ASSUME SInit PROVE SysInv
  OBVIOUS
<1> USE DEF SInit, M!MInit
<1>1. M!MTypeOK
  <2>1. 0 \in M!Sectors /\ 0 \in M!Byte /\ 0 \in 0 .. M!Total
    BY MirrorSize, SizeAssumption DEF M!Byte, M!Sectors
  <2>2. file \in [M!Paths -> Seq(M!Byte)]
    OBVIOUS
  <2> QED
    BY <2>1, <2>2 DEF M!MTypeOK
<1>2. STypeOK
  BY <1>1 DEF STypeOK, Init
<1>3. MirrorMutexHeld
  BY ProcAssumption DEF MirrorMutexHeld, Holding
<1>4. mret \in [Proc -> BackupResults]
  BY MirrorCodes
<1>5. Progress
  BY DEF Progress
<1> QED
  BY <1>2, <1>3, <1>4, <1>5 DEF SysInv

\* What SysInv says of the variables, expanded.
LEMMA SysTypes ==
    ASSUME SysInv
    PROVE  /\ mirror_buffer \in [Address -> Byte]
           /\ mirror_mutex \in Proc \cup {NoProc}
           /\ mpc \in [Proc -> {"out", "m_lock", "m_copy", "m_ret", "b_open",
                                "b_lock", "b_write", "b_unlock", "b_ret"}]
           /\ msector \in [Proc -> Sectors]
           /\ mpos \in [Proc -> 0 .. M!Total]
           /\ written \in [Proc -> 0 .. M!Total]
           /\ mret \in [Proc -> BackupResults]
           /\ file \in [M!Paths -> Seq(Byte)]
BY MirrorSize DEF SysInv, STypeOK, M!MTypeOK

\* The same facts are what the type invariant needs after a step.
LEMMA SysTypesSuffice ==
    ASSUME mirror_buffer' \in [Address -> Byte],
           mirror_mutex' \in Proc \cup {NoProc},
           mpc' \in [Proc -> {"out", "m_lock", "m_copy", "m_ret", "b_open",
                              "b_lock", "b_write", "b_unlock", "b_ret"}],
           msector' \in [Proc -> Sectors],
           mpos' \in [Proc -> 0 .. M!Total],
           written' \in [Proc -> 0 .. M!Total],
           mret' \in [Proc -> BackupResults],
           file' \in [M!Paths -> Seq(Byte)]
    PROVE  M!MTypeOK'
BY MirrorSize, MirrorCodes DEF M!MTypeOK

\* Nothing of the invariant is about a thread that stays where it is.
LEMMA SysInvByThread ==
    ASSUME SysInv, M!MTypeOK', mret' \in [Proc -> BackupResults],
           NEW p \in Proc,
           \A q \in Proc \ {p} :
              /\ mpc'[q] = mpc[q] /\ mpos'[q] = mpos[q]
              /\ written'[q] = written[q] /\ mret'[q] = mret[q]
              /\ pc'[q] \in {"mirror", "backup"} <=> pc[q] \in {"mirror", "backup"},
           mpc'[p] # "out" <=> pc'[p] \in {"mirror", "backup"},
           \A q \in Proc : mpc'[q] \in Holding <=> mirror_mutex' = q,
           mpc'[p] \in {"out", "m_lock", "b_open", "b_lock"}
              => mpos'[p] = 0 /\ written'[p] = 0,
           mpc'[p] = "m_copy" => mpos'[p] <= SectorSize,
           mpc'[p] \in {"b_write", "b_unlock"} => written'[p] = mpos'[p],
           mpc'[p] = "b_unlock" /\ mret'[p] = 0 => mpos'[p] = M!Total
    PROVE  SysInv'
<1>1. STypeOK'
  BY DEF SysInv, STypeOK
<1>2. MirrorMutexHeld'
  BY DEF MirrorMutexHeld
<1>3. Progress'
  BY DEF SysInv, Progress
<1> QED
  BY <1>1, <1>2, <1>3 DEF SysInv

\* A call into mirror_sector or vblock_backup_to_file.
LEMMA CallSysInv ==
    ASSUME SysInv, TypeOK, TypeOK', NEW p \in Proc,
           \A q \in Proc \ {p} : pc'[q] = pc[q],
           \/ pc'[p] = "mirror" /\ M!MirrorCall(p, call'[p].sector)
           \/ pc'[p] = "backup" /\ M!BackupCall(p)
    PROVE  SysInv'
<1>1. call'[p].sector \in Sectors
  BY DEF TypeOK, Call
<1>2. M!EINVAL \in BackupResults
  BY MirrorCodes
<1>3. M!MTypeOK' /\ mret' \in [Proc -> BackupResults]
  <2>1. M!MirrorCall(p, call'[p].sector) => msector' \in [Proc -> Sectors]
    BY <1>1, SysTypes DEF M!MirrorCall
  <2>2. mret' \in [Proc -> BackupResults]
    BY <1>2, SysTypes DEF M!MirrorCall, M!BackupCall
  <2> QED
    BY <2>1, <2>2, SysTypes, SysTypesSuffice
    DEF M!MirrorCall, M!BackupCall, M!MGoto
<1>4. mpc[p] = "out" /\ mpos[p] = 0 /\ written[p] = 0 /\ mirror_mutex # p
  BY DEF M!MirrorCall, M!BackupCall, SysInv, Progress, MirrorMutexHeld, Holding
<1>5. /\ mpc'[p] \in {"m_lock", "m_ret", "b_open", "b_ret"}
      /\ \A q \in Proc \ {p} : mpc'[q] = mpc[q] /\ mret'[q] = mret[q]
      /\ UNCHANGED <<mpos, written, mirror_mutex>>
  BY SysTypes DEF M!MirrorCall, M!BackupCall, M!MGoto
<1>6. \A q \in Proc : mpc'[q] \in Holding <=> mirror_mutex' = q
  BY <1>4, <1>5 DEF SysInv, MirrorMutexHeld, Holding
<1> QED
  BY <1>3, <1>4, <1>5, <1>6, SysInvByThread

\* The return from the mirror.
LEMMA ReturnSysInv ==
    ASSUME SysInv, NEW p \in Proc, M!MReturn(p), pc'[p] = "idle",
           \A q \in Proc \ {p} : pc'[q] = pc[q]
    PROVE  SysInv'
<1>1. /\ 0 \in Sectors /\ 0 \in BackupResults /\ 0 \in 0 .. M!Total
  BY MirrorSize, MirrorCodes, SizeAssumption DEF Sectors, STORAGE_NUM_SECTORS
<1>2. mret' \in [Proc -> BackupResults]
  BY <1>1, SysTypes DEF M!MReturn
<1>3. M!MTypeOK'
  BY <1>1, <1>2, SysTypes, SysTypesSuffice DEF M!MReturn, M!MGoto
<1>4. /\ mpc'[p] = "out" /\ mpos'[p] = 0 /\ written'[p] = 0
      /\ \A q \in Proc \ {p} :
            /\ mpc'[q] = mpc[q] /\ mpos'[q] = mpos[q]
            /\ written'[q] = written[q] /\ mret'[q] = mret[q]
      /\ UNCHANGED mirror_mutex
  BY SysTypes DEF M!MReturn, M!MGoto
<1>5. mpc[p] \notin Holding
  BY DEF M!MReturn, Holding
<1>6. \A q \in Proc : mpc'[q] \in Holding <=> mirror_mutex' = q
  BY <1>4, <1>5 DEF SysInv, MirrorMutexHeld, Holding
<1> QED
  BY <1>2, <1>3, <1>4, <1>6, SysInvByThread

\* A thread inside the mirror stays inside while it moves.
LEMMA InsideStays ==
    ASSUME SysInv, NEW p \in Proc, UNCHANGED pc, mpc[p] # "out", mpc'[p] # "out"
    PROVE  /\ mpc'[p] # "out" <=> pc'[p] \in {"mirror", "backup"}
           /\ \A q \in Proc : pc'[q] = pc[q]
BY DEF SysInv, STypeOK

\* mirror_mutex is taken.
LEMMA MAcquireSysInv ==
    ASSUME SysInv, NEW p \in Proc, M!MAcquire(p), UNCHANGED pc
    PROVE  SysInv'
<1>1. M!MTypeOK' /\ mret' \in [Proc -> BackupResults]
  BY SysTypes, SysTypesSuffice DEF M!MAcquire, M!MGoto
<1>2. /\ mpc[p] \in {"m_lock", "b_lock"}
      /\ mpc'[p] \in {"m_copy", "b_write"}
      /\ \A q \in Proc \ {p} : mpc'[q] = mpc[q]
      /\ UNCHANGED <<mpos, written, mret>>
      /\ mirror_mutex = NoProc /\ mirror_mutex' = p
  BY SysTypes DEF M!MAcquire, M!MGoto
<1>3. mpos[p] = 0 /\ written[p] = 0
  BY <1>2 DEF SysInv, Progress
<1>4. \A q \in Proc : mpc'[q] \in Holding <=> mirror_mutex' = q
  BY <1>2, ProcAssumption DEF SysInv, MirrorMutexHeld, Holding
<1>5. mpc'[p] = "m_copy" => mpos'[p] <= SectorSize
  BY <1>2, <1>3, SizeAssumption
<1>6. /\ mpc'[p] # "out" <=> pc'[p] \in {"mirror", "backup"}
      /\ \A q \in Proc : pc'[q] = pc[q]
  BY <1>2, InsideStays
<1> QED
  BY <1>1, <1>2, <1>3, <1>4, <1>5, <1>6, SysInvByThread

\* One byte of the copy in mirror_sector.
LEMMA MirrorByteSysInv ==
    ASSUME SysInv, TypeOK, NEW p \in Proc, M!MirrorByte(p), UNCHANGED pc
    PROVE  SysInv'
<1>1. /\ mpc[p] = "m_copy" /\ mpos[p] < SectorSize
      /\ mpos' = [mpos EXCEPT ![p] = mpos[p] + 1]
      /\ UNCHANGED <<mirror_mutex, mpc, msector, written, mret, file>>
  BY DEF M!MirrorByte
<1>2. mirror_buffer' \in [Address -> Byte]
  <2> DEFINE a == msector[p] * SectorSize + mpos[p]
  <2>1. mirror_buffer' = [mirror_buffer EXCEPT ![a] = storage_buffer[a]]
    BY DEF M!MirrorByte
  <2>2. a \in Address => storage_buffer[a] \in Byte
    BY DEF TypeOK
  <2> HIDE DEF a
  <2> QED
    BY <2>1, <2>2, SysTypes
<1>3. mpos[p] + 1 \in 0 .. M!Total /\ mpos[p] + 1 <= SectorSize
  BY <1>1, MirrorSize, SysTypes, SizeAssumption
<1>4. mpos' \in [Proc -> 0 .. M!Total]
  BY <1>1, <1>3, SysTypes
<1>5. M!MTypeOK' /\ mret' \in [Proc -> BackupResults]
  BY <1>1, <1>2, <1>4, SysTypes, SysTypesSuffice
<1>6. mpos'[p] <= SectorSize /\ \A q \in Proc \ {p} : mpos'[q] = mpos[q]
  BY <1>1, <1>3, SysTypes
<1>7. /\ mpc'[p] # "out" <=> pc'[p] \in {"mirror", "backup"}
      /\ \A q \in Proc : pc'[q] = pc[q]
  BY <1>1, InsideStays
<1>8. \A q \in Proc : mpc'[q] \in Holding <=> mirror_mutex' = q
  BY <1>1 DEF SysInv, MirrorMutexHeld
<1> QED
  BY <1>1, <1>5, <1>6, <1>7, <1>8, SysInvByThread

\* A backup opens its file, or fails to.
LEMMA BackupOpenSysInv ==
    ASSUME SysInv, NEW p \in Proc, M!BackupOpen(p), UNCHANGED pc
    PROVE  SysInv'
<1>1. /\ mpc[p] = "b_open" /\ mpc'[p] \in {"b_lock", "b_ret"}
      /\ \A q \in Proc \ {p} : mpc'[q] = mpc[q] /\ mret'[q] = mret[q]
      /\ UNCHANGED <<mirror_buffer, mirror_mutex, msector, mpos, written>>
  BY SysTypes DEF M!BackupOpen, M!MGoto
<1>2. mpos[p] = 0 /\ written[p] = 0 /\ mpc[p] \notin Holding
  BY <1>1 DEF SysInv, Progress, Holding
<1>3. mret' \in [Proc -> BackupResults]
  BY SysTypes, MirrorCodes DEF M!BackupOpen
<1>4. file' \in [M!Paths -> Seq(Byte)]
  <2>1. file' = file \/ file' = [file EXCEPT ![PathOf[p]] = <<>>]
    BY DEF M!BackupOpen
  <2>2. <<>> \in Seq(Byte)
    OBVIOUS
  <2>3. file \in [M!Paths -> Seq(Byte)]
    BY SysTypes
  <2> QED
    BY <2>1, <2>2, <2>3
<1>5. M!MTypeOK'
  BY <1>1, <1>3, <1>4, SysTypes, SysTypesSuffice DEF M!BackupOpen, M!MGoto
<1>6. /\ mpc'[p] # "out" <=> pc'[p] \in {"mirror", "backup"}
      /\ \A q \in Proc : pc'[q] = pc[q]
  BY <1>1, InsideStays
<1>7. \A q \in Proc : mpc'[q] \in Holding <=> mirror_mutex' = q
  BY <1>1, <1>2 DEF SysInv, MirrorMutexHeld, Holding
<1> QED
  BY <1>1, <1>2, <1>3, <1>5, <1>6, <1>7, SysInvByThread

\* A signal ends the wait for mirror_mutex.
LEMMA MInterruptedSysInv ==
    ASSUME SysInv, NEW p \in Proc, UNCHANGED pc,
           M!MirrorInterrupted(p) \/ M!BackupInterrupted(p)
    PROVE  SysInv'
<1>1. /\ mpc[p] \in {"m_lock", "b_lock"} /\ mpc'[p] \in {"m_ret", "b_ret"}
      /\ \A q \in Proc \ {p} : mpc'[q] = mpc[q] /\ mret'[q] = mret[q]
      /\ UNCHANGED <<mirror_buffer, mirror_mutex, msector, mpos, written, file>>
  BY SysTypes DEF M!MirrorInterrupted, M!BackupInterrupted, M!MGoto
<1>2. mpc[p] \notin Holding
  BY <1>1 DEF Holding
<1>3. mret' \in [Proc -> BackupResults]
  BY SysTypes, MirrorCodes DEF M!MirrorInterrupted, M!BackupInterrupted
<1>4. M!MTypeOK'
  BY <1>1, <1>3, SysTypes, SysTypesSuffice
  DEF M!MirrorInterrupted, M!BackupInterrupted, M!MGoto
<1>5. /\ mpc'[p] # "out" <=> pc'[p] \in {"mirror", "backup"}
      /\ \A q \in Proc : pc'[q] = pc[q]
  BY <1>1, InsideStays
<1>6. \A q \in Proc : mpc'[q] \in Holding <=> mirror_mutex' = q
  BY <1>1, <1>2 DEF SysInv, MirrorMutexHeld, Holding
<1> QED
  BY <1>1, <1>3, <1>4, <1>5, <1>6, SysInvByThread

\* mirror_mutex is released, at the end of a copy or of a backup.
LEMMA MUnlockSysInv ==
    ASSUME SysInv, NEW p \in Proc, UNCHANGED pc,
           M!MirrorUnlock(p) \/ M!BackupUnlock(p)
    PROVE  SysInv'
<1>1. /\ mpc[p] \in {"m_copy", "b_unlock"} /\ mpc'[p] \in {"m_ret", "b_ret"}
      /\ \A q \in Proc \ {p} : mpc'[q] = mpc[q]
      /\ mirror_mutex' = NoProc
      /\ UNCHANGED <<mirror_buffer, msector, mpos, written, mret, file>>
  BY SysTypes DEF M!MirrorUnlock, M!BackupUnlock, M!MGoto
<1>2. M!MTypeOK' /\ mret' \in [Proc -> BackupResults]
  BY <1>1, SysTypes, SysTypesSuffice DEF M!MirrorUnlock, M!BackupUnlock, M!MGoto
<1>3. mirror_mutex = p
  BY <1>1 DEF SysInv, MirrorMutexHeld, Holding
<1>4. \A q \in Proc : mpc'[q] \in Holding <=> mirror_mutex' = q
  BY <1>1, <1>3, ProcAssumption DEF SysInv, MirrorMutexHeld, Holding
<1>5. /\ mpc'[p] # "out" <=> pc'[p] \in {"mirror", "backup"}
      /\ \A q \in Proc : pc'[q] = pc[q]
  BY <1>1, InsideStays
<1> QED
  BY <1>1, <1>2, <1>4, <1>5, SysInvByThread

\* The write loop of a backup ends, after its last byte or a failed write.
LEMMA LoopEndSysInv ==
    ASSUME SysInv, NEW p \in Proc, UNCHANGED pc,
           M!BackupLoopEnd(p) \/ M!BackupWriteFails(p)
    PROVE  SysInv'
<1>1. /\ mpc[p] = "b_write" /\ mpc'[p] = "b_unlock"
      /\ \A q \in Proc \ {p} : mpc'[q] = mpc[q] /\ mret'[q] = mret[q]
      /\ UNCHANGED <<mirror_buffer, mirror_mutex, msector, mpos, written, file>>
  BY SysTypes DEF M!BackupLoopEnd, M!BackupWriteFails, M!MGoto
<1>2. mret' \in [Proc -> BackupResults]
  BY SysTypes, MirrorCodes DEF M!BackupLoopEnd, M!BackupWriteFails
<1>3. M!MTypeOK'
  BY <1>1, <1>2, SysTypes, SysTypesSuffice
  DEF M!BackupLoopEnd, M!BackupWriteFails, M!MGoto
<1>4. written[p] = mpos[p]
  BY <1>1 DEF SysInv, Progress
<1>5. mret'[p] = 0 => mpos[p] = M!Total
  BY <1>4, SysTypes, MirrorCodes DEF M!BackupLoopEnd, M!BackupWriteFails
<1>6. \A q \in Proc : mpc'[q] \in Holding <=> mirror_mutex' = q
  BY <1>1 DEF SysInv, MirrorMutexHeld, Holding
<1>7. /\ mpc'[p] # "out" <=> pc'[p] \in {"mirror", "backup"}
      /\ \A q \in Proc : pc'[q] = pc[q]
  BY <1>1, InsideStays
<1> QED
  BY <1>1, <1>2, <1>3, <1>4, <1>5, <1>6, <1>7, SysInvByThread

\* Bytes of the mirror written over a file of bytes leave a file of bytes.
LEMMA OverwriteType ==
    ASSUME mirror_buffer \in [Address -> Byte], NEW f \in Seq(Byte),
           NEW pos \in Nat, NEW n \in 1 .. M!Total - pos
    PROVE  M!Overwrite(f, pos, n) \in Seq(Byte)
<1> DEFINE k == IF pos + n > Len(f) THEN pos + n ELSE Len(f)
           v(i) == IF i > pos /\ i <= pos + n THEN mirror_buffer[i - 1]
                   ELSE IF i <= Len(f) THEN f[i] ELSE 0
<1>1. M!Overwrite(f, pos, n) = [i \in 1 .. k |-> v(i)]
  BY DEF M!Overwrite
<1>2. k \in Nat
  BY MirrorSize
<1>3. ASSUME NEW i \in 1 .. k PROVE v(i) \in Byte
  <2>1. CASE i > pos /\ i <= pos + n
    <3>1. i - 1 \in Address
      BY <1>2, <2>1, MirrorSize DEF Address
    <3> QED
      BY <2>1, <3>1
  <2>2. CASE ~(i > pos /\ i <= pos + n)
    BY <2>2, <1>2 DEF Byte
  <2> QED
    BY <2>1, <2>2
<1> HIDE DEF k, v
<1>4. [i \in 1 .. k |-> v(i)] \in [1 .. k -> Byte]
  BY <1>3
<1> QED
  BY <1>1, <1>2, <1>4

\* kernel_write accepts n bytes.
LEMMA BackupWriteSysInv ==
    ASSUME SysInv, NEW p \in Proc, NEW n, M!BackupWrite(p, n), UNCHANGED pc
    PROVE  SysInv'
<1>1. /\ mpc[p] = "b_write" /\ n \in 1 .. M!Total - mpos[p]
      /\ mpos' = [mpos EXCEPT ![p] = mpos[p] + n]
      /\ written' = [written EXCEPT ![p] = written[p] + n]
      /\ file' = [file EXCEPT ![PathOf[p]] =
                    M!Overwrite(file[PathOf[p]], mpos[p], n)]
      /\ UNCHANGED <<mirror_buffer, mirror_mutex, mpc, msector, mret>>
  BY DEF M!BackupWrite
<1>2. mpos[p] \in 0 .. M!Total /\ written[p] = mpos[p]
  BY <1>1, SysTypes DEF SysInv, Progress
<1>3. mpos[p] + n \in 0 .. M!Total
  BY <1>1, <1>2, MirrorSize
<1>4. mpos' \in [Proc -> 0 .. M!Total] /\ written' \in [Proc -> 0 .. M!Total]
  BY <1>1, <1>2, <1>3, SysTypes
<1>5. file' \in [M!Paths -> Seq(Byte)]
  <2>1. PathOf[p] \in M!Paths
    BY DEF M!Paths
  <2>2. M!Overwrite(file[PathOf[p]], mpos[p], n) \in Seq(Byte)
    <3>1. file[PathOf[p]] \in Seq(Byte) /\ mirror_buffer \in [Address -> Byte]
      BY <2>1, SysTypes
    <3>2. mpos[p] \in Nat
      BY <1>2, MirrorSize
    <3> QED
      BY <1>1, <3>1, <3>2, OverwriteType
  <2> QED
    BY <1>1, <2>1, <2>2, SysTypes
<1>6. M!MTypeOK' /\ mret' \in [Proc -> BackupResults]
  BY <1>1, <1>4, <1>5, SysTypes, SysTypesSuffice
<1>7. /\ written'[p] = mpos'[p]
      /\ \A q \in Proc \ {p} : mpos'[q] = mpos[q] /\ written'[q] = written[q]
  BY <1>1, <1>2, SysTypes
<1>8. \A q \in Proc : mpc'[q] \in Holding <=> mirror_mutex' = q
  BY <1>1 DEF SysInv, MirrorMutexHeld
<1>9. /\ mpc'[p] # "out" <=> pc'[p] \in {"mirror", "backup"}
      /\ \A q \in Proc : pc'[q] = pc[q]
  BY <1>1, InsideStays
<1> QED
  BY <1>1, <1>6, <1>7, <1>8, <1>9, SysInvByThread

\* A step that leaves the mirror alone keeps its part of the invariant.
LEMMA IdleSysInv ==
    ASSUME SysInv, UNCHANGED mvars,
           \A q \in Proc : pc'[q] \in {"mirror", "backup"}
                              <=> pc[q] \in {"mirror", "backup"}
    PROVE  SysInv'
BY DEF SysInv, STypeOK, M!MTypeOK, MirrorMutexHeld, Progress, mvars

\* A step inside the mirror, by action.
LEMMA MirrorStepSysInv ==
    ASSUME IndInv, SysInv, NEW p \in Proc, MirrorStep(p)
    PROVE  SysInv'
<1>1. UNCHANGED pc /\ TypeOK
  BY DEF MirrorStep, vars, IndInv
<1>2. CASE M!MirrorByte(p)
  BY <1>1, <1>2, MirrorByteSysInv
<1>3. CASE M!MirrorUnlock(p) \/ M!BackupUnlock(p)
  BY <1>1, <1>3, MUnlockSysInv
<1>4. CASE M!BackupOpen(p)
  BY <1>1, <1>4, BackupOpenSysInv
<1>5. CASE M!BackupLoopEnd(p) \/ M!BackupWriteFails(p)
  BY <1>1, <1>5, LoopEndSysInv
<1>6. ASSUME NEW n, M!BackupWrite(p, n) PROVE SysInv'
  BY <1>1, <1>6, BackupWriteSysInv
<1>7. CASE M!MirrorInterrupted(p) \/ M!BackupInterrupted(p)
  BY <1>1, <1>7, MInterruptedSysInv
<1>8. CASE M!MAcquire(p)
  BY <1>1, <1>8, MAcquireSysInv
<1> QED
  BY <1>2, <1>3, <1>4, <1>5, <1>6, <1>7, <1>8
  DEF MirrorStep, M!MLocalStep, M!MDisturb

\* Both invariants are kept by every step of the composition.
LEMMA NextSysInv ==
    IndInv /\ SysInv /\ [SNext]_svars => IndInv' /\ SysInv'
<1> SUFFICES ASSUME IndInv, SysInv, [SNext]_svars PROVE IndInv' /\ SysInv'
  OBVIOUS
<1>1. [Next]_vars
  BY SysTypes, StepIsDeviceStep
<1>2. IndInv'
  BY <1>1, NextIndInv
<1>3. TypeOK /\ TypeOK'
  BY <1>2 DEF IndInv
<1>4. ASSUME NEW p \in Proc, SClientCall(p) PROVE SysInv'
  <2>1. /\ pc[p] = "idle"
        /\ \A q \in Proc \ {p} : pc'[q] = pc[q]
    BY <1>4, ClientSplit, ClientCallMoves
  <2>2. CASE \/ pc'[p] = "mirror" /\ M!MirrorCall(p, call'[p].sector)
             \/ pc'[p] = "backup" /\ M!BackupCall(p)
    BY <1>3, <2>1, <2>2, CallSysInv
  <2>3. CASE pc'[p] \notin {"mirror", "backup"} /\ UNCHANGED mvars
    BY <2>1, <2>3, IdleSysInv
  <2> QED
    BY <1>4, <2>2, <2>3, ClientSplit
<1>5. ASSUME NEW p \in Proc, DeviceStep(p) PROVE SysInv'
  <2>1. UNCHANGED mvars /\ (LocalStep(p) \/ Disturb(p) \/ Acquire(p))
    BY <1>5 DEF DeviceStep
  <2>2. /\ pc[p] \notin {"mirror", "backup"}
        /\ pc'[p] \notin {"mirror", "backup"}
        /\ \A q \in Proc \ {p} : pc'[q] = pc[q]
    BY <2>1, DeviceStepOutside
  <2> QED
    BY <2>1, <2>2, IdleSysInv
<1>6. ASSUME NEW p \in Proc, MirrorStep(p) PROVE SysInv'
  BY <1>6, MirrorStepSysInv
<1>7. ASSUME NEW p \in Proc, SReturn(p) PROVE SysInv'
  <2>1. M!MReturn(p) /\ (MirrorReturn(p) \/ BackupReturn(p, mret[p]))
    BY <1>7 DEF SReturn
  <2>2. pc'[p] = "idle" /\ \A q \in Proc \ {p} : pc'[q] = pc[q]
    BY <2>1, MirrorSideMoves
  <2> QED
    BY <2>1, <2>2, ReturnSysInv
<1>8. CASE UNCHANGED svars
  BY <1>2, <1>8, IdleSysInv DEF svars, vars
<1> QED
  BY <1>2, <1>4, <1>5, <1>6, <1>7, <1>8 DEF SNext

\* The composition keeps both invariants.
THEOREM SystemInvariance == SSpec => [](IndInv /\ SysInv)
<1>1. SInit => IndInv /\ SysInv
  BY InitSysInv, InitIndInv DEF SInit
<1> QED
  BY <1>1, NextSysInv, PTL DEF SSpec

\* Every variable of the mirror keeps its type, and a thread is inside the mirror
\* exactly while its ioctl is.
THEOREM SystemTypeCorrect == SSpec => []STypeOK
<1>1. SysInv => STypeOK
  BY DEF SysInv
<1> QED
  BY <1>1, SystemInvariance, PTL

\* mirror_mutex is owned by exactly the thread inside one of the mirror's two
\* critical sections; every error path of a backup has released it.
THEOREM MirrorMutualExclusion == SSpec => []MirrorMutexHeld
<1>1. SysInv => MirrorMutexHeld
  BY DEF SysInv
<1> QED
  BY <1>1, SystemInvariance, PTL

----------------------------------------------------------------------------
(* Backups                                                                 *)

\* The control points of a backup that has opened its file.
Open == {"b_lock", "b_write", "b_unlock"}

\* No two threads back up to one file.
OwnPaths == \A p, q \in Proc : PathOf[p] = PathOf[q] => p = q

\* The invariant is about one thread and its file, as long as the mirror rests.
LEMMA ImageByThread ==
    ASSUME FileIsImage, UNCHANGED mirror_buffer, NEW p \in Proc,
           \A q \in Proc \ {p} :
              /\ mpc'[q] = mpc[q] /\ mpos'[q] = mpos[q]
              /\ file'[PathOf[q]] = file[PathOf[q]],
           mpc'[p] \in Open => file'[PathOf[p]] = Image(mpos'[p])
    PROVE  FileIsImage'
<1>1. ASSUME NEW q \in Proc, mpc'[q] \in Open
      PROVE  file'[PathOf[q]] = Image(mpos'[q])
  BY <1>1 DEF FileIsImage, Open
<1>2. ASSUME NEW k PROVE Image(k)' = Image(k)
  BY DEF Image
<1> QED
  BY <1>1, <1>2 DEF FileIsImage, Open, Image

\* Nothing of the mirror is in an empty file.
LEMMA EmptyImage == Image(0) = <<>>
BY DEF Image

\* Writing the next n bytes behind the first pos leaves the first pos + n.
LEMMA OverwriteImage ==
    ASSUME NEW pos \in Nat, NEW n \in Nat
    PROVE  M!Overwrite(Image(pos), pos, n) = Image(pos + n)
<1>1. Len(Image(pos)) = pos
  BY DEF Image
<1>2. \A i \in 1 .. pos : Image(pos)[i] = mirror_buffer[i - 1]
  BY DEF Image
<1> DEFINE k == IF pos + n > pos THEN pos + n ELSE pos
<1>3. k = pos + n
  OBVIOUS
<1>4. M!Overwrite(Image(pos), pos, n) =
        [i \in 1 .. pos + n |->
           IF i > pos /\ i <= pos + n THEN mirror_buffer[i - 1]
           ELSE IF i <= pos THEN Image(pos)[i] ELSE 0]
  BY <1>1, <1>3 DEF M!Overwrite
<1>5. \A i \in 1 .. pos + n :
        (IF i > pos /\ i <= pos + n THEN mirror_buffer[i - 1]
         ELSE IF i <= pos THEN Image(pos)[i] ELSE 0) = mirror_buffer[i - 1]
  BY <1>2
<1>6. Image(pos + n) = [i \in 1 .. pos + n |-> mirror_buffer[i - 1]]
  BY DEF Image
<1> QED
  BY <1>4, <1>5, <1>6

\* A step inside the mirror keeps the files of open backups images of it.
LEMMA MirrorStepImage ==
    ASSUME OwnPaths, SysInv, FileIsImage, NEW p \in Proc, MirrorStep(p)
    PROVE  FileIsImage'
<1>1. CASE M!MirrorByte(p)
  <2>1. /\ mpc[p] = "m_copy"
        /\ \A q \in Proc \ {p} : mpos'[q] = mpos[q]
        /\ UNCHANGED <<mpc, file>>
    BY <1>1, SysTypes DEF M!MirrorByte
  <2>2. ASSUME NEW q \in Proc, mpc'[q] \in Open
        PROVE  mpos'[q] = 0 /\ file'[PathOf[q]] = <<>>
    <3>1. q # p /\ mirror_mutex = p
      BY <2>1, <2>2 DEF Open, Holding, SysInv, MirrorMutexHeld
    <3>2. mpc[q] = "b_lock"
      BY <2>1, <2>2, <3>1 DEF Open, Holding, SysInv, MirrorMutexHeld
    <3>3. mpos[q] = 0
      BY <3>2 DEF SysInv, Progress
    <3> QED
      BY <2>1, <3>1, <3>2, <3>3, EmptyImage DEF FileIsImage
  <2>3. <<>> = Image(0)'
    BY DEF Image
  <2> QED
    BY <2>2, <2>3 DEF FileIsImage, Open, Image
<1>2. CASE M!BackupOpen(p)
  <2>1. /\ UNCHANGED <<mirror_buffer, mpos>> /\ mpc[p] = "b_open"
        /\ \A q \in Proc \ {p} : mpc'[q] = mpc[q]
    BY <1>2, SysTypes DEF M!BackupOpen, M!MGoto
  <2>2. PathOf[p] \in M!Paths /\ mpos[p] = 0
    BY <2>1 DEF M!Paths, SysInv, Progress
  <2>3. mpc'[p] \in Open => file'[PathOf[p]] = <<>>
    BY <1>2, <2>2, SysTypes DEF M!BackupOpen, M!MGoto, Open
  <2>4. \A q \in Proc \ {p} : file'[PathOf[q]] = file[PathOf[q]]
    <3>1. \A q \in Proc \ {p} : PathOf[q] # PathOf[p] /\ PathOf[q] \in M!Paths
      BY DEF OwnPaths, M!Paths
    <3> QED
      BY <1>2, <3>1, SysTypes DEF M!BackupOpen
  <2> QED
    BY <2>1, <2>2, <2>3, <2>4, EmptyImage, ImageByThread
<1>3. ASSUME NEW n, M!BackupWrite(p, n) PROVE FileIsImage'
  <2>1. /\ mpc[p] = "b_write" /\ n \in 1 .. M!Total - mpos[p]
        /\ mpos' = [mpos EXCEPT ![p] = mpos[p] + n]
        /\ file' = [file EXCEPT ![PathOf[p]] =
                      M!Overwrite(file[PathOf[p]], mpos[p], n)]
        /\ UNCHANGED <<mirror_buffer, mpc>>
    BY <1>3 DEF M!BackupWrite
  <2>2. mpos[p] \in Nat /\ n \in Nat
    BY <2>1, SysTypes, MirrorSize
  <2>3. file[PathOf[p]] = Image(mpos[p])
    BY <2>1 DEF FileIsImage
  <2>4. M!Overwrite(file[PathOf[p]], mpos[p], n) = Image(mpos[p] + n)
    BY <2>2, <2>3, OverwriteImage
  <2>5. \A q \in Proc : PathOf[q] \in M!Paths
    BY DEF M!Paths
  <2>6. mpos'[p] = mpos[p] + n /\ \A q \in Proc \ {p} : mpos'[q] = mpos[q]
    BY <2>1, SysTypes
  <2>7. file'[PathOf[p]] = Image(mpos'[p])
    BY <2>1, <2>4, <2>5, <2>6, SysTypes
  <2>8. \A q \in Proc \ {p} : file'[PathOf[q]] = file[PathOf[q]]
    BY <2>1, <2>5, SysTypes DEF OwnPaths
  <2> QED
    BY <2>1, <2>6, <2>7, <2>8, ImageByThread
<1>4. ASSUME UNCHANGED <<mirror_buffer, mpos, file>>,
             mpc'[p] \in Open => mpc[p] \in Open,
             \A q \in Proc \ {p} : mpc'[q] = mpc[q]
      PROVE  FileIsImage'
  <2>1. mpc'[p] \in Open => file'[PathOf[p]] = Image(mpos'[p])
    BY <1>4 DEF FileIsImage, Open
  <2> QED
    BY <1>4, <2>1, ImageByThread
<1>5. CASE \/ M!MirrorUnlock(p) \/ M!BackupUnlock(p) \/ M!MirrorInterrupted(p)
           \/ M!BackupInterrupted(p) \/ M!BackupLoopEnd(p)
           \/ M!BackupWriteFails(p) \/ M!MAcquire(p)
  BY <1>4, <1>5, SysTypes
  DEF M!MirrorUnlock, M!BackupUnlock, M!MirrorInterrupted, M!BackupInterrupted,
      M!BackupLoopEnd, M!BackupWriteFails, M!MAcquire, M!MGoto, Open
<1> QED
  BY <1>1, <1>2, <1>3, <1>5 DEF MirrorStep, M!MLocalStep, M!MDisturb

\* Every step of the composition does.
LEMMA NextImage ==
    ASSUME OwnPaths, SysInv, FileIsImage, [SNext]_svars
    PROVE  FileIsImage'
<1>1. ASSUME UNCHANGED mvars PROVE FileIsImage'
  BY <1>1 DEF mvars, FileIsImage, Image
<1>2. ASSUME NEW p \in Proc,
             UNCHANGED <<mirror_buffer, file>>, mpc'[p] \notin Open,
             \A q \in Proc \ {p} : mpc'[q] = mpc[q] /\ mpos'[q] = mpos[q]
      PROVE  FileIsImage'
  BY <1>2, ImageByThread
<1>3. ASSUME NEW p \in Proc, SClientCall(p) PROVE FileIsImage'
  <2>1. CASE M!MirrorCall(p, call'[p].sector) \/ M!BackupCall(p)
    BY <1>2, <2>1, SysTypes DEF M!MirrorCall, M!BackupCall, M!MGoto, Open
  <2> QED
    BY <1>1, <1>3, <2>1, ClientSplit
<1>4. ASSUME NEW p \in Proc, DeviceStep(p) PROVE FileIsImage'
  BY <1>1, <1>4 DEF DeviceStep
<1>5. ASSUME NEW p \in Proc, MirrorStep(p) PROVE FileIsImage'
  BY <1>5, MirrorStepImage
<1>6. ASSUME NEW p \in Proc, SReturn(p) PROVE FileIsImage'
  BY <1>2, <1>6, SysTypes DEF SReturn, M!MReturn, M!MGoto, Open
<1>7. CASE UNCHANGED svars
  BY <1>1, <1>7 DEF svars
<1> QED
  BY <1>3, <1>4, <1>5, <1>6, <1>7 DEF SNext

\* When no two threads back up to one file, a backup that returns 0 has left in
\* its file an image of the whole mirror as it was at one moment, however the
\* writes were cut and whatever other threads mirrored or backed up meanwhile.
THEOREM BackupsAreImages ==
    ASSUME OwnPaths
    PROVE  SSpec => []BackupIsMirrorImage
<1>1. SInit => FileIsImage
  BY DEF SInit, M!MInit, FileIsImage
<1>2. OwnPaths /\ SysInv /\ FileIsImage /\ [SNext]_svars => FileIsImage'
  BY NextImage
<1>3. SysInv /\ FileIsImage => BackupIsMirrorImage
  <2> SUFFICES ASSUME SysInv, FileIsImage, NEW p \in Proc,
                      mpc[p] = "b_unlock", mret[p] = 0
               PROVE  file[PathOf[p]] = MirrorImage
    BY DEF BackupIsMirrorImage
  <2>1. mpos[p] = M!Total
    BY DEF SysInv, Progress
  <2> QED
    BY <2>1, MirrorSize DEF FileIsImage, Image, MirrorImage
<1>4. OwnPaths
  OBVIOUS
<1>5. SysInv /\ FileIsImage /\ [SNext]_svars => FileIsImage'
  BY <1>2, <1>4
<1> QED
  BY <1>1, <1>3, <1>5, SystemInvariance, PTL DEF SSpec

----------------------------------------------------------------------------
(* Mirrored sectors                                                        *)

\* What a copy that nothing overtook has copied so far is what is stored.
CopiedPrefix ==
    \A p \in Proc : mpc[p] = "m_copy" /\ p \notin overtaken =>
        \A a \in SectorBytes(msector[p]) :
            a < msector[p] * SectorSize + mpos[p] =>
                mirror_buffer[a] = storage_buffer[a]

\* The bytes of a sector lie between its first address and that of the next.
LEMMA BytesOfSector ==
    ASSUME NEW s \in Sectors, NEW a \in SectorBytes(s)
    PROVE  a \in Address /\ s * SectorSize <= a /\ a < s * SectorSize + SectorSize
<1>1. a \in Nat /\ s \in Nat /\ SectorSize \in Nat \ {0} /\ a \div SectorSize = s
  BY SizesAreNat, SizeAssumption DEF SectorBytes, SectorOf, Address, Sectors
<1>2. (a \div SectorSize) * SectorSize <= a
      /\ a < (a \div SectorSize) * SectorSize + SectorSize
  BY <1>1, DivisionBounds
<1> QED
  BY <1>1, <1>2 DEF SectorBytes

\* A step that leaves the mirror's bytes and the copies under way alone keeps the
\* invariant: a store into the sector of a copy is recorded.
LEMMA PrefixKept ==
    ASSUME CopiedPrefix, ONext, UNCHANGED mirror_buffer,
           \A q \in Proc : mpc'[q] = "m_copy" =>
              \/ mpos'[q] = 0 /\ msector'[q] \in Sectors
              \/ /\ mpc[q] = "m_copy" /\ mpos'[q] = mpos[q]
                 /\ msector'[q] = msector[q]
    PROVE  CopiedPrefix'
<1> SUFFICES ASSUME NEW q \in Proc, mpc'[q] = "m_copy", q \notin overtaken',
                    NEW a \in SectorBytes(msector'[q]),
                    a < msector'[q] * SectorSize + mpos'[q]
             PROVE  mirror_buffer'[a] = storage_buffer'[a]
  BY DEF CopiedPrefix, SectorBytes, Address, STORAGE_TOTAL_SIZE, SectorOf,
         STORAGE_NUM_SECTORS
<1>1. CASE mpos'[q] = 0 /\ msector'[q] \in Sectors
  <2>1. /\ a \in Nat /\ msector'[q] * SectorSize <= a
        /\ msector'[q] * SectorSize \in Nat
    BY <1>1, BytesOfSector, SizesAreNat, SizeAssumption DEF Address, Sectors
  <2> QED
    BY <1>1, <2>1
<1>2. CASE /\ mpc[q] = "m_copy" /\ mpos'[q] = mpos[q]
           /\ msector'[q] = msector[q]
  <2>1. q \notin overtaken /\ storage_buffer'[a] = storage_buffer[a]
    BY <1>2 DEF ONext
  <2> QED
    BY <1>2, <2>1 DEF CopiedPrefix
<1> QED
  BY <1>1, <1>2

\* One byte of the copy: its owner holds mirror_mutex, nobody else copies.
LEMMA PrefixGrows ==
    ASSUME SysInv, CopiedPrefix, ONext, NEW p \in Proc, M!MirrorByte(p),
           UNCHANGED storage_buffer
    PROVE  CopiedPrefix'
<1> DEFINE b == msector[p] * SectorSize + mpos[p]
<1>1. /\ mpc[p] = "m_copy"
      /\ mirror_buffer' = [mirror_buffer EXCEPT ![b] = storage_buffer[b]]
      /\ mpos' = [mpos EXCEPT ![p] = mpos[p] + 1]
      /\ UNCHANGED <<mpc, msector>>
  BY DEF M!MirrorByte
<1>2. msector[p] \in Sectors /\ mpos[p] \in Nat /\ mpos'[p] = mpos[p] + 1
  BY <1>1, SysTypes, MirrorSize
<1> SUFFICES ASSUME NEW q \in Proc, mpc'[q] = "m_copy", q \notin overtaken',
                    NEW a \in SectorBytes(msector'[q]),
                    a < msector'[q] * SectorSize + mpos'[q]
             PROVE  mirror_buffer'[a] = storage_buffer'[a]
  BY DEF CopiedPrefix, SectorBytes, Address, STORAGE_TOTAL_SIZE, SectorOf,
         STORAGE_NUM_SECTORS
<1>3. q = p
  BY <1>1 DEF SysInv, MirrorMutexHeld, Holding
<1>4. p \notin overtaken
  BY <1>1, <1>3 DEF ONext
<1>5. a \in Address /\ a \in SectorBytes(msector[p])
  BY <1>1, <1>3 DEF SectorBytes
<1>6. a < msector[p] * SectorSize + (mpos[p] + 1)
  BY <1>1, <1>2, <1>3
<1>7. a < b \/ a = b
  <2> DEFINE k == msector[p] * SectorSize
  <2>1. k \in Nat /\ a \in Nat
    BY <1>2, <1>5, SizesAreNat, SizeAssumption DEF Sectors, Address
  <2>2. a < k + (mpos[p] + 1)
    BY <1>6
  <2> HIDE DEF k
  <2>3. a < k + mpos[p] \/ a = k + mpos[p]
    BY <1>2, <2>1, <2>2
  <2> QED
    BY <2>3 DEF k
<1>8. mirror_buffer \in [Address -> Byte]
  BY SysTypes
<1>9. CASE a = b
  BY <1>1, <1>5, <1>8, <1>9
<1>10. CASE a < b /\ a # b
  <2>1. mirror_buffer[a] = storage_buffer[a]
    BY <1>1, <1>4, <1>5, <1>10 DEF CopiedPrefix
  <2>2. mirror_buffer'[a] = mirror_buffer[a]
    <3> HIDE DEF b
    <3> QED
      BY <1>1, <1>5, <1>8, <1>10
  <2> QED
    BY <2>1, <2>2
<1> QED
  BY <1>7, <1>9, <1>10

\* Every step of the composition keeps the invariant.
LEMMA NextCopied ==
    ASSUME SysInv, CopiedPrefix, [ONext]_<<svars, overtaken>>
    PROVE  CopiedPrefix'
<1>1. CASE UNCHANGED <<svars, overtaken>>
  BY <1>1 DEF svars, vars, mvars, CopiedPrefix
<1> SUFFICES ASSUME ONext PROVE CopiedPrefix'
  BY <1>1
<1>2. CASE UNCHANGED mvars
  BY <1>2, PrefixKept DEF mvars
<1>3. ASSUME NEW p \in Proc, SClientCall(p) PROVE CopiedPrefix'
  <2>1. CASE M!MirrorCall(p, call'[p].sector) \/ M!BackupCall(p)
    <3>1. /\ UNCHANGED <<mirror_buffer, mpos>> /\ mpc'[p] # "m_copy"
          /\ \A q \in Proc \ {p} : mpc'[q] = mpc[q] /\ msector'[q] = msector[q]
      BY <2>1, SysTypes DEF M!MirrorCall, M!BackupCall, M!MGoto
    <3> QED
      BY <3>1, PrefixKept
  <2> QED
    BY <1>2, <1>3, <2>1, ClientSplit
<1>4. ASSUME NEW p \in Proc, SReturn(p) PROVE CopiedPrefix'
  <2>1. /\ UNCHANGED mirror_buffer /\ mpc'[p] # "m_copy"
        /\ \A q \in Proc \ {p} : /\ mpc'[q] = mpc[q] /\ msector'[q] = msector[q]
                                 /\ mpos'[q] = mpos[q]
    BY <1>4, SysTypes DEF SReturn, M!MReturn, M!MGoto
  <2> QED
    BY <2>1, PrefixKept
<1>5. ASSUME NEW p \in Proc, MirrorStep(p) PROVE CopiedPrefix'
  <2>1. CASE M!MirrorByte(p)
    BY <1>5, <2>1, PrefixGrows DEF MirrorStep, vars
  <2>2. CASE M!MAcquire(p)
    <3>1. /\ UNCHANGED <<mirror_buffer, mpos, msector>>
          /\ mpc[p] \in {"m_lock", "b_lock"}
          /\ \A q \in Proc \ {p} : mpc'[q] = mpc[q]
      BY <2>2, SysTypes DEF M!MAcquire, M!MGoto
    <3>2. mpos[p] = 0 /\ msector[p] \in Sectors
      BY <3>1, SysTypes DEF SysInv, Progress
    <3> QED
      BY <3>1, <3>2, PrefixKept
  <2>3. CASE \E n \in 1 .. M!Total : M!BackupWrite(p, n)
    <3>1. /\ UNCHANGED <<mirror_buffer, mpc, msector>> /\ mpc[p] = "b_write"
          /\ \A q \in Proc \ {p} : mpos'[q] = mpos[q]
      BY <2>3, SysTypes DEF M!BackupWrite
    <3> QED
      BY <3>1, PrefixKept
  <2>4. CASE \/ M!MirrorUnlock(p) \/ M!BackupUnlock(p) \/ M!MirrorInterrupted(p)
             \/ M!BackupInterrupted(p) \/ M!BackupLoopEnd(p)
             \/ M!BackupWriteFails(p) \/ M!BackupOpen(p)
    <3>1. /\ UNCHANGED <<mirror_buffer, mpos, msector>> /\ mpc'[p] # "m_copy"
          /\ \A q \in Proc \ {p} : mpc'[q] = mpc[q]
      BY <2>4, SysTypes
      DEF M!MirrorUnlock, M!BackupUnlock, M!MirrorInterrupted,
          M!BackupInterrupted, M!BackupLoopEnd, M!BackupWriteFails,
          M!BackupOpen, M!MGoto
    <3> QED
      BY <3>1, PrefixKept
  <2> QED
    BY <1>5, <2>1, <2>2, <2>3, <2>4 DEF MirrorStep, M!MLocalStep, M!MDisturb
<1>6. ASSUME NEW p \in Proc, DeviceStep(p) PROVE CopiedPrefix'
  BY <1>2, <1>6 DEF DeviceStep
<1> QED
  BY <1>3, <1>4, <1>5, <1>6 DEF ONext, SNext

\* A sector that mirror_sector copied while no write and no erasure touched it is
\* in the mirror as it is in the device: mirror_mutex keeps other copies and
\* backups away although storage_mutex is not held.
THEOREM MirrorsAreCurrent == OSpec => []MirrorIsCurrent
<1>1. OInit => CopiedPrefix /\ IndInv /\ SysInv
  BY InitSysInv, InitIndInv DEF OInit, SInit, M!MInit, CopiedPrefix
<1>2. [ONext]_<<svars, overtaken>> => [SNext]_svars
  BY DEF ONext
<1>3. IndInv /\ SysInv /\ CopiedPrefix /\ [ONext]_<<svars, overtaken>>
        => (IndInv /\ SysInv /\ CopiedPrefix)'
  BY <1>2, NextSysInv, NextCopied
<1>4. SysInv /\ CopiedPrefix => MirrorIsCurrent
  <2> SUFFICES ASSUME SysInv, CopiedPrefix, NEW p \in Proc,
                      mpc[p] = "m_copy", mpos[p] = SectorSize, p \notin overtaken,
                      NEW a \in SectorBytes(msector[p])
               PROVE  mirror_buffer[a] = storage_buffer[a]
    BY DEF MirrorIsCurrent
  <2>1. msector[p] \in Sectors
    BY SysTypes
  <2>2. a < msector[p] * SectorSize + mpos[p]
    BY <2>1, BytesOfSector
  <2> QED
    BY <2>2 DEF CopiedPrefix
<1> QED
  BY <1>1, <1>3, <1>4, PTL DEF OSpec
============================================================================
