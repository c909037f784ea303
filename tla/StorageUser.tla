---------------------------- MODULE StorageUser ----------------------------
(***************************************************************************)
(* The demonstration program storage_user.c on top of the storage system.  *)
(* Thread App runs main() from the write of sector 0 to the erasure of     *)
(* sector 4; the other threads are arbitrary clients.                      *)
(***************************************************************************)
EXTENDS StorageSystem

CONSTANTS App,             \* the thread that runs main()
          AppKey, AppByte  \* the key 'B' and the byte it writes

VARIABLES step,      \* the call main() makes next, or how it ended
          waiting    \* main() has made that call and waits for its return

uvars == <<svars, step, waiting>>

Steps == <<"write", "read", "lock", "unlock", "info", "mirror", "backup",
           "erase">>

UInit == SInit /\ step = 1 /\ waiting = FALSE

\* struct unlock_request as main() lays it out: a little-endian int of four
\* bytes, then the key.
RequestBytes(sector, key) == <<sector, 0, 0, 0, key>>

\* What the ioctl reads of these bytes: three bits of the first byte, and the
\* second byte.
SeenField(b) == b[1] % STORAGE_NUM_SECTORS
SeenKey(b)   == b[2]

\* The calls of main(), in order, with their constant arguments.
AppRequest ==
    LET b == RequestBytes(2, AppKey) IN
    CASE Steps[step] = "write"  -> WriteCall(App, 0, SectorSize, AppByte)
      [] Steps[step] = "read"   -> ReadCall(App, 0, SectorSize)
      [] Steps[step] = "lock"   -> SectorIoctl(App, "lock", 2)
      [] Steps[step] = "unlock" -> UnlockIoctl(App, SeenField(b), SeenKey(b))
      [] Steps[step] = "info"   -> InfoIoctl(App)
      [] Steps[step] = "mirror" -> SectorIoctl(App, "mirror", 0)
      [] Steps[step] = "backup" -> BackupIoctl(App)
      [] Steps[step] = "erase"  -> SectorIoctl(App, "erase", 4)

AppCall ==
    /\ step \in 1 .. Len(Steps)
    /\ ~waiting
    /\ waiting' = TRUE
    /\ AppRequest
    /\ CASE pc'[App] = "mirror" -> M!MirrorCall(App, call'[App].sector)
         [] pc'[App] = "backup" -> M!BackupCall(App) /\ mpc'[App] = "b_open"
         [] OTHER               -> UNCHANGED mvars
    /\ UNCHANGED step

\* Did the call main() just made succeed?
Succeeded ==
    IF Steps[step] \in {"write", "read"} THEN result[App] = SectorSize
                                         ELSE result[App] >= 0

\* main() looks at the return value: an error ends it with status 1, except
\* that a failed unlock is only reported.
AppReturn ==
    /\ waiting
    /\ pc[App] = "idle"
    /\ waiting' = FALSE
    /\ step' = IF Succeeded \/ Steps[step] = "unlock" THEN step + 1 ELSE -1
    /\ UNCHANGED svars

\* App's own buffers are mapped: its calls meet no fault.
SystemStep(p) ==
    /\ \/ p # App /\ SClientCall(p)
       \/ (LocalStep(p) \/ Interrupted(p) \/ Acquire(p)) /\ UNCHANGED mvars
       \/ p # App /\ Disturb(p) /\ UNCHANGED mvars
       \/ MirrorStep(p)
       \/ SReturn(p)
    /\ p = App /\ pc[p] = "give" => result'[p] = 0
    /\ UNCHANGED <<step, waiting>>

UNext == AppCall \/ AppReturn \/ \E p \in Proc : SystemStep(p)

USpec == UInit /\ [][UNext]_uvars

----------------------------------------------------------------------------
\* The request main() sends after "Unlock sector 2" opens sector 2.
AppUnlocks ==
    waiting /\ pc[App] = "idle" /\ Steps[step] = "unlock" => result[App] = 0
============================================================================
