--------------------------- MODULE MirrorHistory ---------------------------
(***************************************************************************)
(* What a mirrored sector is worth.  mirror_sector reads storage_buffer    *)
(* without storage_mutex, so a write or an erasure may overtake the copy.  *)
(* The history variable overtaken holds the threads inside that copy whose *)
(* sector has changed since they took mirror_mutex.                        *)
(***************************************************************************)
EXTENDS StorageSystem

VARIABLE overtaken

\* The bytes mirror_sector copies for sector s.
SectorBytes(s) == {a \in Address : SectorOf(a) = s}

OInit == SInit /\ overtaken = {}

ONext ==
    /\ SNext
    /\ overtaken' = {p \in Proc :
           /\ mpc'[p] = "m_copy"
           /\ \/ p \in overtaken
              \/ \E a \in SectorBytes(msector[p]) :
                    storage_buffer'[a] # storage_buffer[a]}

OSpec == OInit /\ [][ONext]_<<svars, overtaken>> /\ SFairness

----------------------------------------------------------------------------
\* A copy that no write and no erasure overtook is exact: when mirror_sector is
\* about to release mirror_mutex, the sector it was asked for is in the mirror
\* as it is in the device, whatever else was written, mirrored or backed up.
MirrorIsCurrent ==
    \A p \in Proc :
        mpc[p] = "m_copy" /\ mpos[p] = SectorSize /\ p \notin overtaken =>
            \A a \in SectorBytes(msector[p]) : mirror_buffer[a] = storage_buffer[a]
============================================================================
