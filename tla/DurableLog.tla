----------------------------- MODULE DurableLog -----------------------------
(***************************************************************************)
(* What the write-ahead log promises, with no threads, marks or segments.  *)
(* An entry is written once.  From there it goes one way: it is volatile    *)
(* until a sync makes it stable, or its segment is closed under it and it   *)
(* is left behind.  Nothing leaves the log.  An entry is acknowledged only  *)
(* if it is stable or left behind, unless it was written out of order.     *)
(*                                                                         *)
(* Leaving entries behind and acknowledging unordered ones early are        *)
(* weaker than riftgate-core/src/wal.rs promises; they are what             *)
(* riftgate-replay/src/file_wal.rs implements (FileWal!ImplementsLog).     *)
(***************************************************************************)
EXTENDS Integers

VARIABLES
    volatile,    \* entries written, a crash may lose them
    stable,      \* entries on disk
    leftBehind,  \* entries in a closed segment that was never synced
    unordered,   \* entries written after one with a higher id
    acked        \* entries whose synchronous append returned Ok

logVars == <<volatile, stable, leftBehind, unordered, acked>>

Entries == volatile \cup stable \cup leftBehind

LogInit ==
    /\ volatile = {} /\ stable = {} /\ leftBehind = {}
    /\ unordered = {} /\ acked = {}

Write(id) ==
    /\ id \notin Entries
    /\ id \in volatile' /\ volatile' \subseteq volatile \cup {id}
    /\ leftBehind' = leftBehind \cup (volatile \ volatile')
    /\ stable' = stable
    /\ \/ unordered' = unordered /\ acked' = acked
       \/ unordered' = unordered \cup {id} /\ acked' \in {acked, acked \cup {id}}

CloseSegment ==
    /\ volatile' \subseteq volatile
    /\ leftBehind' = leftBehind \cup (volatile \ volatile')
    /\ UNCHANGED <<stable, unordered, acked>>

Sync ==
    /\ volatile' \subseteq volatile
    /\ stable' = stable \cup (volatile \ volatile')
    /\ UNCHANGED <<leftBehind, unordered, acked>>

Acknowledge(id) ==
    /\ id \in stable \cup leftBehind \cup (unordered \cap Entries)
    /\ acked' = acked \cup {id}
    /\ UNCHANGED <<volatile, stable, leftBehind, unordered>>

LogNext ==
    \/ \E id \in volatile' \ volatile : Write(id)
    \/ CloseSegment
    \/ Sync
    \/ \E id \in Entries : Acknowledge(id)

LogSpec == LogInit /\ [][LogNext]_logVars
=============================================================================
