---------------------------- MODULE EspJrnlDecay ----------------------------
(***************************************************************************)
(* EspJrnl on a medium that may lose the contents of log sectors, the case *)
(* the checksums of the operation records are for.                         *)
(***************************************************************************)
EXTENDS EspJrnl, FiniteSets

CONSTANT MaxSpoilt   \* sectors that may be spoilt at a time

LogArea == LogAddr(0) .. (MasterAddr - 1)

\* A log sector that was written can no longer be read back correctly.
Decay ==
    \E a \in LogArea \ spoilt :
        /\ disk[a].tag \in {"oper", "data"}
        /\ Cardinality(spoilt) < MaxSpoilt
        /\ spoilt' = spoilt \cup {a}
        /\ UNCHANGED <<disk, mounted, master, pc, Locals, cfg, mode, ret, kept, post, Bounds>>

DecayNext == Next \/ Decay

DecaySpec == Init /\ [][DecayNext]_vars

\* What jrnl_replay copies to the file system is what a client once wrote, never
\* a sector the medium spoilt.
NoGarbageTransferred ==
    \A s \in FsArea : disk[s] # Garbage

\* A log that cannot be read to its end is not thrown away either: mounting keeps
\* failing with the committed record on the disk.
CommitKeptUnderDecay ==
    [][DiskCommitted /\ ~DiskCommitted' => FsImage = post]_vars
=============================================================================
