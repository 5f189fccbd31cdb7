----------------------------- MODULE EspJrnlInv -----------------------------
(***************************************************************************)
(* The inductive invariant behind the atomicity of EspJrnl, in named       *)
(* parts.  It holds of a client that keeps to its turn (~Stray) and mounts *)
(* that replay what they find (ReplayingClient).                           *)
(***************************************************************************)
EXTENDS EspJrnl

\* The configurations README.md recommends, and a client like the VFS layer,
\* which writes and cancels only inside what it was granted.
ReplayingClient ==
    /\ ~Stray
    /\ \A c \in Configs : c.replay /\ ~c.fresh

AtMaster == pc \in {"m_erase", "m_write"}
Logging == pc \in {"w_erase", "w_head", "w_data"}
AtTarget == pc \in {"t_erase", "t_write"}

\* jrnl_replay is walking a committed log.
Replaying == pc = "rp_head" \/ (AtTarget /\ master.status = "TRANS_COMMIT")

-----------------------------------------------------------------------------
(* Where the code is, and what that says of the in-memory record *)

\* A raw operation has at least one sector to go, and its operands are set.  This
\* much holds of any client and any configuration.
StepInv ==
    /\ pc \in RawPcs => k < RawLen
    /\ pc \notin RawPcs => k = 0
    /\ AtMaster <=> after # "none"
    /\ Logging \/ AtTarget => oper \in Writes
    /\ Logging => HasSpace(oper.count)

\* Who may be at which step.
ControlInv ==
    /\ Logging => mounted /\ master.status = "TRANS_OPEN" /\ mode = "txn"
    /\ AtTarget => \/ master.status = "TRANS_COMMIT"
                   \/ master.status = "FS_DIRECT" /\ mounted /\ mode = "direct"
    /\ pc = "rp_head" => master.status = "TRANS_COMMIT"
    /\ pc \in {"idle", "mt_read"} /\ ~mounted => master = NoMaster
    /\ pc = "mt_read" => ~mounted
    /\ ~mounted => mode = "none"
    /\ ~mounted /\ pc # "idle" => cfg.replay /\ ~cfg.fresh
    /\ kept => mounted /\ master.status = "TRANS_COMMIT" /\ pc \in {"idle", "lock"}
    /\ pc = "lock" => kept

\* What jrnl_update_master is writing, for each of its callers.
MasterInv ==
    /\ after = "start"  => mounted /\ master.status = "TRANS_OPEN" /\ master.nf = 0 /\ mode = "none"
    /\ after = "write"  => mounted /\ master.status = "TRANS_OPEN" /\ mode = "txn"
    /\ after = "cancel" => mounted /\ master.status = "TRANS_READY" /\ ~DiskCommitted
    /\ after = "commit" => mounted /\ master.status = "TRANS_COMMIT" /\ mode = "none"
    /\ after = "direct" => mounted /\ master.status \in {"FS_DIRECT", "TRANS_READY"} /\ mode = "none"
    /\ after = "replay" => master.status = "TRANS_READY" /\ mode = "none"
    /\ after = "mount"  => ~mounted /\ master.status = "TRANS_READY" /\ ~DiskCommitted

\* The record in memory against the one on the disk.
RecordInv ==
    /\ master.status \in {"FS_DIRECT", "TRANS_READY"} => master.nf = 0
    /\ disk[MasterAddr].tag = "master" /\ disk[MasterAddr].status \in {"FS_DIRECT", "TRANS_READY"}
          => disk[MasterAddr].nf = 0
    /\ pc = "replay" => /\ disk[MasterAddr] = MasterCell(master)
                        /\ mounted => master.status = "TRANS_COMMIT"
    /\ Replaying => disk[MasterAddr] = MasterCell(master)
    /\ mode = "txn" => mounted /\ master.status = "TRANS_OPEN" /\ ~DiskCommitted
    /\ mode = "direct" => mounted /\ master.status = "FS_DIRECT" /\ ~DiskCommitted

-----------------------------------------------------------------------------
(* What the log means *)

\* The record whose header is at p of disk d writes sector s.
Covers(d, p, s) ==
    /\ Header(d, p)
    /\ s \in d[LogAddr(p)].target .. (d[LogAddr(p)].target + d[LogAddr(p)].count - 1)

\* No record of d from position p up to nf writes sector s.
Uncovered(d, p, nf, s) == \A q \in p .. (nf - 1) : ~Covers(d, q, s)

\* f is disk d with the log below nf applied in order: the last record that writes
\* a sector decides.
Image(d, nf, f) ==
    \A s \in FsArea :
        /\ Uncovered(d, 0, nf, s) => f[s] = d[s]
        /\ \A p \in 0 .. (nf - 1) :
              Covers(d, p, s) /\ Uncovered(d, p + 1, nf, s)
                 => f[s] = d[LogAddr(p)].crc[s - d[LogAddr(p)].target]

LogInv ==
    /\ Open => Chain(disk, master.nf) /\ Image(disk, master.nf, post)
    /\ DiskCommitted => Chain(disk, disk[MasterAddr].nf) /\ Image(disk, disk[MasterAddr].nf, post)
    /\ Open /\ DiskCommitted => master.nf = 0 /\ post = FsImage

\* Outside of transactions the sectors are the volume.
SettledInv ==
    /\ ~Open /\ ~DiskCommitted => post = FsImage
    /\ mounted /\ master.status \in {"FS_DIRECT", "TRANS_READY"} => post = FsImage
    /\ after = "replay" => post = FsImage

\* Sectors no remaining record writes are final.
ReplayInv ==
    Replaying =>
        /\ idx <= master.nf
        /\ idx < master.nf => Header(disk, idx)
        /\ \A s \in FsArea : Uncovered(disk, idx, master.nf, s) => disk[s] = post[s]

\* The record being transferred, and how far.
TransferInv ==
    Replaying /\ AtTarget =>
        /\ idx < master.nf
        /\ disk[LogAddr(idx)] = HeaderCell(oper)
        /\ pc = "t_write" => \A j \in 0 .. (k - 1) : disk[oper.target + j] = oper.buf[j]

\* Records being written, beyond the log in use.
AppendInv ==
    /\ pc = "w_data" => disk[LogAddr(master.nf)] = HeaderCell(oper)
    /\ pc = "w_data" => \A j \in 0 .. (k - 1) : disk[LogAddr(master.nf) + 1 + j] = oper.buf[j]

\* The conjunction every step preserves.
IndInv ==
    /\ TypeOK
    /\ StepInv
    /\ ControlInv
    /\ MasterInv
    /\ RecordInv
    /\ LogInv
    /\ SettledInv
    /\ ReplayInv
    /\ TransferInv
    /\ AppendInv

-----------------------------------------------------------------------------

\* While no disk operation or allocation has failed, a transaction that is open belongs to the client
\* (or esp_jrnl_start is still recording it), and a committed one is being transferred.
WedgeInv ==
    faults = 0 /\ mounted =>
        /\ master.status = "TRANS_OPEN" => mode = "txn" \/ after = "start"
        /\ master.status = "TRANS_COMMIT" => pc \notin {"idle", "lock"}
=============================================================================
