------------------------------ MODULE EspJrnl ------------------------------
(***************************************************************************)
(* The journaling core, srcs/esp_jrnl.c: one journaled volume, one client  *)
(* calling the API sequentially, the disk driver below it.  A step is one  *)
(* sector of one raw disk operation, so a power cut (PowerCut) can fall    *)
(* between the sectors of an erase or a write, and a driver error          *)
(* (DiskError) can leave a prefix of one behind.                           *)
(*                                                                         *)
(* Disk layout, in sectors (the code addresses bytes, sector * size):      *)
(*    0 .. FsSectors-1                   the file system                   *)
(*    FsSectors .. FsSectors+StoreSize-2 the operation log                 *)
(*    FsSectors+StoreSize-1              the master record                 *)
(***************************************************************************)
EXTENDS Integers

CONSTANTS
    Data,         \* payloads of a file-system sector
    FsSectors,    \* size of the file-system part (esp_jrnl_get_sector_count)
    StoreSize,    \* store_size_sectors of the configuration
    MaxCount,     \* longest write the client issues, in sectors
    Configs,      \* mount configurations, records [fresh, replay]
    Stray,        \* may the client write or cancel out of turn (see mode)?
    DirectIo,     \* may the client call esp_jrnl_set_direct_io(true)?
    MaxPowerCuts, \* bound on power cuts
    MaxFaults     \* bound on failing disk operations and allocations

JRNL_MIN_STORE_SIZE == 3

ASSUME SizeAssumption ==
    /\ FsSectors \in Nat \ {0}
    /\ StoreSize \in Nat /\ StoreSize >= JRNL_MIN_STORE_SIZE
    /\ MaxCount \in Nat \ {0}

\* fresh stands for force_fs_format || overwrite_existing, the only way the
\* code uses the two flags.
ASSUME ConfigAssumption ==
    /\ Configs \subseteq [fresh : BOOLEAN, replay : BOOLEAN]
    /\ Stray \in BOOLEAN
    /\ DirectIo \in BOOLEAN

ASSUME BoundAssumption ==
    /\ MaxPowerCuts \in Nat
    /\ MaxFaults \in Nat

VARIABLES
    disk,         \* contents of every sector of the volume, as written
    spoilt,       \* sectors that do not read back as written (see EspJrnlDecay)
    mounted,      \* is the instance registered in s_jrnl_instance_ptrs?
    master,       \* inst_ptr->master: status and next_free_sector
    pc,           \* the step the running API call has reached
    after,        \* what jrnl_update_master returns to
    k,            \* sectors already done of the raw operation under way
    idx,          \* oper_sector_index of jrnl_replay
    oper,         \* the operation being logged or transferred
    cfg,          \* configuration of the mount under way
    mode,         \* what the client was granted: "none", "txn" or "direct"
    ret,          \* result of the last API call
    kept,         \* has a jrnl_replay returned without releasing trans_lock?
    post,         \* history: the file system with the open or committed log applied
    cuts,         \* power cuts so far
    faults        \* failed disk operations and allocations so far

vars == <<disk, spoilt, mounted, master, pc, after, k, idx, oper, cfg, mode, ret,
          kept, post, cuts, faults>>

-----------------------------------------------------------------------------
(* Sector contents *)

Status == {"FS_DIRECT", "TRANS_READY", "TRANS_OPEN", "TRANS_COMMIT"}

Erased == [tag |-> "erased"]

\* What a sector that has lost its contents reads as.
Garbage == [tag |-> "garbage"]

DataCells == [tag : {"data"}, val : Data]

\* Header sector of an operation record.  A checksum is modelled by the value
\* it is computed from, that is, as free of collisions: crc is the data the
\* header was made for, and a sector that is not a header fails its checksum.
HeaderCell(o) == [tag |-> "oper", target |-> o.target, count |-> o.count, crc |-> o.buf]

\* Master sector: magic mark, store size, next_free_sector and status.
MasterCell(m) ==
    [tag |-> "master", store |-> StoreSize, status |-> m.status, nf |-> m.nf]

\* A master record left by a journal of another size.
ForeignMaster ==
    [tag |-> "master", store |-> StoreSize + 1, status |-> "TRANS_READY", nf |-> 0]

FsArea == 0 .. (FsSectors - 1)
Volume == 0 .. (FsSectors + StoreSize - 1)

\* jrnl_get_target_disk_sector
LogAddr(p) == FsSectors + p

MasterAddr == LogAddr(StoreSize - 1)

\* What reading log sector a returns.
Seen(a) == IF a \in spoilt THEN Garbage ELSE disk[a]

FsImage == [s \in FsArea |-> disk[s]]

\* Writes of the client, always inside the file-system part.
Writes ==
    UNION {[target : 0 .. (FsSectors - n), count : {n}, buf : [0 .. (n - 1) -> DataCells]] :
              n \in 1 .. (IF MaxCount <= FsSectors THEN MaxCount ELSE FsSectors)}

\* The contents of the zero-initialised instance and of unused locals.
NoMaster == [status |-> "FS_DIRECT", nf |-> 0]
NoOper == [target |-> 0, count |-> 0, buf |-> <<>>]
NoConfig == [fresh |-> FALSE, replay |-> FALSE]
NoRet == [api |-> "none", err |-> "none"]
Ret(api, err) == [api |-> api, err |-> err]

Locals == <<after, k, idx, oper>>
Bounds == <<cuts, faults>>

\* The log on the disk belongs to a committed transaction.
DiskCommitted ==
    /\ disk[MasterAddr].tag = "master"
    /\ disk[MasterAddr].store = StoreSize
    /\ disk[MasterAddr].status = "TRANS_COMMIT"

Overlay(f, o) ==
    [s \in FsArea |-> IF s \in o.target .. (o.target + o.count - 1)
                      THEN o.buf[s - o.target] ELSE f[s]]

Init ==
    /\ \E f \in [FsArea -> DataCells], m \in {Erased, MasterCell([status |-> "TRANS_READY", nf |-> 0]), ForeignMaster} :
          disk = [a \in Volume |-> IF a \in FsArea THEN f[a]
                                   ELSE IF a = MasterAddr THEN m ELSE Erased]
    /\ spoilt = {}
    /\ mounted = FALSE
    /\ master = NoMaster
    /\ pc = "idle"
    /\ after = "none"
    /\ k = 0
    /\ idx = 0
    /\ oper = NoOper
    /\ cfg = NoConfig
    /\ mode = "none"
    /\ ret = NoRet
    /\ kept = FALSE
    /\ post = FsImage
    /\ cuts = 0
    /\ faults = 0

-----------------------------------------------------------------------------
(* Steps shared by the API functions *)

\* The call returns e; its locals go out of scope.
Return(e) ==
    /\ pc' = "idle"
    /\ ret' = [ret EXCEPT !.err = e]
    /\ after' = "none"
    /\ k' = 0
    /\ idx' = 0
    /\ oper' = NoOper

\* A call that returns e without having done anything.
Refuse(api, e) ==
    /\ ret' = Ret(api, e)
    /\ UNCHANGED <<disk, spoilt, mounted, master, pc, Locals, cfg, mode, kept, post, Bounds>>

\* jrnl_update_master: erase and rewrite the master sector, then continue at a.
UpdateMaster(a) ==
    /\ pc' = "m_erase"
    /\ after' = a
    /\ k' = 0

\* Mutant: the status is not reset.
ResetStatusKept(direct) == IF direct THEN "FS_DIRECT" ELSE master.status

ResetStatus(direct) == IF direct THEN "FS_DIRECT" ELSE "TRANS_READY"

\* Mutant: next_free_sector is not reset.
ResetMasterKeepsLog(direct, a) ==
    /\ master' = [master EXCEPT !.status = ResetStatus(direct)]
    /\ UpdateMaster(a)

\* jrnl_reset_master: the record in memory changes before the one on the disk.
ResetMaster(direct, a) ==
    /\ master' = [status |-> ResetStatus(direct), nf |-> 0]
    /\ UpdateMaster(a)

\* A transaction is collecting writes, or its commit record is being written.
Open ==
    /\ mounted
    /\ \/ master.status = "TRANS_OPEN"
       \/ pc \in {"m_erase", "m_write"} /\ after = "commit"

\* The history variable keeps the image of a transaction as long as it can
\* still be committed or transferred.
Settle == post' = IF DiskCommitted' \/ Open' THEN post ELSE FsImage'

-----------------------------------------------------------------------------
(* The raw disk operations: which sector the call is about to change, what  *)
(* it is about to hold and how many sectors the operation has.              *)

RawPcs == {"m_erase", "m_write", "w_erase", "w_head", "w_data",
           "t_erase", "t_write"}

RawAddr ==
    CASE pc \in {"m_erase", "m_write"} -> MasterAddr
      [] pc \in {"w_erase", "w_head"}  -> LogAddr(master.nf) + k
      [] pc = "w_data"                 -> LogAddr(master.nf) + 1 + k
      [] OTHER                         -> oper.target + k

RawCell ==
    CASE pc = "m_write" -> MasterCell(master)
      [] pc = "w_head"  -> HeaderCell(oper)
      [] pc \in {"w_data", "t_write"} -> oper.buf[k]
      [] OTHER -> Erased

RawLen ==
    CASE pc \in {"m_erase", "m_write", "w_head"} -> 1
      [] pc = "w_erase" -> 1 + oper.count
      [] OTHER -> oper.count

DiskSector ==
    /\ disk' = [disk EXCEPT ![RawAddr] = RawCell]
    /\ spoilt' = spoilt \ {RawAddr}

LastSector == k + 1 = RawLen

\* One sector of the raw operation at pc = here, and not its last one.
RawProgress ==
    /\ pc \in RawPcs
    /\ ~LastSector
    /\ DiskSector
    /\ k' = k + 1
    /\ UNCHANGED <<mounted, master, pc, after, idx, oper, cfg, mode, ret, kept, Bounds>>
    /\ Settle

\* The last sector of the raw operation at pc = here.
RawLast(here) ==
    /\ pc = here
    /\ LastSector
    /\ DiskSector

-----------------------------------------------------------------------------
(* The master record *)

MasterErase ==
    /\ RawLast("m_erase")
    /\ pc' = "m_write"
    /\ k' = 0
    /\ UNCHANGED <<mounted, master, after, idx, oper, cfg, mode, ret, kept, Bounds>>
    /\ Settle

\* esp_jrnl_mount registers the instance once its master record is on the disk.
MasterWriteMount ==
    /\ RawLast("m_write")
    /\ after = "mount"
    /\ mounted' = TRUE
    /\ mode' = IF cfg.fresh THEN "direct" ELSE "none"
    /\ cfg' = NoConfig
    /\ Return("ok")
    /\ UNCHANGED <<master, kept, post, Bounds>>

\* jrnl_replay returns to esp_jrnl_mount, which writes the record once more.
MasterWriteReplayedAtMount ==
    /\ RawLast("m_write")
    /\ after = "replay"
    /\ ~mounted
    /\ ResetMaster(FALSE, "mount")
    /\ UNCHANGED <<mounted, idx, oper, cfg, mode, ret, kept, post, Bounds>>

\* The commit record is on the disk: esp_jrnl_stop goes on with jrnl_replay.
MasterWriteCommit ==
    /\ RawLast("m_write")
    /\ after = "commit"
    /\ pc' = "replay"
    /\ after' = "none"
    /\ k' = 0
    /\ UNCHANGED <<mounted, master, idx, oper, cfg, mode, ret, kept, post, Bounds>>

\* Everywhere else the API call is over.
MasterWriteReturn ==
    /\ RawLast("m_write")
    /\ after \in {"start", "write", "cancel", "direct"} \/ (after = "replay" /\ mounted)
    /\ mode' = IF after = "start" THEN "txn"
               ELSE IF after = "direct" /\ master.status = "FS_DIRECT" THEN "direct"
               ELSE mode
    /\ Return("ok")
    /\ UNCHANGED <<mounted, master, cfg, kept, post, Bounds>>

-----------------------------------------------------------------------------
(* esp_jrnl_mount, esp_jrnl_unmount *)

EspJrnlMount(c) ==
    /\ pc = "idle"
    /\ ~mounted
    /\ cfg' = c
    /\ ret' = Ret("mount", "pending")
    /\ IF c.fresh
       THEN ResetMaster(TRUE, "mount")
       ELSE /\ pc' = "mt_read"
            /\ UNCHANGED <<master, after, k>>
    /\ UNCHANGED <<disk, spoilt, mounted, idx, oper, mode, kept, post, Bounds>>

\* No valid record: a new store, not a replay.
MountBlank ==
    /\ pc = "mt_read"
    /\ disk[MasterAddr].tag # "master"
    /\ ResetMaster(FALSE, "mount")
    /\ UNCHANGED <<disk, spoilt, mounted, idx, oper, cfg, mode, ret, kept, post, Bounds>>

MountInconsistent ==
    /\ pc = "mt_read"
    /\ disk[MasterAddr].tag = "master"
    /\ disk[MasterAddr].store # StoreSize
    /\ cfg' = NoConfig
    /\ Return("invalid_state")
    /\ UNCHANGED <<disk, spoilt, mounted, master, mode, kept, post, Bounds>>

MountFound ==
    /\ pc = "mt_read"
    /\ disk[MasterAddr].tag = "master"
    /\ disk[MasterAddr].store = StoreSize
    /\ IF cfg.replay
       THEN /\ master' = [status |-> disk[MasterAddr].status, nf |-> disk[MasterAddr].nf]
            /\ pc' = "replay"
            /\ UNCHANGED <<after, k>>
       ELSE ResetMaster(FALSE, "mount")
    /\ UNCHANGED <<disk, spoilt, mounted, idx, oper, cfg, mode, ret, kept, post, Bounds>>

\* jrnl_delete_instance: trans_lock goes with the instance, taken or not.
EspJrnlUnmount ==
    /\ pc = "idle"
    /\ mounted
    /\ mounted' = FALSE
    /\ master' = NoMaster
    /\ mode' = "none"
    /\ kept' = FALSE
    /\ ret' = Ret("unmount", "ok")
    /\ UNCHANGED <<disk, spoilt, pc, Locals, cfg, Bounds>>
    /\ Settle

-----------------------------------------------------------------------------
(* jrnl_replay *)

\* Power is lost or the program aborts: all of RAM goes.
LoseRam ==
    /\ mounted' = FALSE
    /\ master' = NoMaster
    /\ pc' = "idle"
    /\ after' = "none"
    /\ k' = 0
    /\ idx' = 0
    /\ oper' = NoOper
    /\ cfg' = NoConfig
    /\ mode' = "none"
    /\ kept' = FALSE

\* assert(status != ESP_JRNL_STATUS_FS_INIT): the program aborts and reboots.
ReplayAssertFails ==
    /\ pc = "replay"
    /\ master.status = "FS_DIRECT"
    /\ LoseRam
    /\ ret' = Ret("mount", "abort")
    /\ UNCHANGED <<disk, spoilt, post, Bounds>>

\* Nothing logged: back to esp_jrnl_mount.
ReplayReady ==
    /\ pc = "replay"
    /\ master.status = "TRANS_READY"
    /\ ResetMaster(FALSE, "mount")
    /\ UNCHANGED <<disk, spoilt, mounted, idx, oper, cfg, mode, ret, kept, post, Bounds>>

\* A transaction that was open when the power went: forget it.
ReplayRollback ==
    /\ pc = "replay"
    /\ master.status = "TRANS_OPEN"
    /\ ResetMaster(FALSE, "replay")
    /\ UNCHANGED <<disk, spoilt, mounted, idx, oper, cfg, mode, ret, kept, post, Bounds>>

\* The header buffer is allocated and the loop over the records begins.
ReplayCommit ==
    /\ pc = "replay"
    /\ master.status = "TRANS_COMMIT"
    /\ pc' = "rp_head"
    /\ idx' = 0
    /\ UNCHANGED <<disk, spoilt, mounted, master, after, k, oper, cfg, mode, ret, kept, post, Bounds>>

\* The instance of a mount that fails is deleted; a mounted one stays as it is.
FailCall(e) ==
    /\ Return(e)
    /\ cfg' = NoConfig
    /\ master' = IF mounted THEN master ELSE NoMaster
    /\ UNCHANGED <<mounted, mode>>

\* No memory for the header buffer: the one return that does not release trans_lock.
\* It stays taken in a mounted instance; that of a mount is deleted.
ReplayNoMemory ==
    /\ pc = "replay"
    /\ master.status = "TRANS_COMMIT"
    /\ faults < MaxFaults
    /\ faults' = faults + 1
    /\ kept' = mounted
    /\ FailCall("no_mem")
    /\ UNCHANGED <<disk, spoilt, post, cuts>>

\* The data sectors the header at p announces, as they read now.
LoggedData(p) == [j \in 0 .. (Seen(LogAddr(p)).count - 1) |-> Seen(LogAddr(p + 1 + j))]

HeaderCrcOk(p) == Seen(LogAddr(p)).tag = "oper"

\* Mutant: the data checksum is not compared.
DataCrcIgnored(p) == HeaderCrcOk(p)

DataCrcOk(p) == LoggedData(p) = Seen(LogAddr(p)).crc

\* Mutant: the header sector is not counted.
NextRecordNoHeader(p, n) == p + n

\* Mutant: the pointer is not moved.
NextRecordSame(p, n) == p

\* Where the record after one of n data sectors begins.
NextRecord(p, n) == p + 1 + n

\* Mutant: the last record is left out.
ReplayDoneEarly == idx + 2 >= master.nf

ReplayDone == idx >= master.nf

\* Header and data of the next operation are read and both checksums hold.
ReplayRead ==
    /\ pc = "rp_head"
    /\ ~ReplayDone
    /\ HeaderCrcOk(idx)
    /\ DataCrcOk(idx)
    /\ oper' = [target |-> Seen(LogAddr(idx)).target, count |-> Seen(LogAddr(idx)).count,
                buf |-> LoggedData(idx)]
    /\ pc' = "t_erase"
    /\ k' = 0
    /\ UNCHANGED <<disk, spoilt, mounted, master, after, idx, cfg, mode, ret, kept, post, Bounds>>

\* Mutant: the error is not remembered when the loop is left.
ReplayBadCrcForgotten ==
    /\ pc = "rp_head"
    /\ ~ReplayDone
    /\ ~(HeaderCrcOk(idx) /\ DataCrcOk(idx))
    /\ ResetMaster(FALSE, "replay")
    /\ UNCHANGED <<disk, spoilt, mounted, idx, oper, cfg, mode, ret, kept, post, Bounds>>

ReplayBadCrc ==
    /\ pc = "rp_head"
    /\ ~ReplayDone
    /\ ~(HeaderCrcOk(idx) /\ DataCrcOk(idx))
    /\ FailCall("invalid_crc")
    /\ UNCHANGED <<disk, spoilt, kept, post, Bounds>>

\* Everything is transferred: only now is the log given up.
ReplayFinish ==
    /\ pc = "rp_head"
    /\ ReplayDone
    /\ ResetMaster(FALSE, "replay")
    /\ UNCHANGED <<disk, spoilt, mounted, idx, oper, cfg, mode, ret, kept, post, Bounds>>

-----------------------------------------------------------------------------
(* Erase and write of target sectors, by jrnl_replay and by a direct write *)

TargetErase ==
    /\ RawLast("t_erase")
    /\ pc' = "t_write"
    /\ k' = 0
    /\ UNCHANGED <<mounted, master, after, idx, oper, cfg, mode, ret, kept, Bounds>>
    /\ Settle

ReplayTransferred ==
    /\ RawLast("t_write")
    /\ master.status = "TRANS_COMMIT"
    /\ pc' = "rp_head"
    /\ idx' = NextRecord(idx, oper.count)
    /\ oper' = NoOper
    /\ k' = 0
    /\ UNCHANGED <<mounted, master, after, cfg, mode, ret, kept, post, Bounds>>

DirectWritten ==
    /\ RawLast("t_write")
    /\ master.status = "FS_DIRECT"
    /\ Return("ok")
    /\ UNCHANGED <<mounted, master, cfg, mode, kept, Bounds>>
    /\ Settle

-----------------------------------------------------------------------------
(* esp_jrnl_start, esp_jrnl_stop, esp_jrnl_set_direct_io *)

Calling(api) == pc = "idle" /\ mounted /\ ret' = Ret(api, "pending")

\* start, stop(false) and set_direct_io take trans_lock before they look at anything.
\* A call that finds it kept waits in _lock_acquire: pc = "lock", which only the loss of
\* power leaves.  (stop(true) and write take the lock too, but look at the status first,
\* and where the lock is kept the status is Commit, which both refuse.)
LockWait(api) ==
    /\ Calling(api)
    /\ kept
    /\ api = "cancel" => mode = "txn" \/ Stray
    /\ pc' = "lock"
    /\ UNCHANGED <<disk, spoilt, mounted, master, Locals, cfg, mode, kept, post, Bounds>>

\* The one stop of the system: nobody is left to release the lock.
Blocked == pc = "lock" /\ UNCHANGED vars

EspJrnlStart ==
    /\ Calling("start")
    /\ ~kept
    /\ master.status = "TRANS_READY"
    /\ master' = [master EXCEPT !.status = "TRANS_OPEN"]
    /\ UpdateMaster("start")
    /\ UNCHANGED <<disk, spoilt, mounted, idx, oper, cfg, mode, kept, post, Bounds>>

EspJrnlStartRefused ==
    /\ pc = "idle" /\ mounted /\ ~kept
    /\ master.status # "TRANS_READY"
    /\ Refuse("start", "invalid_state")

\* stop(false) looks at no status.
EspJrnlStopCancel ==
    /\ Calling("cancel")
    /\ ~kept
    /\ mode = "txn" \/ Stray
    /\ ResetMaster(FALSE, "cancel")
    /\ mode' = "none"
    /\ UNCHANGED <<disk, spoilt, mounted, idx, oper, cfg, kept, Bounds>>
    /\ Settle

\* Mutant: the transfer begins before the commit record is on the disk.
EspJrnlStopCommitUnrecorded ==
    /\ Calling("commit")
    /\ master.status = "TRANS_OPEN"
    /\ master' = [master EXCEPT !.status = "TRANS_COMMIT"]
    /\ pc' = "replay"
    /\ mode' = "none"
    /\ UNCHANGED <<disk, spoilt, mounted, Locals, cfg, kept, post, Bounds>>

EspJrnlStopCommit ==
    /\ Calling("commit")
    /\ master.status = "TRANS_OPEN"
    /\ master' = [master EXCEPT !.status = "TRANS_COMMIT"]
    /\ UpdateMaster("commit")
    /\ mode' = "none"
    /\ UNCHANGED <<disk, spoilt, mounted, idx, oper, cfg, kept, post, Bounds>>

EspJrnlStopRefused ==
    /\ pc = "idle" /\ mounted
    /\ master.status # "TRANS_OPEN"
    /\ Refuse("commit", "invalid_state")

EspJrnlSetDirectIo(on) ==
    /\ Calling("direct")
    /\ ~kept
    /\ on => DirectIo
    /\ master.status \in {"FS_DIRECT", "TRANS_READY"}
    /\ master' = [master EXCEPT !.status = IF on THEN "FS_DIRECT" ELSE "TRANS_READY"]
    /\ UpdateMaster("direct")
    /\ mode' = "none"
    /\ UNCHANGED <<disk, spoilt, mounted, idx, oper, cfg, kept, post, Bounds>>

EspJrnlSetDirectIoRefused ==
    /\ pc = "idle" /\ mounted /\ ~kept
    /\ master.status \notin {"FS_DIRECT", "TRANS_READY"}
    /\ Refuse("direct", "invalid_state")

-----------------------------------------------------------------------------
(* esp_jrnl_write, esp_jrnl_read *)

\* Mutant: the master record is forgotten.
HasSpaceForMaster(n) == master.nf + 1 + n <= StoreSize

\* A header and n data sectors fit in front of the master record.
HasSpace(n) == master.nf + 1 + n < StoreSize - 1

\* Mutant: the header sector is not counted.
NextFreeNoHeader(n) == master.nf + n

NextFree(n) == master.nf + 1 + n

WriteDirect(o) ==
    /\ Calling("write")
    /\ master.status = "FS_DIRECT"
    /\ mode = "direct" \/ Stray
    /\ oper' = o
    /\ pc' = "t_erase"
    /\ UNCHANGED <<disk, spoilt, mounted, master, after, k, idx, cfg, mode, kept, post, Bounds>>

WriteLogged(o) ==
    /\ Calling("write")
    /\ master.status = "TRANS_OPEN"
    /\ mode = "txn" \/ Stray
    /\ HasSpace(o.count)
    /\ oper' = o
    /\ pc' = "w_erase"
    /\ UNCHANGED <<disk, spoilt, mounted, master, after, k, idx, cfg, mode, kept, post, Bounds>>

WriteNoSpace(o) ==
    /\ pc = "idle" /\ mounted
    /\ master.status = "TRANS_OPEN"
    /\ ~HasSpace(o.count)
    /\ Refuse("write", "no_mem")

WriteRefused ==
    /\ pc = "idle" /\ mounted
    /\ master.status \notin {"FS_DIRECT", "TRANS_OPEN"}
    /\ Refuse("write", "invalid_state")

WriteErase ==
    /\ RawLast("w_erase")
    /\ pc' = "w_head"
    /\ k' = 0
    /\ UNCHANGED <<mounted, master, after, idx, oper, cfg, mode, ret, kept, post, Bounds>>

WriteHeader ==
    /\ RawLast("w_head")
    /\ pc' = "w_data"
    /\ k' = 0
    /\ UNCHANGED <<mounted, master, after, idx, oper, cfg, mode, ret, kept, post, Bounds>>

\* With the data in place next_free_sector moves past the record, in memory first.
WriteData ==
    /\ RawLast("w_data")
    /\ master' = [master EXCEPT !.nf = NextFree(oper.count)]
    /\ UpdateMaster("write")
    /\ post' = Overlay(post, oper)
    /\ oper' = NoOper
    /\ UNCHANGED <<mounted, idx, cfg, mode, ret, kept, Bounds>>

\* Reads go to the target sectors and past the log.
EspJrnlRead(sector, count) ==
    /\ pc = "idle" /\ mounted
    /\ Refuse("read", IF sector + count >= FsSectors THEN "invalid_size" ELSE "ok")

-----------------------------------------------------------------------------
(* The environment *)

\* The driver reports an error; the sector it was working on may be done or not.
\* Where an allocation fails and the code then leaves as it does after a failure of the
\* disk operation that comes next, that is this action too: the instance of a mount, the
\* header esp_jrnl_write makes, the data buffer of jrnl_replay.  (The header buffer of
\* jrnl_replay is ReplayNoMemory.)
DiskError ==
    /\ pc \in RawPcs \cup {"mt_read"} \/ (pc = "rp_head" /\ ~ReplayDone)
    /\ faults < MaxFaults
    /\ faults' = faults + 1
    /\ \/ UNCHANGED <<disk, spoilt>>
       \/ pc \in RawPcs /\ DiskSector
    /\ FailCall("disk")
    /\ Settle
    /\ UNCHANGED <<kept, cuts>>

PowerCut ==
    /\ cuts < MaxPowerCuts
    /\ cuts' = cuts + 1
    /\ LoseRam
    /\ ret' = NoRet
    /\ UNCHANGED <<disk, spoilt, faults>>
    /\ Settle

-----------------------------------------------------------------------------

Client ==
    \/ \E c \in Configs : EspJrnlMount(c)
    \/ EspJrnlUnmount
    \/ EspJrnlStart
    \/ EspJrnlStartRefused
    \/ EspJrnlStopCancel
    \/ EspJrnlStopCommit
    \/ EspJrnlStopRefused
    \/ \E on \in BOOLEAN : EspJrnlSetDirectIo(on)
    \/ EspJrnlSetDirectIoRefused
    \/ \E api \in {"start", "cancel", "direct"} : LockWait(api)
    \/ \E o \in Writes : WriteDirect(o) \/ WriteLogged(o) \/ WriteNoSpace(o)
    \/ WriteRefused
    \/ \E sector \in FsArea, count \in 1 .. MaxCount : EspJrnlRead(sector, count)

\* The steps the code takes by itself once it has been called.
Running ==
    \/ RawProgress
    \/ MasterErase
    \/ MasterWriteMount
    \/ MasterWriteReplayedAtMount
    \/ MasterWriteCommit
    \/ MasterWriteReturn
    \/ MountBlank
    \/ MountInconsistent
    \/ MountFound
    \/ ReplayAssertFails
    \/ ReplayReady
    \/ ReplayRollback
    \/ ReplayCommit
    \/ ReplayRead
    \/ ReplayBadCrc
    \/ ReplayFinish
    \/ TargetErase
    \/ ReplayTransferred
    \/ DirectWritten
    \/ WriteErase
    \/ WriteHeader
    \/ WriteData

Next ==
    \/ Client
    \/ Running
    \/ ReplayNoMemory
    \/ DiskError
    \/ PowerCut
    \/ Blocked

Spec == Init /\ [][Next]_vars

-----------------------------------------------------------------------------
(* Fairness: a call that has begun goes on until it returns, and a program   *)
(* that finds its volume unmounted mounts it, as every start-up does.        *)

FairSpec ==
    /\ Spec
    /\ WF_vars(Running)
    /\ WF_vars(\E c \in Configs : EspJrnlMount(c))

-----------------------------------------------------------------------------
(* Properties *)

\* What each sector can hold and the range of every variable.  Records of the
\* log and the master record stay in the store, file data stays out of it.
Content == DataCells \cup {Erased}
MasterCells == [tag : {"master"}, store : {StoreSize, StoreSize + 1}, status : Status, nf : 0 .. (StoreSize - 1)]
HeaderCells == {HeaderCell(o) : o \in Writes}

TypeOK ==
    /\ disk \in [Volume -> Content \cup HeaderCells \cup MasterCells]
    /\ \A s \in FsArea : disk[s] \in Content
    /\ disk[MasterAddr] \in MasterCells \cup {Erased}
    /\ spoilt \subseteq Volume
    /\ mounted \in BOOLEAN
    /\ master \in [status : Status, nf : 0 .. (StoreSize - 1)]
    /\ pc \in RawPcs \cup {"idle", "mt_read", "replay", "rp_head", "lock"}
    /\ after \in {"none", "mount", "start", "write", "cancel", "commit", "replay", "direct"}
    /\ k \in Nat
    /\ idx \in Nat
    /\ oper \in Writes \cup {NoOper}
    /\ cfg \in Configs \cup {NoConfig}
    /\ mode \in {"none", "txn", "direct"}
    /\ kept \in BOOLEAN
    /\ post \in [FsArea -> Content]
    /\ cuts \in 0 .. MaxPowerCuts
    /\ faults \in 0 .. MaxFaults

Header(d, p) == d[LogAddr(p)].tag = "oper"

\* The log of disk d below position nf is a chain of records jrnl_replay can walk:
\* each header is followed by exactly the data it was made for and then by the
\* next header or the end.
Chain(d, nf) ==
    /\ nf > 0 => Header(d, 0)
    /\ \A p \in 0 .. (nf - 1) :
          Header(d, p) =>
             LET h == d[LogAddr(p)] IN
             /\ p + h.count < nf
             /\ \A j \in 0 .. (h.count - 1) :
                   ~Header(d, p + 1 + j) /\ d[LogAddr(p + 1 + j)] = h.crc[j]
             /\ p + 1 + h.count < nf => Header(d, p + 1 + h.count)

\* The log a commit would install, and the log a committed master record points
\* at, is always replayable to its end: whatever a driver error or a power cut
\* left behind in the store (esp_jrnl_write appends before it moves
\* next_free_sector), jrnl_replay never stops at a bad record.
LogReplayable ==
    /\ Open => Chain(disk, master.nf)
    /\ DiskCommitted => Chain(disk, disk[MasterAddr].nf)

\* The client gets a usable journal only once no committed transaction is waiting
\* to be transferred: the log is empty and what a recovery would install is what
\* the sectors hold, even if a failing disk kept the old record
\* (jrnl_reset_master changes the memory first, and fails after that).
RecoveredBeforeUse ==
    mounted /\ pc = "idle" /\ master.status \in {"TRANS_READY", "TRANS_OPEN"}
        => /\ DiskCommitted => post = FsImage /\ master.nf = 0
           /\ master.status = "TRANS_READY" => post = FsImage /\ master.nf = 0

\* Without a failing disk operation or allocation the journal is never left in a state
\* only a new mount leaves: a client with no transaction open can always start one, and
\* no call waits for a trans_lock that stays taken.
WedgedOnlyByFault ==
    mounted /\ pc \in {"idle", "lock"} /\ mode = "none" /\ master.status \in {"TRANS_OPEN", "TRANS_COMMIT"}
        => faults > 0

\* Write-ahead rule: a sector of the file system changes only while the log that
\* can restore it is committed on the disk, or in direct mode.
WriteAhead ==
    [][\A s \in FsArea : disk'[s] # disk[s] => DiskCommitted \/ master.status = "FS_DIRECT"]_vars

\* A committed log is given up only when all of it has been transferred, unless
\* the configuration of the mount asks for a new store at any rate.
CommitKept ==
    [][DiskCommitted /\ ~DiskCommitted' => FsImage = post \/ cfg.fresh]_vars

\* The volume behaves as AtomicVolume: a transaction takes effect as a whole when
\* its commit record reaches the disk, or never.
Atomic == INSTANCE AtomicVolume WITH
    Sectors <- FsArea,
    Content <- DataCells \cup {Erased},
    img <- IF DiskCommitted THEN post ELSE FsImage,
    pend <- post,
    open <- Open,
    direct <- mounted /\ master.status = "FS_DIRECT"

Refinement == Atomic!Spec

\* A committed transaction found after a reboot is eventually transferred and the
\* volume usable, however often the power fails on the way.
RecoveryCompletes ==
    (~mounted /\ DiskCommitted) ~> (mounted /\ master.status = "TRANS_READY")

\* Every API call returns, through all loops and error paths, with one exception: a call
\* that waits for the trans_lock an earlier jrnl_replay kept for want of memory
\* (esp_jrnl.c:238; see StartAnswered).
CallsReturn == (pc # "idle") ~> (pc = "idle" \/ (pc = "lock" /\ kept))

-----------------------------------------------------------------------------
(* What the code or its documentation says and a run refutes *)

\* The assertion of jrnl_replay (esp_jrnl.c:201) never fails.
ReplayNeverAborts == ret.err # "abort"

\* esp_jrnl_start answers with one of the results esp_jrnl.h:127-130 lists, whatever
\* earlier calls met.
StartAnswered == (pc # "idle" /\ ret.api = "start") ~> (pc = "idle")
=============================================================================
