# A TLA+ verification of esp_jrnl

esp_jrnl is an ESP-IDF component that puts a journal between a file system (FatFS)
and its disk (wear-levelled SPI flash or an SD card). Each file-system call runs
inside one transaction: its sector writes go to a log at the end of the partition, a
commit record makes them permanent, and they are then copied to their places. The
component is there so that a power cut leaves either all of a call's writes or none.

This directory holds TLA+ models of that component, TLC configurations that check
them on small instances, and TLAPS proofs that the journaling core, the mount tables and
the calls of the VFS layer keep their promises on every instance.

## 1. The system

| Part | Source | State | Operations |
|---|---|---|---|
| Journaling core | `srcs/esp_jrnl.c`, `private_include/esp_jrnl_internal.h` | instance table `s_jrnl_instance_ptrs`; per instance the master record (status, `next_free_sector`, sizes) in memory and in the last sector of the volume; the operation log in the sectors before it | `esp_jrnl_mount`, `unmount`, `start`, `stop`, `set_direct_io`, `write`, `read`; inside them `jrnl_replay`, `jrnl_reset_master`, `jrnl_update_master` |
| FatFS disk driver | `srcs/fatfs/diskio/diskio_jrnl.c` | `ff_jrnl_handles`: journal handle by drive number | `ff_jrnl_read/write/ioctl`, register, look-up, clear |
| VFS layer | `srcs/fatfs/vfs/vfs_jrnl_fat.c` | `s_fat_ctxs` (contexts with the FATFS object, the table of open files and a lock), `s_jrnl_handles` (journal by drive) | registration; 25 file operations, of which 18 are enclosed by a `vfs_fat_*_jrnl` wrapper: start, the operation, stop(commit if it succeeded) |
| Mounting | `vfs_jrnl_fat_spiflash.c`, `vfs_jrnl_fat_sdmmc.c` | locals of the call | chain of seven steps that fill the tables above, and their undoing |

The parts interact by calls only. The application calls the VFS; a wrapper calls
`esp_jrnl_start`; FatFS calls `ff_jrnl_write`, which finds the journal by drive number
and calls `esp_jrnl_write`; the wrapper calls `esp_jrnl_stop`. The journal calls the
disk through three function pointers (read, write, erase a range). There are no
callbacks or messages. Shared state is the tables, the instance and the FATFS object,
guarded in part by `s_instances_lock` (mount, unmount), `trans_lock` (one per instance)
and the lock of a context; FatFS has a lock per volume of its own.

What is hard in this code:

- power can fail between any two sectors, including while the *only* master record is
  erased and not yet rewritten, and again during the recovery;
- a disk operation can fail and the program goes on, with a master record in memory
  that no longer equals the one on the disk (`jrnl_reset_master` changes memory first);
- leftovers of an append that did not finish lie in the log, where the next one writes;
- mounting takes resources in seven steps, any of which can fail, and reserves the drive
  number only at the third;
- status and space are checked outside the lock;
- FatFS keeps one sector of directory or FAT in memory between calls, written back when
  another is needed: in whatever transaction is open then, or in none;
- reads do not look at the log;
- seven operations run without a transaction, and four of them can make FatFS write;
- some error returns keep a lock.

What makes each part correct: a committed transaction takes effect as a whole, exactly
once in effect, and no other change reaches the file system (core); only what a client
wrote is transferred (checksums); a recovery ends and the volume is then usable;
the tables agree about every mounted volume and hold nothing else (mounting); what a
successful call did stays, no entry for an open file is lost, and every call returns
(file operations).

## 2. Modules

| Module | What it is |
|---|---|
| `AtomicVolume` | What a journaled volume promises: Begin, Buffer, Commit, Discard; direct access. No log, no sectors in flight, no power cut. |
| `EspJrnl` | The core: `esp_jrnl.c` for one volume and one caller. |
| `EspJrnlInv` | The inductive invariant, in named parts. |
| `EspJrnlDecay` | `EspJrnl` plus a medium that spoils log sectors. |
| `VfsJrnlMount` | Mounting and unmounting, and the tables. |
| `VfsFatOps` | The file operations as data: FatFS functions as sector accesses, operations as programs of them. |
| `VfsJrnlCalls` | Tasks running these programs on a mounted volume, inside transactions and without. |
| `VfsJrnlMountInv`, `VfsJrnlCallsInv` | The inductive invariants of the two. |
| `EspJrnlProofs` | `TypeCorrect`. |
| `EspJrnlAtomicProofs` | The invariant of `EspJrnl` and its safety theorems. |
| `EspJrnlRefinement` | `EspJrnl` implements `AtomicVolume`. |
| `EspJrnlDecayProofs` | The same on a medium that spoils the log. |
| `VfsJrnlMountProofs` | The theorems about mounting. |
| `VfsJrnlCallsProofs` | The theorems about calls. |
| `VfsJrnlCallsRefinement` | `VfsJrnlCalls` implements `AtomicVolume`. |
| `MinMaxLemmas` | The least element of a set of numbers, for table searches and logs. |
| `MCEspJrnl`, `MCEspJrnlDecay`, `MCVfsJrnlMount`, `MCVfsJrnlCalls` | Constants for TLC. |

### EspJrnl

State: `disk` (every sector of the volume: file data, operation headers, the master
record, or erased), `mounted`, `master` (the record in memory), and the program position
of the API call under way: `pc`, `after` (what `jrnl_update_master` returns to), `k`
(sectors done of the disk operation under way), `idx` (`oper_sector_index`), `oper` (the
record being logged or transferred), `cfg` (the mount's configuration).

A step is **one sector of one disk operation**. `RawAddr`, `RawCell` and `RawLen` give
the sector, its new contents and the length of the operation at each `pc`;
`RawProgress` does every sector but the last, and the last one is an action of its own
that continues as the code does (`MasterErase`, `WriteErase`, `WriteHeader`,
`WriteData`, `TargetErase`, `ReplayTransferred`, `DirectWritten`, and the four
continuations of a master write). API calls are the actions `EspJrnl...` and `Write...`,
with one action per early return.

- `PowerCut` clears all memory at any step. `DiskError` fails the disk operation under
  way, the current sector done or not, and takes the error path: the call returns, the
  instance of a mount is deleted, a mounted instance keeps the record it has. It also
  stands for an allocation that fails just before a disk operation where the code leaves
  the same way.
- `ReplayNoMemory` is the allocation for which it does not: the header buffer of
  `jrnl_replay`, whose failure returns with `trans_lock` taken (`esp_jrnl.c:238`). `kept`
  records it in a mounted instance; the instance of a mount is deleted, lock and all. A
  later start, cancel or `set_direct_io` then waits (`LockWait`, `pc = "lock"`) until the
  power goes; `Blocked` is that waiting. `esp_jrnl_stop(true)` and `esp_jrnl_write` look
  at the status before the lock and refuse.
- Checksums: a header holds the data it was made for, and a sector that is not a header
  fails the header check. That is CRC-32 without collisions.
- `disk` is what was written; `spoilt` is the set of sectors that do not read back as
  written, and `Seen` what reading a log sector returns. In `EspJrnl` nothing is ever
  spoilt; `EspJrnlDecay` adds the action that spoils a log sector, and writing a sector
  makes it good again.
- `fresh` is `force_fs_format || overwrite_existing`, the only use the code makes of
  the two.
- Volume size, sector size and store size enter the consistency check of a mount as one
  field, `store`.
- `mode` is what the client was granted: a transaction by a successful start, direct
  access by a successful `set_direct_io(true)` or a fresh mount. With `Stray = FALSE` the
  client writes and cancels only within it, as the VFS wrappers do.
- `post` is a history variable: the file system with the log applied. It changes when a
  record is complete (`WriteData`), and falls back to the sectors when the log stops
  counting (`Settle`). It has no counterpart in the code, and no guard reads it.

### VfsJrnlMount

State: the seven tables (`device`, `instance`, `impl`, `ffHandles`, `pdHandles`, `context`,
`fatFs`; the last is the table inside FatFS, `impl` the driver table of its port),
which media hold a file system, the volumes given to the application, and per task
`pc`, locals and result. Each step of a mount is one call of the code; unmounting is one
step. `StepFails` makes the call at hand fail for a reason of its own. The content of a
journal is reduced to whether it is in direct mode, which decides if it takes the writes of
`f_mkfs`. `Wild` is the value of the local `FATFS *fs` that nothing has assigned.
`orphans` is a history variable: the wear-levelling handles that failed mounts have left
mounted (`Abandoned`), because `esp_vfs_fat_spiflash_unmount_jrnl` returns at once without
a journal handle. No guard reads it.

### VfsFatOps and VfsJrnlCalls

`VfsFatOps` holds one definition per operation of `vfs_jrnl_fat.c`, under the name of the
C function: the set of its courses, each a sequence of steps. A step names the FatFS
function called (or taking and releasing the context lock, `get_next_fd`, the rejection
of an argument), the results that make the operation fail (`bad`), those on which it
leaves the sequence (`leave`) and what it does then (`else`). FatFS itself is external: a
function is one of a few sequences of accesses to three kinds of sector (directory, FAT,
data) with a result. Directory and FAT go through the window, data past it.

`VfsJrnlCalls` runs them. A call of a task is `EspJrnlStart` (or `StartRefused`,
`BareCall`), the steps of its program, `Finish`, and then `Cancel`, or `CommitCheck`,
`Commit` and the replay record by record. Inside a FatFS function each access is a step:
`FatTouch` (in the window), `EspJrnlRead`, `EspJrnlWrite` (the checks), `AppendRecord`
(under `trans_lock`), `FatSynced`. Any disk access or allocation of the journal can fail,
`MaxFaults` times.

State: `status` and `stored` (the master record's status in memory and on disk), `log`,
`disk`, the owners of the three locks, the window `win`, `files` (free, clean, with
changes, or failed after an error; and `o_append`), `held` (the descriptors the
application has), per task `pc` and the call. The content of a sector is the set of
calls whose updates it holds; `View` is what FatFS takes it to be, `Image` the disk with
the log applied. History: `good` (the sectors successful calls changed), `cancelled`, and
`events`: `dropped` (a cancel emptied a log with records), `stale` (a sector was read past
a newer version in the log), `leaked` (a lock was kept), `lost` (start or stop failed
around an open or a close).

Of the locks' owners only what the code does with them is modelled: a wrapper reads
nothing shared before `esp_jrnl_start` has `trans_lock`, so a call begins with that step.

### Assumptions

- FatFS is built re-entrant (its functions exclude each other on a volume, as ESP-IDF
  configures it), with the private buffer of a file not modelled, and copies with
  `CONFIG_FATFS_LINK_LOCK`. After a disk error a file object refuses everything but sync
  and close. `f_open` leaves a new entry in the window; O_TRUNC frees the clusters and
  then goes back to the directory sector.
- Files are opened for reading and writing. The VFS component of ESP-IDF takes a
  descriptor back whatever `close` returns.
- In `VfsJrnlCalls` a failed write of the master record leaves the one on disk as it was,
  and no power is cut; both are the business of `EspJrnl`.

- Erasing or programming *one* sector is atomic under a power cut: it has happened or
  not. esp_jrnl relies on it for its master record, which has no checksum; the wear
  levelling below provides it to the extent the medium does. A torn master record is
  out of the model (the code comments on it at `esp_jrnl.c:463`).
- Disk drivers work through a range in ascending order.
- FatFS writes only inside the sectors `esp_jrnl_get_sector_count` reports; the code
  does not check it in `esp_jrnl_write`.
- CRC-32 has no collisions.
- A lock that is taken may be deleted with its instance (`_lock_close` after a mount whose
  replay ran out of memory, or in an unmount after such a commit). Where ESP-IDF's lock
  implementation aborts instead, the outcome is that of `PowerCut`.
- One caller at a time in `EspJrnl`; concurrent callers are in `VfsJrnlCalls`.

## 3. Runs

All runs check for deadlock too: the client can always call something. The one place where
it cannot, waiting for a lock that `jrnl_replay` kept, is the action `Blocked`, and is
dealt with by `CallsReturn` and the run `lock`.

| Run | Result | What it shows |
|---|---|---|
| `core` | holds | `TypeOK`, `LogReplayable`, `RecoveredBeforeUse`, `WedgedOnlyByFault`, `WriteAhead`, `CommitKept` with two power cuts, a disk error or failed allocation, direct mode and fresh mounts; 2.9 million states |
| `live` | holds | `RecoveryCompletes`; `CallsReturn`, which excepts a call waiting for the lock of `lock` |
| `decay` | holds | `IndInv`, and `Refinement`: `EspJrnl` implements `AtomicVolume`, with two disk errors in a row, a power cut, and a log sector that decays at any moment or not at all; with it `NoGarbageTransferred`, `CommitKeptUnderDecay`; 2.6 million states |
| `mount` | holds | `TypeOK`, `Wired`, `FsObjectLive`, `NothingLeftBehind`: two flash partitions and a card, two drives, a failure at any step. `NothingLeftBehind` excepts one kind of wear-levelling handle, see below |
| `abort` | violated | the assertion of `jrnl_replay` fails after a power cut in direct mode |
| `cancel` | violated | `esp_jrnl_stop(false)` outside a transaction erases a committed log |
| `lock` | violated | `esp_jrnl_start` never answers after a commit that ran out of memory |
| `mount_format` | violated | `format_if_mount_failed` cannot format a blank volume |
| `vfs` | holds | `TypeOK`, `UpdatesKept`, `SlotsOwned`, `StartAssertionHolds`, `JournalAtomic` and `CallsReturn` for any two calls of two tasks with a failure anywhere; 0.3 million states |
| `vfs_readback` | violated | a call reads back a sector it has logged and gets the old contents |
| `vfs_cancel` | violated | cancelling a call throws away what an earlier one did |
| `vfs_stat` | violated | a call without a transaction beside one with it makes the next start abort |

`JournalAtomic` is a second refinement of `AtomicVolume`, by calls of tasks instead of
power cuts: `img` is the disk, or `Image` while a committed log is transferred, `pend` is
`Image`. `UpdatesKept` says that the updates of successful calls stay visible to FatFS,
and has two exceptions, `dropped` and `stale`, each of which is the subject of a violated
run. `CallsReturn` excepts the returns that keep a lock, and `SlotsOwned` an
`esp_jrnl_start` or `esp_jrnl_stop` that fails around an open or a close (section 4): they
show that nothing else blocks a call or loses an entry, and do not catch these cases.

`NothingLeftBehind` accounts for all seven tables: between calls each entry in use belongs
to a mounted volume, or is a device in `orphans`: the wear-levelling handle of a flash mount
that failed before it had a journal handle (section 4). A card, and a flash mount that fails
at any later step, leave nothing.

The violated runs each check one statement of the repository's documentation, comments
or assertions; `PROJECT.json` quotes them under "findings".

**Bounds.** Two file-system sectors and two payloads are enough for overlapping records,
for a record that covers part of another, and for telling old from new in every sector.
A store of six or seven sectors holds two records, or one of two sectors and one of one,
and overflows at the next. Writes have one or two sectors, so a cut or an error can fall
inside an operation. Two power cuts allow a second one during the recovery from the
first. Two disk errors allow the case that shaped the invariant: an error leaves the
record in memory Ready and the disk Commit, and a second one hits the next transaction.
Payloads are interchangeable in the core and in `AtomicVolume`, so `Permutations(Data)` is a
sound symmetry for the safety runs, `core` and `decay`; `live` does without. In `VfsJrnlMount` base paths are interchangeable;
three devices and two drives make each table run full, and three media compete for them.

`vfs` lets each of two tasks, or one of them twice, make any of the 25 calls, starting
with or without an open file, with one failure. Two calls are what it takes for one to
leave something (a changed window, a lock, an entry, a log) that the other meets. One
entry in `files` makes it run full at the second open, and a store of nine sectors holds
three records, which `mkdir` fills. Operations that reach the disk without a transaction do
not run beside other calls there (`Beside`): with them the journal breaks, as `vfs_stat`
shows. So the gap between the status check and the lock of `esp_jrnl_write` is taken in
`vfs_stat` and not in `vfs`. The violated runs have a third call and no failures. TLC also finds the safety
properties of `vfs` to hold for any three calls without failures (2.0 million states) and
for four of open, write, close and stat with two failures (1.6 million).

**Fairness.** `live` uses weak fairness of `Running` (a call that has begun goes on: it
is sequential code that waits for nothing but the disk, and for `trans_lock` only where it
is `kept`) and of mounting (start-up code
mounts its volume again when that failed; `examples/basic` does). Power cuts and disk
errors are bounded, that is, they stop eventually; with a disk that fails for ever no
recovery can end. `vfs` uses weak fairness of each task's steps: a task that is not
waiting for a lock is scheduled. Tasks make finitely many calls, so no lock is for ever
taken by others at the wrong moment.

## 4. Findings in short

The core keeps its promise for a client that stays in its turn and mounts that replay.
Outside of that, at its edges, and above it in the VFS layer, the code does what
section 3 lists as violated. In ordinary use:

- A power cut during the first formatting makes every later default mount abort
  (`abort`); `format_if_mount_failed` has no effect on a blank volume (`mount_format`),
  which is why `examples/basic` mounts again with `force_fs_format`.
- FatFS needs to read its own writes, and `esp_jrnl_read` does not look at the log.
  Opening an existing file with O_TRUNC logs the changed directory sector, moves to the
  FAT, and returns to the directory sector as it was before (`vfs_readback`).
- A transaction is not the scope of a call, because FatFS holds back one sector. A new
  file's entry is typically written by the *next* call, and lost if that one is
  cancelled. A `readdir` at the end of the directory, or an `unlink` of a missing file, is
  cancelled (`vfs_cancel`). Conversely the window keeps what a cancelled call did to it, and
  the next committed call writes it; the same property covers this case.
- With two tasks, `stat`, `opendir`, `readdir_r` or `access` in one can put a record into a
  log that the other has just closed; the next call aborts the program (`vfs_stat`).
- A commit that finds no memory for a sector buffer returns with `trans_lock` taken, and the
  next call on the volume never returns (`lock`).

The properties of section 3 hold up to five more, which their definitions name as exceptions
or do not see:

- `pwrite` that finds no space, and `seekdir` on an error, return with the context lock
  (`vfs_jrnl_fat.c:414`, `:833`, `:842`). `CallsReturn` of `VfsJrnlCalls` holds up to these and
  to the `trans_lock` of `lock`. `esp_jrnl_unmount` keeps `s_instances_lock` for a handle that is not valid (`esp_jrnl.c:533`; not in a model).
- While one task is inside a call, every wrapped call of another fails with EBADF. If that
  is a `close`, its entry in `files` is never freed; the same happens to an `open` whose
  `esp_jrnl_stop` fails. `SlotsOwned` holds up to these.
- A call without a transaction fails if the window holds a change, as it does after most
  calls that create or extend a file.
- A flash mount that fails between `wl_mount` and the success of `esp_jrnl_mount` keeps its
  wear-levelling handle, because the clean-up returns at once without a journal handle
  (`vfs_jrnl_fat_spiflash.c:184`), although `esp_vfs_jrnl_fat.h:53` says of it that it will
  "release resources acquired using esp_vfs_fat_spiflash_mount_jrnl". A program that tries
  again runs out of handles. `NothingLeftBehind` holds up to these: without `orphans` in it,
  TLC refutes it with one mount that fails in `esp_jrnl_mount`.
- `link` commits a copy although closing it failed (`vfs_jrnl_fat.c:683`), and
  `vfs_fat_readdir_jrnl` frees an address inside the directory object when the commit fails
  (`:1385`; memory is not modelled).

Changing constants in the configurations shows three that have no run of their own:

- `EspJrnl` with a configuration that does not replay: `CommitKept` fails, because the
  mount goes on to reset the master record over a committed log (`esp_jrnl.c:500`), against
  `README.md:15` ("the data remains unchanged for the next attempts to replay the store").
- `VfsJrnlMount` with `ReusePaths = TRUE`: `FsObjectLive` fails, because a base path in use
  is let through with `fs` unset (`vfs_jrnl_fat_spiflash.c:94`).
- `VfsJrnlMount` with two tasks: `Wired` fails, because the drive number found at
  `vfs_jrnl_fat_spiflash.c:42` is not reserved before `:79`.

Two comparisons are one off and need no run to see. `esp_jrnl_write` (`esp_jrnl.c:739`)
leaves the sector in front of the master record unused, so a store of
`JRNL_MIN_STORE_SIZE` sectors ("master sec + header + data", `esp_jrnl.h:24`) takes no
write. `esp_jrnl_read` (`esp_jrnl.c:829`) refuses every read that includes the last
sector `esp_jrnl_get_sector_count` reports. The model has both as they are.

A disk error in `esp_jrnl_start` leaves the status Open in memory, and no later start
succeeds until the volume is mounted anew. `WedgedOnlyByFault` states the exact extent:
without a disk error or a failed allocation this never happens.

## 5. Proofs

All theorems hold for every value of the constants that satisfies the named assumptions
of the module (`SizeAssumption`, `ConfigAssumption` and `BoundAssumption` of `EspJrnl`,
`TableAssumption` and `NameAssumption` of `VfsJrnlMount`, `CallsAssumption` of
`VfsJrnlCalls`), and under the hypothesis in the last column.

| Theorem | Statement | Needs |
|---|---|---|
| `TypeCorrect` | `Spec => []TypeOK` | |
| `InvariantHolds` | `Spec => []IndInv` | replaying client |
| `LogAlwaysReplayable` | `Spec => []LogReplayable` | replaying client |
| `RecoveryPrecedesUse` | `Spec => []RecoveredBeforeUse` | replaying client |
| `CommittedLogKept` | `Spec => CommitKept` | replaying client |
| `WriteAheadRule` | `Spec => WriteAhead` | replaying client |
| `WedgedOnlyAfterFault` | `Spec => []WedgedOnlyByFault` | replaying client |
| `Implements` | `Spec => Refinement` | replaying client |
| `NothingSpoiltTransferred` | `DecaySpec => []NoGarbageTransferred` | |
| `CommittedLogKeptUnderDecay` | `DecaySpec => CommitKeptUnderDecay` | replaying client |
| `RecoveryPrecedesUseUnderDecay` | `DecaySpec => []RecoveredBeforeUse` | replaying client |
| `ImplementsUnderDecay` | `DecaySpec => Refinement` | replaying client |
| `TablesConsistent` | `Spec => []IndInv` (`VfsJrnlMount`) | one mounter |
| `MountTypeCorrect`, `VolumesWired`, `FsObjectsLive`, `NothingLeft` | `Spec => []` `TypeOK`, `Wired`, `FsObjectLive`, `NothingLeftBehind` | one mounter |
| `CallsInductive` | `Spec => []IndInv` (`VfsJrnlCalls`) | disk alone |
| `CallsTypeCorrect`, `StartAsserted`, `UpdatesStay`, `EntriesOwned` | `Spec => []` `TypeOK`, `StartAssertionHolds`, `UpdatesKept`, `SlotsOwned` | disk alone |
| `CallsImplement` | `Spec => JournalAtomic` | disk alone |

The three hypotheses are what the application and the configuration have to provide,
and none can be dropped:

- *Replaying client*, `ReplayingClient`: `~Stray`, and configurations that replay and
  force no fresh store. The `cancel` run and section 4 show what happens otherwise; a fresh
  store gives up a log by request.
- *One mounter*, `OneMounter`: volumes are mounted and unmounted from one task, and a base
  path is not used twice. Section 4 lists what two mounting tasks, and a second mount on a
  base path, do. The examples and the tests keep to it.
- *Disk alone*, `DiskAlone`: an operation without a transaction that can reach the disk
  (`stat`, `opendir`, `readdir_r`, `access`) is not run while another task is inside a
  call; all the others run beside each other in any number of tasks. The `vfs_stat` run
  shows why it is needed.

**Type correctness** needs `StepInv`: a disk operation under way has a sector left
(`k < RawLen`) and its record fits in front of the master record, so no write leaves its
area.

**The invariant.** None of the properties is inductive by itself. What holds them up:

- `ControlInv`, `MasterInv`, `RecordInv`: which status goes with which step, and how the
  record in memory and the one on the disk may differ. They agree while a log is being
  replayed; elsewhere the one combination that matters is "disk says Commit, memory
  says Ready or Open", which a failed reset leaves.
- `LogInv`: the log in use is a chain of intact records (`Chain`), and `post` is the disk
  with that chain applied (`Image`). `Image` is stated without recursion: a sector no
  record covers has its disk contents, any other has the contents from the *last* record
  that covers it. In the combination above the log must be empty and `post` equal to
  the sectors (the third conjunct), so that losing the stale record costs nothing.
- `SettledInv`: outside transactions `post` is what the sectors hold.
- `ReplayInv`, `TransferInv`: while replaying at `idx`, sectors no record from `idx` on
  covers are final. Finishing a record therefore finishes its sectors unless a later
  one covers them, and at the end all are final. Starting again from 0 is harmless for
  the same reason, which is why any number of interrupted recoveries is.
- `AppendInv`: what an append has written beyond `next_free_sector` so far.

The lemmas of `EspJrnlAtomicProofs` say how `Chain` and `Image` react to a write outside
the log, to an append and to a transferred sector; then there is one lemma per action.
`CommittedLogKept` and `WriteAheadRule` are action properties and follow from the
invariant before the step.

**Refinement.** `img` is `post` while a committed record is on the disk and the sectors
otherwise; `pend` is `post`; `open` is the status Open or a commit record being written.
Commit happens at the single step that writes the commit record
(`MasterWriteCommit`), or at a `DiskError` in that very sector that wrote it all the
same. Replay steps are stutters, because `img` does not look at the sectors then.
A power cut is a Discard or a stutter.

**Never stuck.** `WedgedOnlyAfterFault` adds `WedgeInv`: as long as no disk operation or
allocation has failed, no call waits for a lock that was kept, an open transaction is the client's or `esp_jrnl_start` is still recording it, and a
committed one is being transferred. The one step that could break it is a bad checksum;
that it never comes follows from `LogInv` and `ReplayInv`: the record at `idx` is an intact
one of the chain.

**Decay.** The invariant speaks of `disk`, that is, of what was written, and mentions
`spoilt` nowhere; so spoiling a sector preserves it, and the lemmas on the other actions
hold for any `spoilt`. What they rely on is `RecordRead`: whatever `spoilt` is, data that pass
both checksums are a record as it was written. A record that cannot be read stops the
replay with the commit record in place. Sectors transferred before that stay
transferred: the volume then holds a part of a transaction, in a journal that can be
neither mounted nor started, and `Refinement` counts it as committed.

**Mounting.** The invariant (`VfsJrnlMountInv`) says of a mount under way what it has
obtained at each step (`MountInv`), of the application's volumes that they share nothing
(`HeldInv`), of the tables that every entry in use has an owner and that they agree
(`TableInv`), and of the devices that each one in use is a volume's, the mount's under way or
an orphan, and that an orphan is a flash device nobody will use again (`DeviceInv`). None of the four properties is inductive alone: that undoing a
failed mount leaves another volume's entries alone needs to know that the entries it
clears are its own. Media are as many as you like, tables of any size; the searches take
the first free entry, whose existence is the least-number principle (`MinMaxLemmas`, from
`WFMin` of the library).

**Calls.** The invariant (`VfsJrnlCallsInv`) has to follow programs given as data. It says
which steps a call may still have to do (`CallInv`; exactly for `open` and `close`, by the
kind of step for the others), that at most one call can reach the disk (`Alone`), what the
status of the journal is meanwhile (`StatusInv`), who owns the entries of `files` (`SlotInv`),
that the window, where it is clean, has what the log says (`ViewInv`), and which sectors
a transfer has finished (`ReplayInv`). `Image` takes the last record of a sector; the
lemmas on it say what appending a record and transferring one do. `UpdatesKept` and
`SlotsOwned` are proved with their exceptions, which are the subjects of section 4.

`CallsImplement` maps `img` to the disk, or to `Image` while a committed log is
transferred. A call beginning is a Begin, an appended record a Buffer, the write of the
commit record a Commit, a cancel a Discard. All steps of other tasks, and everything
inside FatFS, are stutters.

**Only model-checked**: liveness (`RecoveryCompletes`, both `CallsReturn`), which TLAPS does
not reach, and the violated statements, which are counterexamples.

## 6. Not modelled

- Debug printing, logging, argument checks against NULL, the size queries of
  `ff_jrnl_ioctl`: they change no state.
- Test mode: restarts at fixed points, all of which `PowerCut` includes.
- FatFS beyond what section 2 says of it: the contents of directories and of the FAT, the
  buffer of an open file, paths, times and attributes.
- The cached result of `readdir` that `stat` may return, and the offset of a directory
  stream: data no journal state depends on. (The cache can be out of date:
  `vfs_jrnl_fat.c:582`.)
- `s_instances_lock`, and unmounting a volume while a call runs on it.
- Fast seek (`CONFIG_FATFS_USE_FASTSEEK`), a cluster map for files opened read-only.
- Integer widths: sector numbers are far from 2^32 on these media; byte addresses
  (`sector * sector_size`, a `size_t`) would overflow on cards of 4 GiB and more, which
  is a matter of configuration and not of the protocol.
- Examples, tests, build files.

## 7. Plan

Done: core, decay, mounting, file operations, wrappers and concurrent calls, modelled and
checked; every safety property of a passing run proved.

1. **Lock leaks**: the safety part of `CallsReturn` as an invariant (a lock is owned by a task
   that will release it, or `leaked` is recorded), checked and proved.
2. **Refinement between the layers**: the journal of `VfsJrnlCalls` as an abstraction of
   `EspJrnl`, so that power cuts during calls follow from the two.
3. **Unmounting during calls**: `s_instances_lock`, and `esp_jrnl_unmount` freeing an
   instance another task is using.
