---------------------------- MODULE VfsJrnlCalls ----------------------------
(***************************************************************************)
(* File-system calls of several tasks on one mounted volume.  A call of    *)
(* vfs_jrnl_fat.c starts a transaction, runs the FatFS functions of its    *)
(* operation under the context lock, and stops the transaction; some calls *)
(* run without one.  FatFS reads and writes sectors through the journal    *)
(* (esp_jrnl_read, esp_jrnl_write), whose checks are made outside          *)
(* trans_lock.  The content of a sector is the set of calls whose updates  *)
(* it holds.  Power cuts are the business of EspJrnl.                      *)
(***************************************************************************)
EXTENDS VfsFatOps, FiniteSets, FiniteSetsExt

CONSTANTS
    Tasks, NoTask,
    Slots,            \* entries of files[] (max_files)
    StoreSize,        \* store_size_sectors
    Ops,              \* the operations called
    Beside,           \* operations without a transaction that may run beside other calls
    MaxCalls,         \* bound on calls
    MaxFaults         \* bound on failing disk accesses and allocations

ASSUME CallsAssumption ==
    /\ NoTask \notin Tasks
    /\ Slots \subseteq Nat /\ Slots # {} /\ IsFiniteSet(Slots)
    /\ StoreSize \in Nat /\ StoreSize >= 3    \* JRNL_MIN_STORE_SIZE
    /\ Ops \subseteq (Wrapped \cup Bare)
    /\ Beside \subseteq Bare
    /\ MaxCalls \in Nat /\ MaxFaults \in Nat

VARIABLES
    status,      \* master.status in memory
    stored,      \* master.status as last written to the disk
    log,         \* operations in the store: [s, c], two store sectors each
    disk,        \* the file-system part of the disk
    transLock, ctxLock, fatLock,   \* owners of trans_lock, of ctx->lock, of the FatFS volume lock
    win,         \* FatFS sector window: sector, content, changed?
    files,       \* files[] and o_append[]
    held,        \* descriptors the application holds
    pc, loc,     \* where a task is, and the call it makes
    calls, faults,
    good,        \* history: <<sector, call>> updated by calls that succeeded
    cancelled,   \* history: calls whose transaction was cancelled
    events       \* history: what went wrong

jrnl == <<status, stored, log>>
volume == <<jrnl, disk, win>>
table == <<files, held>>
history == <<calls, good, cancelled, events>>
vars == <<volume, table, transLock, ctxLock, fatLock, pc, loc, faults, history>>

None == -1
Contents == SUBSET (0 .. MaxCalls)
Events == {"dropped", "stale", "leaked", "lost"}

Resting == [op |-> "none", id |-> 0, fd |-> None, todo |-> <<>>, ok |-> TRUE, mine |-> {},
            acc |-> <<>>, res |-> "ok", st |-> "same", wrote |-> FALSE, at |-> 0]

\* The volume as it would be once the log is transferred.
Image ==
    [s \in Sectors |->
        LET records == {i \in DOMAIN log : log[i].s = s}
        IN IF records = {} THEN disk[s] ELSE log[Max(records)].c]

\* What FatFS takes sector s to hold.
View(s) == IF win.s = s THEN win.c ELSE Image[s]

-----------------------------------------------------------------------------

Init ==
    /\ status = "ready" /\ stored = "ready"
    /\ log = <<>>
    /\ disk = [s \in Sectors |-> {0}]
    /\ transLock = NoTask /\ ctxLock = NoTask /\ fatLock = NoTask
    /\ win = [s |-> None, c |-> {}, dirty |-> FALSE]
    /\ held \in SUBSET Slots       \* files already open
    /\ files = [i \in Slots |-> [st |-> IF i \in held THEN "clean" ELSE "free", append |-> FALSE]]
    /\ pc = [t \in Tasks |-> "idle"]
    /\ loc = [t \in Tasks |-> Resting]
    /\ calls = 0 /\ faults = 0
    /\ good = {} /\ cancelled = {} /\ events = {}

Fault == faults < MaxFaults /\ faults' = faults + 1

Goto(t, l) == pc' = [pc EXCEPT ![t] = l]

\* A write of the master record: it may fail, and memory is then ahead of the disk.
UpdateMaster(s) == \/ stored' = s /\ UNCHANGED faults
                   \/ stored' = stored /\ Fault

-----------------------------------------------------------------------------
(* Calls and their wrappers *)

Busy == {t \in Tasks : pc[t] # "idle"}

\* A call may be made beside those that run.
Allowed(t, op) ==
    /\ pc[t] = "idle" /\ calls < MaxCalls
    /\ Busy = {} \/ {op} \cup {loc[u].op : u \in Busy} \subseteq Wrapped \cup Beside

\* The descriptors a call can be about.
Descriptors(op) == IF op \in OnDescriptor THEN held ELSE {None}

\* The operation of the call begins, along one of its programs.
Enter(t, op, fd) ==
    /\ \E prog \in Programs(op, fd # None /\ files[fd].append) :
          loc' = [loc EXCEPT ![t] = [Resting EXCEPT !.op = op, !.id = calls + 1, !.fd = fd, !.todo = prog]]
    /\ Goto(t, "run")

\* A call that could not start its transaction: a descriptor to close is gone all the
\* same, but not its entry.
NotStarted(op, fd) ==
    /\ held' = IF op = "close" THEN held \ {fd} ELSE held
    /\ events' = IF op = "close" THEN events \cup {"lost"} ELSE events

\* esp_jrnl_start opens the transaction of the call.  The assertion that the log is
\* empty stops the program.  If the master record cannot be written the call fails,
\* and the transaction stays open.
EspJrnlStart(t, op) ==
    /\ Allowed(t, op) /\ op \in Wrapped
    /\ transLock = NoTask /\ status = "ready"
    /\ IF log # <<>>
       THEN pc' = [u \in Tasks |-> "stopped"] /\ UNCHANGED <<status, stored, loc, held, faults, events>>
       ELSE /\ status' = "open"
            /\ \E fd \in Descriptors(op) :
                  \/ stored' = "open" /\ Enter(t, op, fd) /\ UNCHANGED <<faults, held, events>>
                  \/ stored' = stored /\ Fault /\ NotStarted(op, fd) /\ UNCHANGED <<pc, loc>>
    /\ calls' = calls + 1
    /\ UNCHANGED <<log, disk, win, files, transLock, ctxLock, fatLock, good, cancelled>>

\* Another transaction runs, or one was never finished: the call fails with EBADF.
StartRefused(t, op) ==
    /\ Allowed(t, op) /\ op \in Wrapped
    /\ transLock = NoTask /\ status # "ready"
    /\ \E fd \in Descriptors(op) : NotStarted(op, fd)
    /\ calls' = calls + 1
    /\ UNCHANGED <<volume, files, transLock, ctxLock, fatLock, pc, loc, faults, good, cancelled>>

\* A call registered without a transaction.
BareCall(t, op) ==
    /\ Allowed(t, op) /\ op \in Bare
    /\ \E fd \in Descriptors(op) : Enter(t, op, fd)
    /\ calls' = calls + 1
    /\ UNCHANGED <<volume, table, transLock, ctxLock, fatLock, faults, good, cancelled, events>>

\* The call ends; a descriptor is the application's between open and close.  An entry is
\* lost when esp_jrnl_stop fails after vfs_fat_open has filled it.
Return(t, success, seen) ==
    /\ Goto(t, "idle")
    /\ loc' = [loc EXCEPT ![t] = Resting]
    /\ good' = IF success THEN good \cup {<<s, loc[t].id>> : s \in loc[t].mine} ELSE good
    /\ held' = CASE loc[t].op = "open" /\ success -> held \cup {loc[t].fd}
                 [] loc[t].op = "close" -> held \ {loc[t].fd}
                 [] OTHER -> held
    /\ events' = events \cup seen
                   \cup (IF loc[t].op = "open" /\ loc[t].ok /\ ~success THEN {"lost"} ELSE {})
    /\ UNCHANGED <<files, calls>>

\* The operation is over: its transaction is committed if it worked, else cancelled.
Finish(t) ==
    /\ pc[t] = "run" /\ loc[t].todo = <<>>
    /\ IF loc[t].op \in Wrapped
       THEN /\ Goto(t, IF loc[t].ok THEN "stop" ELSE "cancel")
            /\ events' = IF ctxLock = t /\ loc[t].op \in KeepsLock THEN events \cup {"leaked"} ELSE events
            /\ UNCHANGED <<loc, table, calls, good>>
       ELSE Return(t, loc[t].ok, {})
    /\ UNCHANGED <<volume, transLock, ctxLock, fatLock, faults, cancelled>>

-----------------------------------------------------------------------------
(* The steps of an operation *)

Now(t) == Head(loc[t].todo)

RunsNow(t, f) == pc[t] = "run" /\ loc[t].todo # <<>> /\ Now(t).f = f

\* The call goes on after a result, as its program says.
After(t, res) ==
    [loc[t] EXCEPT !.todo = IF res \in Now(t).leave THEN Now(t).else ELSE Tail(loc[t].todo),
                   !.ok = @ /\ res \notin Now(t).bad,
                   !.acc = <<>>, !.res = "ok", !.st = "same", !.wrote = FALSE]

AcquireCtx(t) ==
    /\ RunsNow(t, "lock") /\ ctxLock = NoTask
    /\ ctxLock' = t
    /\ loc' = [loc EXCEPT ![t] = After(t, "ok")]
    /\ UNCHANGED <<volume, table, transLock, fatLock, pc, faults, history>>

ReleaseCtx(t) ==
    /\ RunsNow(t, "unlock")
    /\ ctxLock' = NoTask
    /\ loc' = [loc EXCEPT ![t] = After(t, "ok")]
    /\ UNCHANGED <<volume, table, transLock, fatLock, pc, faults, history>>

\* The first free entry of files[].
get_next_fd(t) ==
    /\ RunsNow(t, "get_next_fd")
    /\ LET free == {i \in Slots : files[i].st = "free"}
       IN loc' = [loc EXCEPT ![t] = IF free = {} THEN After(t, "error")
                                    ELSE [After(t, "ok") EXCEPT !.fd = Min(free)]]
    /\ UNCHANGED <<volume, table, transLock, ctxLock, fatLock, pc, faults, history>>

Reject(t) ==
    /\ RunsNow(t, "reject")
    /\ loc' = [loc EXCEPT ![t] = After(t, "error")]
    /\ UNCHANGED <<volume, table, transLock, ctxLock, fatLock, pc, faults, history>>

\* A FatFS function begins, on the file object of the descriptor or on a local one.
FatEnter(t) ==
    /\ pc[t] = "run" /\ loc[t].todo # <<>>
    /\ Now(t).f \notin {"lock", "unlock", "get_next_fd", "reject"}
    /\ fatLock = NoTask /\ fatLock' = t
    /\ \E b \in FatFs(Now(t).f, IF Now(t).on = "fd" THEN files[loc[t].fd].st ELSE Now(t).on) :
          loc' = [loc EXCEPT ![t].acc = b.acc, ![t].res = b.res, ![t].st = b.st]
    /\ Goto(t, "fat")
    /\ UNCHANGED <<volume, table, transLock, ctxLock, faults, history>>

\* Mutant: file_cleanup only if f_close worked.
FileAfterKeeps(t, old) ==
    IF (Now(t).f = "f_close" /\ loc[t].res = "ok") \/ (Now(t).f = "f_open" /\ loc[t].res # "ok") THEN "free"
    ELSE IF loc[t].st = "same" THEN old ELSE loc[t].st

\* The file object after the function: file_cleanup follows every close and a failed open.
FileAfter(t, old) ==
    IF Now(t).f = "f_close" \/ (Now(t).f = "f_open" /\ loc[t].res # "ok") THEN "free"
    ELSE IF loc[t].st = "same" THEN old ELSE loc[t].st

FatExit(t) ==
    /\ pc[t] = "fat" /\ loc[t].acc = <<>>
    /\ fatLock' = NoTask
    /\ IF Now(t).on # "fd" THEN UNCHANGED files
       ELSE \E append \in (IF Now(t).f = "f_open" /\ loc[t].res = "ok" THEN BOOLEAN
                                                     ELSE {files[loc[t].fd].append}) :
               files' = [files EXCEPT ![loc[t].fd] = [st |-> FileAfter(t, @.st), append |-> append]]
    /\ loc' = [loc EXCEPT ![t] = After(t, loc[t].res)]
    /\ Goto(t, "run")
    /\ UNCHANGED <<volume, held, transLock, ctxLock, faults, history>>

-----------------------------------------------------------------------------
(* Sector accesses of FatFS, and the journal under them *)

Access(t, kinds) == pc[t] = "fat" /\ loc[t].acc # <<>> /\ Head(loc[t].acc).kind \in kinds

Sector(t) == Head(loc[t].acc).s

\* RES_ERROR ends the function; a read or a write may have passed on some bytes before.
Failing(t) ==
    {[loc[t] EXCEPT !.acc = <<>>, !.res = res,
                    !.st = IF Now(t).f \in Aborting THEN "failed" ELSE "same"] :
        res \in IF Now(t).f = "f_read" THEN {"error", "partial"}
                ELSE IF loc[t].wrote THEN {"partial"} ELSE {"error"}}

Fails(t) == \E l \in Failing(t) : loc' = [loc EXCEPT ![t] = l]

\* The sector is in the window.
FatTouch(t) ==
    /\ Access(t, {"read", "modify"}) /\ win.s = Sector(t)
    /\ IF Access(t, {"modify"})
       THEN /\ win' = [win EXCEPT !.c = @ \cup {loc[t].id}, !.dirty = TRUE]
            /\ loc' = [loc EXCEPT ![t].acc = Tail(@), ![t].mine = @ \cup {Sector(t)}]
       ELSE /\ loc' = [loc EXCEPT ![t].acc = Tail(@)]
            /\ UNCHANGED win
    /\ UNCHANGED <<jrnl, disk, table, transLock, ctxLock, fatLock, pc, faults, history>>

\* esp_jrnl_read: the disk, past the log and without trans_lock.
EspJrnlRead(t) ==
    /\ Access(t, {"read", "modify"}) /\ win.s # Sector(t) /\ ~win.dirty
    /\ \/ /\ win' = [s |-> Sector(t), c |-> disk[Sector(t)], dirty |-> FALSE]
          /\ events' = IF disk[Sector(t)] = Image[Sector(t)] THEN events ELSE events \cup {"stale"}
          /\ UNCHANGED <<loc, faults>>
       \/ /\ Fault
          /\ win' = [win EXCEPT !.s = None, !.c = {}]
          /\ Fails(t)
          /\ UNCHANGED events
    /\ UNCHANGED <<jrnl, disk, table, transLock, ctxLock, fatLock, pc, calls, good, cancelled>>

\* A changed window must be written before another sector is read, and on a sync.
MustFlush(t) ==
    /\ win.dirty
    /\ \/ Access(t, {"sync"})
       \/ Access(t, {"read", "modify"}) /\ win.s # Sector(t)

\* Mutant: one record too many passes.
HasSpaceOffByOne == 2 * Len(log) + 2 <= StoreSize - 1

HasSpace == 2 * Len(log) + 2 < StoreSize - 1

\* Mutant: the status is not looked at.
MayWriteAnyStatus == HasSpace

\* The checks of esp_jrnl_write, made before trans_lock is taken.
MayWrite == status = "open" /\ HasSpace

EspJrnlWrite(t) ==
    /\ Access(t, {"put"}) \/ MustFlush(t)
    /\ IF MayWrite THEN Goto(t, "append") /\ UNCHANGED loc
                   ELSE Fails(t) /\ UNCHANGED pc
    /\ UNCHANGED <<volume, table, transLock, ctxLock, fatLock, faults, history>>

\* The record is appended under trans_lock.  A failure before the master record is
\* updated leaves the log alone; one of that update leaves the log longer.
AppendRecord(t) ==
    LET put == Head(loc[t].acc).kind = "put"
        rec == IF put THEN [s |-> Data, c |-> Image[Data] \cup {loc[t].id}]
                      ELSE [s |-> win.s, c |-> win.c]
    IN /\ pc[t] = "append" /\ transLock = NoTask
       /\ \/ /\ log' = Append(log, rec)
             /\ stored' = status
             /\ win' = IF put THEN win ELSE [win EXCEPT !.dirty = FALSE]
             /\ loc' = IF put THEN [loc EXCEPT ![t].acc = Tail(@), ![t].wrote = TRUE,
                                               ![t].mine = @ \cup {Data}]
                              ELSE loc
             /\ UNCHANGED faults
          \/ /\ Fault
             /\ log' \in {log, Append(log, rec)}
             /\ Fails(t)
             /\ UNCHANGED <<stored, win>>
       /\ Goto(t, "fat")
       /\ UNCHANGED <<status, disk, table, transLock, ctxLock, fatLock, history>>

FatSynced(t) ==
    /\ Access(t, {"sync"}) /\ ~win.dirty
    /\ loc' = [loc EXCEPT ![t].acc = Tail(@)]
    /\ UNCHANGED <<volume, table, transLock, ctxLock, fatLock, pc, faults, history>>

-----------------------------------------------------------------------------
(* esp_jrnl_stop *)

\* Mutant: next_free_sector is not reset.
ResetLogKeeps == log

\* The log after jrnl_reset_master.
ResetLog == <<>>

\* Cancel: the log is emptied whatever it holds.
Cancel(t) ==
    /\ pc[t] = "cancel" /\ transLock = NoTask
    /\ log' = ResetLog /\ status' = "ready"
    /\ UpdateMaster("ready")
    /\ cancelled' = cancelled \cup {loc[t].id}
    /\ Return(t, FALSE, IF log = <<>> THEN {} ELSE {"dropped"})
    /\ UNCHANGED <<disk, win, transLock, ctxLock, fatLock>>

\* Commit: the status is looked at before trans_lock is taken.
CommitCheck(t) ==
    /\ pc[t] = "stop"
    /\ IF status = "open" THEN Goto(t, "commit") /\ UNCHANGED <<loc, table, calls, good, events>>
                          ELSE Return(t, FALSE, {})
    /\ UNCHANGED <<volume, transLock, ctxLock, fatLock, faults, cancelled>>

Commit(t) ==
    /\ pc[t] = "commit" /\ transLock = NoTask
    /\ status' = "commit"
    /\ \/ stored' = "commit" /\ Goto(t, "replay") /\ UNCHANGED <<faults, loc, table, calls, good, events>>
       \/ stored' = stored /\ Fault /\ Return(t, FALSE, {})
    /\ UNCHANGED <<log, disk, win, transLock, ctxLock, fatLock, cancelled>>

\* jrnl_replay.  Without memory for the header it returns, and trans_lock stays taken.
ReplayEnter(t) ==
    /\ pc[t] = "replay" /\ transLock = NoTask
    /\ transLock' = t
    /\ \/ /\ Goto(t, "copy")
          /\ loc' = [loc EXCEPT ![t].at = 1]
          /\ UNCHANGED <<faults, table, calls, good, events>>
       \/ /\ Fault
          /\ Return(t, FALSE, {"leaked"})
    /\ UNCHANGED <<volume, ctxLock, fatLock, cancelled>>

\* The target sectors of a record are erased, then written.
ReplayErase(t) ==
    /\ pc[t] = "copy" /\ loc[t].at <= Len(log)
    /\ disk' = [disk EXCEPT ![log[loc[t].at].s] = {}]
    /\ Goto(t, "erased")
    /\ UNCHANGED <<jrnl, win, table, transLock, ctxLock, fatLock, loc, faults, history>>

ReplayWrite(t) ==
    /\ pc[t] = "erased"
    /\ disk' = [disk EXCEPT ![log[loc[t].at].s] = log[loc[t].at].c]
    /\ loc' = [loc EXCEPT ![t].at = @ + 1]
    /\ Goto(t, "copy")
    /\ UNCHANGED <<jrnl, win, table, transLock, ctxLock, fatLock, faults, history>>

\* An error on the way leaves the log as it is and the status at commit.
ReplayFails(t) ==
    /\ pc[t] = "erased" \/ (pc[t] = "copy" /\ loc[t].at <= Len(log))
    /\ Fault
    /\ transLock' = NoTask
    /\ Return(t, FALSE, {})
    /\ UNCHANGED <<volume, ctxLock, fatLock, cancelled>>

\* Mutant: the last record is not transferred.
TransferredAllButLast(t) == loc[t].at >= Len(log)

Transferred(t) == loc[t].at > Len(log)

ReplayDone(t) ==
    /\ pc[t] = "copy" /\ Transferred(t)
    /\ log' = ResetLog /\ status' = "ready"
    /\ transLock' = NoTask
    /\ \/ stored' = "ready" /\ UNCHANGED faults /\ Return(t, TRUE, {})
       \/ stored' = stored /\ Fault /\ Return(t, FALSE, {})
    /\ UNCHANGED <<disk, win, ctxLock, fatLock, cancelled>>

-----------------------------------------------------------------------------

TaskStep(t) ==
    \/ Finish(t) \/ AcquireCtx(t) \/ ReleaseCtx(t) \/ get_next_fd(t) \/ Reject(t)
    \/ FatEnter(t) \/ FatTouch(t) \/ FatSynced(t) \/ FatExit(t)
    \/ EspJrnlRead(t) \/ EspJrnlWrite(t) \/ AppendRecord(t)
    \/ Cancel(t) \/ CommitCheck(t) \/ Commit(t)
    \/ ReplayEnter(t) \/ ReplayErase(t) \/ ReplayWrite(t) \/ ReplayFails(t) \/ ReplayDone(t)

\* Nothing is left to call, a lock is waited for, or the program has stopped.
Rest ==
    /\ (Busy = {} /\ calls = MaxCalls) \/ transLock # NoTask \/ ctxLock # NoTask
         \/ \E t \in Tasks : pc[t] = "stopped"
    /\ UNCHANGED vars

Next ==
    \/ \E t \in Tasks, op \in Ops : EspJrnlStart(t, op) \/ StartRefused(t, op) \/ BareCall(t, op)
    \/ \E t \in Tasks : TaskStep(t)
    \/ Rest

Spec == Init /\ [][Next]_vars

\* A task that is not waiting for a lock is scheduled.
FairSpec == Spec /\ \A t \in Tasks : WF_vars(TaskStep(t))

-----------------------------------------------------------------------------
(* Properties *)

\* The log stays within the store (esp_jrnl.c:739), and the values have their types.
TypeOK ==
    /\ status \in {"ready", "open", "commit"} /\ stored \in {"ready", "open", "commit"}
    /\ \A i \in DOMAIN log : log[i].s \in Sectors /\ log[i].c \in Contents
    /\ 2 * Len(log) < StoreSize - 1
    /\ disk \in [Sectors -> Contents]
    /\ {transLock, ctxLock, fatLock} \subseteq Tasks \cup {NoTask}
    /\ win.s \in Sectors \cup {None} /\ win.c \in Contents /\ win.dirty \in BOOLEAN
    /\ \A i \in Slots : files[i].st \in FileStates /\ files[i].append \in BOOLEAN
    /\ held \subseteq Slots
    /\ \A t \in Tasks : loc[t].res \in Results
    /\ good \subseteq Sectors \X (1 .. MaxCalls) /\ cancelled \subseteq 1 .. MaxCalls
    /\ events \subseteq Events

\* What a call that succeeded has changed stays visible to FatFS, through every later
\* call, its failure and disk errors, unless a cancelled call threw records away or a
\* sector was read past the log.
UpdatesKept == {"dropped", "stale"} \cap events = {} => \A u \in good : u[2] \in View(u[1])

\* Once no call runs, an entry of files[] is in use only if the application has its
\* descriptor, whatever failed inside the calls, unless esp_jrnl_start or
\* esp_jrnl_stop failed around an open or a close.
SlotsOwned ==
    Busy = {} /\ "lost" \notin events
        => {i \in Slots : files[i].st # "free"} \subseteq held

\* The assertion of esp_jrnl_start, that a transaction begins on an empty log, holds.
StartAssertionHolds == \A t \in Tasks : pc[t] # "stopped"

\* No sector is read while the log has a newer version of it.
ReadsCurrent == "stale" \notin events

\* A call that succeeded keeps its effect whatever later calls are cancelled, and
\* nothing a cancelled call did reaches the disk, at once or later.
CallsAllOrNothing ==
    "stale" \notin events =>
        /\ \A u \in good : u[2] \in View(u[1])
        /\ \A s \in Sectors : disk[s] \cap cancelled = {}

\* Tasks calling the file system see the transactions AtomicVolume describes: the
\* sectors change only when one commits, and then all together, whatever the
\* interleaving of its writes, its commit and the transfer with other calls.
AV == INSTANCE AtomicVolume WITH
         Content <- Contents, MaxCount <- 1,
         img <- IF status = "commit" /\ stored = "commit" THEN Image ELSE disk,
         pend <- Image,
         open <- status = "open" \/ (status = "commit" /\ stored # "commit"),
         direct <- FALSE

JournalAtomic == AV!Spec

\* Every call returns, whatever fails under it, unless a lock was kept by one of the
\* returns that forget it.
CallsReturn == \A t \in Tasks : pc[t] # "idle" ~> (pc[t] = "idle" \/ "leaked" \in events)
=============================================================================
