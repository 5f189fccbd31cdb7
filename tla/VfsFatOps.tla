------------------------------ MODULE VfsFatOps ------------------------------
(***************************************************************************)
(* What the file operations of vfs_jrnl_fat.c do to the volume, as data.   *)
(* A FatFS function is the sequence of its sector accesses and a result;   *)
(* a VFS operation is a program: the FatFS functions it calls, where it    *)
(* takes and releases the context lock, and where it goes when one of them *)
(* fails.  VfsJrnlCalls runs these programs.                               *)
(***************************************************************************)
EXTENDS Integers, Sequences

CONSTANT ImmediateFsync    \* CONFIG_FATFS_IMMEDIATE_FSYNC

ASSUME FsyncAssumption == ImmediateFsync \in BOOLEAN

\* One directory sector, one sector of the FAT, and file data.
Dir == 0
Fat == 1
Data == 2
Sectors == {Dir, Fat, Data}

-----------------------------------------------------------------------------
(* FatFS (external).  Directory and FAT sectors go through the one-sector  *)
(* window of the volume: R reads, M modifies, Sync writes it back.  File   *)
(* data is written past the window: Put.                                   *)

R(s) == [kind |-> "read", s |-> s]
M(s) == [kind |-> "modify", s |-> s]
Put == [kind |-> "put", s |-> Data]
Sync == [kind |-> "sync", s |-> Data]

\* res: "ok"; "none", no such entry, entry exists, or end of directory; "full",
\* FR_OK with nothing done for want of space; "error", a disk error; "partial", a
\* disk error after some bytes.  st: what becomes of the file object.
Does(acc, res, st) == [acc |-> acc, res |-> res, st |-> st]
Results == {"ok", "none", "full", "error", "partial"}

\* A path is looked up in the directory, whose clusters may have to be followed.
Found == {Does(a, "ok", "same") : a \in {<<R(Dir)>>, <<R(Dir), R(Fat)>>}}
Missing == {Does(<<R(Dir)>>, "none", "same")}

OpenExisting == {Does(<<R(Dir)>>, "ok", "clean")}
\* A new entry stays in the window: f_open does not write it back.
Create == {Does(<<M(Dir)>>, "ok", "modified")}
OpenTruncating == {Does(<<M(Dir), M(Fat), R(Dir)>>, "ok", "modified")}

Reading == {Does(<<R(Fat)>>, "ok", "same")}
Writing ==
    {Does(a, "ok", "modified") : a \in {<<Put>>, <<M(Fat), Put>>, <<Put, M(Fat), Put>>}}
        \cup {Does(<<R(Fat)>>, "full", "same")}
Seeking ==
    {Does(<<>>, "ok", "same"), Does(<<R(Fat)>>, "ok", "same"), Does(<<M(Fat)>>, "ok", "modified"),
     Does(<<R(Fat)>>, "full", "same")}
\* Only a file with changes has anything to write back.
Syncing(file) ==
    IF file \in {"modified", "failed"} THEN {Does(<<M(Dir), Sync>>, "ok", "clean")}
                         ELSE {Does(<<>>, "ok", "same")}
EntryChange == {Does(<<M(Dir), Sync>>, "ok", "same")} \cup Missing

FileStates == {"free", "clean", "modified", "failed"}

\* Functions that mark the file object failed after a disk error, and refuse it then.
Aborting == {"f_read", "f_write", "f_lseek", "f_truncate"}

\* A file object that is not open, or that has failed, is refused.
Refused(f, file) == (file = "free" /\ f # "f_open") \/ (file = "failed" /\ f \in Aborting)

\* The behaviours of FatFS function f on a file object in state file.
FatFs(f, file) ==
    IF Refused(f, file) THEN {Does(<<>>, "error", "same")} ELSE
    CASE f = "f_open"     -> OpenExisting \cup Create \cup OpenTruncating \cup Missing
      [] f = "f_open_existing" -> OpenExisting \cup Missing
      [] f = "f_create"   -> Create \cup Missing
      [] f = "f_read"     -> Reading
      [] f = "f_write"    -> Writing
      [] f = "f_lseek"    -> Seeking
      [] f \in {"f_sync", "f_close"} -> Syncing(file)
      [] f = "f_truncate" -> {Does(<<M(Fat)>>, "ok", "modified")}
      [] f \in {"f_stat", "f_opendir", "f_readdir"} -> Found \cup Missing
      [] f \in {"f_closedir", "f_rewinddir"} -> {Does(<<>>, "ok", "same")}
      [] f = "f_unlink"   -> {Does(<<M(Dir), M(Fat), Sync>>, "ok", "same")} \cup Missing
      [] f = "f_mkdir"    -> {Does(<<M(Fat), Sync, Put, M(Dir), Sync>>, "ok", "same")} \cup Missing
      [] f \in {"f_rename", "f_utime"} -> EntryChange

-----------------------------------------------------------------------------
(* Programs *)

\* One call: the results that make the operation fail (bad), those on which it goes
\* on with "else" instead of the next call (leave), and the file object used: that of
\* the descriptor, or a local one in the given state.
Step(f, on, bad, leave, else) == [f |-> f, on |-> on, bad |-> bad, leave |-> leave, else |-> else]

Failed == {"error", "none"}
Incomplete == {"error", "none", "partial", "full"}

Must(f, on, else) == Step(f, on, Failed, Failed, else)
All(f, on, else) == Step(f, on, Incomplete, Incomplete, else)
Note(f, on) == Step(f, on, Failed, {}, <<>>)
Quiet(f, on) == Step(f, on, {}, {}, <<>>)

Lock == <<Quiet("lock", "fd")>>
Unlock == <<Quiet("unlock", "fd")>>

\* An argument is refused, or memory for a local object is missing.
Rejected == <<Must("reject", "fd", <<>>)>>
RejectedLocked == Lock \o <<Must("reject", "fd", Unlock)>>

\* Operations that are one FatFS call under the lock.
Locked(f) == Lock \o <<Must(f, "clean", Unlock)>> \o Unlock

Fsync(step) == IF ImmediateFsync THEN <<step>> ELSE <<>>

vfs_fat_open == {Lock \o <<Must("get_next_fd", "fd", Unlock), Must("f_open", "fd", Unlock)>> \o Unlock}

\* Mutant: the lock is kept when nothing could be written.
vfs_fat_write_leaks(append) ==
    {Lock \o (IF append THEN <<Must("f_lseek", "fd", Unlock)>> ELSE <<>>)
          \o <<Step("f_write", "fd", {"full", "error"}, {"full", "error"}, <<>>)>>
          \o Fsync(Must("f_sync", "fd", Unlock)) \o Unlock}

\* A write that failed after some bytes counts as a short write.
vfs_fat_write(append) ==
    {Lock \o (IF append THEN <<Must("f_lseek", "fd", Unlock)>> ELSE <<>>)
          \o <<Step("f_write", "fd", {"full", "error"}, {"full", "error"}, Unlock)>>
          \o Fsync(Must("f_sync", "fd", Unlock)) \o Unlock}

\* A read that failed after some bytes counts as a short read.
vfs_fat_read == {<<Must("f_read", "fd", <<>>)>>}

\* The position is restored whether or not the read worked.
vfs_fat_pread ==
    {Lock \o <<Must("f_lseek", "fd", Unlock),
               Step("f_read", "fd", Incomplete, {}, <<>>),
               Note("f_lseek", "fd")>> \o Unlock}

\* ENOSPC returns without releasing the lock.
vfs_fat_pwrite ==
    {Lock \o <<Must("f_lseek", "fd", Unlock),
               Step("f_write", "fd", Incomplete, {"full"}, <<>>),
               Note("f_lseek", "fd")>>
          \o Fsync(Note("f_sync", "fd")) \o Unlock}

vfs_fat_fsync == {<<Must("f_sync", "fd", <<>>)>>}

vfs_fat_close == {Lock \o <<Note("f_close", "fd")>> \o Unlock}

vfs_fat_lseek == {Rejected, <<Must("f_lseek", "fd", <<>>)>>}

vfs_fat_fstat == {<<>>}

\* The root directory and a name just seen by readdir need no FatFS.
vfs_fat_stat == {<<>>, Locked("f_stat")}

vfs_fat_unlink == {Locked("f_unlink")}

\* Copies a file: results of closing are not looked at.
vfs_fat_link ==
    LET CloseOld == <<Quiet("f_close", "clean")>> \o Unlock
        CloseBoth == <<Quiet("f_close", "modified")>> \o CloseOld
        Open == Lock \o <<Must("f_open_existing", "clean", Unlock), Must("f_create", "clean", CloseOld)>>
    IN {RejectedLocked,
        Open \o CloseBoth,
        Open \o <<All("f_read", "clean", CloseBoth), All("f_write", "modified", CloseBoth)>> \o CloseBoth}

vfs_fat_rename == {Locked("f_rename")}

vfs_fat_opendir == {RejectedLocked, Locked("f_opendir")}

vfs_fat_closedir == {<<Must("f_closedir", "clean", <<>>)>>}

\* The end of the directory is a null result, which the wrapper takes for a failure.
vfs_fat_readdir == {<<Must("f_readdir", "clean", <<>>)>>}

vfs_fat_readdir_r == {<<Step("f_readdir", "clean", {"error"}, {}, <<>>)>>}

vfs_fat_telldir == {<<>>}

\* Both error returns keep the lock.  The result is void.
vfs_fat_seekdir ==
    LET Read == <<Step("f_readdir", "clean", {}, {"error"}, <<>>)>>
    IN {Lock \o Unlock,
        Lock \o Read \o Unlock,
        Lock \o <<Step("f_rewinddir", "clean", {}, {"error"}, <<>>)>> \o Read \o Unlock}

vfs_fat_mkdir == {Locked("f_mkdir")}

vfs_fat_rmdir == {Locked("f_unlink")}

vfs_fat_access == {Locked("f_stat")}

\* Zeros are written in pieces, all of which must be written.
f_write_zero_mem(on, else) == <<All("f_write", on, else)>>

\* The new end of the file is tried first; then the file is cut there, or its old end
\* is taken up again and the gap filled.
Resize(on, else) ==
    {<<All("f_lseek", on, else), Must("f_truncate", on, else)>>,
     <<All("f_lseek", on, else), Must("f_lseek", on, else)>>
        \o f_write_zero_mem(on, else) \o <<Must("f_lseek", on, else)>>}

vfs_fat_truncate ==
    LET Close == Unlock \o <<Note("f_close", "modified")>>
    IN {Rejected, RejectedLocked}
         \cup {Lock \o <<Must("f_open_existing", "clean", Unlock)>> \o r
                    \o Fsync(Note("f_sync", "modified")) \o Close : r \in Resize("modified", Close)}

vfs_fat_ftruncate ==
    {Rejected} \cup {Lock \o r \o Fsync(Note("f_sync", "fd")) \o Unlock : r \in Resize("fd", Unlock)}

vfs_fat_utime == {Rejected, Locked("f_utime")}

-----------------------------------------------------------------------------
(* The table of operations (vfs_fat_get_default_api) *)

\* Operations enclosed in a transaction.
FileWrappers == {"open", "write", "read", "pread", "pwrite", "fsync", "close", "lseek"}
DirWrappers == {"unlink", "link", "rename", "readdir", "seekdir", "mkdir", "rmdir", "truncate",
                "ftruncate", "utime"}
Wrapped == FileWrappers \cup DirWrappers

\* Operations registered without one.
Bare == {"fstat", "stat", "opendir", "closedir", "readdir_r", "telldir", "access"}

\* Operations on a descriptor.
OnDescriptor == {"write", "read", "pread", "pwrite", "fsync", "close", "lseek", "ftruncate", "fstat"}

Programs(op, append) ==
    CASE op = "open"      -> vfs_fat_open
      [] op = "write"     -> vfs_fat_write(append)
      [] op = "read"      -> vfs_fat_read
      [] op = "pread"     -> vfs_fat_pread
      [] op = "pwrite"    -> vfs_fat_pwrite
      [] op = "fsync"     -> vfs_fat_fsync
      [] op = "close"     -> vfs_fat_close
      [] op = "lseek"     -> vfs_fat_lseek
      [] op = "fstat"     -> vfs_fat_fstat
      [] op = "stat"      -> vfs_fat_stat
      [] op = "unlink"    -> vfs_fat_unlink
      [] op = "link"      -> vfs_fat_link
      [] op = "rename"    -> vfs_fat_rename
      [] op = "opendir"   -> vfs_fat_opendir
      [] op = "closedir"  -> vfs_fat_closedir
      [] op = "readdir"   -> vfs_fat_readdir
      [] op = "readdir_r" -> vfs_fat_readdir_r
      [] op = "telldir"   -> vfs_fat_telldir
      [] op = "seekdir"   -> vfs_fat_seekdir
      [] op = "mkdir"     -> vfs_fat_mkdir
      [] op = "rmdir"     -> vfs_fat_rmdir
      [] op = "access"    -> vfs_fat_access
      [] op = "truncate"  -> vfs_fat_truncate
      [] op = "ftruncate" -> vfs_fat_ftruncate
      [] op = "utime"     -> vfs_fat_utime

\* Operations with a return that keeps the context lock.
KeepsLock == {"pwrite", "seekdir"}
=============================================================================
