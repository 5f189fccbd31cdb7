--------------------------- MODULE VfsJrnlCallsInv ---------------------------
(***************************************************************************)
(* The inductive invariant of VfsJrnlCalls for any number of tasks, calls  *)
(* and faults, provided that the operations run beside a transaction never *)
(* reach the disk (DiskAlone).  It says what a call may still have to do,  *)
(* that one call at a time reaches the disk, who owns the entries of       *)
(* files[], and how window, log and disk are related.                      *)
(***************************************************************************)
EXTENDS VfsJrnlCalls

\* Operations without a transaction that never reach the disk.
NoDisk == {"fstat", "closedir", "telldir"}

DiskAlone == Beside \subseteq NoDisk

-----------------------------------------------------------------------------
(* What programs are made of *)

Controls == {"lock", "unlock", "reject"}
FatFunctions ==
    {"f_open", "f_open_existing", "f_create", "f_read", "f_write", "f_lseek", "f_sync", "f_close",
     "f_truncate", "f_stat", "f_opendir", "f_readdir", "f_closedir", "f_rewinddir", "f_unlink",
     "f_mkdir", "f_rename", "f_utime"}

\* Steps on the file objects of O: the ones that never leave the program, and all.
Plain(O) ==
    [f : FatFunctions, on : O, bad : SUBSET Results, leave : {{}}, else : {<<>>}]
        \cup [f : Controls, on : {"fd"}, bad : SUBSET Results, leave : {{}}, else : {<<>>}]
Steps(O) ==
    [f : FatFunctions, on : O, bad : SUBSET Results, leave : SUBSET Results, else : Seq(Plain(O))]
        \cup [f : Controls, on : {"fd"}, bad : SUBSET Results, leave : SUBSET Results, else : Seq(Plain(O))]

\* The file objects an operation works on.
LocalObjects == {"clean", "modified"}
AllObjects == LocalObjects \cup {"fd"}
Objects(op) == IF op \in OnDescriptor THEN AllObjects ELSE LocalObjects

\* Only an open looks for an entry.
AllSteps == Steps(AllObjects) \cup {Must("get_next_fd", "fd", Unlock)}

\* The window holds directory and FAT sectors only.
Accesses == [kind : {"read", "modify"}, s : {Dir, Fat}] \cup {Put, Sync}

Places == {"idle", "run", "fat", "append", "stop", "cancel", "commit", "replay", "copy", "erased"}

Locals ==
    [op : Wrapped \cup Bare \cup {"none"}, id : 0 .. MaxCalls, fd : Slots \cup {None},
     todo : Seq(AllSteps), ok : BOOLEAN, mine : SUBSET Sectors,
     acc : Seq(Accesses), res : Results, st : FileStates \cup {"same"}, wrote : BOOLEAN, at : Nat]

\* What is left of vfs_fat_open and of vfs_fat_close.
OpenFile == <<Must("f_open", "fd", Unlock), Quiet("unlock", "fd")>>
OpenSlot == <<Must("get_next_fd", "fd", Unlock), Must("f_open", "fd", Unlock), Quiet("unlock", "fd")>>
OpenLock == <<Quiet("lock", "fd"), Must("get_next_fd", "fd", Unlock), Must("f_open", "fd", Unlock),
              Quiet("unlock", "fd")>>
CloseFile == <<Note("f_close", "fd"), Quiet("unlock", "fd")>>
CloseLock == <<Quiet("lock", "fd"), Note("f_close", "fd"), Quiet("unlock", "fd")>>
CloseDir == <<Must("f_closedir", "clean", <<>>)>>

-----------------------------------------------------------------------------

\* The values, sequences and history included.
ValueInv ==
    /\ status \in {"ready", "open", "commit"} /\ stored \in {"ready", "open", "commit"}
    /\ log \in Seq([s : Sectors, c : Contents])
    /\ 2 * Len(log) < StoreSize - 1
    /\ disk \in [Sectors -> Contents]
    /\ {transLock, ctxLock, fatLock} \subseteq Tasks \cup {NoTask}
    /\ win \in [s : {Dir, Fat, None}, c : Contents, dirty : BOOLEAN]
    /\ files \in [Slots -> [st : FileStates, append : BOOLEAN]]
    /\ held \subseteq Slots
    /\ calls \in 0 .. MaxCalls /\ faults \in Nat
    /\ good \subseteq Sectors \X (1 .. MaxCalls) /\ cancelled \subseteq 1 .. MaxCalls
    /\ events \subseteq Events
    /\ pc \in [Tasks -> Places]
    /\ loc \in [Tasks -> Locals]

\* The operation of a call ended well (Ended), badly (cancel) or goes on.
Ended == {"stop", "commit", "replay", "copy", "erased"}
Transferring == {"replay", "copy", "erased"}

\* An open has an entry once it has passed get_next_fd.
OpenAt(l) ==
    /\ l.todo \in {OpenLock, OpenSlot, OpenFile, Unlock, <<>>}
    /\ l.todo \in {OpenLock, OpenSlot, OpenFile} => l.ok
    /\ l.todo \in {OpenLock, OpenSlot} => l.fd = None
    /\ l.todo \in {OpenFile, Unlock, <<>>} /\ l.ok => l.fd \in Slots

\* What call l, at place p, has yet to do.
CallAt(p, l) ==
    /\ l.op \in Wrapped \cup Bare /\ l.id \in 1 .. MaxCalls
    /\ l.op # "open" => l.todo \in Seq(Steps(Objects(l.op)))
    /\ l.op \in OnDescriptor => l.fd \in Slots
    /\ l.op \in NoDisk => l.acc = <<>> /\ l.todo \in {<<>>, CloseDir}
    /\ l.op = "open" => OpenAt(l)
    /\ l.op = "close" => l.todo \in {CloseLock, CloseFile, Unlock, <<>>}
    /\ l.op \notin Wrapped => p \in {"run", "fat", "append"}
    /\ p \in {"fat", "append"} =>
          /\ l.todo # <<>> /\ Head(l.todo).f \in FatFunctions
          /\ Head(l.todo).on = "fd" => l.fd \in Slots
    /\ p = "append" => l.acc # <<>>
    /\ p \in Ended => l.ok /\ l.todo = <<>>
    /\ p = "cancel" => ~l.ok /\ l.todo = <<>>

CallInv == \A t \in Tasks : pc[t] # "idle" => CallAt(pc[t], loc[t])

\* A call that may reach the disk.
Active(t) == pc[t] # "idle" /\ loc[t].op \notin NoDisk

\* There is one at most ...
Alone == \A t, u \in Tasks : Active(t) /\ Active(u) => t = u

\* ... and the status of the journal says how far it is.
StatusInv ==
    /\ status = "ready" => log = <<>>
    /\ \A t \in Tasks :
          /\ pc[t] # "idle" /\ loc[t].op \in Wrapped =>
                IF pc[t] \in Transferring THEN status = "commit" /\ stored = "commit" ELSE status = "open"
          /\ pc[t] = "append" =>
                /\ status = "open" /\ HasSpace
                /\ Head(loc[t].acc).kind = "put" \/ win.dirty

\* The open call of t has an entry, i.
Opens(t, i) == pc[t] # "idle" /\ loc[t].op = "open" /\ loc[t].fd = i /\ loc[t].ok

\* Every entry in use is the application's or that of an open under way; a close that
\* has passed f_close has freed its own.
SlotInv ==
    /\ \A t \in Tasks :
          pc[t] # "idle" /\ loc[t].op = "close" /\ loc[t].todo \in {Unlock, <<>>} => files[loc[t].fd].st = "free"
    /\ "lost" \notin events =>
          /\ \A t \in Tasks : pc[t] # "idle" /\ loc[t].op \in OnDescriptor \ NoDisk => loc[t].fd \in held
          /\ \A i \in Slots : files[i].st # "free" => i \in held \/ \E t \in Tasks : Opens(t, i)

\* Nothing was dropped and nothing stale was read.
Kept == {"dropped", "stale"} \cap events = {}

\* The window and the log agree, and FatFS sees what calls have done so far.
ViewInv ==
    /\ win.dirty => win.s # None
    /\ Kept /\ ~win.dirty /\ win.s # None => win.c = Image[win.s]
    /\ Kept => \A t \in Tasks : pc[t] # "idle" => \A s \in loc[t].mine : loc[t].id \in View(s)
    /\ UpdatesKept

\* Sectors whose records are all behind the transfer have their final content.
ReplayInv ==
    \A t \in Tasks :
        pc[t] \in {"copy", "erased"} =>
            /\ loc[t].at \in 1 .. (Len(log) + 1)
            /\ pc[t] = "erased" => loc[t].at <= Len(log)
            /\ \A s \in Sectors : (\A i \in DOMAIN log : log[i].s = s => i < loc[t].at) => disk[s] = Image[s]

\* The conjunction every step preserves.
IndInv == ValueInv /\ CallInv /\ Alone /\ StatusInv /\ SlotInv /\ ViewInv /\ ReplayInv
=============================================================================
