------------------------- MODULE VfsJrnlCallsProofs -------------------------
(***************************************************************************)
(* TLAPS proofs about VfsJrnlCalls for any number of tasks, calls, faults  *)
(* and entries of files[] and any store, under the hypothesis DiskAlone of *)
(* VfsJrnlCallsInv.                                                        *)
(***************************************************************************)
EXTENDS VfsJrnlCallsInv, MinMaxLemmas, SequenceTheorems

-----------------------------------------------------------------------------
(* Programs are sequences of well-formed steps *)

LEMMA StepForms ==
    ASSUME NEW O, NEW f \in FatFunctions, NEW on \in O, NEW else \in Seq(Plain(O)),
           NEW bad \in SUBSET Results, NEW leave \in SUBSET Results
    PROVE  /\ Step(f, on, bad, leave, else) \in Steps(O)
           /\ Must(f, on, else) \in Steps(O) /\ All(f, on, else) \in Steps(O)
           /\ Note(f, on) \in Plain(O) /\ Quiet(f, on) \in Plain(O)
<1>1. Failed \subseteq Results /\ Incomplete \subseteq Results /\ {} \subseteq Results
  BY DEF Failed, Incomplete, Results
<1>2. \A b, l \in SUBSET Results : [f |-> f, on |-> on, bad |-> b, leave |-> l, else |-> else] \in Steps(O)
  BY DEF Steps
<1>3. \A b \in SUBSET Results : [f |-> f, on |-> on, bad |-> b, leave |-> {}, else |-> <<>>] \in Plain(O)
  BY DEF Plain
<1> QED
  BY <1>1, <1>2, <1>3 DEF Must, All, Note, Quiet, Step

LEMMA ControlForms ==
    ASSUME NEW O, NEW f \in Controls, NEW else \in Seq(Plain(O))
    PROVE  /\ Must(f, "fd", else) \in Steps(O) /\ Quiet(f, "fd") \in Plain(O)
<1>1. Failed \subseteq Results /\ {} \subseteq Results
  BY DEF Failed, Results
<1>2. [f |-> f, on |-> "fd", bad |-> Failed, leave |-> Failed, else |-> else] \in Steps(O)
  BY <1>1 DEF Steps
<1>3. [f |-> f, on |-> "fd", bad |-> {}, leave |-> {}, else |-> <<>>] \in Plain(O)
  BY <1>1 DEF Plain
<1> QED
  BY <1>2, <1>3 DEF Must, Quiet, Step

LEMMA SeqForms ==
    ASSUME NEW O
    PROVE  /\ <<>> \in Seq(Plain(O)) /\ Lock \in Seq(Plain(O)) /\ Unlock \in Seq(Plain(O))
           /\ Plain(O) \subseteq Steps(O)
           /\ \A s \in Seq(Plain(O)) : s \in Seq(Steps(O))
           /\ \A S, s, t : s \in Seq(S) /\ t \in Seq(S) => s \o t \in Seq(S)
           /\ \A S, x : x \in S => <<x>> \in Seq(S)
           /\ \A S, x, y : x \in S /\ y \in S => <<x, y>> \in Seq(S)
           /\ \A S, x, y, z : x \in S /\ y \in S /\ z \in S => <<x, y, z>> \in Seq(S)
<1>1. <<>> \in Seq(Plain(O))
  OBVIOUS
<1>2. "lock" \in Controls /\ "unlock" \in Controls
  BY DEF Controls
<1>3. Quiet("lock", "fd") \in Plain(O) /\ Quiet("unlock", "fd") \in Plain(O)
  BY <1>1, <1>2, ControlForms
<1>4. Plain(O) \subseteq Steps(O)
  <2>1. {} \in SUBSET Results
    OBVIOUS
  <2> QED
    BY <1>1, <2>1 DEF Plain, Steps
<1>5. \A s \in Seq(Plain(O)) : s \in Seq(Steps(O))
  BY <1>4
<1>6. \A S, s, t : s \in Seq(S) /\ t \in Seq(S) => s \o t \in Seq(S)
  OBVIOUS
<1>7. /\ \A S, x : x \in S => <<x>> \in Seq(S)
      /\ \A S, x, y : x \in S /\ y \in S => <<x, y>> \in Seq(S)
      /\ \A S, x, y, z : x \in S /\ y \in S /\ z \in S => <<x, y, z>> \in Seq(S)
  OBVIOUS
<1> QED
  BY <1>1, <1>3, <1>4, <1>5, <1>6, <1>7 DEF Lock, Unlock

\* Programs on local file objects only.
LEMMA LocalPrograms ==
    ASSUME NEW op \in (Wrapped \cup Bare) \ (OnDescriptor \cup {"open"}), NEW append
    PROVE  Programs(op, append) \subseteq Seq(Steps(LocalObjects))
<1> DEFINE O == LocalObjects
           S == Steps(O)
<1> USE SeqForms, ControlForms, StepForms
<1>1. "clean" \in O /\ "modified" \in O /\ "reject" \in Controls
  BY DEF LocalObjects, Controls
<1>2. /\ Lock \in Seq(S) /\ Unlock \in Seq(S) /\ <<>> \in Seq(S)
      /\ Unlock \in Seq(Plain(O)) /\ <<>> \in Seq(Plain(O))
  OBVIOUS
<1> HIDE DEF O
<1>3. Rejected \in Seq(S) /\ RejectedLocked \in Seq(S)
  <2>1. Must("reject", "fd", <<>>) \in S /\ Must("reject", "fd", Unlock) \in S
    BY <1>1, <1>2
  <2> HIDE DEF S
  <2> QED
    BY <2>1, <1>2 DEF Rejected, RejectedLocked
<1>4. \A f \in FatFunctions : Locked(f) \in Seq(S)
  <2> SUFFICES ASSUME NEW f \in FatFunctions PROVE Locked(f) \in Seq(S)
    OBVIOUS
  <2>1. Must(f, "clean", Unlock) \in S
    BY <1>1, <1>2
  <2> HIDE DEF S
  <2> QED
    BY <2>1, <1>2 DEF Locked
<1>5. /\ "f_stat" \in FatFunctions /\ "f_unlink" \in FatFunctions /\ "f_rename" \in FatFunctions
      /\ "f_opendir" \in FatFunctions /\ "f_mkdir" \in FatFunctions /\ "f_utime" \in FatFunctions
      /\ "f_open_existing" \in FatFunctions /\ "f_create" \in FatFunctions /\ "f_read" \in FatFunctions
      /\ "f_write" \in FatFunctions /\ "f_close" \in FatFunctions /\ "f_closedir" \in FatFunctions
      /\ "f_readdir" \in FatFunctions /\ "f_rewinddir" \in FatFunctions /\ "f_lseek" \in FatFunctions
      /\ "f_truncate" \in FatFunctions /\ "f_sync" \in FatFunctions
  BY DEF FatFunctions
<1>6. CASE op \in {"stat", "unlink", "rename", "opendir", "telldir", "mkdir", "rmdir", "access", "utime"}
  <2> HIDE DEF S
  <2>1. /\ vfs_fat_stat \subseteq Seq(S) /\ vfs_fat_unlink \subseteq Seq(S) /\ vfs_fat_rename \subseteq Seq(S)
        /\ vfs_fat_opendir \subseteq Seq(S) /\ vfs_fat_telldir \subseteq Seq(S) /\ vfs_fat_mkdir \subseteq Seq(S)
        /\ vfs_fat_rmdir \subseteq Seq(S) /\ vfs_fat_access \subseteq Seq(S) /\ vfs_fat_utime \subseteq Seq(S)
    BY <1>2, <1>3, <1>4, <1>5
       DEF vfs_fat_stat, vfs_fat_unlink, vfs_fat_rename, vfs_fat_opendir, vfs_fat_telldir, vfs_fat_mkdir,
           vfs_fat_rmdir, vfs_fat_access, vfs_fat_utime
  <2> QED
    BY <1>6, <2>1 DEF Programs, S, O
<1>7. CASE op \in {"closedir", "readdir", "readdir_r", "seekdir"}
  <2>1. {} \in SUBSET Results /\ {"error"} \in SUBSET Results
    BY DEF Results
  <2>2. /\ Must("f_closedir", "clean", <<>>) \in S /\ Must("f_readdir", "clean", <<>>) \in S
        /\ Step("f_readdir", "clean", {"error"}, {}, <<>>) \in S
        /\ Step("f_readdir", "clean", {}, {"error"}, <<>>) \in S
        /\ Step("f_rewinddir", "clean", {}, {"error"}, <<>>) \in S
    BY <1>1, <1>2, <1>5, <2>1
  <2> HIDE DEF S
  <2>3. vfs_fat_closedir \subseteq Seq(S) /\ vfs_fat_readdir \subseteq Seq(S) /\ vfs_fat_readdir_r \subseteq Seq(S)
    BY <2>2 DEF vfs_fat_closedir, vfs_fat_readdir, vfs_fat_readdir_r
  <2>4. vfs_fat_seekdir \subseteq Seq(S)
    BY <2>2, <1>2 DEF vfs_fat_seekdir
  <2> QED
    BY <1>7, <2>3, <2>4 DEF Programs, S, O
<1>8. CASE op = "link"
  <2> DEFINE CloseOld == <<Quiet("f_close", "clean")>> \o Unlock
             CloseBoth == <<Quiet("f_close", "modified")>> \o CloseOld
             Open == Lock \o <<Must("f_open_existing", "clean", Unlock), Must("f_create", "clean", CloseOld)>>
             Copy == <<All("f_read", "clean", CloseBoth), All("f_write", "modified", CloseBoth)>>
  <2>1. Quiet("f_close", "clean") \in Plain(O) /\ Quiet("f_close", "modified") \in Plain(O)
    BY <1>1, <1>2, <1>5
  <2>2. CloseOld \in Seq(Plain(O)) /\ CloseBoth \in Seq(Plain(O))
    BY <2>1, <1>2
  <2> HIDE DEF CloseOld, CloseBoth
  <2>3. /\ Must("f_open_existing", "clean", Unlock) \in S /\ Must("f_create", "clean", CloseOld) \in S
        /\ All("f_read", "clean", CloseBoth) \in S /\ All("f_write", "modified", CloseBoth) \in S
    BY <2>2, <1>1, <1>2, <1>5
  <2>4. CloseBoth \in Seq(S)
    BY <2>2
  <2> HIDE DEF S
  <2>5. Open \in Seq(S) /\ Copy \in Seq(S)
    BY <2>3, <1>2
  <2> HIDE DEF Open, Copy
  <2>6. Open \o CloseBoth \in Seq(S) /\ Open \o Copy \o CloseBoth \in Seq(S)
    BY <2>4, <2>5
  <2>7. vfs_fat_link = {RejectedLocked, Open \o CloseBoth, Open \o Copy \o CloseBoth}
    BY DEF vfs_fat_link, Open, Copy, CloseBoth, CloseOld
  <2> QED
    BY <1>8, <1>3, <2>6, <2>7 DEF Programs, S, O
<1>9. CASE op = "truncate"
  <2> DEFINE Close == Unlock \o <<Note("f_close", "modified")>>
  <2>1. Note("f_close", "modified") \in Plain(O) /\ Note("f_sync", "modified") \in Plain(O)
    BY <1>1, <1>2, <1>5
  <2>2. Close \in Seq(Plain(O))
    BY <2>1, <1>2
  <2> HIDE DEF Close
  <2>3. /\ Must("f_open_existing", "clean", Unlock) \in S
        /\ All("f_lseek", "modified", Close) \in S /\ Must("f_lseek", "modified", Close) \in S
        /\ All("f_write", "modified", Close) \in S /\ Must("f_truncate", "modified", Close) \in S
    BY <2>2, <1>1, <1>2, <1>5
  <2>4. Close \in Seq(S) /\ Note("f_sync", "modified") \in S
    BY <2>1, <2>2
  <2> HIDE DEF S
  <2>5. Fsync(Note("f_sync", "modified")) \in Seq(S)
    BY <2>4, <1>2 DEF Fsync
  <2>6. Resize("modified", Close) \subseteq Seq(S)
    BY <2>3 DEF Resize, f_write_zero_mem
  <2>7. Lock \o <<Must("f_open_existing", "clean", Unlock)>> \in Seq(S)
    BY <2>3, <1>2
  <2>8. \A r \in Resize("modified", Close) :
           Lock \o <<Must("f_open_existing", "clean", Unlock)>> \o r \o Fsync(Note("f_sync", "modified")) \o Close
              \in Seq(S)
    BY <2>4, <2>5, <2>6, <2>7
  <2>9. vfs_fat_truncate \subseteq Seq(S)
    BY <1>3, <2>8 DEF vfs_fat_truncate, Close
  <2> QED
    BY <1>9, <2>9 DEF Programs, S, O
<1>10. op \in {"stat", "unlink", "rename", "opendir", "telldir", "mkdir", "rmdir", "access", "utime"}
          \cup {"closedir", "readdir", "readdir_r", "seekdir", "link", "truncate"}
  BY DEF Wrapped, Bare, FileWrappers, DirWrappers, OnDescriptor
<1> QED
  BY <1>6, <1>7, <1>8, <1>9, <1>10

\* Programs on the file of a descriptor.
LEMMA DescriptorPrograms ==
    ASSUME NEW op \in OnDescriptor, NEW append \in BOOLEAN
    PROVE  Programs(op, append) \subseteq Seq(Steps(AllObjects))
<1> DEFINE O == AllObjects
           S == Steps(O)
<1> USE SeqForms, ControlForms, StepForms
<1>1. "fd" \in O /\ "reject" \in Controls
  BY DEF Controls, AllObjects
<1>2. /\ Lock \in Seq(S) /\ Unlock \in Seq(S) /\ <<>> \in Seq(S)
      /\ Unlock \in Seq(Plain(O)) /\ <<>> \in Seq(Plain(O))
  OBVIOUS
<1> HIDE DEF O
<1>3. /\ "f_close" \in FatFunctions /\ "f_read" \in FatFunctions
      /\ "f_write" \in FatFunctions /\ "f_lseek" \in FatFunctions /\ "f_sync" \in FatFunctions
      /\ "f_truncate" \in FatFunctions
  BY DEF FatFunctions
<1>4. /\ Incomplete \in SUBSET Results /\ {} \in SUBSET Results
      /\ {"full"} \in SUBSET Results /\ {"full", "error"} \in SUBSET Results
  BY DEF Results, Incomplete
<1>5. /\ Must("reject", "fd", <<>>) \in S /\ Must("f_read", "fd", <<>>) \in S
      /\ Must("f_sync", "fd", <<>>) \in S /\ Must("f_sync", "fd", Unlock) \in S
      /\ Must("f_lseek", "fd", <<>>) \in S /\ Must("f_lseek", "fd", Unlock) \in S
      /\ Must("f_truncate", "fd", Unlock) \in S
  BY <1>1, <1>2, <1>3
<1>6. /\ All("f_lseek", "fd", Unlock) \in S /\ All("f_write", "fd", Unlock) \in S
      /\ Step("f_write", "fd", {"full", "error"}, {"full", "error"}, Unlock) \in S
      /\ Step("f_read", "fd", Incomplete, {}, <<>>) \in S
      /\ Step("f_write", "fd", Incomplete, {"full"}, <<>>) \in S
  BY <1>1, <1>2, <1>3, <1>4
<1>7. Note("f_lseek", "fd") \in S /\ Note("f_sync", "fd") \in S /\ Note("f_close", "fd") \in S
  BY <1>1, <1>2, <1>3
<1> HIDE DEF S
<1>8. Fsync(Must("f_sync", "fd", Unlock)) \in Seq(S) /\ Fsync(Note("f_sync", "fd")) \in Seq(S)
  BY <1>2, <1>5, <1>7 DEF Fsync
<1>9. Rejected \in Seq(S)
  BY <1>5 DEF Rejected
<1>10. vfs_fat_close \subseteq Seq(S) /\ vfs_fat_lseek \subseteq Seq(S)
  BY <1>2, <1>5, <1>7, <1>9 DEF vfs_fat_close, vfs_fat_lseek
<1>11. vfs_fat_read \subseteq Seq(S) /\ vfs_fat_fsync \subseteq Seq(S) /\ vfs_fat_fstat \subseteq Seq(S)
  BY <1>2, <1>5 DEF vfs_fat_read, vfs_fat_fsync, vfs_fat_fstat
<1>12. vfs_fat_write(append) \subseteq Seq(S)
  BY <1>2, <1>5, <1>6, <1>8 DEF vfs_fat_write
<1>13. vfs_fat_pread \subseteq Seq(S)
  BY <1>2, <1>5, <1>6, <1>7 DEF vfs_fat_pread
<1>14. vfs_fat_pwrite \subseteq Seq(S)
  BY <1>2, <1>5, <1>6, <1>7, <1>8 DEF vfs_fat_pwrite
<1>15. vfs_fat_ftruncate \subseteq Seq(S)
  <2>1. Resize("fd", Unlock) \subseteq Seq(S)
    BY <1>5, <1>6 DEF Resize, f_write_zero_mem
  <2>2. \A r \in Resize("fd", Unlock) : Lock \o r \o Fsync(Note("f_sync", "fd")) \o Unlock \in Seq(S)
    BY <2>1, <1>2, <1>8
  <2> QED
    BY <2>2, <1>9 DEF vfs_fat_ftruncate
<1> QED
  BY <1>10, <1>11, <1>12, <1>13, <1>14, <1>15 DEF Programs, OnDescriptor, S, O

LEMMA ProgramSteps ==
    ASSUME NEW op \in (Wrapped \cup Bare) \ {"open"}, NEW append \in BOOLEAN
    PROVE  Programs(op, append) \subseteq Seq(Steps(Objects(op)))
BY LocalPrograms, DescriptorPrograms DEF Objects

\* What is known of the step at hand, and of what is left after it.
LEMMA StepFields ==
    ASSUME NEW O, NEW todo \in Seq(Steps(O)), todo # <<>>
    PROVE  /\ Head(todo).f \in FatFunctions \cup Controls
           /\ Head(todo).f \in FatFunctions => Head(todo).on \in O
           /\ Head(todo).else \in Seq(Steps(O)) /\ Tail(todo) \in Seq(Steps(O))
<1>1. Head(todo) \in Steps(O) /\ Tail(todo) \in Seq(Steps(O))
  OBVIOUS
<1>2. Head(todo).else \in Seq(Plain(O))
  BY <1>1 DEF Steps
<1>3. Head(todo).else \in Seq(Steps(O))
  BY <1>2, SeqForms
<1>4. FatFunctions \cap Controls = {}
  BY DEF FatFunctions, Controls
<1> QED
  BY <1>1, <1>3, <1>4 DEF Steps

LEMMA SeqSubset ==
    ASSUME NEW S, NEW T, S \subseteq T, NEW s \in Seq(S)
    PROVE  s \in Seq(T)
OBVIOUS

LEMMA StepsOfAll ==
    ASSUME NEW op, NEW todo \in Seq(Steps(Objects(op)))
    PROVE  todo \in Seq(AllSteps)
<1>1. Objects(op) \subseteq AllObjects
  BY DEF Objects, AllObjects
<1>2. Plain(Objects(op)) \subseteq Plain(AllObjects)
  BY <1>1 DEF Plain
<1>3. \A s \in Seq(Plain(Objects(op))) : s \in Seq(Plain(AllObjects))
  BY <1>2, SeqSubset
<1>4. Steps(Objects(op)) \subseteq AllSteps
  BY <1>1, <1>3 DEF Steps, AllSteps
<1> QED
  BY <1>4, SeqSubset

\* FatFS functions access sectors, return results and leave files in states of the model.
LEMMA FatFsType ==
    ASSUME NEW f \in FatFunctions, NEW file \in FileStates, NEW b \in FatFs(f, file)
    PROVE  /\ b.acc \in Seq(Accesses) /\ b.res \in Results /\ b.st \in FileStates \cup {"same"}
           /\ f = "f_closedir" /\ file = "clean" => b.acc = <<>>
<1> DEFINE T == [acc : Seq(Accesses), res : Results, st : FileStates \cup {"same"}]
<1>1. R(Dir) \in Accesses /\ R(Fat) \in Accesses /\ M(Dir) \in Accesses /\ M(Fat) \in Accesses
  BY DEF R, M, Accesses
<1>2. Put \in Accesses /\ Sync \in Accesses
  BY DEF Accesses
<1>3. \A a \in Seq(Accesses), res \in Results, st \in FileStates \cup {"same"} : Does(a, res, st) \in T
  BY DEF Does
<1>4. /\ "ok" \in Results /\ "none" \in Results /\ "full" \in Results /\ "error" \in Results
      /\ "clean" \in FileStates /\ "modified" \in FileStates
  BY DEF Results, FileStates
<1>5. /\ <<>> \in Seq(Accesses) /\ \A x \in Accesses : <<x>> \in Seq(Accesses)
      /\ \A x, y \in Accesses : <<x, y>> \in Seq(Accesses)
      /\ \A x, y, z \in Accesses : <<x, y, z>> \in Seq(Accesses)
      /\ \A x, y, z, u, v \in Accesses : <<x, y, z, u, v>> \in Seq(Accesses)
  OBVIOUS
<1> HIDE DEF T
<1>6. Found \subseteq T /\ Missing \subseteq T /\ OpenExisting \subseteq T /\ Create \subseteq T /\ OpenTruncating \subseteq T
  <2>1. /\ Does(<<R(Dir)>>, "ok", "same") \in T /\ Does(<<R(Dir), R(Fat)>>, "ok", "same") \in T
        /\ Does(<<R(Dir)>>, "none", "same") \in T /\ Does(<<R(Dir)>>, "ok", "clean") \in T
        /\ Does(<<M(Dir)>>, "ok", "modified") \in T
        /\ Does(<<M(Dir), M(Fat), R(Dir)>>, "ok", "modified") \in T
    BY <1>1, <1>3, <1>4, <1>5
  <2> QED
    BY <2>1 DEF Found, Missing, OpenExisting, Create, OpenTruncating
<1>7. Reading \subseteq T /\ Writing \subseteq T /\ Seeking \subseteq T /\ Syncing(file) \subseteq T
  <2>1. /\ Does(<<R(Fat)>>, "ok", "same") \in T /\ Does(<<R(Fat)>>, "full", "same") \in T
        /\ Does(<<Put>>, "ok", "modified") \in T /\ Does(<<M(Fat), Put>>, "ok", "modified") \in T
        /\ Does(<<Put, M(Fat), Put>>, "ok", "modified") \in T /\ Does(<<M(Fat)>>, "ok", "modified") \in T
        /\ Does(<<>>, "ok", "same") \in T /\ Does(<<M(Dir), Sync>>, "ok", "clean") \in T
    BY <1>1, <1>2, <1>3, <1>4, <1>5
  <2> QED
    BY <2>1 DEF Reading, Writing, Seeking, Syncing
<1>8. EntryChange \subseteq T
  <2>1. Does(<<M(Dir), Sync>>, "ok", "same") \in T
    BY <1>1, <1>2, <1>3, <1>4, <1>5
  <2> QED
    BY <2>1, <1>6 DEF EntryChange
<1>9. /\ Does(<<>>, "error", "same") \in T /\ Does(<<>>, "ok", "same") \in T
      /\ Does(<<M(Fat)>>, "ok", "modified") \in T
      /\ Does(<<M(Dir), M(Fat), Sync>>, "ok", "same") \in T
      /\ Does(<<M(Fat), Sync, Put, M(Dir), Sync>>, "ok", "same") \in T
  BY <1>1, <1>2, <1>3, <1>4, <1>5
<1>10. b \in T
  BY <1>6, <1>7, <1>8, <1>9 DEF FatFs, FatFunctions
<1>11. f = "f_closedir" /\ file = "clean" => b = Does(<<>>, "ok", "same")
  BY DEF FatFs, Refused
<1>12. f = "f_closedir" /\ file = "clean" => b.acc = <<>>
  BY <1>11 DEF Does
<1> QED
  BY <1>10, <1>12 DEF T

-----------------------------------------------------------------------------
(* The image: the disk under the log *)

Records(lg, s) == {i \in DOMAIN lg : lg[i].s = s}
Record == [s : Sectors, c : Contents]

\* The image as a function of log and disk.
ImageOf(lg, dk) ==
    [s \in Sectors |-> IF Records(lg, s) = {} THEN dk[s] ELSE lg[Max(Records(lg, s))].c]

LEMMA ImageIs == Image = ImageOf(log, disk) /\ Image' = ImageOf(log', disk')
BY DEF Image, ImageOf, Records

\* Each sector with a record has a last one.
LEMMA MaxRecord ==
    ASSUME NEW lg \in Seq(Record), NEW s, Records(lg, s) # {}
    PROVE  /\ Max(Records(lg, s)) \in Records(lg, s)
           /\ \A j \in Records(lg, s) : j <= Max(Records(lg, s))
<1>1. DOMAIN lg = 1 .. Len(lg) /\ Len(lg) \in Nat
  OBVIOUS
<1>2. Records(lg, s) \in SUBSET (1 .. Len(lg))
  BY <1>1 DEF Records
<1> QED
  BY <1>1, <1>2, MaxFacts

LEMMA ImageOfType ==
    ASSUME NEW lg \in Seq(Record), NEW dk \in [Sectors -> Contents]
    PROVE  ImageOf(lg, dk) \in [Sectors -> Contents]
<1> SUFFICES ASSUME NEW s \in Sectors PROVE ImageOf(lg, dk)[s] \in Contents
  BY DEF ImageOf
<1>1. CASE Records(lg, s) = {}
  BY <1>1 DEF ImageOf
<1>2. CASE Records(lg, s) # {}
  <2>1. Max(Records(lg, s)) \in DOMAIN lg
    <3>1. Max(Records(lg, s)) \in Records(lg, s)
      BY <1>2, MaxRecord
    <3> QED
      BY <3>1 DEF Records
  <2>2. lg[Max(Records(lg, s))] \in Record
    BY <2>1
  <2> QED
    BY <1>2, <2>2 DEF Record, ImageOf
<1> QED
  BY <1>1, <1>2

LEMMA ImageType ==
    ASSUME ValueInv
    PROVE  Image \in [Sectors -> Contents]
BY ImageIs, ImageOfType DEF ValueInv, Record

LEMMA ImageBare ==
    ASSUME NEW s \in Sectors, \A j \in DOMAIN log : log[j].s # s
    PROVE  Image[s] = disk[s]
BY DEF Image

LEMMA ImageSame ==
    ASSUME log' = log, disk' = disk
    PROVE  Image' = Image
BY DEF Image

LEMMA ImageEmpty ==
    ASSUME ValueInv, log = <<>>
    PROVE  Image = disk
<1>1. \A s \in Sectors : Image[s] = disk[s]
  BY ImageBare
<1> QED
  BY <1>1, ImageType DEF ValueInv

\* A record at the end of the log replaces one sector.
LEMMA ImageOfAppend ==
    ASSUME NEW log0 \in Seq(Record), NEW dk \in [Sectors -> Contents], NEW rec \in Record,
           NEW log1, log1 = Append(log0, rec)
    PROVE  ImageOf(log1, dk) = [ImageOf(log0, dk) EXCEPT ![rec.s] = rec.c]
<1>1. /\ log0 \in Seq(Record) /\ log1 \in Seq(Record) /\ rec.s \in Sectors
      /\ DOMAIN log0 = 1 .. Len(log0) /\ Len(log0) \in Nat /\ DOMAIN log1 = 1 .. (Len(log0) + 1)
      /\ log1[Len(log0) + 1] = rec /\ \A j \in 1 .. Len(log0) : log1[j] = log0[j]
  BY DEF Record
<1>2. ImageOf(log0, dk) \in [Sectors -> Contents] /\ ImageOf(log1, dk) \in [Sectors -> Contents]
  BY <1>1, ImageOfType
<1>3. ImageOf(log1, dk)[rec.s] = rec.c
  <2>1. Len(log0) + 1 \in Records(log1, rec.s)
    BY <1>1 DEF Records
  <2> DEFINE i == Max(Records(log1, rec.s))
  <2>2. i \in Records(log1, rec.s) /\ \A j \in Records(log1, rec.s) : j <= i
    BY <1>1, <2>1, MaxRecord
  <2>3. i \in 1 .. (Len(log0) + 1) /\ Len(log0) + 1 <= i
    BY <1>1, <2>1, <2>2 DEF Records
  <2> HIDE DEF i
  <2>4. i = Len(log0) + 1
    BY <1>1, <2>3
  <2>5. ImageOf(log1, dk)[rec.s] = log1[i].c
    BY <1>1, <2>1 DEF ImageOf, i
  <2> QED
    BY <1>1, <2>4, <2>5
<1>4. ASSUME NEW s \in Sectors, s # rec.s
      PROVE  ImageOf(log1, dk)[s] = ImageOf(log0, dk)[s]
  <2>1. Records(log1, s) = Records(log0, s)
    BY <1>1, <1>4 DEF Records
  <2>2. CASE Records(log0, s) = {}
    BY <2>1, <2>2 DEF ImageOf
  <2>3. CASE Records(log0, s) # {}
    <3>1. Max(Records(log0, s)) \in 1 .. Len(log0)
      BY <1>1, <2>3, MaxRecord DEF Records
    <3> QED
      BY <1>1, <2>1, <2>3, <3>1 DEF ImageOf
  <2> QED
    BY <2>2, <2>3
<1> QED
  BY <1>1, <1>2, <1>3, <1>4

LEMMA ImageAppend ==
    ASSUME ValueInv, NEW rec \in Record, log' = Append(log, rec), disk' = disk
    PROVE  Image' = [Image EXCEPT ![rec.s] = rec.c]
<1>1. log \in Seq(Record) /\ disk \in [Sectors -> Contents]
  BY DEF ValueInv, Record
<1>2. \A log1 : log1 = Append(log, rec) => ImageOf(log1, disk) = [ImageOf(log, disk) EXCEPT ![rec.s] = rec.c]
  <2> HIDE DEF ImageOf
  <2> QED
    BY <1>1, ImageOfAppend, Zenon
<1> QED
  BY <1>2, ImageIs

\* What the transfer does to a sector that has records is not seen in the image.
LEMMA ImageTransfer ==
    ASSUME ValueInv, log' = log, NEW k \in DOMAIN log, NEW c,
           disk' = [disk EXCEPT ![log[k].s] = c]
    PROVE  Image' = Image
<1>1. \A s \in Sectors : s # log[k].s => disk'[s] = disk[s]
  BY DEF ValueInv
<1>2. \A s \in Sectors : Image'[s] = Image[s]
  BY <1>1 DEF Image
<1> QED
  BY <1>2 DEF Image

-----------------------------------------------------------------------------
(* Where a call goes *)

\* The programs of open and close, step by step.
LEMMA OpenShapes ==
    /\ Head(OpenLock) = Quiet("lock", "fd") /\ Tail(OpenLock) = OpenSlot
    /\ Head(OpenSlot) = Must("get_next_fd", "fd", Unlock) /\ Tail(OpenSlot) = OpenFile
    /\ Head(OpenFile) = Must("f_open", "fd", Unlock) /\ Tail(OpenFile) = Unlock
    /\ Head(Unlock) = Quiet("unlock", "fd") /\ Tail(Unlock) = <<>>
    /\ Head(CloseLock) = Quiet("lock", "fd") /\ Tail(CloseLock) = CloseFile
    /\ Head(CloseFile) = Note("f_close", "fd") /\ Tail(CloseFile) = Unlock
    /\ Head(CloseDir) = Must("f_closedir", "clean", <<>>) /\ Tail(CloseDir) = <<>>
    /\ Len(OpenLock) = 4 /\ Len(OpenSlot) = 3 /\ Len(OpenFile) = 2 /\ Len(Unlock) = 1
    /\ Len(CloseLock) = 3 /\ Len(CloseFile) = 2 /\ Len(<<>>) = 0
<1>1. \A x : Head(<<x>>) = x /\ Tail(<<x>>) = <<>> /\ Len(<<x>>) = 1
  OBVIOUS
<1>2. \A x, y : Head(<<x, y>>) = x /\ Tail(<<x, y>>) = <<y>> /\ Len(<<x, y>>) = 2
  OBVIOUS
<1>3. \A x, y, z : Head(<<x, y, z>>) = x /\ Tail(<<x, y, z>>) = <<y, z>> /\ Len(<<x, y, z>>) = 3
  OBVIOUS
<1>4. \A x, y, z, w : Head(<<x, y, z, w>>) = x /\ Tail(<<x, y, z, w>>) = <<y, z, w>> /\ Len(<<x, y, z, w>>) = 4
  OBVIOUS
<1>5. Head(OpenLock) = Quiet("lock", "fd") /\ Tail(OpenLock) = OpenSlot /\ Len(OpenLock) = 4
  BY <1>4 DEF OpenLock, OpenSlot
<1>6. /\ Head(OpenSlot) = Must("get_next_fd", "fd", Unlock) /\ Tail(OpenSlot) = OpenFile /\ Len(OpenSlot) = 3
      /\ Head(CloseLock) = Quiet("lock", "fd") /\ Tail(CloseLock) = CloseFile /\ Len(CloseLock) = 3
  BY <1>3 DEF OpenSlot, OpenFile, CloseLock, CloseFile
<1>7. /\ Head(OpenFile) = Must("f_open", "fd", Unlock) /\ Tail(OpenFile) = Unlock /\ Len(OpenFile) = 2
      /\ Head(CloseFile) = Note("f_close", "fd") /\ Tail(CloseFile) = Unlock /\ Len(CloseFile) = 2
  BY <1>2 DEF OpenFile, CloseFile, Unlock
<1>8. /\ Head(Unlock) = Quiet("unlock", "fd") /\ Tail(Unlock) = <<>> /\ Len(Unlock) = 1
      /\ Head(CloseDir) = Must("f_closedir", "clean", <<>>) /\ Tail(CloseDir) = <<>>
  BY <1>1 DEF Unlock, CloseDir
<1> QED
  BY <1>5, <1>6, <1>7, <1>8

LEMMA ShapeSteps ==
    /\ Head(OpenLock).f = "lock" /\ Head(OpenLock).leave = {} /\ Head(OpenLock).bad = {}
    /\ Head(OpenSlot).f = "get_next_fd" /\ Head(OpenSlot).leave = Failed /\ Head(OpenSlot).bad = Failed
    /\ Head(OpenSlot).else = Unlock
    /\ Head(OpenFile).f = "f_open" /\ Head(OpenFile).leave = Failed /\ Head(OpenFile).bad = Failed
    /\ Head(OpenFile).else = Unlock /\ Head(OpenFile).on = "fd"
    /\ Head(Unlock).f = "unlock" /\ Head(Unlock).leave = {} /\ Head(Unlock).bad = {}
    /\ Head(CloseLock).f = "lock" /\ Head(CloseLock).leave = {}
    /\ Head(CloseFile).f = "f_close" /\ Head(CloseFile).leave = {} /\ Head(CloseFile).on = "fd"
    /\ Head(CloseDir).f = "f_closedir" /\ Head(CloseDir).else = <<>> /\ Head(CloseDir).on = "clean"
<1>1. /\ Quiet("lock", "fd").f = "lock" /\ Quiet("lock", "fd").leave = {} /\ Quiet("lock", "fd").bad = {}
      /\ Quiet("unlock", "fd").f = "unlock" /\ Quiet("unlock", "fd").leave = {} /\ Quiet("unlock", "fd").bad = {}
      /\ Note("f_close", "fd").f = "f_close" /\ Note("f_close", "fd").leave = {} /\ Note("f_close", "fd").on = "fd"
  BY DEF Quiet, Note, Step
<1>2. \A f, on, else :
         /\ Must(f, on, else).f = f /\ Must(f, on, else).on = on /\ Must(f, on, else).bad = Failed
         /\ Must(f, on, else).leave = Failed /\ Must(f, on, else).else = else
  BY DEF Must, Step
<1>3. /\ Head(OpenLock).f = "lock" /\ Head(OpenLock).leave = {} /\ Head(OpenLock).bad = {}
      /\ Head(Unlock).f = "unlock" /\ Head(Unlock).leave = {} /\ Head(Unlock).bad = {}
      /\ Head(CloseLock).f = "lock" /\ Head(CloseLock).leave = {}
      /\ Head(CloseFile).f = "f_close" /\ Head(CloseFile).leave = {} /\ Head(CloseFile).on = "fd"
  BY <1>1, OpenShapes
<1>4. /\ Head(OpenSlot).f = "get_next_fd" /\ Head(OpenSlot).leave = Failed /\ Head(OpenSlot).bad = Failed
      /\ Head(OpenSlot).else = Unlock
  BY <1>2, OpenShapes
<1>5. /\ Head(OpenFile).f = "f_open" /\ Head(OpenFile).leave = Failed /\ Head(OpenFile).bad = Failed
      /\ Head(OpenFile).else = Unlock /\ Head(OpenFile).on = "fd"
  BY <1>2, OpenShapes
<1>6. Head(CloseDir).f = "f_closedir" /\ Head(CloseDir).else = <<>> /\ Head(CloseDir).on = "clean"
  BY <1>2, OpenShapes
<1> QED
  BY <1>3, <1>4, <1>5, <1>6

LEMMA ShapesDiffer ==
    /\ Unlock \notin {OpenLock, OpenSlot, OpenFile, CloseLock, CloseFile, <<>>}
    /\ <<>> \notin {OpenLock, OpenSlot, OpenFile, CloseLock, CloseFile, Unlock}
    /\ OpenLock # OpenSlot /\ OpenFile \notin {OpenLock, OpenSlot} /\ CloseFile # CloseLock
<1>1. /\ Len(OpenLock) = 4 /\ Len(OpenSlot) = 3 /\ Len(OpenFile) = 2 /\ Len(Unlock) = 1
      /\ Len(CloseLock) = 3 /\ Len(CloseFile) = 2
  BY OpenShapes
<1>2. Len(<<>>) = 0
  OBVIOUS
<1>3. Unlock # OpenLock /\ Unlock # OpenSlot /\ Unlock # OpenFile /\ Unlock # CloseLock /\ Unlock # CloseFile
  BY <1>1
<1>4. /\ <<>> # OpenLock /\ <<>> # OpenSlot /\ <<>> # OpenFile /\ <<>> # CloseLock /\ <<>> # CloseFile
      /\ <<>> # Unlock
  BY <1>1, <1>2
<1>5. OpenLock # OpenSlot /\ OpenFile # OpenLock /\ OpenFile # OpenSlot /\ CloseFile # CloseLock
  BY <1>1
<1> QED
  BY <1>3, <1>4, <1>5, Zenon

LEMMA OpenType ==
    {OpenLock, OpenSlot, OpenFile, Unlock, <<>>} \subseteq Seq(AllSteps)
<1>1. Unlock \in Seq(Plain(AllObjects)) /\ "f_open" \in FatFunctions /\ "fd" \in AllObjects
  BY SeqForms DEF FatFunctions, AllObjects
<1>2. "lock" \in Controls /\ "unlock" \in Controls
  BY DEF Controls
<1>3. Quiet("lock", "fd") \in Steps(AllObjects) /\ Quiet("unlock", "fd") \in Steps(AllObjects)
  BY <1>1, <1>2, SeqForms, ControlForms
<1>4. Must("f_open", "fd", Unlock) \in Steps(AllObjects)
  BY <1>1, StepForms
<1>5. \A x \in {Quiet("lock", "fd"), Quiet("unlock", "fd"), Must("f_open", "fd", Unlock),
               Must("get_next_fd", "fd", Unlock)} : x \in AllSteps
  BY <1>3, <1>4 DEF AllSteps
<1> HIDE DEF AllSteps
<1> QED
  BY <1>5 DEF OpenLock, OpenSlot, OpenFile, Unlock

\* The call after the step at hand.
LEMMA AfterFacts ==
    ASSUME ValueInv, NEW t \in Tasks, CallAt(pc[t], loc[t]), loc[t].todo # <<>>, NEW res \in Results,
           NEW l, l = After(t, res)
    PROVE  /\ l \in Locals
           /\ l.op = loc[t].op /\ l.id = loc[t].id /\ l.fd = loc[t].fd /\ l.mine = loc[t].mine /\ l.at = loc[t].at
           /\ l.todo = IF res \in Now(t).leave THEN Now(t).else ELSE Tail(loc[t].todo)
           /\ loc[t].op # "open" => l.todo \in Seq(Steps(Objects(loc[t].op)))
           /\ l.ok = (loc[t].ok /\ res \notin Now(t).bad)
           /\ l.acc = <<>>
<1> DEFINE next == IF res \in Now(t).leave THEN Now(t).else ELSE Tail(loc[t].todo)
           fine == loc[t].ok /\ res \notin Now(t).bad
<1>1. loc[t].op # "open" => next \in Seq(Steps(Objects(loc[t].op)))
  BY StepFields DEF CallAt, Now
<1>2. next \in Seq(AllSteps)
  <2>1. CASE loc[t].op # "open"
    BY <1>1, <2>1, StepsOfAll
  <2>2. CASE loc[t].op = "open"
    <3>1. loc[t].todo \in {OpenLock, OpenSlot, OpenFile, Unlock}
      BY <2>2 DEF CallAt, OpenAt
    <3>2. Tail(loc[t].todo) \in Seq(AllSteps)
      BY <3>1, OpenType, OpenShapes
    <3>3. res \in Now(t).leave => Now(t).else \in Seq(AllSteps)
      BY <3>1, OpenType, ShapeSteps DEF Now
    <3> QED
      BY <3>2, <3>3
  <2> QED
    BY <2>1, <2>2
<1>3. loc[t] \in Locals
  BY DEF ValueInv
<1>4. /\ fine \in BOOLEAN /\ "ok" \in Results /\ <<>> \in Seq(Accesses)
      /\ l = [loc[t] EXCEPT !.todo = next, !.ok = fine, !.acc = <<>>, !.res = "ok", !.st = "same", !.wrote = FALSE]
  BY DEF After, Results
<1> HIDE DEF next, fine
<1>5. l \in Locals
  BY <1>2, <1>3, <1>4 DEF Locals
<1>6. /\ l.op = loc[t].op /\ l.id = loc[t].id /\ l.fd = loc[t].fd /\ l.mine = loc[t].mine /\ l.at = loc[t].at
      /\ l.todo = next /\ l.ok = fine /\ l.acc = <<>>
  BY <1>3, <1>4 DEF Locals
<1> QED
  BY <1>1, <1>5, <1>6 DEF next, fine

\* It is a call of the model again, unless an open has just found its entry.
LEMMA AfterCall ==
    ASSUME ValueInv, NEW t \in Tasks, CallAt(pc[t], loc[t]), loc[t].todo # <<>>, NEW res \in Results,
           Now(t).f = "get_next_fd" /\ loc[t].op = "open" => res \in Failed,
           NEW l, l = After(t, res)
    PROVE  CallAt("run", l)
<1>1. l.op = loc[t].op /\ l.id = loc[t].id /\ l.fd = loc[t].fd /\ l.acc = <<>>
  BY AfterFacts
<1>2. /\ l.todo = IF res \in Head(loc[t].todo).leave THEN Head(loc[t].todo).else ELSE Tail(loc[t].todo)
      /\ loc[t].op # "open" => l.todo \in Seq(Steps(Objects(loc[t].op)))
      /\ l.ok = (loc[t].ok /\ res \notin Head(loc[t].todo).bad)
  BY AfterFacts DEF Now
<1>3. loc[t].op \in NoDisk => l.todo = <<>>
  BY <1>2, OpenShapes, ShapeSteps DEF CallAt
<1>4. loc[t].op = "close" => l.todo \in {CloseLock, CloseFile, Unlock, <<>>}
  <2> SUFFICES ASSUME loc[t].op = "close" PROVE l.todo \in {CloseFile, Unlock, <<>>}
    OBVIOUS
  <2>1. loc[t].todo \in {CloseLock, CloseFile, Unlock}
    BY DEF CallAt
  <2> QED
    BY <1>2, <2>1, OpenShapes, ShapeSteps
<1>5. loc[t].op = "open" => OpenAt(l)
  <2> SUFFICES ASSUME loc[t].op = "open" PROVE OpenAt(l)
    OBVIOUS
  <2>1. OpenAt(loc[t])
    BY DEF CallAt
  <2>2. CASE loc[t].todo = OpenLock
    <3>1. l.todo = OpenSlot /\ l.ok = loc[t].ok
      BY <1>2, <2>1, <2>2, OpenShapes, ShapeSteps DEF OpenAt
    <3> QED
      BY <1>1, <2>1, <2>2, <3>1, ShapesDiffer DEF OpenAt
  <2>3. CASE loc[t].todo = OpenSlot
    <3>1. res \in Failed
      BY <2>3, ShapeSteps DEF Now
    <3>2. l.todo = Unlock /\ ~l.ok
      BY <1>2, <2>3, <3>1, ShapeSteps
    <3> QED
      BY <3>2, ShapesDiffer DEF OpenAt
  <2>4. CASE loc[t].todo = OpenFile
    <3>1. l.todo = Unlock /\ (l.ok => loc[t].ok)
      BY <1>2, <2>4, OpenShapes, ShapeSteps
    <3> QED
      BY <1>1, <2>1, <2>4, <3>1, ShapesDiffer DEF OpenAt
  <2>5. CASE loc[t].todo = Unlock
    <3>1. l.todo = <<>> /\ (l.ok => loc[t].ok)
      BY <1>2, <2>5, OpenShapes, ShapeSteps
    <3> QED
      BY <1>1, <2>1, <2>5, <3>1, ShapesDiffer DEF OpenAt
  <2> QED
    BY <2>1, <2>2, <2>3, <2>4, <2>5 DEF OpenAt
<1> QED
  BY <1>1, <1>2, <1>3, <1>4, <1>5 DEF CallAt, Ended

-----------------------------------------------------------------------------
(* Steps of one task *)

\* Task t goes to place p with call l.
Moves(t, p, l) == pc' = [pc EXCEPT ![t] = p] /\ loc' = [loc EXCEPT ![t] = l]

LEMMA MoveFacts ==
    ASSUME ValueInv, NEW t \in Tasks, NEW p \in Places, NEW l \in Locals, Moves(t, p, l)
    PROVE  /\ pc' \in [Tasks -> Places] /\ loc' \in [Tasks -> Locals]
           /\ pc'[t] = p /\ loc'[t] = l
           /\ \A u \in Tasks : u # t => pc'[u] = pc[u] /\ loc'[u] = loc[u]
BY DEF ValueInv, Moves

LEMMA MoveCall ==
    ASSUME ValueInv, CallInv, NEW t \in Tasks, NEW p \in Places, NEW l \in Locals, Moves(t, p, l),
           p # "idle" => CallAt(p, l)
    PROVE  CallInv'
<1>1. \A u \in Tasks : pc'[u] # "idle" => CallAt(pc'[u], loc'[u])
  BY MoveFacts DEF CallInv
<1> QED
  BY <1>1 DEF CallInv, CallAt, OpenAt

\* A call that stays the same operation, or ends, takes the disk from nobody.
LEMMA MoveAlone ==
    ASSUME ValueInv, Alone, NEW t \in Tasks, NEW p \in Places, NEW l \in Locals, Moves(t, p, l),
           p # "idle" => pc[t] # "idle" /\ l.op = loc[t].op
    PROVE  Alone'
<1>1. \A u \in Tasks : Active(u)' => Active(u)
  BY MoveFacts DEF Active
<1> QED
  BY <1>1 DEF Alone

\* While a call that may reach the disk runs, every other one never does.
LEMMA OthersIdle ==
    ASSUME IndInv, NEW t \in Tasks, Active(t), NEW u \in Tasks, u # t, pc[u] # "idle"
    PROVE  loc[u].op \in NoDisk /\ loc[u].op \notin Wrapped /\ pc[u] \in {"run", "fat"} /\ loc[u].acc = <<>>
<1>1. loc[u].op \in NoDisk
  BY DEF IndInv, Alone, Active
<1>2. CallAt(pc[u], loc[u])
  BY DEF IndInv, CallInv
<1>3. NoDisk \cap Wrapped = {}
  BY DEF NoDisk, Wrapped, FileWrappers, DirWrappers
<1> QED
  BY <1>1, <1>2, <1>3 DEF CallAt

\* FatFS sees all that it saw, and what the moving call adds.
LEMMA ViewKept ==
    ASSUME ValueInv, ViewInv, NEW t \in Tasks,
           Kept' => Kept,
           Kept' => \A s \in Sectors : View(s) \subseteq View(s)',
           \A u \in Tasks : u # t => pc'[u] = pc[u] /\ loc'[u] = loc[u],
           Kept' /\ pc'[t] # "idle" => \A s \in loc'[t].mine : loc'[t].id \in View(s)',
           Kept' => \A g \in good' : g \in good \/ g[2] \in View(g[1])'
    PROVE  /\ Kept' => \A u \in Tasks : pc'[u] # "idle" => \A s \in loc'[u].mine : loc'[u].id \in View(s)'
           /\ UpdatesKept'
<1>1. ASSUME Kept', NEW u \in Tasks, pc'[u] # "idle", NEW s \in loc'[u].mine
      PROVE  loc'[u].id \in View(s)'
  <2>1. CASE u = t
    BY <1>1, <2>1
  <2>2. CASE u # t
    <3>1. pc[u] # "idle" /\ s \in loc[u].mine /\ loc'[u] = loc[u]
      BY <1>1, <2>2
    <3>2. loc[u].mine \subseteq Sectors
      BY DEF ValueInv, Locals
    <3>3. loc[u].id \in View(s)
      BY <1>1, <3>1 DEF ViewInv
    <3> QED
      BY <1>1, <3>1, <3>2, <3>3
  <2> QED
    BY <2>1, <2>2
<1>2. ASSUME Kept', NEW g \in good'
      PROVE  g[2] \in View(g[1])'
  <2>1. CASE g \in good
    <3>1. g[1] \in Sectors
      BY <2>1 DEF ValueInv
    <3>2. g[2] \in View(g[1])
      BY <1>2, <2>1 DEF ViewInv, UpdatesKept, Kept
    <3> QED
      BY <1>2, <3>1, <3>2
  <2> QED
    BY <1>2, <2>1
<1> QED
  BY <1>1, <1>2 DEF UpdatesKept, Kept

\* Steps that leave the volume alone and stay within the operation.
LEMMA LocalStep ==
    ASSUME IndInv, NEW t \in Tasks, NEW p \in {"run", "fat", "append"}, NEW l \in Locals, Moves(t, p, l),
           pc[t] \in {"run", "fat", "append"},
           l.op = loc[t].op, l.id = loc[t].id, l.mine = loc[t].mine,
           UNCHANGED <<volume, history>>,
           p = "append" => status = "open" /\ HasSpace /\ (Head(l.acc).kind = "put" \/ win.dirty)
    PROVE  Alone' /\ StatusInv' /\ ViewInv' /\ ReplayInv'
<1> USE DEF IndInv
<1>1. p \in Places /\ p # "idle" /\ p \notin Transferring /\ pc[t] # "idle" /\ pc[t] \notin Transferring
  BY DEF Places, Transferring
<1>2. /\ pc'[t] = p /\ loc'[t] = l
      /\ \A u \in Tasks : u # t => pc'[u] = pc[u] /\ loc'[u] = loc[u]
  BY <1>1, MoveFacts
<1>3. /\ status' = status /\ stored' = stored /\ log' = log /\ disk' = disk /\ win' = win
      /\ good' = good /\ events' = events
  BY DEF volume, jrnl, history
<1>4. Image' = Image /\ (HasSpace' <=> HasSpace) /\ (Kept' <=> Kept) /\ \A s \in Sectors : View(s)' = View(s)
  BY <1>3, ImageSame DEF HasSpace, Kept, View
<1>5. Alone'
  BY <1>1, MoveAlone
<1>6. StatusInv'
  <2>1. /\ loc[t].op \in Wrapped => status = "open"
        /\ status = "ready" => log = <<>>
    BY <1>1 DEF StatusInv
  <2>2. ASSUME NEW u \in Tasks
        PROVE  /\ pc'[u] # "idle" /\ loc'[u].op \in Wrapped =>
                     IF pc'[u] \in Transferring THEN status = "commit" /\ stored = "commit" ELSE status = "open"
               /\ pc'[u] = "append" => status = "open" /\ HasSpace /\ (Head(loc'[u].acc).kind = "put" \/ win.dirty)
    <3>1. CASE u = t
      BY <1>1, <1>2, <2>1, <3>1
    <3>2. CASE u # t
      BY <1>2, <3>2 DEF StatusInv
    <3> QED
      BY <3>1, <3>2
  <2> QED
    BY <1>3, <1>4, <2>1, <2>2 DEF StatusInv
<1>7. ViewInv'
  <2>1. \A s \in l.mine : s \in Sectors
    BY DEF Locals
  <2>2. Kept => \A s \in l.mine : l.id \in View(s)
    BY <1>1 DEF ViewInv
  <2>3. Kept' /\ pc'[t] # "idle" => \A s \in loc'[t].mine : loc'[t].id \in View(s)'
    BY <1>2, <1>4, <2>1, <2>2
  <2>4. /\ Kept' => \A u \in Tasks : pc'[u] # "idle" => \A s \in loc'[u].mine : loc'[u].id \in View(s)'
        /\ UpdatesKept'
    BY <1>2, <1>3, <1>4, <2>3, ViewKept
  <2> QED
    BY <1>3, <1>4, <2>4 DEF ViewInv
<1>8. ReplayInv'
  <2>1. \A u \in Tasks : pc'[u] \in {"copy", "erased"} => pc'[u] = pc[u] /\ loc'[u] = loc[u]
    BY <1>2
  <2> QED
    BY <1>3, <1>4, <2>1 DEF ReplayInv
<1> QED
  BY <1>5, <1>6, <1>7, <1>8

\* Steps that leave the entries of files[] alone.
LEMMA SlotStep ==
    ASSUME IndInv, NEW t \in Tasks, NEW p \in Places \ {"idle"}, NEW l \in Locals, Moves(t, p, l),
           pc[t] # "idle", l.op = loc[t].op,
           UNCHANGED <<files, held>>, events \subseteq events',
           l.op \in OnDescriptor => l.fd = loc[t].fd,
           l.op = "close" /\ l.todo \in {Unlock, <<>>} => loc[t].todo \in {Unlock, <<>>},
           \A i \in Slots : Opens(t, i) => l.fd = i /\ l.ok
    PROVE  SlotInv'
<1>1. /\ pc'[t] = p /\ loc'[t] = l
      /\ \A u \in Tasks : u # t => pc'[u] = pc[u] /\ loc'[u] = loc[u]
  BY MoveFacts DEF IndInv
<1>2. ASSUME NEW u \in Tasks, pc'[u] # "idle", loc'[u].op = "close", loc'[u].todo \in {Unlock, <<>>}
      PROVE  files[loc'[u].fd].st = "free"
  <2>1. "close" \in OnDescriptor
    BY DEF OnDescriptor
  <2>2. CASE u = t
    BY <1>1, <1>2, <2>1, <2>2 DEF IndInv, SlotInv
  <2>3. CASE u # t
    BY <1>1, <1>2, <2>3 DEF IndInv, SlotInv
  <2> QED
    BY <2>2, <2>3
<1>3. ASSUME "lost" \notin events', NEW u \in Tasks, pc'[u] # "idle", loc'[u].op \in OnDescriptor \ NoDisk
      PROVE  loc'[u].fd \in held
  <2>1. CASE u = t
    BY <1>1, <1>3, <2>1 DEF IndInv, SlotInv
  <2>2. CASE u # t
    BY <1>1, <1>3, <2>2 DEF IndInv, SlotInv
  <2> QED
    BY <2>1, <2>2
<1>4. ASSUME "lost" \notin events', NEW i \in Slots, files[i].st # "free", i \notin held
      PROVE  \E u \in Tasks : Opens(u, i)'
  <2>1. PICK u \in Tasks : Opens(u, i)
    BY <1>4 DEF IndInv, SlotInv
  <2>2. Opens(u, i)'
    BY <1>1, <2>1 DEF Opens
  <2> QED
    BY <2>2
<1> QED
  BY <1>2, <1>3, <1>4 DEF SlotInv

-----------------------------------------------------------------------------
(* Steps that leave the volume alone *)

LEMMA LocalValue ==
    ASSUME ValueInv, NEW t \in Tasks, NEW p \in Places, NEW l \in Locals, Moves(t, p, l),
           UNCHANGED <<volume, held, history>>,
           {transLock', ctxLock', fatLock'} \subseteq Tasks \cup {NoTask}, faults' \in Nat,
           files' \in [Slots -> [st : FileStates, append : BOOLEAN]]
    PROVE  ValueInv'
<1>1. pc' \in [Tasks -> Places] /\ loc' \in [Tasks -> Locals]
  BY MoveFacts
<1> QED
  BY <1>1 DEF ValueInv, volume, jrnl, history

\* Lock, unlock, a refusal, and get_next_fd when the table is full.
LEMMA ControlStep ==
    ASSUME IndInv, NEW t \in Tasks, pc[t] = "run", loc[t].todo # <<>>,
           Now(t).f \in Controls \cup {"get_next_fd"}, NEW res \in Results,
           Now(t).f = "get_next_fd" => res \in Failed,
           loc' = [loc EXCEPT ![t] = After(t, res)],
           UNCHANGED <<volume, table, transLock, fatLock, pc, faults, history>>,
           ctxLock' \in Tasks \cup {NoTask}
    PROVE  IndInv'
<1>1. PICK l : l = After(t, res)
  OBVIOUS
<1>2. ValueInv /\ CallAt(pc[t], loc[t])
  BY DEF IndInv, CallInv
<1>3. /\ l \in Locals /\ CallAt("run", l)
      /\ l.op = loc[t].op /\ l.id = loc[t].id /\ l.fd = loc[t].fd /\ l.mine = loc[t].mine
      /\ l.todo = IF res \in Now(t).leave THEN Now(t).else ELSE Tail(loc[t].todo)
      /\ l.ok = (loc[t].ok /\ res \notin Now(t).bad)
  BY <1>1, <1>2, AfterFacts, AfterCall
<1>4. Moves(t, "run", l) /\ "run" \in Places \ {"idle"}
  BY <1>1, <1>2 DEF Moves, ValueInv, Places
<1>5. ValueInv'
  BY <1>2, <1>3, <1>4, LocalValue DEF ValueInv, table
<1>6. CallInv'
  BY <1>3, <1>4, MoveCall DEF IndInv
<1>7. Alone' /\ StatusInv' /\ ViewInv' /\ ReplayInv'
  BY <1>3, <1>4, LocalStep
<1>8. l.op = "close" /\ l.todo \in {Unlock, <<>>} => loc[t].todo \in {Unlock, <<>>}
  <2> SUFFICES ASSUME loc[t].op = "close" PROVE loc[t].todo = Unlock \/ l.todo = CloseFile
    BY <1>3, ShapesDiffer
  <2>1. loc[t].todo \in {CloseLock, CloseFile, Unlock}
    BY <1>2 DEF CallAt
  <2>2. loc[t].todo # CloseFile
    BY ShapeSteps DEF Now, Controls
  <2> QED
    BY <1>3, <2>1, <2>2, OpenShapes, ShapeSteps DEF Now
<1>9. \A i \in Slots : Opens(t, i) => l.fd = i /\ l.ok
  <2> SUFFICES ASSUME NEW i \in Slots, loc[t].op = "open", loc[t].fd = i, loc[t].ok PROVE l.ok
    BY <1>3 DEF Opens
  <2>1. loc[t].todo \in {OpenLock, OpenSlot, OpenFile, Unlock} /\ (loc[t].todo = OpenSlot => loc[t].fd = None)
    BY <1>2 DEF CallAt, OpenAt
  <2>2. i # None
    BY CallsAssumption DEF None
  <2>3. loc[t].todo # OpenFile
    BY ShapeSteps DEF Now, Controls
  <2> QED
    BY <1>3, <2>1, <2>2, <2>3, ShapeSteps DEF Now
<1>10. SlotInv'
  BY <1>3, <1>4, <1>8, <1>9, SlotStep DEF history, table
<1> QED
  BY <1>5, <1>6, <1>7, <1>10 DEF IndInv

LEMMA AcquireCtxInv ==
    ASSUME IndInv, NEW t \in Tasks, AcquireCtx(t)
    PROVE  IndInv'
BY ControlStep DEF AcquireCtx, RunsNow, Controls, Results

LEMMA ReleaseCtxInv ==
    ASSUME IndInv, NEW t \in Tasks, ReleaseCtx(t)
    PROVE  IndInv'
BY ControlStep DEF ReleaseCtx, RunsNow, Controls, Results

LEMMA RejectInv ==
    ASSUME IndInv, NEW t \in Tasks, Reject(t)
    PROVE  IndInv'
<1>1. ctxLock' \in Tasks \cup {NoTask} /\ "error" \in Results
  BY DEF Reject, IndInv, ValueInv, Results
<1> QED
  BY <1>1, ControlStep DEF Reject, RunsNow, Controls

\* An open that finds a free entry.
LEMMA GetNextFdInv ==
    ASSUME IndInv, NEW t \in Tasks, get_next_fd(t)
    PROVE  IndInv'
<1> DEFINE free == {i \in Slots : files[i].st = "free"}
<1>1. /\ pc[t] = "run" /\ loc[t].todo # <<>> /\ Now(t).f = "get_next_fd"
      /\ UNCHANGED <<volume, table, transLock, ctxLock, fatLock, pc, faults, history>>
  BY DEF get_next_fd, RunsNow
<1>2. ValueInv /\ CallAt(pc[t], loc[t])
  BY <1>1 DEF IndInv, CallInv
<1>3. CASE free = {}
  <2>1. loc' = [loc EXCEPT ![t] = After(t, "error")]
    BY <1>3 DEF get_next_fd
  <2>2. ctxLock' \in Tasks \cup {NoTask} /\ "error" \in Results /\ "error" \in Failed
    BY <1>1, <1>2 DEF ValueInv, Results, Failed
  <2> QED
    BY <1>1, <2>1, <2>2, ControlStep
<1>4. CASE free # {}
  <2>1. loc' = [loc EXCEPT ![t] = [After(t, "ok") EXCEPT !.fd = Min(free)]]
    BY <1>4 DEF get_next_fd
  <2>2. Min(free) \in Slots
    <3>1. free \in SUBSET Nat
      BY CallsAssumption
    <3> QED
      BY <1>4, <3>1, MinFacts
  <2> HIDE DEF free
  <2>3. loc[t].op = "open" /\ loc[t].todo = OpenSlot
    <3>1. loc[t].op = "open"
      <4> SUFFICES ASSUME loc[t].op # "open" PROVE FALSE
        OBVIOUS
      <4>1. Now(t).f \in FatFunctions \cup Controls
        BY <1>1, <1>2, StepFields DEF CallAt, Now
      <4> QED
        BY <1>1, <4>1 DEF FatFunctions, Controls
    <3>2. loc[t].todo \in {OpenLock, OpenSlot, OpenFile, Unlock}
      BY <1>1, <1>2, <3>1 DEF CallAt, OpenAt
    <3> QED
      BY <1>1, <3>1, <3>2, ShapeSteps DEF Now
  <2>4. PICK a : a = After(t, "ok")
    OBVIOUS
  <2>5. /\ a \in Locals
        /\ a.op = "open" /\ a.id = loc[t].id /\ a.mine = loc[t].mine /\ a.acc = <<>>
        /\ a.todo = OpenFile /\ a.ok
    <3>1. "ok" \in Results /\ "ok" \notin Failed
      BY DEF Results, Failed
    <3>2. loc[t].ok
      BY <1>2, <2>3 DEF CallAt, OpenAt
    <3>3. /\ a \in Locals /\ a.op = loc[t].op /\ a.id = loc[t].id /\ a.mine = loc[t].mine /\ a.acc = <<>>
          /\ a.todo = IF "ok" \in Now(t).leave THEN Now(t).else ELSE Tail(loc[t].todo)
          /\ a.ok = (loc[t].ok /\ "ok" \notin Now(t).bad)
      BY <1>1, <1>2, <2>4, <3>1, AfterFacts
    <3>4. Now(t).leave = Failed /\ Now(t).bad = Failed /\ Tail(loc[t].todo) = OpenFile
      BY <2>3, OpenShapes, ShapeSteps DEF Now
    <3> QED
      BY <2>3, <3>1, <3>2, <3>3, <3>4
  <2>6. PICK l : l = [a EXCEPT !.fd = Min(free)]
    OBVIOUS
  <2>7. /\ l \in Locals
        /\ l.op = "open" /\ l.id = loc[t].id /\ l.mine = loc[t].mine /\ l.acc = <<>>
        /\ l.todo = OpenFile /\ l.ok /\ l.fd \in Slots
    BY <2>2, <2>5, <2>6 DEF Locals
  <2>8. Moves(t, "run", l) /\ "run" \in Places \ {"idle"}
    BY <1>1, <1>2, <2>1, <2>4, <2>6 DEF Moves, ValueInv, Places
  <2>9. CallAt("run", l)
    <3>1. loc[t].id \in 1 .. MaxCalls
      BY <1>2 DEF CallAt
    <3>2. OpenAt(l)
      BY <2>7, ShapesDiffer DEF OpenAt
    <3>3. "open" \in Wrapped /\ "open" \notin OnDescriptor /\ "open" \notin NoDisk
      BY DEF Wrapped, FileWrappers, OnDescriptor, NoDisk
    <3> QED
      BY <2>7, <3>1, <3>2, <3>3 DEF CallAt, Ended
  <2>10. ValueInv'
    BY <1>1, <1>2, <2>7, <2>8, LocalValue DEF ValueInv, table
  <2>11. CallInv'
    BY <2>7, <2>8, <2>9, MoveCall DEF IndInv
  <2>12. Alone' /\ StatusInv' /\ ViewInv' /\ ReplayInv'
    BY <1>1, <2>3, <2>7, <2>8, LocalStep
  <2>13. \A i \in Slots : ~Opens(t, i)
    <3>1. loc[t].fd = None
      BY <1>2, <2>3 DEF CallAt, OpenAt
    <3>2. None \notin Slots
      BY CallsAssumption DEF None
    <3> QED
      BY <3>1, <3>2 DEF Opens
  <2>14. SlotInv'
    <3>1. "open" \notin OnDescriptor
      BY DEF OnDescriptor
    <3> QED
      BY <1>1, <2>3, <2>7, <2>8, <2>13, <3>1, SlotStep DEF history, table
  <2> QED
    BY <2>10, <2>11, <2>12, <2>14 DEF IndInv
<1> QED
  BY <1>3, <1>4

LEMMA FatEnterInv ==
    ASSUME IndInv, NEW t \in Tasks, FatEnter(t)
    PROVE  IndInv'
<1> DEFINE file == IF Now(t).on = "fd" THEN files[loc[t].fd].st ELSE Now(t).on
<1>1. /\ pc[t] = "run" /\ loc[t].todo # <<>>
      /\ Now(t).f \notin {"lock", "unlock", "get_next_fd", "reject"}
      /\ pc' = [pc EXCEPT ![t] = "fat"] /\ fatLock' = t
      /\ UNCHANGED <<volume, table, transLock, ctxLock, faults, history>>
  BY DEF FatEnter, Goto
<1>2. PICK b \in FatFs(Now(t).f, file) : loc' = [loc EXCEPT ![t].acc = b.acc, ![t].res = b.res, ![t].st = b.st]
  BY DEF FatEnter
<1>3. ValueInv /\ CallAt(pc[t], loc[t])
  BY <1>1 DEF IndInv, CallInv
<1>4. /\ Now(t).f \in FatFunctions
      /\ Now(t).on = "fd" => loc[t].fd \in Slots
      /\ Now(t).on # "fd" => Now(t).on \in LocalObjects
  <2>1. CASE loc[t].op = "open"
    <3>1. OpenAt(loc[t]) /\ loc[t].todo \in {OpenLock, OpenSlot, OpenFile, Unlock}
      BY <1>1, <1>3, <2>1 DEF CallAt, OpenAt
    <3>2. loc[t].todo = OpenFile
      BY <1>1, <3>1, ShapeSteps DEF Now
    <3>3. loc[t].fd \in Slots
      BY <3>1, <3>2 DEF OpenAt
    <3>4. Now(t).f = "f_open" /\ Now(t).on = "fd"
      BY <3>2, ShapeSteps DEF Now
    <3> QED
      BY <3>3, <3>4 DEF FatFunctions
  <2>2. CASE loc[t].op # "open"
    <3>1. Now(t).f \in FatFunctions \cup Controls /\ (Now(t).f \in FatFunctions => Now(t).on \in Objects(loc[t].op))
      BY <1>1, <1>3, <2>2, StepFields DEF CallAt, Now
    <3>2. Now(t).f \in FatFunctions
      BY <1>1, <3>1 DEF Controls
    <3> QED
      BY <1>3, <3>1, <3>2 DEF CallAt, Objects, AllObjects, LocalObjects
  <2> QED
    BY <2>1, <2>2
<1>5. file \in FileStates
  BY <1>3, <1>4 DEF ValueInv, LocalObjects, FileStates
<1>6. b.acc \in Seq(Accesses) /\ b.res \in Results /\ b.st \in FileStates \cup {"same"}
  BY <1>2, <1>4, <1>5, FatFsType
<1>7. loc[t].op \in NoDisk => b.acc = <<>>
  <2> SUFFICES ASSUME loc[t].op \in NoDisk PROVE b.acc = <<>>
    OBVIOUS
  <2>1. loc[t].todo = CloseDir
    BY <1>1, <1>3 DEF CallAt
  <2>2. Now(t).f = "f_closedir" /\ Now(t).on = "clean"
    BY <2>1, ShapeSteps DEF Now
  <2>3. file = "clean"
    BY <2>2
  <2> QED
    BY <1>2, <1>4, <1>5, <2>2, <2>3, FatFsType
<1>8. PICK l : l = [loc[t] EXCEPT !.acc = b.acc, !.res = b.res, !.st = b.st]
  OBVIOUS
<1>9. loc[t] \in Locals
  BY <1>3 DEF ValueInv
<1>10. /\ l \in Locals
       /\ l.op = loc[t].op /\ l.id = loc[t].id /\ l.fd = loc[t].fd /\ l.mine = loc[t].mine
       /\ l.todo = loc[t].todo /\ l.ok = loc[t].ok /\ l.acc = b.acc
  BY <1>6, <1>8, <1>9 DEF Locals
<1>11. Moves(t, "fat", l) /\ "fat" \in Places \ {"idle"}
  BY <1>1, <1>2, <1>3, <1>8 DEF Moves, ValueInv, Places
<1>12. CallAt("fat", l)
  BY <1>1, <1>3, <1>4, <1>7, <1>10 DEF CallAt, OpenAt, Ended, Now
<1>13. ValueInv'
  BY <1>1, <1>3, <1>10, <1>11, LocalValue DEF ValueInv, table
<1>14. CallInv'
  BY <1>10, <1>11, <1>12, MoveCall DEF IndInv
<1>15. Alone' /\ StatusInv' /\ ViewInv' /\ ReplayInv'
  BY <1>1, <1>10, <1>11, LocalStep
<1>16. \A i \in Slots : Opens(t, i) => l.fd = i /\ l.ok
  BY <1>10 DEF Opens
<1>17. SlotInv'
  BY <1>1, <1>10, <1>11, <1>16, SlotStep DEF history, table
<1> QED
  BY <1>13, <1>14, <1>15, <1>17 DEF IndInv

\* Steps of a FatFS function that touch neither volume nor files.
LEMMA AccessStep ==
    ASSUME IndInv, NEW t \in Tasks, pc[t] = "fat", NEW p \in {"fat", "append"}, NEW l \in Locals, Moves(t, p, l),
           UNCHANGED <<volume, table, transLock, ctxLock, fatLock, faults, history>>,
           l.op = loc[t].op, l.id = loc[t].id, l.fd = loc[t].fd, l.mine = loc[t].mine,
           l.todo = loc[t].todo, l.ok = loc[t].ok,
           loc[t].op \in NoDisk => l.acc = <<>>,
           p = "append" => status = "open" /\ HasSpace /\ l.acc # <<>> /\ (Head(l.acc).kind = "put" \/ win.dirty)
    PROVE  IndInv'
<1>1. ValueInv /\ CallAt(pc[t], loc[t])
  BY DEF IndInv, CallInv
<1>2. p \in Places \ {"idle"}
  BY DEF Places
<1>3. CallAt(p, l)
  BY <1>1 DEF CallAt, OpenAt, Ended
<1>4. ValueInv'
  BY <1>1, <1>2, LocalValue DEF ValueInv, table
<1>5. CallInv'
  BY <1>2, <1>3, MoveCall DEF IndInv
<1>6. Alone' /\ StatusInv' /\ ViewInv' /\ ReplayInv'
  BY LocalStep
<1>7. \A i \in Slots : Opens(t, i) => l.fd = i /\ l.ok
  BY DEF Opens
<1>8. SlotInv'
  BY <1>2, <1>7, SlotStep DEF history, table
<1> QED
  BY <1>4, <1>5, <1>6, <1>8 DEF IndInv

LEMMA FatSyncedInv ==
    ASSUME IndInv, NEW t \in Tasks, FatSynced(t)
    PROVE  IndInv'
<1>1. /\ pc[t] = "fat" /\ loc[t].acc # <<>> /\ loc' = [loc EXCEPT ![t].acc = Tail(@)]
      /\ UNCHANGED <<volume, table, transLock, ctxLock, fatLock, pc, faults, history>>
  BY DEF FatSynced, Access
<1>2. ValueInv /\ CallAt(pc[t], loc[t]) /\ loc[t] \in Locals
  BY <1>1 DEF IndInv, CallInv, ValueInv
<1>3. PICK l : l = [loc[t] EXCEPT !.acc = Tail(loc[t].acc)]
  OBVIOUS
<1>4. /\ l \in Locals
      /\ l.op = loc[t].op /\ l.id = loc[t].id /\ l.fd = loc[t].fd /\ l.mine = loc[t].mine
      /\ l.todo = loc[t].todo /\ l.ok = loc[t].ok
  <2>1. Tail(loc[t].acc) \in Seq(Accesses)
    BY <1>1, <1>2 DEF Locals
  <2> QED
    BY <1>2, <1>3, <2>1 DEF Locals
<1>5. Moves(t, "fat", l)
  BY <1>1, <1>2, <1>3 DEF Moves, ValueInv
<1>6. loc[t].op \notin NoDisk
  BY <1>1, <1>2 DEF CallAt
<1> QED
  BY <1>1, <1>4, <1>5, <1>6, AccessStep

\* A FatFS function that ends with a disk error.
LEMMA FailsFacts ==
    ASSUME ValueInv, NEW t \in Tasks, CallAt(pc[t], loc[t]), Fails(t)
    PROVE  \E l \in Locals :
              /\ loc' = [loc EXCEPT ![t] = l]
              /\ l.op = loc[t].op /\ l.id = loc[t].id /\ l.fd = loc[t].fd /\ l.mine = loc[t].mine
              /\ l.todo = loc[t].todo /\ l.ok = loc[t].ok /\ l.acc = <<>>
<1> DEFINE results == IF Now(t).f = "f_read" THEN {"error", "partial"}
                      ELSE IF loc[t].wrote THEN {"partial"} ELSE {"error"}
           st == IF Now(t).f \in Aborting THEN "failed" ELSE "same"
<1>1. PICK res \in results : loc' = [loc EXCEPT ![t] = [loc[t] EXCEPT !.acc = <<>>, !.res = res, !.st = st]]
  BY DEF Fails, Failing
<1>2. res \in Results /\ st \in FileStates \cup {"same"} /\ <<>> \in Seq(Accesses)
  BY <1>1 DEF Results, FileStates
<1>3. loc[t] \in Locals
  BY DEF ValueInv
<1> HIDE DEF results, st
<1>4. PICK l : l = [loc[t] EXCEPT !.acc = <<>>, !.res = res, !.st = st]
  OBVIOUS
<1>5. /\ l \in Locals
      /\ l.op = loc[t].op /\ l.id = loc[t].id /\ l.fd = loc[t].fd /\ l.mine = loc[t].mine
      /\ l.todo = loc[t].todo /\ l.ok = loc[t].ok /\ l.acc = <<>>
  BY <1>2, <1>3, <1>4 DEF Locals
<1> QED
  BY <1>1, <1>4, <1>5

\* The checks of esp_jrnl_write.
LEMMA EspJrnlWriteInv ==
    ASSUME IndInv, NEW t \in Tasks, EspJrnlWrite(t)
    PROVE  IndInv'
<1>1. /\ pc[t] = "fat" /\ loc[t].acc # <<>> /\ (Head(loc[t].acc).kind = "put" \/ win.dirty)
      /\ UNCHANGED <<volume, table, transLock, ctxLock, fatLock, faults, history>>
  BY DEF EspJrnlWrite, Access, MustFlush
<1>2. ValueInv /\ CallAt(pc[t], loc[t]) /\ loc[t] \in Locals
  BY <1>1 DEF IndInv, CallInv, ValueInv
<1>3. loc[t].op \notin NoDisk
  BY <1>1, <1>2 DEF CallAt
<1>4. CASE MayWrite
  <2>1. Moves(t, "append", loc[t])
    BY <1>2, <1>4 DEF EspJrnlWrite, Goto, Moves, ValueInv
  <2> QED
    BY <1>1, <1>2, <1>3, <1>4, <2>1, AccessStep DEF MayWrite
<1>5. CASE ~MayWrite
  <2>1. Fails(t) /\ pc' = pc
    BY <1>5 DEF EspJrnlWrite
  <2>2. PICK l \in Locals :
              /\ loc' = [loc EXCEPT ![t] = l]
              /\ l.op = loc[t].op /\ l.id = loc[t].id /\ l.fd = loc[t].fd /\ l.mine = loc[t].mine
              /\ l.todo = loc[t].todo /\ l.ok = loc[t].ok /\ l.acc = <<>>
    BY <1>2, <2>1, FailsFacts
  <2>3. Moves(t, "fat", l)
    BY <1>1, <1>2, <2>1, <2>2 DEF Moves, ValueInv
  <2> QED
    BY <1>1, <2>2, <2>3, AccessStep
<1> QED
  BY <1>4, <1>5

\* A FatFS function that is at work on the disk.
LEMMA AtFat ==
    ASSUME IndInv, NEW t \in Tasks, pc[t] \in {"fat", "append"}
    PROVE  /\ ValueInv /\ CallAt(pc[t], loc[t]) /\ loc[t] \in Locals
           /\ loc[t].todo # <<>> /\ Now(t).f \in FatFunctions
           /\ loc[t].op = "open" => loc[t].todo = OpenFile
           /\ loc[t].op = "close" => loc[t].todo = CloseFile
           /\ Now(t).on = "fd" => loc[t].fd \in Slots /\ loc[t].op \in (OnDescriptor \ NoDisk) \cup {"open"}
<1>1. ValueInv /\ CallAt(pc[t], loc[t]) /\ loc[t] \in Locals
  BY DEF IndInv, CallInv, ValueInv
<1>2. loc[t].todo # <<>> /\ Now(t).f \in FatFunctions /\ (Now(t).on = "fd" => loc[t].fd \in Slots)
  BY <1>1 DEF CallAt, Now
<1>3. "lock" \notin FatFunctions /\ "unlock" \notin FatFunctions /\ "get_next_fd" \notin FatFunctions
  BY DEF FatFunctions
<1>4. ASSUME loc[t].op = "open" PROVE loc[t].todo = OpenFile
  <2>1. loc[t].todo \in {OpenLock, OpenSlot, OpenFile, Unlock}
    BY <1>1, <1>2, <1>4 DEF CallAt, OpenAt
  <2> QED
    BY <1>2, <1>3, <2>1, ShapeSteps DEF Now
<1>5. ASSUME loc[t].op = "close" PROVE loc[t].todo = CloseFile
  <2>1. loc[t].todo \in {CloseLock, CloseFile, Unlock}
    BY <1>1, <1>2, <1>5 DEF CallAt
  <2> QED
    BY <1>2, <1>3, <2>1, ShapeSteps DEF Now
<1>6. ASSUME Now(t).on = "fd" PROVE loc[t].op \in (OnDescriptor \ NoDisk) \cup {"open"}
  <2>1. loc[t].op # "open" => Now(t).on \in Objects(loc[t].op)
    BY <1>1, <1>2, StepFields DEF CallAt, Now
  <2>2. "fd" \notin LocalObjects
    BY DEF LocalObjects
  <2>3. loc[t].op \notin NoDisk
    <3> SUFFICES ASSUME loc[t].op \in NoDisk PROVE FALSE
      OBVIOUS
    <3>1. loc[t].todo = CloseDir
      BY <1>1, <1>2 DEF CallAt
    <3> QED
      BY <1>6, <3>1, ShapeSteps DEF Now
  <2> QED
    BY <1>6, <2>1, <2>2, <2>3 DEF Objects
<1> QED
  BY <1>1, <1>2, <1>4, <1>5, <1>6

LEMMA FatExitInv ==
    ASSUME IndInv, NEW t \in Tasks, FatExit(t)
    PROVE  IndInv'
<1>1. /\ pc[t] = "fat" /\ fatLock' = NoTask
      /\ loc' = [loc EXCEPT ![t] = After(t, loc[t].res)] /\ pc' = [pc EXCEPT ![t] = "run"]
      /\ UNCHANGED <<volume, held, transLock, ctxLock, faults, history>>
  BY DEF FatExit, Goto
<1>2. /\ ValueInv /\ CallAt(pc[t], loc[t]) /\ loc[t] \in Locals
      /\ loc[t].todo # <<>> /\ Now(t).f \in FatFunctions
      /\ loc[t].op = "open" => loc[t].todo = OpenFile
      /\ loc[t].op = "close" => loc[t].todo = CloseFile
      /\ Now(t).on = "fd" => loc[t].fd \in Slots /\ loc[t].op \in (OnDescriptor \ NoDisk) \cup {"open"}
  BY <1>1, AtFat
<1>3. loc[t].res \in Results /\ Now(t).f # "get_next_fd"
  BY <1>2 DEF Locals, FatFunctions
<1>4. PICK l : l = After(t, loc[t].res)
  OBVIOUS
<1>5. /\ l \in Locals /\ CallAt("run", l)
      /\ l.op = loc[t].op /\ l.id = loc[t].id /\ l.fd = loc[t].fd /\ l.mine = loc[t].mine
      /\ l.ok = (loc[t].ok /\ loc[t].res \notin Now(t).bad)
  BY <1>2, <1>3, <1>4, AfterFacts, AfterCall
<1>6. Moves(t, "run", l) /\ "run" \in Places \ {"idle"}
  BY <1>1, <1>4 DEF Moves, Places
<1>7. CallInv'
  BY <1>2, <1>5, <1>6, MoveCall DEF IndInv
<1>8. Alone' /\ StatusInv' /\ ViewInv' /\ ReplayInv'
  BY <1>1, <1>5, <1>6, LocalStep
<1>9. CASE Now(t).on # "fd"
  <2>1. files' = files
    BY <1>9 DEF FatExit
  <2>2. loc[t].op # "open" /\ loc[t].op # "close"
    BY <1>2, <1>9, ShapeSteps DEF Now
  <2>3. ValueInv'
    BY <1>1, <1>2, <1>5, <1>6, <2>1, LocalValue DEF ValueInv
  <2>4. \A i \in Slots : Opens(t, i) => l.fd = i /\ l.ok
    BY <2>2 DEF Opens
  <2>5. SlotInv'
    BY <1>1, <1>5, <1>6, <2>1, <2>2, <2>4, SlotStep DEF history
  <2> QED
    BY <1>7, <1>8, <2>3, <2>5 DEF IndInv
<1>10. CASE Now(t).on = "fd"
  <2> DEFINE fd == loc[t].fd
             st == FileAfter(t, files[loc[t].fd].st)
  <2>1. PICK append : /\ append \in BOOLEAN
                      /\ files' = [files EXCEPT ![fd] = [st |-> st, append |-> append]]
    BY <1>2, <1>10 DEF FatExit, ValueInv
  <2>2. st \in FileStates
    BY <1>2, <1>10 DEF FileAfter, Locals, ValueInv, FileStates
  <2>3. files' \in [Slots -> [st : FileStates, append : BOOLEAN]]
    BY <1>2, <2>1, <2>2 DEF ValueInv
  <2>4. ValueInv'
    BY <1>1, <1>2, <1>5, <1>6, <2>3, LocalValue DEF ValueInv
  <2>5. fd \in Slots /\ files'[fd].st = st /\ \A i \in Slots : i # fd => files'[i] = files[i]
    BY <1>2, <1>10, <2>1 DEF ValueInv
  <2>6. Active(t) /\ pc[t] # "idle"
    <3>1. "open" \notin NoDisk
      BY DEF NoDisk
    <3> QED
      BY <1>1, <1>2, <1>10, <3>1 DEF Active
  <2>7. /\ pc'[t] = "run" /\ loc'[t] = l
        /\ \A u \in Tasks : u # t => pc'[u] = pc[u] /\ loc'[u] = loc[u]
    BY <1>2, <1>5, <1>6, MoveFacts
  <2>8. \A u \in Tasks : pc'[u] # "idle" /\ loc'[u].op \notin NoDisk => u = t
    BY <2>6, <2>7, OthersIdle
  <2>9. "close" \notin NoDisk /\ "open" \notin NoDisk
    BY DEF NoDisk
  <2> HIDE DEF st
  <2>10. loc[t].op = "close" => st = "free"
    BY <1>2, ShapeSteps DEF st, FileAfter, Now
  <2>11. loc[t].op = "open" /\ st # "free" => l.ok
    <3> SUFFICES ASSUME loc[t].op = "open", st # "free" PROVE l.ok
      OBVIOUS
    <3>1. Now(t).f = "f_open" /\ Now(t).bad = Failed
      BY <1>2, ShapeSteps DEF Now
    <3>2. loc[t].res = "ok"
      BY <3>1 DEF st, FileAfter
    <3>3. loc[t].ok
      BY <1>2 DEF CallAt, OpenAt
    <3> QED
      BY <1>5, <3>1, <3>2, <3>3 DEF Failed
  <2>12. ASSUME NEW u \in Tasks, pc'[u] # "idle", loc'[u].op = "close"
         PROVE  files'[loc'[u].fd].st = "free"
    BY <2>5, <2>7, <2>8, <2>9, <2>10, <2>12, <1>5
  <2>13. ASSUME "lost" \notin events', NEW u \in Tasks, pc'[u] # "idle", loc'[u].op \in OnDescriptor \ NoDisk
         PROVE  loc'[u].fd \in held'
    BY <1>1, <1>5, <2>6, <2>7, <2>8, <2>13 DEF IndInv, SlotInv, history
  <2>14. ASSUME "lost" \notin events', NEW i \in Slots, files'[i].st # "free", i \notin held'
         PROVE  Opens(t, i)'
    <3>1. "lost" \notin events /\ i \notin held
      BY <1>1, <2>14 DEF history
    <3>2. CASE i # fd
      <4>1. PICK u \in Tasks : Opens(u, i)
        BY <2>5, <2>14, <3>1, <3>2 DEF IndInv, SlotInv
      <4>2. u = t
        BY <2>6, <2>9, <4>1, OthersIdle DEF Opens
      <4> QED
        BY <3>2, <4>1, <4>2 DEF Opens
    <3>3. CASE i = fd
      <4>1. loc[t].op = "open"
        BY <1>2, <1>10, <2>6, <3>1, <3>3 DEF IndInv, SlotInv
      <4> QED
        BY <1>5, <2>5, <2>7, <2>11, <2>14, <3>3, <4>1 DEF Opens
    <3> QED
      BY <3>2, <3>3
  <2>15. SlotInv'
    BY <2>12, <2>13, <2>14 DEF SlotInv
  <2> QED
    BY <1>7, <1>8, <2>4, <2>15 DEF IndInv
<1> QED
  BY <1>9, <1>10

-----------------------------------------------------------------------------
(* Sector accesses *)

LEMMA AccessSectors ==
    ASSUME ValueInv, NEW t \in Tasks, loc[t].acc # <<>>, Head(loc[t].acc).kind \in {"read", "modify"}
    PROVE  Sector(t) \in {Dir, Fat} /\ Sector(t) \in Sectors /\ Sector(t) # None
<1>1. Head(loc[t].acc) \in Accesses
  BY DEF ValueInv, Locals
<1>2. Put.kind = "put" /\ Sync.kind = "sync"
  BY DEF Put, Sync
<1>3. Head(loc[t].acc).s \in {Dir, Fat}
  BY <1>1, <1>2 DEF Accesses
<1> QED
  BY <1>3 DEF Sector, Sectors, Dir, Fat, None

\* A call that has an access to make may reach the disk.
LEMMA AccessActive ==
    ASSUME IndInv, NEW t \in Tasks, pc[t] \in {"fat", "append"}, pc[t] = "append" \/ loc[t].acc # <<>>
    PROVE  Active(t) /\ pc[t] # "idle" /\ loc[t].acc # <<>>
<1>1. CallAt(pc[t], loc[t])
  BY DEF IndInv, CallInv
<1> QED
  BY <1>1 DEF CallAt, Active

\* Steps of the one call that reaches the disk, inside a FatFS function.
LEMMA FatStep ==
    ASSUME IndInv, NEW t \in Tasks, pc[t] \in {"fat", "append"}, Active(t), NEW l \in Locals, Moves(t, "fat", l),
           l.op = loc[t].op, l.id = loc[t].id, l.fd = loc[t].fd, l.todo = loc[t].todo, l.ok = loc[t].ok,
           UNCHANGED <<files, held>>, events \subseteq events',
           status' = status, log' = log \/ status = "open"
    PROVE  CallInv' /\ Alone' /\ StatusInv' /\ SlotInv' /\ ReplayInv'
<1>1. /\ ValueInv /\ CallAt(pc[t], loc[t]) /\ pc[t] # "idle" /\ loc[t].op \notin NoDisk
      /\ "fat" \in Places \ {"idle"} /\ "fat" \notin Transferring /\ pc[t] \notin Transferring
  BY DEF IndInv, CallInv, Active, Places, Transferring
<1>2. CallInv'
  <2>1. CallAt("fat", l)
    BY <1>1 DEF CallAt, OpenAt, Ended
  <2> QED
    BY <1>1, <2>1, MoveCall DEF IndInv
<1>3. Alone'
  BY <1>1, MoveAlone DEF IndInv
<1>4. SlotInv'
  <2>1. \A i \in Slots : Opens(t, i) => l.fd = i /\ l.ok
    BY DEF Opens
  <2> QED
    BY <1>1, <2>1, SlotStep
<1>5. /\ pc'[t] = "fat" /\ loc'[t] = l
      /\ \A u \in Tasks : u # t => pc'[u] = pc[u] /\ loc'[u] = loc[u]
  BY <1>1, MoveFacts
<1>6. \A u \in Tasks : u # t /\ pc'[u] # "idle" => loc'[u].op \notin Wrapped /\ pc'[u] \in {"run", "fat"}
  BY <1>5, OthersIdle
<1>7. StatusInv'
  <2>1. loc[t].op \in Wrapped => status = "open"
    BY <1>1 DEF IndInv, StatusInv
  <2>2. status = "ready" => log' = <<>>
    BY DEF IndInv, StatusInv
  <2> QED
    BY <1>1, <1>5, <1>6, <2>1, <2>2 DEF StatusInv
<1>8. ReplayInv'
  BY <1>5, <1>6 DEF ReplayInv
<1> QED
  BY <1>2, <1>3, <1>4, <1>7, <1>8

LEMMA FatTouchInv ==
    ASSUME IndInv, NEW t \in Tasks, FatTouch(t)
    PROVE  IndInv'
<1>1. /\ pc[t] = "fat" /\ loc[t].acc # <<>> /\ Head(loc[t].acc).kind \in {"read", "modify"} /\ win.s = Sector(t)
      /\ UNCHANGED <<jrnl, disk, table, transLock, ctxLock, fatLock, pc, faults, history>>
  BY DEF FatTouch, Access
<1>2. ValueInv /\ ViewInv /\ CallAt(pc[t], loc[t]) /\ loc[t] \in Locals
  BY <1>1 DEF IndInv, CallInv, ValueInv
<1>3. Sector(t) \in {Dir, Fat} /\ Sector(t) \in Sectors /\ Sector(t) # None
  BY <1>1, <1>2, AccessSectors
<1>4. Active(t)
  BY <1>1, AccessActive
<1>5. /\ loc[t].id \in 1 .. MaxCalls /\ Tail(loc[t].acc) \in Seq(Accesses)
      /\ loc[t].mine \cup {Sector(t)} \in SUBSET Sectors /\ loc[t].mine \in SUBSET Sectors
  BY <1>1, <1>2, <1>3 DEF CallAt, Locals
<1>6. /\ status' = status /\ stored' = stored /\ log' = log /\ disk' = disk /\ good' = good /\ events' = events
      /\ calls' = calls /\ cancelled' = cancelled /\ files' = files /\ held' = held /\ faults' = faults
      /\ {transLock', ctxLock', fatLock'} \subseteq Tasks \cup {NoTask} /\ pc' = [pc EXCEPT ![t] = "fat"]
  BY <1>1, <1>2 DEF jrnl, table, history, ValueInv
<1>7. Image' = Image /\ (Kept' <=> Kept)
  BY <1>6, ImageSame DEF Kept
<1>8. CASE Access(t, {"modify"})
  <2>1. /\ win' = [win EXCEPT !.c = @ \cup {loc[t].id}, !.dirty = TRUE]
        /\ loc' = [loc EXCEPT ![t].acc = Tail(@), ![t].mine = @ \cup {Sector(t)}]
    BY <1>8 DEF FatTouch
  <2>2. PICK l : l = [loc[t] EXCEPT !.acc = Tail(loc[t].acc), !.mine = loc[t].mine \cup {Sector(t)}]
    OBVIOUS
  <2>3. /\ l \in Locals
        /\ l.op = loc[t].op /\ l.id = loc[t].id /\ l.fd = loc[t].fd /\ l.mine = loc[t].mine \cup {Sector(t)}
        /\ l.todo = loc[t].todo /\ l.ok = loc[t].ok
    BY <1>2, <1>5, <2>2 DEF Locals
  <2>4. Moves(t, "fat", l)
    BY <1>2, <1>6, <2>1, <2>2 DEF Moves, ValueInv
  <2>5. CallInv' /\ Alone' /\ StatusInv' /\ SlotInv' /\ ReplayInv'
    BY <1>1, <1>4, <1>6, <2>3, <2>4, FatStep
  <2>6. /\ win'.s = win.s /\ win'.c = win.c \cup {loc[t].id} /\ win'.dirty = TRUE
        /\ win' \in [s : {Dir, Fat, None}, c : Contents, dirty : BOOLEAN]
    <3>1. win \in [s : {Dir, Fat, None}, c : Contents, dirty : BOOLEAN]
      BY <1>2 DEF ValueInv
    <3>2. win.c \cup {loc[t].id} \in Contents
      BY <1>5, <3>1 DEF Contents
    <3> QED
      BY <2>1, <3>1, <3>2
  <2>7. /\ pc'[t] = "fat" /\ loc'[t] = l /\ pc' \in [Tasks -> Places] /\ loc' \in [Tasks -> Locals]
        /\ \A u \in Tasks : u # t => pc'[u] = pc[u] /\ loc'[u] = loc[u]
    BY <1>2, <2>3, <2>4, MoveFacts DEF Places
  <2>8. ValueInv'
    BY <1>2, <1>6, <2>6, <2>7 DEF ValueInv
  <2>9. \A s \in Sectors : View(s) \subseteq View(s)'
    BY <1>7, <2>6 DEF View
  <2>10. Kept' /\ pc'[t] # "idle" => \A s \in loc'[t].mine : loc'[t].id \in View(s)'
    <3> SUFFICES ASSUME Kept', NEW s \in l.mine PROVE l.id \in View(s)'
      BY <2>7
    <3>1. CASE s = Sector(t)
      BY <1>1, <2>3, <2>6, <3>1 DEF View
    <3>2. CASE s \in loc[t].mine
      <4>1. l.id \in View(s) /\ s \in Sectors
        BY <1>1, <1>2, <1>5, <1>7, <2>3, <3>2 DEF ViewInv
      <4> QED
        BY <2>9, <4>1
    <3> QED
      BY <2>3, <3>1, <3>2
  <2>11. /\ Kept' => \A u \in Tasks : pc'[u] # "idle" => \A s \in loc'[u].mine : loc'[u].id \in View(s)'
         /\ UpdatesKept'
    BY <1>2, <1>6, <1>7, <2>7, <2>9, <2>10, ViewKept
  <2>12. ViewInv'
    BY <1>1, <1>3, <2>6, <2>11 DEF ViewInv
  <2> QED
    BY <2>5, <2>8, <2>12 DEF IndInv
<1>9. CASE ~Access(t, {"modify"})
  <2>1. win' = win /\ loc' = [loc EXCEPT ![t].acc = Tail(@)]
    BY <1>9 DEF FatTouch
  <2>2. PICK l : l = [loc[t] EXCEPT !.acc = Tail(loc[t].acc)]
    OBVIOUS
  <2>3. /\ l \in Locals
        /\ l.op = loc[t].op /\ l.id = loc[t].id /\ l.fd = loc[t].fd /\ l.mine = loc[t].mine
        /\ l.todo = loc[t].todo /\ l.ok = loc[t].ok
    BY <1>2, <1>5, <2>2 DEF Locals
  <2>4. Moves(t, "fat", l)
    BY <1>2, <1>6, <2>1, <2>2 DEF Moves, ValueInv
  <2> QED
    BY <1>1, <1>4, <2>1, <2>3, <2>4, AccessStep DEF volume, Active
<1> QED
  BY <1>8, <1>9

LEMMA EspJrnlReadInv ==
    ASSUME IndInv, NEW t \in Tasks, EspJrnlRead(t)
    PROVE  IndInv'
<1>1. /\ pc[t] = "fat" /\ loc[t].acc # <<>> /\ Head(loc[t].acc).kind \in {"read", "modify"}
      /\ win.s # Sector(t) /\ ~win.dirty
      /\ UNCHANGED <<jrnl, disk, table, transLock, ctxLock, fatLock, pc, calls, good, cancelled>>
  BY DEF EspJrnlRead, Access
<1>2. ValueInv /\ ViewInv /\ CallAt(pc[t], loc[t]) /\ loc[t] \in Locals
  BY <1>1 DEF IndInv, CallInv, ValueInv
<1>3. Sector(t) \in {Dir, Fat} /\ Sector(t) \in Sectors /\ Sector(t) # None
  BY <1>1, <1>2, AccessSectors
<1>4. Active(t)
  BY <1>1, AccessActive
<1>5. PICK l \in Locals, new \in {[s |-> Sector(t), c |-> disk[Sector(t)], dirty |-> FALSE],
                                  [win EXCEPT !.s = None, !.c = {}]} :
         /\ win' = new
         /\ loc' = [loc EXCEPT ![t] = l]
         /\ l.op = loc[t].op /\ l.id = loc[t].id /\ l.fd = loc[t].fd /\ l.mine = loc[t].mine
         /\ l.todo = loc[t].todo /\ l.ok = loc[t].ok
         /\ faults' \in Nat /\ events \subseteq events' /\ events' \subseteq Events
         /\ Kept' /\ new.s # None => disk[Sector(t)] = Image[Sector(t)]
  <2>1. CASE /\ win' = [s |-> Sector(t), c |-> disk[Sector(t)], dirty |-> FALSE]
             /\ events' = IF disk[Sector(t)] = Image[Sector(t)] THEN events ELSE events \cup {"stale"}
             /\ UNCHANGED <<loc, faults>>
    <3>1. loc' = [loc EXCEPT ![t] = loc[t]]
      BY <1>2, <2>1 DEF ValueInv
    <3>2. Kept' => disk[Sector(t)] = Image[Sector(t)]
      BY <2>1 DEF Kept
    <3>3. faults' \in Nat /\ events \subseteq events' /\ events' \subseteq Events
      BY <1>2, <2>1 DEF ValueInv, Events
    <3> QED
      BY <1>2, <2>1, <3>1, <3>2, <3>3
  <2>2. CASE Fault /\ win' = [win EXCEPT !.s = None, !.c = {}] /\ Fails(t) /\ UNCHANGED events
    <3>1. faults' \in Nat /\ events' \subseteq Events
      BY <1>2, <2>2 DEF ValueInv, Fault
    <3>2. [win EXCEPT !.s = None, !.c = {}].s = None
      BY <1>2 DEF ValueInv
    <3> QED
      BY <1>2, <2>2, <3>1, <3>2, FailsFacts
  <2> QED
    BY <2>1, <2>2 DEF EspJrnlRead
<1>6. /\ status' = status /\ stored' = stored /\ log' = log /\ disk' = disk /\ good' = good
      /\ calls' = calls /\ cancelled' = cancelled /\ files' = files /\ held' = held
      /\ {transLock', ctxLock', fatLock'} \subseteq Tasks \cup {NoTask} /\ pc' = [pc EXCEPT ![t] = "fat"]
  BY <1>1, <1>2 DEF jrnl, table, ValueInv
<1>7. Image' = Image /\ (Kept' => Kept)
  BY <1>5, <1>6, ImageSame DEF Kept
<1>8. Moves(t, "fat", l)
  BY <1>5, <1>6 DEF Moves
<1>9. CallInv' /\ Alone' /\ StatusInv' /\ SlotInv' /\ ReplayInv'
  BY <1>1, <1>4, <1>5, <1>6, <1>8, FatStep
<1>10. /\ pc'[t] = "fat" /\ loc'[t] = l /\ pc' \in [Tasks -> Places] /\ loc' \in [Tasks -> Locals]
       /\ \A u \in Tasks : u # t => pc'[u] = pc[u] /\ loc'[u] = loc[u]
  BY <1>2, <1>5, <1>8, MoveFacts DEF Places
<1>11. /\ win' \in [s : {Dir, Fat, None}, c : Contents, dirty : BOOLEAN] /\ win'.dirty = FALSE
       /\ \/ win'.s = Sector(t) /\ win'.c = disk[Sector(t)]
          \/ win'.s = None
  <2>1. disk[Sector(t)] \in Contents /\ {} \in Contents
    BY <1>2, <1>3 DEF ValueInv, Contents
  <2>2. win.dirty = FALSE
    BY <1>1, <1>2 DEF ValueInv
  <2>3. win \in [s : {Dir, Fat, None}, c : Contents, dirty : BOOLEAN]
    BY <1>2 DEF ValueInv
  <2>4. CASE new = [s |-> Sector(t), c |-> disk[Sector(t)], dirty |-> FALSE]
    BY <1>3, <1>5, <2>1, <2>4
  <2>5. CASE new = [win EXCEPT !.s = None, !.c = {}]
    BY <1>5, <2>1, <2>2, <2>3, <2>5
  <2> QED
    BY <1>5, <2>4, <2>5
<1>12. ValueInv'
  BY <1>2, <1>5, <1>6, <1>10, <1>11 DEF ValueInv
<1>13. Kept' /\ win'.s # None => win'.c = Image[win'.s]
  BY <1>5, <1>11
<1>14. Kept' => \A s \in Sectors : View(s) = Image[s] /\ View(s)' = Image[s]
  <2>1. None \notin Sectors
    BY DEF None, Sectors, Dir, Fat, Data
  <2>2. Kept /\ win.s # None => win.c = Image[win.s]
    BY <1>1, <1>2 DEF ViewInv
  <2> QED
    BY <1>7, <1>13, <2>1, <2>2 DEF View
<1>15. Kept' /\ pc'[t] # "idle" => \A s \in loc'[t].mine : loc'[t].id \in View(s)'
  <2>1. l.mine \subseteq Sectors
    BY <1>5 DEF Locals
  <2> QED
    BY <1>1, <1>2, <1>5, <1>7, <1>10, <1>14, <2>1 DEF ViewInv
<1>16. /\ Kept' => \A u \in Tasks : pc'[u] # "idle" => \A s \in loc'[u].mine : loc'[u].id \in View(s)'
       /\ UpdatesKept'
  BY <1>2, <1>6, <1>7, <1>10, <1>14, <1>15, ViewKept
<1>17. ViewInv'
  BY <1>7, <1>11, <1>13, <1>16 DEF ViewInv
<1> QED
  BY <1>9, <1>12, <1>17 DEF IndInv

LEMMA AppendRecordInv ==
    ASSUME IndInv, NEW t \in Tasks, AppendRecord(t)
    PROVE  IndInv'
<1> DEFINE put == Head(loc[t].acc).kind = "put"
<1>1. PICK rec : rec = IF put THEN [s |-> Data, c |-> Image[Data] \cup {loc[t].id}]
                              ELSE [s |-> win.s, c |-> win.c]
  OBVIOUS
<1>2. /\ pc[t] = "append" /\ pc' = [pc EXCEPT ![t] = "fat"]
      /\ UNCHANGED <<status, disk, table, transLock, ctxLock, fatLock, history>>
      /\ \/ /\ log' = Append(log, rec)
            /\ stored' = status
            /\ win' = IF put THEN win ELSE [win EXCEPT !.dirty = FALSE]
            /\ loc' = IF put THEN [loc EXCEPT ![t].acc = Tail(@), ![t].wrote = TRUE,
                                              ![t].mine = @ \cup {Data}]
                             ELSE loc
            /\ UNCHANGED faults
         \/ /\ Fault
            /\ log' \in {log, Append(log, rec)}
            /\ Fails(t)
            /\ UNCHANGED <<stored, win>>
  BY <1>1 DEF AppendRecord, Goto
<1>3. /\ ValueInv /\ ViewInv /\ CallAt(pc[t], loc[t]) /\ loc[t] \in Locals
      /\ win \in [s : {Dir, Fat, None}, c : Contents, dirty : BOOLEAN]
  BY <1>2 DEF IndInv, CallInv, ValueInv
<1>4. Active(t) /\ loc[t].acc # <<>>
  BY <1>2, AccessActive
<1>5. status = "open" /\ HasSpace /\ (put \/ win.dirty)
  BY <1>2 DEF IndInv, StatusInv
<1>6. /\ Data \in Sectors /\ win.s # Data /\ Data # None /\ None \notin Sectors
      /\ loc[t].id \in 1 .. MaxCalls /\ Image \in [Sectors -> Contents]
      /\ win.s # None => win.s \in Sectors
  <2>1. win.s \in {Dir, Fat, None}
    BY <1>3
  <2> QED
    BY <1>3, <2>1, ImageType DEF Sectors, Dir, Fat, Data, None, CallAt
<1>7. rec \in Record /\ (put => rec.s = Data /\ rec.c = Image[Data] \cup {loc[t].id})
      /\ (~put => rec.s = win.s /\ rec.c = win.c /\ win.dirty /\ win.s # None)
  <2>1. CASE put
    <3>1. Image[Data] \cup {loc[t].id} \in Contents
      BY <1>6 DEF Contents
    <3> QED
      BY <1>1, <1>6, <2>1, <3>1 DEF Record
  <2>2. CASE ~put
    <3>1. win.dirty /\ win.s # None
      BY <1>3, <1>5, <2>2 DEF ViewInv
    <3>2. win.c \in Contents /\ win.s \in Sectors
      BY <1>3, <1>6, <3>1
    <3> QED
      BY <1>1, <2>2, <3>1, <3>2 DEF Record
  <2> QED
    BY <2>1, <2>2
<1>8. PICK l \in Locals :
         /\ loc' = [loc EXCEPT ![t] = l]
         /\ l.op = loc[t].op /\ l.id = loc[t].id /\ l.fd = loc[t].fd
         /\ l.todo = loc[t].todo /\ l.ok = loc[t].ok
         /\ \/ l.mine = loc[t].mine
            \/ l.mine = loc[t].mine \cup {Data} /\ put /\ log' = Append(log, rec)
  <2>1. CASE Fails(t)
    BY <1>3, <2>1, FailsFacts
  <2>2. CASE put /\ log' = Append(log, rec)
             /\ loc' = [loc EXCEPT ![t].acc = Tail(@), ![t].wrote = TRUE, ![t].mine = @ \cup {Data}]
    <3>1. PICK l : l = [loc[t] EXCEPT !.acc = Tail(loc[t].acc), !.wrote = TRUE, !.mine = loc[t].mine \cup {Data}]
      OBVIOUS
    <3>2. Tail(loc[t].acc) \in Seq(Accesses) /\ loc[t].mine \cup {Data} \in SUBSET Sectors
      BY <1>3, <1>4, <1>6 DEF Locals
    <3>3. /\ l \in Locals
          /\ l.op = loc[t].op /\ l.id = loc[t].id /\ l.fd = loc[t].fd /\ l.mine = loc[t].mine \cup {Data}
          /\ l.todo = loc[t].todo /\ l.ok = loc[t].ok
      BY <1>3, <3>1, <3>2 DEF Locals
    <3>4. loc' = [loc EXCEPT ![t] = l]
      BY <1>3, <2>2, <3>1 DEF ValueInv
    <3> QED
      BY <2>2, <3>3, <3>4
  <2>3. CASE loc' = loc
    <3>1. loc' = [loc EXCEPT ![t] = loc[t]]
      BY <1>3, <2>3 DEF ValueInv
    <3> QED
      BY <1>3, <3>1
  <2> QED
    BY <1>2, <2>1, <2>2, <2>3
<1>9. /\ status' = status /\ disk' = disk /\ good' = good /\ events' = events
      /\ calls' = calls /\ cancelled' = cancelled /\ files' = files /\ held' = held
      /\ {transLock', ctxLock', fatLock'} \subseteq Tasks \cup {NoTask}
      /\ log' = log \/ log' = Append(log, rec)
      /\ stored' \in {"ready", "open", "commit"} /\ faults' \in Nat
  BY <1>2, <1>3 DEF table, history, ValueInv, Fault
<1>10. Moves(t, "fat", l)
  BY <1>2, <1>8 DEF Moves
<1>11. CallInv' /\ Alone' /\ StatusInv' /\ SlotInv' /\ ReplayInv'
  BY <1>2, <1>4, <1>5, <1>8, <1>9, <1>10, FatStep
<1>12. /\ pc'[t] = "fat" /\ loc'[t] = l /\ pc' \in [Tasks -> Places] /\ loc' \in [Tasks -> Locals]
       /\ \A u \in Tasks : u # t => pc'[u] = pc[u] /\ loc'[u] = loc[u]
  BY <1>3, <1>8, <1>10, MoveFacts DEF Places
<1>13. /\ win' \in [s : {Dir, Fat, None}, c : Contents, dirty : BOOLEAN]
       /\ win'.s = win.s /\ win'.c = win.c
       /\ win'.dirty => win.dirty
       /\ win.dirty /\ ~win'.dirty => ~put /\ log' = Append(log, rec)
  <2>1. CASE win' = win
    BY <1>3, <2>1
  <2>2. CASE ~put /\ log' = Append(log, rec) /\ win' = [win EXCEPT !.dirty = FALSE]
    BY <1>3, <2>2
  <2> QED
    BY <1>2, <2>1, <2>2
<1>14. /\ log' \in Seq([s : Sectors, c : Contents]) /\ 2 * Len(log') < StoreSize - 1
  <2>1. CASE log' = log
    BY <1>3, <2>1 DEF ValueInv
  <2>2. CASE log' = Append(log, rec)
    <3>1. log \in Seq(Record) /\ Len(log) \in Nat /\ 2 * Len(log) + 2 < StoreSize - 1
      BY <1>3, <1>5 DEF ValueInv, Record, HasSpace
    <3>2. log' \in Seq(Record) /\ Len(log') = Len(log) + 1
      BY <1>7, <2>2, <3>1
    <3> QED
      BY <3>1, <3>2, CallsAssumption DEF Record
  <2> QED
    BY <1>9, <2>1, <2>2
<1>15. ValueInv'
  BY <1>3, <1>9, <1>12, <1>13, <1>14 DEF ValueInv
<1>16. /\ \A s \in Sectors : s # rec.s => Image'[s] = Image[s]
       /\ log' = Append(log, rec) => Image'[rec.s] = rec.c
       /\ log' = log => Image'[rec.s] = Image[rec.s]
  <2>1. CASE log' = log
    <3>1. Image' = Image
      BY <1>9, <2>1, ImageSame
    <3>2. log # Append(log, rec)
      BY <1>3, <1>7 DEF ValueInv, Record
    <3> QED
      BY <2>1, <3>1, <3>2
  <2>2. CASE log' = Append(log, rec)
    <3>1. Image' = [Image EXCEPT ![rec.s] = rec.c]
      BY <1>3, <1>7, <1>9, <2>2, ImageAppend
    <3>2. log' # log /\ rec.s \in Sectors
      BY <1>3, <1>7, <2>2 DEF ValueInv, Record
    <3> QED
      BY <1>6, <2>2, <3>1, <3>2
  <2> QED
    BY <1>9, <2>1, <2>2
<1> HIDE DEF put
<1>17. \A s \in Sectors : View(s) \subseteq View(s)'
  <2> SUFFICES ASSUME NEW s \in Sectors PROVE View(s) \subseteq View(s)'
    OBVIOUS
  <2>1. CASE s = win.s
    BY <1>13, <2>1 DEF View
  <2>2. CASE s # win.s
    <3>1. Image[s] \subseteq Image'[s]
      BY <1>7, <1>9, <1>16, <2>2
    <3> QED
      BY <1>13, <2>2, <3>1 DEF View
  <2> QED
    BY <2>1, <2>2
<1>18. Kept' <=> Kept
  BY <1>9 DEF Kept
<1>19. Kept' /\ pc'[t] # "idle" => \A s \in loc'[t].mine : loc'[t].id \in View(s)'
  <2> SUFFICES ASSUME Kept', NEW s \in l.mine PROVE l.id \in View(s)'
    BY <1>12
  <2>1. CASE s \in loc[t].mine
    <3>1. l.id \in View(s) /\ s \in Sectors
      BY <1>2, <1>3, <1>8, <1>18, <2>1 DEF ViewInv, Locals
    <3> QED
      BY <1>17, <3>1
  <2>2. CASE s \notin loc[t].mine
    <3>1. s = Data /\ put /\ log' = Append(log, rec)
      BY <1>8, <2>2
    <3>2. l.id \in Image'[Data]
      BY <1>7, <1>8, <1>16, <3>1
    <3>3. win'.s # Data
      BY <1>6, <1>13
    <3> QED
      BY <3>1, <3>2, <3>3 DEF View
  <2> QED
    BY <2>1, <2>2
<1>20. /\ Kept' => \A u \in Tasks : pc'[u] # "idle" => \A s \in loc'[u].mine : loc'[u].id \in View(s)'
       /\ UpdatesKept'
  BY <1>3, <1>9, <1>12, <1>17, <1>18, <1>19, ViewKept
<1>21. Kept' /\ ~win'.dirty /\ win'.s # None => win'.c = Image'[win'.s]
  <2> SUFFICES ASSUME Kept', ~win'.dirty, win.s # None PROVE win.c = Image'[win.s]
    BY <1>13
  <2>1. CASE win.dirty
    BY <1>7, <1>13, <1>16, <2>1
  <2>2. CASE ~win.dirty
    <3>1. put /\ rec.s = Data
      BY <1>5, <1>7, <2>2 DEF put
    <3>2. win.c = Image[win.s] /\ win.s \in Sectors
      BY <1>3, <1>6, <1>18, <2>2 DEF ViewInv
    <3> QED
      BY <1>6, <1>16, <3>1, <3>2
  <2> QED
    BY <2>1, <2>2
<1>22. ViewInv'
  BY <1>3, <1>13, <1>20, <1>21 DEF ViewInv
<1> QED
  BY <1>11, <1>15, <1>22 DEF IndInv

-----------------------------------------------------------------------------
(* The end of a call *)

LEMMA RestingType == Resting \in Locals /\ Resting.mine = {}
<1>1. <<>> \in Seq(AllSteps) /\ <<>> \in Seq(Accesses) /\ 0 \in 0 .. MaxCalls /\ "ok" \in Results
  BY CallsAssumption DEF Results
<1> QED
  BY <1>1 DEF Resting, Locals

\* The descriptors and the histories after a call.
LEMMA ReturnFacts ==
    ASSUME IndInv, NEW t \in Tasks, pc[t] # "idle", loc[t].todo = <<>>,
           NEW success \in BOOLEAN, success => loc[t].ok, NEW seen \in SUBSET Events,
           Return(t, success, seen)
    PROVE  /\ Moves(t, "idle", Resting) /\ files' = files /\ calls' = calls
           /\ held' \subseteq Slots /\ good' \subseteq Sectors \X (1 .. MaxCalls)
           /\ events \subseteq events' /\ events' \subseteq Events
           /\ loc[t].op = "open" /\ success => held' = held \cup {loc[t].fd}
           /\ loc[t].op = "open" /\ loc[t].ok /\ ~success => "lost" \in events'
           /\ loc[t].op = "close" => held' = held \ {loc[t].fd}
           /\ loc[t].op \notin {"open", "close"} => held' = held
           /\ held' = held \/ loc[t].op \in {"open", "close"}
           /\ loc[t].op = "open" => held \subseteq held'
           /\ \A g \in good' : g \in good \/ (success /\ \E s \in loc[t].mine : g = <<s, loc[t].id>>)
<1>1. ValueInv /\ CallAt(pc[t], loc[t]) /\ loc[t] \in Locals
  BY DEF IndInv, CallInv, ValueInv
<1>2. Moves(t, "idle", Resting) /\ files' = files /\ calls' = calls
  BY DEF Return, Moves, Goto
<1>3. loc[t].op = "open" /\ success => loc[t].fd \in Slots
  BY <1>1 DEF CallAt, OpenAt
<1>4. /\ loc[t].op = "open" /\ success => held' = held \cup {loc[t].fd}
      /\ loc[t].op = "open" /\ ~success => held' = held
      /\ loc[t].op = "close" => held' = held \ {loc[t].fd}
      /\ loc[t].op \notin {"open", "close"} => held' = held
  BY DEF Return
<1>5. held' \subseteq Slots
  BY <1>1, <1>3, <1>4 DEF ValueInv
<1>6. /\ events \subseteq events' /\ events' \subseteq Events
      /\ loc[t].op = "open" /\ loc[t].ok /\ ~success => "lost" \in events'
  BY <1>1 DEF Return, ValueInv, Events
<1>7. /\ good' \subseteq Sectors \X (1 .. MaxCalls)
      /\ \A g \in good' : g \in good \/ (success /\ \E s \in loc[t].mine : g = <<s, loc[t].id>>)
  <2>1. loc[t].id \in 1 .. MaxCalls /\ loc[t].mine \subseteq Sectors
    BY <1>1 DEF CallAt, Locals
  <2>2. CASE success
    <3>1. good' = good \cup {<<s, loc[t].id>> : s \in loc[t].mine}
      BY <2>2 DEF Return
    <3> QED
      BY <1>1, <2>1, <2>2, <3>1 DEF ValueInv
  <2>3. CASE ~success
    BY <1>1, <2>3 DEF ValueInv, Return
  <2> QED
    BY <2>2, <2>3
<1> QED
  BY <1>2, <1>4, <1>5, <1>6, <1>7

\* An open gives its entry to the application or loses it; a close has freed its own.
LEMMA ReturnSlots ==
    ASSUME IndInv, NEW t \in Tasks, pc[t] # "idle", loc[t].todo = <<>>,
           NEW success \in BOOLEAN, success => loc[t].ok, NEW seen \in SUBSET Events,
           Return(t, success, seen)
    PROVE  SlotInv'
<1>1. /\ Moves(t, "idle", Resting) /\ files' = files /\ events \subseteq events'
      /\ loc[t].op = "open" /\ success => held' = held \cup {loc[t].fd}
      /\ loc[t].op = "open" /\ loc[t].ok /\ ~success => "lost" \in events'
      /\ loc[t].op = "close" => held' = held \ {loc[t].fd}
      /\ loc[t].op \notin {"open", "close"} => held' = held
      /\ held' = held \/ loc[t].op \in {"open", "close"}
      /\ loc[t].op = "open" => held \subseteq held'
  BY ReturnFacts
<1>2. /\ pc'[t] = "idle" /\ \A u \in Tasks : u # t => pc'[u] = pc[u] /\ loc'[u] = loc[u]
  BY <1>1, RestingType, MoveFacts DEF IndInv, Places
<1>3. ASSUME NEW u \in Tasks, pc'[u] # "idle", loc'[u].op = "close", loc'[u].todo \in {Unlock, <<>>}
      PROVE  files'[loc'[u].fd].st = "free"
  BY <1>1, <1>2, <1>3 DEF IndInv, SlotInv
<1>4. ASSUME "lost" \notin events', NEW u \in Tasks, pc'[u] # "idle", loc'[u].op \in OnDescriptor \ NoDisk
      PROVE  loc'[u].fd \in held'
  <2>1. u # t /\ pc[u] # "idle" /\ loc'[u] = loc[u] /\ "lost" \notin events
    BY <1>1, <1>2, <1>4
  <2>2. loc[u].fd \in held
    BY <1>4, <2>1 DEF IndInv, SlotInv
  <2>3. ~Active(t)
    BY <1>4, <2>1, OthersIdle
  <2>4. loc[t].op \notin {"open", "close"}
    BY <2>3 DEF Active, NoDisk
  <2> QED
    BY <1>1, <2>1, <2>2, <2>4
<1>5. ASSUME "lost" \notin events', NEW i \in Slots, files'[i].st # "free", i \notin held'
      PROVE  \E u \in Tasks : Opens(u, i)'
  <2>1. files[i].st # "free" /\ "lost" \notin events
    BY <1>1, <1>5
  <2>2. i \notin held
    <3> SUFFICES ASSUME i \in held PROVE FALSE
      OBVIOUS
    <3>1. loc[t].op = "close" /\ i = loc[t].fd
      BY <1>1, <1>5
    <3>2. files[loc[t].fd].st = "free"
      BY <3>1 DEF IndInv, SlotInv
    <3> QED
      BY <2>1, <3>1, <3>2
  <2>3. PICK u \in Tasks : Opens(u, i)
    BY <2>1, <2>2 DEF IndInv, SlotInv
  <2>4. u # t
    <3> SUFFICES ASSUME u = t PROVE FALSE
      OBVIOUS
    <3>1. loc[t].op = "open" /\ loc[t].fd = i /\ loc[t].ok
      BY <2>3 DEF Opens
    <3> QED
      BY <1>1, <1>5, <3>1
  <2>5. Opens(u, i)'
    BY <1>2, <2>3, <2>4 DEF Opens
  <2> QED
    BY <2>5
<1> QED
  BY <1>3, <1>4, <1>5 DEF SlotInv

\* Every step that ends a call.
LEMMA ReturnInv ==
    ASSUME IndInv, NEW t \in Tasks, pc[t] # "idle", loc[t].todo = <<>>,
           NEW success \in BOOLEAN, success => loc[t].ok, NEW seen \in SUBSET Events,
           Return(t, success, seen),
           win' = win, disk' = disk, log' \in {log, <<>>}, Kept' => Image' = Image,
           {status', stored'} \subseteq {"ready", "open", "commit"}, status' = "ready" => log' = <<>>,
           {transLock', ctxLock', fatLock'} \subseteq Tasks \cup {NoTask},
           faults' \in Nat, cancelled' \subseteq 1 .. MaxCalls,
           Active(t) \/ UNCHANGED jrnl
    PROVE  IndInv'
<1>1. /\ Moves(t, "idle", Resting) /\ files' = files /\ calls' = calls
      /\ held' \subseteq Slots /\ good' \subseteq Sectors \X (1 .. MaxCalls)
      /\ events \subseteq events' /\ events' \subseteq Events
      /\ \A g \in good' : g \in good \/ (success /\ \E s \in loc[t].mine : g = <<s, loc[t].id>>)
  BY ReturnFacts
<1>2. ValueInv /\ ViewInv /\ CallAt(pc[t], loc[t]) /\ loc[t] \in Locals
  BY DEF IndInv, CallInv, ValueInv
<1>3. /\ pc' \in [Tasks -> Places] /\ loc' \in [Tasks -> Locals]
      /\ pc'[t] = "idle" /\ \A u \in Tasks : u # t => pc'[u] = pc[u] /\ loc'[u] = loc[u]
  BY <1>1, <1>2, RestingType, MoveFacts DEF Places
<1>4. ValueInv'
  <2>1. <<>> \in Seq([s : Sectors, c : Contents]) /\ 2 * Len(<<>>) < StoreSize - 1
    BY CallsAssumption
  <2> QED
    BY <1>1, <1>2, <1>3, <2>1 DEF ValueInv
<1>5. CallInv' /\ Alone'
  <2>1. "idle" \in Places
    BY DEF Places
  <2> QED
    BY <1>1, <2>1, RestingType, MoveCall, MoveAlone DEF IndInv
<1>6. SlotInv'
  BY ReturnSlots
<1>7. StatusInv'
  <2>1. CASE Active(t)
    <3>1. \A u \in Tasks : pc'[u] # "idle" => loc'[u].op \notin Wrapped /\ pc'[u] # "append"
      BY <1>3, <2>1, OthersIdle
    <3> QED
      BY <1>3, <3>1 DEF StatusInv
  <2>2. CASE UNCHANGED jrnl
    <3>1. status' = status /\ stored' = stored /\ log' = log /\ (HasSpace' <=> HasSpace)
      BY <2>2 DEF jrnl, HasSpace
    <3>2. "idle" # "append"
      OBVIOUS
    <3> QED
      BY <1>3, <3>1, <3>2 DEF StatusInv, IndInv
  <2> QED
    BY <2>1, <2>2
<1>8. ReplayInv'
  <2>1. CASE Active(t)
    <3>1. \A u \in Tasks : pc'[u] \notin {"copy", "erased"}
      BY <1>3, <2>1, OthersIdle
    <3> QED
      BY <3>1 DEF ReplayInv
  <2>2. CASE UNCHANGED jrnl
    <3>1. log' = log /\ Image' = Image
      BY <2>2, ImageSame DEF jrnl
    <3>2. \A u \in Tasks : pc'[u] \in {"copy", "erased"} => pc'[u] = pc[u] /\ loc'[u] = loc[u]
      BY <1>3
    <3> QED
      BY <3>1, <3>2 DEF ReplayInv, IndInv
  <2> QED
    BY <2>1, <2>2
<1>9. ViewInv'
  <2>1. (Kept' => Kept) /\ (Kept' => \A s \in Sectors : View(s)' = View(s))
    BY <1>1 DEF Kept, View
  <2>2. Kept' => \A g \in good' : g \in good \/ g[2] \in View(g[1])'
    <3> SUFFICES ASSUME Kept', NEW s \in loc[t].mine PROVE loc[t].id \in View(s)'
      BY <1>1
    <3>1. s \in Sectors /\ loc[t].id \in View(s)
      BY <1>2, <2>1 DEF ViewInv, Locals
    <3> QED
      BY <2>1, <3>1
  <2>3. /\ Kept' => \A u \in Tasks : pc'[u] # "idle" => \A s \in loc'[u].mine : loc'[u].id \in View(s)'
        /\ UpdatesKept'
    BY <1>2, <1>3, <2>1, <2>2, ViewKept
  <2> QED
    BY <1>2, <2>1, <2>3 DEF ViewInv
<1> QED
  BY <1>4, <1>5, <1>6, <1>7, <1>8, <1>9 DEF IndInv

-----------------------------------------------------------------------------
(* esp_jrnl_stop *)

\* A call with a transaction, at its end, is the one that reaches the disk.
LEMMA WrappedActive ==
    ASSUME IndInv, NEW t \in Tasks, pc[t] # "idle",
           loc[t].op \in Wrapped \/ pc[t] \in Ended \cup {"cancel"}
    PROVE  /\ Active(t) /\ loc[t].op \in Wrapped /\ ValueInv /\ CallAt(pc[t], loc[t]) /\ loc[t] \in Locals
           /\ pc[t] \in Ended => loc[t].ok /\ loc[t].todo = <<>>
           /\ pc[t] = "cancel" => ~loc[t].ok /\ loc[t].todo = <<>>
           /\ IF pc[t] \in Transferring THEN status = "commit" /\ stored = "commit" ELSE status = "open"
<1>1. ValueInv /\ CallAt(pc[t], loc[t]) /\ loc[t] \in Locals
  BY DEF IndInv, CallInv, ValueInv
<1>2. {"run", "fat", "append"} \cap (Ended \cup {"cancel"}) = {}
  BY DEF Ended
<1>3. loc[t].op \in Wrapped
  BY <1>1, <1>2 DEF CallAt
<1>4. NoDisk \cap Wrapped = {}
  BY DEF NoDisk, Wrapped, FileWrappers, DirWrappers
<1> QED
  BY <1>1, <1>3, <1>4 DEF Active, CallAt, IndInv, StatusInv

\* Steps from the end of the operation to the end of the transfer.
LEMMA StopStep ==
    ASSUME IndInv, NEW t \in Tasks, pc[t] # "idle", loc[t].op \in Wrapped, loc[t].todo = <<>>,
           NEW p \in Ended \cup {"cancel"}, NEW l \in Locals, Moves(t, p, l),
           l.op = loc[t].op, l.id = loc[t].id, l.fd = loc[t].fd, l.mine = loc[t].mine,
           l.todo = loc[t].todo, l.ok = loc[t].ok, l.acc = loc[t].acc,
           IF p = "cancel" THEN ~loc[t].ok ELSE loc[t].ok,
           log' = log, win' = win, disk' \in [Sectors -> Contents], Image' = Image,
           UNCHANGED <<table, calls, good, cancelled>>,
           events \subseteq events', events' \subseteq events \cup {"leaked"},
           {status', stored'} \subseteq {"ready", "open", "commit"},
           IF p \in Transferring THEN status' = "commit" /\ stored' = "commit" ELSE status' = "open",
           {transLock', ctxLock', fatLock'} \subseteq Tasks \cup {NoTask}, faults' \in Nat,
           p \in {"copy", "erased"} =>
              /\ l.at \in 1 .. (Len(log) + 1)
              /\ p = "erased" => l.at <= Len(log)
              /\ \A s \in Sectors : (\A i \in DOMAIN log : log[i].s = s => i < l.at) => disk'[s] = Image[s]
    PROVE  IndInv'
<1>1. ValueInv /\ ViewInv /\ CallAt(pc[t], loc[t]) /\ Active(t)
  BY WrappedActive DEF IndInv
<1>2. p \in Places \ {"idle"} /\ p \notin {"run", "fat", "append"}
  BY DEF Places, Ended
<1>3. /\ pc' \in [Tasks -> Places] /\ loc' \in [Tasks -> Locals]
      /\ pc'[t] = p /\ loc'[t] = l
      /\ \A u \in Tasks : u # t => pc'[u] = pc[u] /\ loc'[u] = loc[u]
  BY <1>1, <1>2, MoveFacts
<1>4. \A u \in Tasks : u # t /\ pc'[u] # "idle" => loc'[u].op \notin Wrapped /\ pc'[u] \in {"run", "fat"}
  BY <1>1, <1>3, OthersIdle
<1>5. ValueInv'
  BY <1>1, <1>3 DEF ValueInv, table, Events
<1>6. CallInv' /\ Alone'
  <2>1. CallAt(p, l)
    BY <1>1, <1>2 DEF CallAt, OpenAt, Ended
  <2> QED
    BY <1>1, <1>2, <2>1, MoveCall, MoveAlone DEF IndInv
<1>7. SlotInv'
  <2>1. \A i \in Slots : Opens(t, i) => l.fd = i /\ l.ok
    BY DEF Opens
  <2> QED
    BY <1>2, <2>1, SlotStep DEF table
<1>8. StatusInv'
  <2>1. status' # "ready"
    OBVIOUS
  <2> QED
    BY <1>2, <1>3, <1>4, <2>1 DEF StatusInv
<1>9. ReplayInv'
  BY <1>3, <1>4 DEF ReplayInv
<1>10. ViewInv'
  <2>1. (Kept' <=> Kept) /\ \A s \in Sectors : View(s)' = View(s)
    BY DEF Kept, View
  <2>2. Kept' /\ pc'[t] # "idle" => \A s \in loc'[t].mine : loc'[t].id \in View(s)'
    <3> SUFFICES ASSUME Kept, NEW s \in loc[t].mine PROVE s \in Sectors /\ loc[t].id \in View(s)
      BY <1>3, <2>1
    <3> QED
      BY <1>1 DEF ViewInv, ValueInv, Locals
  <2>3. /\ Kept' => \A u \in Tasks : pc'[u] # "idle" => \A s \in loc'[u].mine : loc'[u].id \in View(s)'
        /\ UpdatesKept'
    BY <1>1, <1>3, <2>1, <2>2, ViewKept
  <2> QED
    BY <1>1, <2>1, <2>3 DEF ViewInv
<1> QED
  BY <1>5, <1>6, <1>7, <1>8, <1>9, <1>10 DEF IndInv

LEMMA FinishInv ==
    ASSUME IndInv, NEW t \in Tasks, Finish(t)
    PROVE  IndInv'
<1>1. /\ pc[t] = "run" /\ loc[t].todo = <<>>
      /\ UNCHANGED <<volume, transLock, ctxLock, fatLock, faults, cancelled>>
  BY DEF Finish
<1>2. ValueInv /\ CallAt(pc[t], loc[t]) /\ loc[t] \in Locals /\ StatusInv
  BY <1>1 DEF IndInv, CallInv, ValueInv
<1>3. /\ status' = status /\ stored' = stored /\ log' = log /\ disk' = disk /\ win' = win /\ Image' = Image
      /\ faults' \in Nat /\ cancelled' = cancelled /\ cancelled \subseteq 1 .. MaxCalls
      /\ {transLock', ctxLock', fatLock'} \subseteq Tasks \cup {NoTask}
      /\ {status', stored'} \subseteq {"ready", "open", "commit"} /\ disk \in [Sectors -> Contents]
  BY <1>1, <1>2, ImageSame DEF volume, jrnl, ValueInv
<1>4. CASE loc[t].op \in Wrapped
  <2>1. PICK p : p = IF loc[t].ok THEN "stop" ELSE "cancel"
    OBVIOUS
  <2>2. /\ pc' = [pc EXCEPT ![t] = p] /\ loc' = loc /\ UNCHANGED <<table, calls, good>>
        /\ events \subseteq events' /\ events' \subseteq events \cup {"leaked"}
    BY <1>4, <2>1 DEF Finish, Goto
  <2>3. Moves(t, p, loc[t])
    BY <1>2, <2>2 DEF Moves, ValueInv
  <2>4. status = "open"
    BY <1>1, <1>4, WrappedActive DEF Transferring
  <2>5. /\ p \in Ended \cup {"cancel"} /\ p \notin Transferring /\ p \notin {"copy", "erased"}
        /\ IF p = "cancel" THEN ~loc[t].ok ELSE loc[t].ok
    BY <2>1 DEF Ended, Transferring
  <2> QED
    BY <1>1, <1>2, <1>3, <1>4, <2>2, <2>3, <2>4, <2>5, StopStep
<1>5. CASE loc[t].op \notin Wrapped
  <2>1. Return(t, loc[t].ok, {}) /\ loc[t].ok \in BOOLEAN
    BY <1>2, <1>5 DEF Finish, Locals
  <2>2. UNCHANGED jrnl /\ (status' = "ready" => log' = <<>>)
    BY <1>2, <1>3 DEF jrnl, StatusInv
  <2> QED
    BY <1>1, <1>3, <2>1, <2>2, ReturnInv
<1> QED
  BY <1>4, <1>5

LEMMA CancelInv ==
    ASSUME IndInv, NEW t \in Tasks, Cancel(t)
    PROVE  IndInv'
<1> DEFINE seen == IF log = <<>> THEN {} ELSE {"dropped"}
<1>1. /\ pc[t] = "cancel" /\ log' = <<>> /\ status' = "ready"
      /\ UpdateMaster("ready") /\ cancelled' = cancelled \cup {loc[t].id}
      /\ Return(t, FALSE, seen)
      /\ UNCHANGED <<disk, win, transLock, ctxLock, fatLock>>
  BY DEF Cancel, ResetLog
<1>2. /\ Active(t) /\ ValueInv /\ CallAt(pc[t], loc[t]) /\ loc[t].todo = <<>>
  BY <1>1, WrappedActive
<1>3. /\ stored' \in {"ready", "open", "commit"} /\ faults' \in Nat
      /\ {transLock', ctxLock', fatLock'} \subseteq Tasks \cup {NoTask}
      /\ cancelled' \subseteq 1 .. MaxCalls
  <2>1. stored' \in {"ready", "open", "commit"} /\ faults' \in Nat
    BY <1>1, <1>2 DEF UpdateMaster, Fault, ValueInv
  <2>2. loc[t].id \in 1 .. MaxCalls
    BY <1>2 DEF CallAt
  <2> QED
    BY <1>1, <1>2, <2>1, <2>2 DEF ValueInv
<1>4. seen \in SUBSET Events
  BY DEF Events
<1>5. Kept' => Image' = Image
  <2> SUFFICES ASSUME Kept' PROVE Image' = Image
    OBVIOUS
  <2>1. log = <<>>
    BY <1>1 DEF Return, Kept
  <2> QED
    BY <1>1, <2>1, ImageSame
<1> HIDE DEF seen
<1> QED
  BY <1>1, <1>2, <1>3, <1>4, <1>5, ReturnInv

LEMMA CommitCheckInv ==
    ASSUME IndInv, NEW t \in Tasks, CommitCheck(t)
    PROVE  IndInv'
<1>1. /\ pc[t] = "stop" /\ UNCHANGED <<volume, transLock, ctxLock, fatLock, faults, cancelled>>
  BY DEF CommitCheck
<1>2. "stop" \in Ended /\ "stop" \notin Transferring /\ "commit" \in Ended /\ "commit" \notin Transferring
  BY DEF Ended, Transferring
<1>3. /\ loc[t].op \in Wrapped /\ ValueInv /\ loc[t] \in Locals
      /\ loc[t].todo = <<>> /\ loc[t].ok /\ status = "open"
  BY <1>1, <1>2, WrappedActive
<1>4. pc' = [pc EXCEPT ![t] = "commit"] /\ UNCHANGED <<loc, table, calls, good, events>>
  BY <1>3 DEF CommitCheck, Goto
<1>5. Moves(t, "commit", loc[t])
  BY <1>3, <1>4 DEF Moves, ValueInv
<1>6. /\ status' = status /\ stored' = stored /\ log' = log /\ disk' = disk /\ win' = win /\ Image' = Image
      /\ faults' \in Nat /\ disk \in [Sectors -> Contents]
      /\ {transLock', ctxLock', fatLock'} \subseteq Tasks \cup {NoTask}
      /\ {status', stored'} \subseteq {"ready", "open", "commit"}
  BY <1>1, <1>3, ImageSame DEF volume, jrnl, ValueInv
<1> QED
  BY <1>1, <1>2, <1>3, <1>4, <1>5, <1>6, StopStep

LEMMA CommitInv ==
    ASSUME IndInv, NEW t \in Tasks, Commit(t)
    PROVE  IndInv'
<1>1. /\ pc[t] = "commit" /\ status' = "commit"
      /\ UNCHANGED <<log, disk, win, transLock, ctxLock, fatLock, cancelled>>
  BY DEF Commit
<1>2. "commit" \in Ended /\ "replay" \in Ended /\ "replay" \in Transferring
  BY DEF Ended, Transferring
<1>3. /\ Active(t) /\ loc[t].op \in Wrapped /\ ValueInv /\ loc[t] \in Locals /\ loc[t].todo = <<>> /\ loc[t].ok
  BY <1>1, <1>2, WrappedActive
<1>4. /\ Image' = Image /\ disk \in [Sectors -> Contents]
      /\ cancelled' \subseteq 1 .. MaxCalls
      /\ {transLock', ctxLock', fatLock'} \subseteq Tasks \cup {NoTask}
  BY <1>1, <1>3, ImageSame DEF ValueInv
<1>5. CASE stored' = "commit" /\ Goto(t, "replay") /\ UNCHANGED <<faults, loc, table, calls, good, events>>
  <2>1. Moves(t, "replay", loc[t]) /\ faults' \in Nat
    BY <1>3, <1>5 DEF Moves, ValueInv, Goto
  <2> QED
    BY <1>1, <1>2, <1>3, <1>4, <1>5, <2>1, StopStep
<1>6. CASE stored' = stored /\ Fault /\ Return(t, FALSE, {})
  <2>1. faults' \in Nat /\ stored' \in {"ready", "open", "commit"}
    BY <1>3, <1>6 DEF ValueInv, Fault
  <2> QED
    BY <1>1, <1>3, <1>4, <1>6, <2>1, ReturnInv
<1> QED
  BY <1>5, <1>6 DEF Commit

\* jrnl_replay begins: no record is behind it.
LEMMA ReplayEnterInv ==
    ASSUME IndInv, NEW t \in Tasks, ReplayEnter(t)
    PROVE  IndInv'
<1>1. pc[t] = "replay" /\ transLock' = t /\ UNCHANGED <<volume, ctxLock, fatLock, cancelled>>
  BY DEF ReplayEnter
<1>2. /\ "replay" \in Ended /\ "replay" \in Transferring /\ "copy" \in Ended /\ "copy" \in Transferring
  BY DEF Ended, Transferring
<1>3. /\ Active(t) /\ loc[t].op \in Wrapped /\ ValueInv /\ loc[t] \in Locals /\ loc[t].todo = <<>> /\ loc[t].ok
      /\ status = "commit" /\ stored = "commit"
  BY <1>1, <1>2, WrappedActive
<1>4. /\ status' = status /\ stored' = stored /\ log' = log /\ disk' = disk /\ win' = win
      /\ Image' = Image /\ disk \in [Sectors -> Contents]
      /\ cancelled' \subseteq 1 .. MaxCalls
      /\ {transLock', ctxLock', fatLock'} \subseteq Tasks \cup {NoTask}
  BY <1>1, <1>3, ImageSame DEF ValueInv, volume, jrnl
<1>5. CASE Goto(t, "copy") /\ loc' = [loc EXCEPT ![t].at = 1] /\ UNCHANGED <<faults, table, calls, good, events>>
  <2>1. PICK l : l = [loc[t] EXCEPT !.at = 1]
    OBVIOUS
  <2>2. /\ l \in Locals /\ l.at = 1
        /\ l.op = loc[t].op /\ l.id = loc[t].id /\ l.fd = loc[t].fd /\ l.mine = loc[t].mine
        /\ l.todo = loc[t].todo /\ l.ok = loc[t].ok /\ l.acc = loc[t].acc
    BY <1>3, <2>1 DEF Locals
  <2>3. Moves(t, "copy", l) /\ faults' \in Nat
    BY <1>3, <1>5, <2>1 DEF Moves, ValueInv, Goto
  <2>4. /\ 1 \in 1 .. (Len(log) + 1)
        /\ \A s \in Sectors : (\A i \in DOMAIN log : log[i].s = s => i < 1) => disk'[s] = Image[s]
    <3>1. Len(log) \in Nat /\ DOMAIN log = 1 .. Len(log)
      BY <1>3 DEF ValueInv
    <3>2. ASSUME NEW s \in Sectors, \A i \in DOMAIN log : log[i].s = s => i < 1
          PROVE  disk'[s] = Image[s]
      <4>1. \A i \in DOMAIN log : log[i].s # s
        BY <3>1, <3>2
      <4> QED
        BY <1>4, <4>1, ImageBare
    <3> QED
      BY <3>1, <3>2
  <2> QED
    BY <1>1, <1>2, <1>3, <1>4, <1>5, <2>2, <2>3, <2>4, StopStep
<1>6. CASE Fault /\ Return(t, FALSE, {"leaked"})
  <2>1. faults' \in Nat /\ {"leaked"} \in SUBSET Events /\ {status', stored'} \subseteq {"ready", "open", "commit"}
    BY <1>3, <1>4, <1>6 DEF ValueInv, Fault, Events
  <2> QED
    BY <1>1, <1>3, <1>4, <1>6, <2>1, ReturnInv
<1> QED
  BY <1>5, <1>6 DEF ReplayEnter

\* What is known of the transfer.
LEMMA Copying ==
    ASSUME IndInv, NEW t \in Tasks, pc[t] \in {"copy", "erased"}
    PROVE  /\ Active(t) /\ loc[t].op \in Wrapped /\ ValueInv /\ loc[t] \in Locals /\ loc[t].todo = <<>> /\ loc[t].ok
           /\ status = "commit" /\ stored = "commit"
           /\ Len(log) \in Nat /\ DOMAIN log = 1 .. Len(log)
           /\ loc[t].at \in 1 .. (Len(log) + 1)
           /\ pc[t] = "erased" => loc[t].at <= Len(log)
           /\ \A s \in Sectors : (\A i \in DOMAIN log : log[i].s = s => i < loc[t].at) => disk[s] = Image[s]
           /\ \A i \in DOMAIN log : log[i].s \in Sectors /\ log[i].c \in Contents
<1>1. pc[t] \in Ended /\ pc[t] \in Transferring
  BY DEF Ended, Transferring
<1>2. /\ Active(t) /\ loc[t].op \in Wrapped /\ ValueInv /\ loc[t] \in Locals /\ loc[t].todo = <<>> /\ loc[t].ok
      /\ status = "commit" /\ stored = "commit"
  BY <1>1, WrappedActive
<1>3. Len(log) \in Nat /\ DOMAIN log = 1 .. Len(log) /\ \A i \in DOMAIN log : log[i].s \in Sectors /\ log[i].c \in Contents
  <2>1. log \in Seq(Record)
    BY <1>2 DEF ValueInv, Record
  <2>2. Len(log) \in Nat /\ DOMAIN log = 1 .. Len(log) /\ \A i \in DOMAIN log : log[i] \in Record
    BY <2>1
  <2> QED
    BY <2>2 DEF Record
<1> QED
  BY <1>2, <1>3 DEF IndInv, ReplayInv

\* An erased sector still has a record ahead.
LEMMA ReplayEraseInv ==
    ASSUME IndInv, NEW t \in Tasks, ReplayErase(t)
    PROVE  IndInv'
<1>1. /\ pc[t] = "copy" /\ loc[t].at <= Len(log)
      /\ disk' = [disk EXCEPT ![log[loc[t].at].s] = {}]
      /\ pc' = [pc EXCEPT ![t] = "erased"]
      /\ UNCHANGED <<jrnl, win, table, transLock, ctxLock, fatLock, loc, faults, history>>
  BY DEF ReplayErase, Goto
<1>2. /\ Active(t) /\ loc[t].op \in Wrapped /\ ValueInv /\ loc[t] \in Locals /\ loc[t].todo = <<>> /\ loc[t].ok
      /\ status = "commit" /\ stored = "commit"
      /\ Len(log) \in Nat /\ DOMAIN log = 1 .. Len(log)
      /\ loc[t].at \in 1 .. (Len(log) + 1)
      /\ \A s \in Sectors : (\A i \in DOMAIN log : log[i].s = s => i < loc[t].at) => disk[s] = Image[s]
      /\ \A i \in DOMAIN log : log[i].s \in Sectors /\ log[i].c \in Contents
  BY <1>1, Copying
<1>3. PICK k : k = loc[t].at
  OBVIOUS
<1>4. k \in DOMAIN log /\ log[k].s \in Sectors
  BY <1>1, <1>2, <1>3
<1>5. /\ status' = status /\ stored' = stored /\ log' = log /\ win' = win
      /\ UNCHANGED <<table, calls, good, cancelled>> /\ events' = events
      /\ {transLock', ctxLock', fatLock'} \subseteq Tasks \cup {NoTask} /\ faults' \in Nat
  BY <1>1, <1>2 DEF jrnl, history, ValueInv
<1>6. Image' = Image
  BY <1>1, <1>2, <1>3, <1>4, <1>5, ImageTransfer
<1>7. /\ disk' \in [Sectors -> Contents] /\ \A s \in Sectors : s # log[k].s => disk'[s] = disk[s]
  BY <1>1, <1>2, <1>3, <1>4 DEF ValueInv, Contents
<1>8. \A s \in Sectors : (\A i \in DOMAIN log : log[i].s = s => i < loc[t].at) => disk'[s] = Image[s]
  <2> SUFFICES ASSUME NEW s \in Sectors, \A i \in DOMAIN log : log[i].s = s => i < loc[t].at
               PROVE  disk'[s] = Image[s]
    OBVIOUS
  <2>1. log[k].s # s
    BY <1>2, <1>3, <1>4
  <2> QED
    BY <1>2, <1>7, <2>1
<1>9. Moves(t, "erased", loc[t])
  BY <1>1, <1>2 DEF Moves, ValueInv
<1>10. "erased" \in Ended /\ "erased" \in Transferring
  BY DEF Ended, Transferring
<1> QED
  BY <1>1, <1>2, <1>5, <1>6, <1>7, <1>8, <1>9, <1>10, StopStep

\* A written sector has its final content if no record of it is ahead.
LEMMA ReplayWriteInv ==
    ASSUME IndInv, NEW t \in Tasks, ReplayWrite(t)
    PROVE  IndInv'
<1>1. /\ pc[t] = "erased"
      /\ disk' = [disk EXCEPT ![log[loc[t].at].s] = log[loc[t].at].c]
      /\ loc' = [loc EXCEPT ![t].at = @ + 1]
      /\ pc' = [pc EXCEPT ![t] = "copy"]
      /\ UNCHANGED <<jrnl, win, table, transLock, ctxLock, fatLock, faults, history>>
  BY DEF ReplayWrite, Goto
<1>2. /\ Active(t) /\ loc[t].op \in Wrapped /\ ValueInv /\ loc[t] \in Locals /\ loc[t].todo = <<>> /\ loc[t].ok
      /\ status = "commit" /\ stored = "commit"
      /\ Len(log) \in Nat /\ DOMAIN log = 1 .. Len(log)
      /\ loc[t].at \in 1 .. (Len(log) + 1) /\ loc[t].at <= Len(log)
      /\ \A s \in Sectors : (\A i \in DOMAIN log : log[i].s = s => i < loc[t].at) => disk[s] = Image[s]
      /\ \A i \in DOMAIN log : log[i].s \in Sectors /\ log[i].c \in Contents
  BY <1>1, Copying
<1>3. PICK k : k = loc[t].at
  OBVIOUS
<1>4. k \in DOMAIN log /\ k \in Nat /\ log[k].s \in Sectors /\ log[k].c \in Contents
  BY <1>1, <1>2, <1>3
<1>5. /\ status' = status /\ stored' = stored /\ log' = log /\ win' = win
      /\ UNCHANGED <<table, calls, good, cancelled>> /\ events' = events
      /\ {transLock', ctxLock', fatLock'} \subseteq Tasks \cup {NoTask} /\ faults' \in Nat
  BY <1>1, <1>2 DEF jrnl, history, ValueInv
<1>6. Image' = Image
  BY <1>1, <1>2, <1>3, <1>4, <1>5, ImageTransfer
<1>7. /\ disk' \in [Sectors -> Contents] /\ disk'[log[k].s] = log[k].c
      /\ \A s \in Sectors : s # log[k].s => disk'[s] = disk[s]
  BY <1>1, <1>2, <1>3, <1>4 DEF ValueInv
<1>8. PICK l : l = [loc[t] EXCEPT !.at = k + 1]
  OBVIOUS
<1>9. /\ l \in Locals /\ l.at = k + 1
      /\ l.op = loc[t].op /\ l.id = loc[t].id /\ l.fd = loc[t].fd /\ l.mine = loc[t].mine
      /\ l.todo = loc[t].todo /\ l.ok = loc[t].ok /\ l.acc = loc[t].acc
  <2>1. PICK n \in Nat : n = k + 1
    BY <1>4
  <2>2. l = [loc[t] EXCEPT !.at = n]
    BY <1>8, <2>1
  <2> QED
    BY <1>2, <2>1, <2>2 DEF Locals
<1>10. Moves(t, "copy", l)
  BY <1>1, <1>2, <1>3, <1>8 DEF Moves, ValueInv
<1>11. ASSUME NEW s \in Sectors, \A i \in DOMAIN log : log[i].s = s => i < k + 1
       PROVE  disk'[s] = Image[s]
  <2>1. CASE s = log[k].s
    <3>1. log \in Seq(Record)
      BY <1>2 DEF ValueInv, Record
    <3>2. k \in Records(log, s)
      BY <1>4, <2>1 DEF Records
    <3>3. Max(Records(log, s)) \in Records(log, s) /\ k <= Max(Records(log, s))
      BY <3>1, <3>2, MaxRecord
    <3>4. Max(Records(log, s)) \in DOMAIN log /\ log[Max(Records(log, s))].s = s
      BY <3>3 DEF Records
    <3>5. Max(Records(log, s)) = k
      BY <1>2, <1>4, <1>11, <3>3, <3>4
    <3>6. ImageOf(log, disk)[s] = log[k].c
      BY <3>2, <3>5 DEF ImageOf
    <3> QED
      BY <1>7, <2>1, <3>6, ImageIs
  <2>2. CASE s # log[k].s
    <3>1. \A i \in DOMAIN log : log[i].s = s => i < loc[t].at
      BY <1>2, <1>3, <1>4, <1>11, <2>2
    <3> QED
      BY <1>2, <1>7, <2>2, <3>1
  <2> QED
    BY <2>1, <2>2
<1>12. /\ l.at \in 1 .. (Len(log) + 1)
       /\ \A s \in Sectors : (\A i \in DOMAIN log : log[i].s = s => i < l.at) => disk'[s] = Image[s]
  BY <1>2, <1>3, <1>9, <1>11
<1>13. "copy" \in Ended /\ "copy" \in Transferring
  BY DEF Ended, Transferring
<1> QED
  BY <1>1, <1>2, <1>5, <1>6, <1>7, <1>9, <1>10, <1>12, <1>13, StopStep

LEMMA ReplayFailsInv ==
    ASSUME IndInv, NEW t \in Tasks, ReplayFails(t)
    PROVE  IndInv'
<1>1. /\ pc[t] \in {"copy", "erased"} /\ Fault /\ transLock' = NoTask /\ Return(t, FALSE, {})
      /\ UNCHANGED <<volume, ctxLock, fatLock, cancelled>>
  BY DEF ReplayFails
<1>2. Active(t) /\ ValueInv /\ loc[t].todo = <<>> /\ status = "commit"
  BY <1>1, Copying
<1>3. /\ status' = "commit" /\ stored' \in {"ready", "open", "commit"} /\ log' = log /\ disk' = disk /\ win' = win
      /\ Image' = Image /\ cancelled' \subseteq 1 .. MaxCalls /\ faults' \in Nat
      /\ {transLock', ctxLock', fatLock'} \subseteq Tasks \cup {NoTask}
  BY <1>1, <1>2, ImageSame DEF ValueInv, volume, jrnl, Fault
<1> QED
  BY <1>1, <1>2, <1>3, ReturnInv

\* Once every record is behind the transfer, the disk is the image.
LEMMA DiskIsImage ==
    ASSUME IndInv, NEW t \in Tasks, pc[t] = "copy", loc[t].at > Len(log)
    PROVE  disk = Image
<1>1. /\ ValueInv /\ Len(log) \in Nat /\ DOMAIN log = 1 .. Len(log) /\ loc[t].at \in 1 .. (Len(log) + 1)
      /\ \A s \in Sectors : (\A i \in DOMAIN log : log[i].s = s => i < loc[t].at) => disk[s] = Image[s]
  BY Copying
<1>2. \A s \in Sectors : disk[s] = Image[s]
  BY <1>1
<1> QED
  BY <1>1, <1>2, ImageType DEF ValueInv

LEMMA ReplayDoneInv ==
    ASSUME IndInv, NEW t \in Tasks, ReplayDone(t)
    PROVE  IndInv'
<1>1. /\ pc[t] = "copy" /\ loc[t].at > Len(log)
      /\ log' = <<>> /\ status' = "ready" /\ transLock' = NoTask
      /\ UNCHANGED <<disk, win, ctxLock, fatLock, cancelled>>
  BY DEF ReplayDone, Transferred, ResetLog
<1>2. Active(t) /\ ValueInv /\ loc[t].todo = <<>> /\ loc[t].ok
  BY <1>1, Copying
<1>3. PICK success \in BOOLEAN : Return(t, success, {}) /\ stored' \in {"ready", "open", "commit"} /\ faults' \in Nat
  <2>1. CASE stored' = "ready" /\ UNCHANGED faults /\ Return(t, TRUE, {})
    BY <1>2, <2>1 DEF ValueInv
  <2>2. CASE stored' = stored /\ Fault /\ Return(t, FALSE, {})
    <3>1. stored' \in {"ready", "open", "commit"} /\ faults' \in Nat
      BY <1>2, <2>2 DEF ValueInv, Fault
    <3> QED
      BY <2>2, <3>1
  <2> QED
    BY <2>1, <2>2 DEF ReplayDone
<1>4. Image' = Image
  <2>1. \A s \in Sectors : Image'[s] = disk'[s]
    BY <1>1 DEF Image
  <2>2. disk' = disk /\ disk = Image /\ disk \in [Sectors -> Contents]
    BY <1>1, <1>2, DiskIsImage DEF ValueInv
  <2>3. Image' = [s \in Sectors |-> Image'[s]]
    BY DEF Image
  <2> QED
    BY <2>1, <2>2, <2>3
<1>5. /\ cancelled' \subseteq 1 .. MaxCalls /\ {transLock', ctxLock', fatLock'} \subseteq Tasks \cup {NoTask}
  BY <1>1, <1>2 DEF ValueInv
<1> QED
  BY <1>1, <1>2, <1>3, <1>4, <1>5, ReturnInv

-----------------------------------------------------------------------------
(* The start of a call *)

LEMMA ShortSequences ==
    ASSUME NEW w, NEW x, NEW y, NEW z
    PROVE  <<w>> \o <<x>> \o <<y>> = <<w, x, y>> /\ <<w>> \o <<x, y>> \o <<z>> = <<w, x, y, z>>
<1> DEFINE T == {w, x, y, z}
<1>1. /\ <<w>> \in Seq(T) /\ <<x>> \in Seq(T) /\ <<y>> \in Seq(T) /\ <<z>> \in Seq(T)
      /\ <<x, y>> \in Seq(T) /\ <<w, x, y>> \in Seq(T) /\ <<w, x, y, z>> \in Seq(T)
  OBVIOUS
<1> HIDE DEF T
<1>2. \A a, b : Len(<<a>>) = 1 /\ <<a>>[1] = a /\ Len(<<a, b>>) = 2 /\ <<a, b>>[1] = a /\ <<a, b>>[2] = b
  OBVIOUS
<1>3. <<w>> \o <<x>> \o <<y>> = <<w, x, y>>
  <2>1. PICK a : a = <<w>> \o <<x>>
    OBVIOUS
  <2>2. a \in Seq(T) /\ Len(a) = 2 /\ a[1] = w /\ a[2] = x
    BY <1>1, <1>2, <2>1, ConcatProperties
  <2>3. PICK b : b = a \o <<y>>
    OBVIOUS
  <2>4. b \in Seq(T) /\ Len(b) = 3 /\ b[1] = w /\ b[2] = x /\ b[3] = y
    <3>1. /\ b \in Seq(T) /\ Len(b) = Len(a) + Len(<<y>>)
          /\ \A i \in 1 .. Len(a) + Len(<<y>>) : b[i] = IF i <= Len(a) THEN a[i] ELSE <<y>>[i - Len(a)]
      BY <1>1, <2>2, <2>3, ConcatProperties
    <3>2. Len(<<y>>) = 1 /\ <<y>>[1] = y /\ Len(a) = 2
      BY <1>2, <2>2
    <3>3. \A i \in 1 .. 3 : b[i] = IF i <= 2 THEN a[i] ELSE <<y>>[i - 2]
      BY <3>1, <3>2
    <3> QED
      BY <2>2, <3>1, <3>2, <3>3
  <2>5. b = <<w, x, y>>
    BY <1>1, <2>4, SeqEqual
  <2> QED
    BY <2>1, <2>3, <2>5
<1>4. <<w>> \o <<x, y>> \o <<z>> = <<w, x, y, z>>
  <2>1. PICK a : a = <<w>> \o <<x, y>>
    OBVIOUS
  <2>2. a \in Seq(T) /\ Len(a) = 3 /\ a[1] = w /\ a[2] = x /\ a[3] = y
    BY <1>1, <1>2, <2>1, ConcatProperties
  <2>3. PICK b : b = a \o <<z>>
    OBVIOUS
  <2>4. b \in Seq(T) /\ Len(b) = 4 /\ b[1] = w /\ b[2] = x /\ b[3] = y /\ b[4] = z
    <3>1. /\ b \in Seq(T) /\ Len(b) = Len(a) + Len(<<z>>)
          /\ \A i \in 1 .. Len(a) + Len(<<z>>) : b[i] = IF i <= Len(a) THEN a[i] ELSE <<z>>[i - Len(a)]
      <4>1. a \in Seq(T) /\ <<z>> \in Seq(T)
        BY <1>1, <2>2
      <4> QED
        BY <2>3, <4>1, ConcatProperties
    <3>2. Len(<<z>>) = 1 /\ <<z>>[1] = z /\ Len(a) = 3
      BY <1>2, <2>2
    <3>3. \A i \in 1 .. 4 : b[i] = IF i <= 3 THEN a[i] ELSE <<z>>[i - 3]
      BY <3>1, <3>2
    <3> QED
      BY <2>2, <3>1, <3>2, <3>3
  <2>5. b = <<w, x, y, z>>
    BY <1>1, <2>4, SeqEqual
  <2> QED
    BY <2>1, <2>3, <2>5
<1> QED
  BY <1>3, <1>4

\* The programs whose steps the invariant follows.
LEMMA ProgramShapes ==
    ASSUME NEW append
    PROVE  /\ Programs("open", append) = {OpenLock} /\ Programs("close", append) = {CloseLock}
           /\ \A op \in NoDisk : Programs(op, append) \subseteq {<<>>, CloseDir}
<1>1. \A w, x, y : <<w>> \o <<x>> \o <<y>> = <<w, x, y>>
  BY ShortSequences
<1>2. \A w, x, y, z : <<w>> \o <<x, y>> \o <<z>> = <<w, x, y, z>>
  BY ShortSequences
<1>3. vfs_fat_open = {OpenLock}
  BY <1>2 DEF vfs_fat_open, Lock, Unlock, OpenLock
<1>4. vfs_fat_close = {CloseLock}
  BY <1>1 DEF vfs_fat_close, Lock, Unlock, CloseLock
<1>5. vfs_fat_fstat = {<<>>} /\ vfs_fat_telldir = {<<>>} /\ vfs_fat_closedir = {CloseDir}
  BY DEF vfs_fat_fstat, vfs_fat_telldir, vfs_fat_closedir, CloseDir
<1>6. /\ Programs("open", append) = vfs_fat_open /\ Programs("close", append) = vfs_fat_close
      /\ Programs("fstat", append) = vfs_fat_fstat /\ Programs("telldir", append) = vfs_fat_telldir
      /\ Programs("closedir", append) = vfs_fat_closedir
  BY DEF Programs
<1> QED
  BY <1>3, <1>4, <1>5, <1>6 DEF NoDisk

\* The call a task enters.
LEMMA EnterFacts ==
    ASSUME ValueInv, NEW t \in Tasks, NEW op \in Ops, calls < MaxCalls,
           NEW fd \in Descriptors(op), Enter(t, op, fd)
    PROVE  \E l \in Locals :
              /\ Moves(t, "run", l) /\ CallAt("run", l)
              /\ l.op = op /\ l.fd = fd /\ l.mine = {} /\ op \in Wrapped \cup Bare
              /\ op \in OnDescriptor => fd \in held
              /\ op = "close" => l.todo = CloseLock
<1> DEFINE append == fd # None /\ files[fd].append
<1>1. PICK prog \in Programs(op, append) :
         loc' = [loc EXCEPT ![t] = [Resting EXCEPT !.op = op, !.id = calls + 1, !.fd = fd, !.todo = prog]]
  BY DEF Enter
<1>2. /\ op \in Wrapped \cup Bare
      /\ op \in OnDescriptor => fd \in held
      /\ op \notin OnDescriptor => fd = None
  BY CallsAssumption DEF Descriptors
<1>3. fd \in Slots \cup {None} /\ append \in BOOLEAN
  <2>1. fd \in Slots \cup {None}
    BY <1>2 DEF ValueInv
  <2> QED
    BY <2>1 DEF ValueInv
<1>4. /\ op # "open" => prog \in Seq(Steps(Objects(op)))
      /\ op = "open" => prog = OpenLock
      /\ op = "close" => prog = CloseLock
      /\ op \in NoDisk => prog \in {<<>>, CloseDir}
  <2>1. op # "open" => prog \in Seq(Steps(Objects(op)))
    BY <1>1, <1>2, <1>3, ProgramSteps
  <2> HIDE DEF append
  <2> QED
    BY <1>1, <2>1, ProgramShapes
<1>5. prog \in Seq(AllSteps)
  BY <1>4, StepsOfAll, OpenType
<1>6. PICK n : n = calls + 1
  OBVIOUS
<1>7. n \in 1 .. MaxCalls /\ n \in 0 .. MaxCalls
  BY <1>6, CallsAssumption DEF ValueInv
<1>8. PICK l : l = [Resting EXCEPT !.op = op, !.id = n, !.fd = fd, !.todo = prog]
  OBVIOUS
<1>9. /\ l \in Locals /\ l.op = op /\ l.id = n /\ l.fd = fd /\ l.todo = prog /\ l.mine = {}
      /\ l.acc = <<>> /\ l.ok = TRUE
  <2>1. Resting \in Locals /\ Resting.mine = {} /\ Resting.acc = <<>> /\ Resting.ok = TRUE
    BY RestingType DEF Resting
  <2> HIDE DEF Resting
  <2> QED
    BY <1>2, <1>3, <1>5, <1>7, <1>8, <2>1 DEF Locals
<1>10. Moves(t, "run", l)
  BY <1>1, <1>6, <1>8 DEF Moves, Enter, Goto
<1>11. op = "open" => OpenAt(l)
  <2> SUFFICES ASSUME op = "open" PROVE OpenAt(l)
    OBVIOUS
  <2>1. l.todo = OpenLock /\ fd = None
    BY <1>2, <1>4, <1>9 DEF OnDescriptor
  <2> QED
    BY <1>9, <2>1, ShapesDiffer DEF OpenAt
<1>12. CallAt("run", l)
  BY <1>2, <1>4, <1>7, <1>9, <1>11 DEF CallAt, Ended, ValueInv
<1> QED
  BY <1>2, <1>4, <1>9, <1>10, <1>12

\* A call enters: with a transaction only where none was, else beside calls that never
\* reach the disk, or never reaching it.
LEMMA EnterInv ==
    ASSUME IndInv, NEW t \in Tasks, NEW op \in Ops, pc[t] = "idle", calls < MaxCalls,
           NEW fd \in Descriptors(op), Enter(t, op, fd),
           op \in NoDisk \/ \A u \in Tasks : ~Active(u),
           calls' = calls + 1, faults' = faults,
           UNCHANGED <<log, disk, win, table, transLock, ctxLock, fatLock, good, cancelled, events>>,
           \/ UNCHANGED <<status, stored>> /\ op \notin Wrapped
           \/ status' = "open" /\ stored' = "open" /\ op \notin NoDisk
    PROVE  IndInv'
<1>1. ValueInv
  BY DEF IndInv
<1>2. PICK l \in Locals :
         /\ Moves(t, "run", l) /\ CallAt("run", l)
         /\ l.op = op /\ l.fd = fd /\ l.mine = {} /\ op \in Wrapped \cup Bare
         /\ op \in OnDescriptor => fd \in held
         /\ op = "close" => l.todo = CloseLock
  BY <1>1, EnterFacts
<1>3. "run" \in Places
  BY DEF Places
<1>4. /\ pc' \in [Tasks -> Places] /\ loc' \in [Tasks -> Locals]
      /\ pc'[t] = "run" /\ loc'[t] = l
      /\ \A u \in Tasks : u # t => pc'[u] = pc[u] /\ loc'[u] = loc[u]
  BY <1>1, <1>2, <1>3, MoveFacts
<1>5. /\ log' = log /\ disk' = disk /\ win' = win /\ files' = files /\ held' = held /\ good' = good /\ events' = events
      /\ Image' = Image /\ (Kept' <=> Kept) /\ (HasSpace' <=> HasSpace) /\ \A s \in Sectors : View(s)' = View(s)
  <2>1. /\ log' = log /\ disk' = disk /\ win' = win /\ files' = files /\ held' = held /\ good' = good /\ events' = events
    BY DEF table
  <2>2. Image' = Image
    BY <2>1, ImageSame
  <2> QED
    BY <2>1, <2>2 DEF Kept, View, HasSpace
<1>6. ValueInv'
  <2>1. calls' \in 0 .. MaxCalls /\ faults' \in Nat /\ {status', stored'} \subseteq {"ready", "open", "commit"}
    BY <1>1, CallsAssumption DEF ValueInv
  <2> QED
    BY <1>1, <1>4, <1>5, <2>1 DEF ValueInv
<1>7. CallInv'
  BY <1>1, <1>2, <1>3, MoveCall DEF IndInv
<1>8. Alone'
  <2>1. \A u \in Tasks : u # t /\ Active(u)' => Active(u)
    BY <1>4 DEF Active
  <2>2. Active(t)' => \A u \in Tasks : ~Active(u)
    BY <1>2, <1>4 DEF Active
  <2> QED
    BY <2>1, <2>2 DEF Alone, IndInv
<1>9. StatusInv'
  <2>1. CASE UNCHANGED <<status, stored>> /\ op \notin Wrapped
    BY <1>2, <1>4, <1>5, <2>1 DEF StatusInv, IndInv
  <2>2. CASE status' = "open" /\ stored' = "open" /\ op \notin NoDisk
    <3>1. \A u \in Tasks : u # t /\ pc'[u] # "idle" => loc'[u].op \notin Wrapped /\ pc'[u] # "append"
      <4> SUFFICES ASSUME NEW u \in Tasks, u # t, pc[u] # "idle"
                   PROVE  loc[u].op \notin Wrapped /\ pc[u] # "append"
        BY <1>4
      <4>1. loc[u].op \in NoDisk /\ CallAt(pc[u], loc[u])
        BY <2>2 DEF Active, IndInv, CallInv
      <4>2. NoDisk \cap Wrapped = {}
        BY DEF NoDisk, Wrapped, FileWrappers, DirWrappers
      <4> QED
        BY <4>1, <4>2 DEF CallAt
    <3> QED
      BY <1>4, <2>2, <3>1 DEF StatusInv, Transferring
  <2> QED
    BY <2>1, <2>2
<1>10. SlotInv'
  <2>1. ASSUME NEW u \in Tasks, pc'[u] # "idle", loc'[u].op = "close", loc'[u].todo \in {Unlock, <<>>}
        PROVE  files'[loc'[u].fd].st = "free"
    <3>1. u # t
      BY <1>2, <1>4, <2>1, ShapesDiffer
    <3> QED
      BY <1>4, <1>5, <2>1, <3>1 DEF SlotInv, IndInv
  <2>2. ASSUME "lost" \notin events', NEW u \in Tasks, pc'[u] # "idle", loc'[u].op \in OnDescriptor \ NoDisk
        PROVE  loc'[u].fd \in held'
    <3>1. CASE u = t
      BY <1>2, <1>4, <1>5, <2>2, <3>1
    <3>2. CASE u # t
      BY <1>4, <1>5, <2>2, <3>2 DEF SlotInv, IndInv
    <3> QED
      BY <3>1, <3>2
  <2>3. ASSUME "lost" \notin events', NEW i \in Slots, files'[i].st # "free", i \notin held'
        PROVE  \E u \in Tasks : Opens(u, i)'
    <3>1. PICK u \in Tasks : Opens(u, i)
      BY <1>5, <2>3 DEF SlotInv, IndInv
    <3>2. Opens(u, i)'
      BY <1>4, <3>1 DEF Opens
    <3> QED
      BY <3>2
  <2> QED
    BY <2>1, <2>2, <2>3 DEF SlotInv
<1>11. ViewInv'
  <2>1. ViewInv /\ Kept' /\ pc'[t] # "idle" => \A s \in loc'[t].mine : loc'[t].id \in View(s)'
    BY <1>2, <1>4
  <2>2. /\ Kept' => \A u \in Tasks : pc'[u] # "idle" => \A s \in loc'[u].mine : loc'[u].id \in View(s)'
        /\ UpdatesKept'
    BY <1>1, <1>4, <1>5, <2>1, ViewKept DEF IndInv
  <2> QED
    BY <1>5, <2>2 DEF ViewInv, IndInv
<1>12. ReplayInv'
  <2>1. \A u \in Tasks : pc'[u] \in {"copy", "erased"} => pc'[u] = pc[u] /\ loc'[u] = loc[u]
    BY <1>4
  <2> QED
    BY <1>5, <2>1 DEF ReplayInv, IndInv
<1> QED
  BY <1>6, <1>7, <1>8, <1>9, <1>10, <1>11, <1>12 DEF IndInv

\* A call that could not start its transaction leaves the volume alone.
LEMMA NotStartedInv ==
    ASSUME IndInv, NEW op, NEW fd, NotStarted(op, fd), calls < MaxCalls, calls' = calls + 1, faults' \in Nat,
           UNCHANGED <<log, disk, win, files, transLock, ctxLock, fatLock, pc, loc, good, cancelled>>,
           \/ UNCHANGED <<status, stored>>
           \/ status = "ready" /\ status' = "open" /\ stored' = stored
    PROVE  IndInv'
<1>1. ValueInv
  BY DEF IndInv
<1>2. /\ held' \subseteq held /\ events \subseteq events' /\ events' \subseteq events \cup {"lost"}
      /\ "lost" \notin events' => held' = held
  BY DEF NotStarted
<1>3. Image' = Image /\ (Kept' <=> Kept) /\ (HasSpace' <=> HasSpace) /\ \A s : View(s)' = View(s)
  <2>1. Image' = Image
    BY ImageSame
  <2> QED
    BY <1>2, <2>1 DEF Kept, View, HasSpace
<1>4. ValueInv'
  <2>1. calls' \in 0 .. MaxCalls /\ {status', stored'} \subseteq {"ready", "open", "commit"}
    BY <1>1, CallsAssumption DEF ValueInv
  <2>2. held' \subseteq Slots /\ events' \subseteq Events
    BY <1>1, <1>2 DEF ValueInv, Events
  <2> QED
    BY <1>1, <2>1, <2>2 DEF ValueInv
<1>5. CallInv' /\ Alone'
  BY DEF IndInv, CallInv, CallAt, OpenAt, Alone, Active
<1>6. StatusInv'
  BY <1>3 DEF IndInv, StatusInv
<1>7. SlotInv'
  <2>1. \A u \in Tasks, i \in Slots : Opens(u, i)' <=> Opens(u, i)
    BY DEF Opens
  <2> QED
    BY <1>2, <2>1 DEF IndInv, SlotInv
<1>8. ViewInv' /\ ReplayInv'
  BY <1>3 DEF IndInv, ViewInv, UpdatesKept, Kept, ReplayInv
<1> QED
  BY <1>4, <1>5, <1>6, <1>7, <1>8 DEF IndInv

\* Where a call is allowed, no call that may reach the disk runs, unless the new one is
\* to wait for its transaction or never reaches the disk.
LEMMA AllowedAlone ==
    ASSUME IndInv, DiskAlone, NEW t \in Tasks, NEW op \in Ops, Allowed(t, op)
    PROVE  /\ pc[t] = "idle" /\ calls < MaxCalls
           /\ op \in Bare => op \notin Wrapped /\ (op \in NoDisk \/ \A u \in Tasks : ~Active(u))
           /\ op \in Wrapped /\ status = "ready" => op \notin NoDisk /\ \A u \in Tasks : ~Active(u)
<1>1. pc[t] = "idle" /\ calls < MaxCalls
  BY DEF Allowed
<1>2. Wrapped \cap Bare = {} /\ NoDisk \cap Wrapped = {} /\ Beside \subseteq NoDisk
  BY DEF Wrapped, FileWrappers, DirWrappers, Bare, NoDisk, DiskAlone
<1>3. ASSUME NEW u \in Tasks, Active(u) PROVE op \in Wrapped \cup Beside /\ loc[u].op \in Wrapped
  <2>1. u \in Busy
    BY <1>3 DEF Active, Busy
  <2>2. op \in Wrapped \cup Beside /\ loc[u].op \in Wrapped \cup Beside
    BY <2>1 DEF Allowed
  <2> QED
    BY <1>2, <1>3, <2>2 DEF Active
<1>4. \A u \in Tasks : Active(u) /\ loc[u].op \in Wrapped => status # "ready"
  BY DEF IndInv, StatusInv, Active
<1> QED
  BY <1>1, <1>2, <1>3, <1>4

LEMMA EspJrnlStartInv ==
    ASSUME IndInv, DiskAlone, NEW t \in Tasks, NEW op \in Ops, EspJrnlStart(t, op)
    PROVE  IndInv'
<1>1. /\ Allowed(t, op) /\ op \in Wrapped /\ status = "ready" /\ calls' = calls + 1
      /\ UNCHANGED <<log, disk, win, files, transLock, ctxLock, fatLock, good, cancelled>>
  BY DEF EspJrnlStart
<1>2. log = <<>> /\ ValueInv
  BY <1>1 DEF IndInv, StatusInv
<1>3. /\ pc[t] = "idle" /\ calls < MaxCalls /\ op \notin NoDisk /\ \A u \in Tasks : ~Active(u)
  BY <1>1, AllowedAlone
<1>4. status' = "open"
  BY <1>2 DEF EspJrnlStart
<1>5. PICK fd \in Descriptors(op) :
         \/ stored' = "open" /\ Enter(t, op, fd) /\ UNCHANGED <<faults, held, events>>
         \/ stored' = stored /\ Fault /\ NotStarted(op, fd) /\ UNCHANGED <<pc, loc>>
  BY <1>2 DEF EspJrnlStart
<1>6. CASE stored' = "open" /\ Enter(t, op, fd) /\ UNCHANGED <<faults, held, events>>
  <2>1. UNCHANGED <<log, disk, win, table, transLock, ctxLock, fatLock, good, cancelled, events>> /\ faults' = faults
    BY <1>1, <1>6 DEF table
  <2> QED
    BY <1>1, <1>3, <1>4, <1>6, <2>1, EnterInv
<1>7. CASE stored' = stored /\ Fault /\ NotStarted(op, fd) /\ UNCHANGED <<pc, loc>>
  <2>1. faults' \in Nat
    BY <1>2, <1>7 DEF Fault, ValueInv
  <2> QED
    BY <1>1, <1>3, <1>4, <1>7, <2>1, NotStartedInv
<1> QED
  BY <1>5, <1>6, <1>7

LEMMA StartRefusedInv ==
    ASSUME IndInv, DiskAlone, NEW t \in Tasks, NEW op \in Ops, StartRefused(t, op)
    PROVE  IndInv'
<1>1. /\ Allowed(t, op) /\ calls' = calls + 1
      /\ UNCHANGED <<volume, files, transLock, ctxLock, fatLock, pc, loc, faults, good, cancelled>>
  BY DEF StartRefused
<1>2. PICK fd : NotStarted(op, fd)
  BY DEF StartRefused
<1>3. calls < MaxCalls /\ faults' \in Nat
  BY <1>1 DEF Allowed, IndInv, ValueInv
<1>4. /\ UNCHANGED <<log, disk, win, files, transLock, ctxLock, fatLock, pc, loc, good, cancelled>>
      /\ UNCHANGED <<status, stored>>
  BY <1>1 DEF volume, jrnl
<1> QED
  BY <1>1, <1>2, <1>3, <1>4, NotStartedInv

LEMMA BareCallInv ==
    ASSUME IndInv, DiskAlone, NEW t \in Tasks, NEW op \in Ops, BareCall(t, op)
    PROVE  IndInv'
<1>1. /\ Allowed(t, op) /\ op \in Bare /\ calls' = calls + 1
      /\ UNCHANGED <<volume, table, transLock, ctxLock, fatLock, faults, good, cancelled, events>>
  BY DEF BareCall
<1>2. PICK fd \in Descriptors(op) : Enter(t, op, fd)
  BY DEF BareCall
<1>3. /\ pc[t] = "idle" /\ calls < MaxCalls /\ op \notin Wrapped
      /\ op \in NoDisk \/ \A u \in Tasks : ~Active(u)
  BY <1>1, AllowedAlone
<1>4. /\ UNCHANGED <<log, disk, win, table, transLock, ctxLock, fatLock, good, cancelled, events>>
      /\ UNCHANGED <<status, stored>> /\ faults' = faults
  BY <1>1 DEF volume, jrnl
<1> QED
  BY <1>1, <1>2, <1>3, <1>4, EnterInv

-----------------------------------------------------------------------------
(* The theorems *)

LEMMA InitInv ==
    ASSUME Init
    PROVE  IndInv
<1>1. /\ status = "ready" /\ stored = "ready" /\ log = <<>>
      /\ disk = [s \in Sectors |-> {0}]
      /\ transLock = NoTask /\ ctxLock = NoTask /\ fatLock = NoTask
      /\ win = [s |-> None, c |-> {}, dirty |-> FALSE]
      /\ held \in SUBSET Slots
      /\ files = [i \in Slots |-> [st |-> IF i \in held THEN "clean" ELSE "free", append |-> FALSE]]
      /\ calls = 0 /\ faults = 0 /\ good = {} /\ cancelled = {} /\ events = {}
      /\ \A t \in Tasks : pc[t] = "idle"
  BY DEF Init
<1>2. ValueInv
  <2>1. pc \in [Tasks -> Places] /\ loc \in [Tasks -> Locals]
    BY RestingType DEF Init, Places
  <2>2. disk \in [Sectors -> Contents] /\ win \in [s : {Dir, Fat, None}, c : Contents, dirty : BOOLEAN]
    BY <1>1, CallsAssumption DEF Contents
  <2>3. files \in [Slots -> [st : FileStates, append : BOOLEAN]]
    BY <1>1 DEF FileStates
  <2>4. log \in Seq([s : Sectors, c : Contents]) /\ 2 * Len(log) < StoreSize - 1
    BY <1>1, CallsAssumption
  <2>5. calls \in 0 .. MaxCalls
    BY <1>1, CallsAssumption
  <2> QED
    BY <1>1, <2>1, <2>2, <2>3, <2>4, <2>5 DEF ValueInv
<1>3. CallInv /\ Alone /\ StatusInv /\ ReplayInv
  BY <1>1 DEF CallInv, Alone, Active, StatusInv, ReplayInv
<1>4. SlotInv
  BY <1>1 DEF SlotInv
<1>5. ViewInv
  BY <1>1 DEF ViewInv, UpdatesKept
<1> QED
  BY <1>2, <1>3, <1>4, <1>5 DEF IndInv

LEMMA TaskStepInv ==
    ASSUME IndInv, NEW t \in Tasks, TaskStep(t)
    PROVE  IndInv'
<1>1. CASE Finish(t) \/ AcquireCtx(t) \/ ReleaseCtx(t) \/ get_next_fd(t) \/ Reject(t)
  BY <1>1, FinishInv, AcquireCtxInv, ReleaseCtxInv, GetNextFdInv, RejectInv
<1>2. CASE FatEnter(t) \/ FatTouch(t) \/ FatSynced(t) \/ FatExit(t)
  BY <1>2, FatEnterInv, FatTouchInv, FatSyncedInv, FatExitInv
<1>3. CASE EspJrnlRead(t) \/ EspJrnlWrite(t) \/ AppendRecord(t)
  BY <1>3, EspJrnlReadInv, EspJrnlWriteInv, AppendRecordInv
<1>4. CASE Cancel(t) \/ CommitCheck(t) \/ Commit(t)
  BY <1>4, CancelInv, CommitCheckInv, CommitInv
<1>5. CASE ReplayEnter(t) \/ ReplayErase(t) \/ ReplayWrite(t) \/ ReplayFails(t) \/ ReplayDone(t)
  BY <1>5, ReplayEnterInv, ReplayEraseInv, ReplayWriteInv, ReplayFailsInv, ReplayDoneInv
<1> QED
  BY <1>1, <1>2, <1>3, <1>4, <1>5 DEF TaskStep

LEMMA StutterInv ==
    ASSUME IndInv, UNCHANGED vars
    PROVE  IndInv'
<1>1. UNCHANGED <<status, stored, log, disk, win, files, held, transLock, ctxLock, fatLock, pc, loc, faults,
                  calls, good, cancelled, events>>
  BY DEF vars, volume, jrnl, table, history
<1>2. Image' = Image /\ (Kept' <=> Kept) /\ (HasSpace' <=> HasSpace) /\ \A s : View(s)' = View(s)
  <2>1. Image' = Image
    BY <1>1, ImageSame
  <2> QED
    BY <1>1, <2>1 DEF Kept, View, HasSpace
<1>3. ValueInv'
  BY <1>1 DEF IndInv, ValueInv
<1>4. CallInv' /\ Alone' /\ StatusInv'
  BY <1>1, <1>2 DEF IndInv, CallInv, CallAt, OpenAt, Alone, Active, StatusInv
<1>5. SlotInv' /\ ViewInv' /\ ReplayInv'
  BY <1>1, <1>2 DEF IndInv, SlotInv, Opens, ViewInv, UpdatesKept, Kept, ReplayInv
<1> QED
  BY <1>3, <1>4, <1>5 DEF IndInv

LEMMA NextInv ==
    ASSUME IndInv, DiskAlone, [Next]_vars
    PROVE  IndInv'
<1>1. ASSUME NEW t \in Tasks, NEW op \in Ops, EspJrnlStart(t, op) \/ StartRefused(t, op) \/ BareCall(t, op)
      PROVE  IndInv'
  BY <1>1, EspJrnlStartInv, StartRefusedInv, BareCallInv
<1>2. ASSUME NEW t \in Tasks, TaskStep(t) PROVE IndInv'
  BY <1>2, TaskStepInv
<1>3. CASE Rest
  BY <1>3, StutterInv DEF Rest
<1>4. CASE UNCHANGED vars
  BY <1>4, StutterInv
<1> QED
  BY <1>1, <1>2, <1>3, <1>4 DEF Next

\* If only operations that never reach the disk run beside others, one call at a time
\* is at the disk, and window, log and disk agree as IndInv says, for any tasks, calls,
\* faults, descriptors and store size.
THEOREM CallsInductive ==
    ASSUME DiskAlone
    PROVE  Spec => []IndInv
<1>1. Init => IndInv
  BY InitInv
<1>2. IndInv /\ [Next]_vars => IndInv'
  BY NextInv
<1> QED
  BY <1>1, <1>2, PTL DEF Spec

\* The values have their types; in particular the log never outgrows the store, however
\* often calls fail, are cancelled or find the journal wedged.
THEOREM CallsTypeCorrect ==
    ASSUME DiskAlone
    PROVE  Spec => []TypeOK
<1>1. ASSUME IndInv PROVE TypeOK
  <2>1. ValueInv
    BY <1>1 DEF IndInv
  <2>2. \A i \in DOMAIN log : log[i].s \in Sectors /\ log[i].c \in Contents
    <3>1. log \in Seq(Record)
      BY <2>1 DEF ValueInv, Record
    <3>2. \A i \in DOMAIN log : log[i] \in Record
      BY <3>1
    <3> QED
      BY <3>2 DEF Record
  <2>3. \A i \in Slots : files[i].st \in FileStates /\ files[i].append \in BOOLEAN
    BY <2>1 DEF ValueInv
  <2>4. \A t \in Tasks : loc[t].res \in Results
    <3>1. \A t \in Tasks : loc[t] \in Locals
      BY <2>1 DEF ValueInv
    <3> QED
      BY <3>1 DEF Locals
  <2>5. win.s \in Sectors \cup {None} /\ win.c \in Contents /\ win.dirty \in BOOLEAN
    <3>1. win \in [s : {Dir, Fat, None}, c : Contents, dirty : BOOLEAN]
      BY <2>1 DEF ValueInv
    <3> QED
      BY <3>1 DEF Sectors
  <2> QED
    BY <2>1, <2>2, <2>3, <2>4, <2>5 DEF TypeOK, ValueInv
<1> QED
  BY <1>1, CallsInductive, PTL

\* The assertion of esp_jrnl_start holds: whatever failed before, the status is ready
\* only over an empty log.
THEOREM StartAsserted ==
    ASSUME DiskAlone
    PROVE  Spec => []StartAssertionHolds
<1>1. IndInv => StartAssertionHolds
  BY DEF IndInv, ValueInv, StartAssertionHolds, Places
<1> QED
  BY <1>1, CallsInductive, PTL

\* What a call that succeeded has changed stays visible to FatFS, unless records were
\* dropped or a sector was read past the log.
THEOREM UpdatesStay ==
    ASSUME DiskAlone
    PROVE  Spec => []UpdatesKept
<1>1. IndInv => UpdatesKept
  BY DEF IndInv, ViewInv
<1> QED
  BY <1>1, CallsInductive, PTL

\* With no call under way every entry of files[] in use is the application's, unless
\* esp_jrnl_start or esp_jrnl_stop failed around an open or a close.
THEOREM EntriesOwned ==
    ASSUME DiskAlone
    PROVE  Spec => []SlotsOwned
<1>1. ASSUME IndInv PROVE SlotsOwned
  BY <1>1 DEF IndInv, SlotInv, SlotsOwned, Opens, Busy
<1> QED
  BY <1>1, CallsInductive, PTL
=============================================================================
