----------------------- MODULE VfsJrnlCallsRefinement -----------------------
(***************************************************************************)
(* TLAPS proof that the file-system calls of any number of tasks see the   *)
(* transactions of AtomicVolume: the volume changes only at the step that  *)
(* puts a commit record on the disk, whatever the interleaving of writes,  *)
(* commit and transfer with other calls, and whatever fails.               *)
(***************************************************************************)
EXTENDS VfsJrnlCallsProofs

\* The refinement mapping, as in the INSTANCE of VfsJrnlCalls.
VolumeImage == IF status = "commit" /\ stored = "commit" THEN Image ELSE disk
VolumeOpen == status = "open" \/ (status = "commit" /\ stored # "commit")

-----------------------------------------------------------------------------
(* Each abstract action, in the terms of the mapping *)

LEMMA AbstractStutter ==
    ASSUME VolumeImage' = VolumeImage, Image' = Image, VolumeOpen' <=> VolumeOpen
    PROVE  UNCHANGED AV!vars
BY DEF AV!vars, VolumeImage, VolumeOpen

LEMMA AbstractBegin ==
    ASSUME ~VolumeOpen, VolumeOpen', VolumeImage' = VolumeImage, Image' = Image
    PROVE  AV!Begin
BY DEF AV!Begin, VolumeImage, VolumeOpen

LEMMA AbstractCommit ==
    ASSUME VolumeOpen, ~VolumeOpen', VolumeImage' = Image, Image' = Image
    PROVE  AV!Commit
BY DEF AV!Commit, VolumeImage, VolumeOpen

LEMMA AbstractDiscard ==
    ASSUME VolumeOpen, ~VolumeOpen', VolumeImage' = VolumeImage, Image' = VolumeImage
    PROVE  AV!Discard
BY DEF AV!Discard, VolumeImage, VolumeOpen

\* One record is a write of one sector.
LEMMA AbstractBuffer ==
    ASSUME VolumeOpen, VolumeOpen', VolumeImage' = VolumeImage, NEW s \in Sectors, NEW c \in Contents,
           Image \in [Sectors -> Contents], Image' = [Image EXCEPT ![s] = c]
    PROVE  AV!Buffer
<1> DEFINE buf == [i \in 0 .. 0 |-> c]
<1>1. buf \in [0 .. (1 - 1) -> Contents] /\ 1 \in 1 .. 1
  OBVIOUS
<1>2. Image' = AV!Overlay(Image, s, 1, buf)
  <2>1. Sectors \subseteq Int
    BY DEF Sectors, Dir, Fat, Data
  <2>2. DOMAIN Image = Sectors
    OBVIOUS
  <2>3. \A r \in Sectors : r \in s .. (s + 1 - 1) <=> r = s
    BY <2>1
  <2>4. buf[s - s] = c
    BY <2>1
  <2>5. \A r \in Sectors : [Image EXCEPT ![s] = c][r] = IF r \in s .. (s + 1 - 1) THEN buf[r - s] ELSE Image[r]
    BY <2>2, <2>3, <2>4
  <2> HIDE DEF buf
  <2>6. [Image EXCEPT ![s] = c] = [r \in Sectors |-> IF r \in s .. (s + 1 - 1) THEN buf[r - s] ELSE Image[r]]
    BY <2>2, <2>5
  <2> QED
    BY <2>2, <2>6 DEF AV!Overlay
<1> HIDE DEF buf
<1> QED
  BY <1>1, <1>2 DEF AV!Buffer, VolumeImage, VolumeOpen

-----------------------------------------------------------------------------
(* What each step is in AtomicVolume *)

\* Steps that leave the journal and the disk alone.
LEMMA JournalKept ==
    ASSUME UNCHANGED <<jrnl, disk>>
    PROVE  UNCHANGED AV!vars
<1>1. Image' = Image
  BY ImageSame DEF jrnl
<1> QED
  BY <1>1, AbstractStutter DEF VolumeImage, VolumeOpen, jrnl

LEMMA StartRefines ==
    ASSUME IndInv, NEW t \in Tasks, NEW op \in Ops, EspJrnlStart(t, op)
    PROVE  AV!Begin
<1>1. status = "ready" /\ log = <<>> /\ ValueInv
  BY DEF EspJrnlStart, IndInv, StatusInv
<1>2. status' = "open" /\ disk' = disk /\ log' = log
  BY <1>1 DEF EspJrnlStart
<1>3. Image' = Image
  BY <1>2, ImageSame
<1> QED
  BY <1>1, <1>2, <1>3, AbstractBegin DEF VolumeImage, VolumeOpen

\* A record is buffered, or the write fails before there is one.
LEMMA AppendRefines ==
    ASSUME IndInv, NEW t \in Tasks, AppendRecord(t)
    PROVE  AV!Buffer \/ UNCHANGED AV!vars
<1> DEFINE put == Head(loc[t].acc).kind = "put"
<1>1. PICK rec : rec = IF put THEN [s |-> Data, c |-> Image[Data] \cup {loc[t].id}]
                              ELSE [s |-> win.s, c |-> win.c]
  OBVIOUS
<1>2. /\ pc[t] = "append" /\ status' = status /\ disk' = disk
      /\ log' = log \/ log' = Append(log, rec)
  BY <1>1 DEF AppendRecord
<1>3. ValueInv /\ ViewInv /\ status = "open" /\ (put \/ win.dirty) /\ CallAt(pc[t], loc[t])
  BY <1>2 DEF IndInv, StatusInv, CallInv
<1>4. VolumeOpen /\ VolumeOpen' /\ VolumeImage' = VolumeImage
  BY <1>2, <1>3 DEF VolumeOpen, VolumeImage
<1>5. CASE log' = log
  BY <1>2, <1>4, <1>5, ImageSame, AbstractStutter
<1>6. CASE log' = Append(log, rec)
  <2>1. Image \in [Sectors -> Contents]
    BY <1>3, ImageType
  <2>2. rec \in Record
    <3>1. CASE put
      <4>1. loc[t].id \in 1 .. MaxCalls /\ Data \in Sectors
        BY <1>3 DEF CallAt, Sectors
      <4>2. Image[Data] \cup {loc[t].id} \in Contents
        BY <2>1, <4>1 DEF Contents
      <4> QED
        BY <1>1, <3>1, <4>1, <4>2 DEF Record
    <3>2. CASE ~put
      <4>1. win \in [s : {Dir, Fat, None}, c : Contents, dirty : BOOLEAN] /\ win.s # None
        BY <1>3, <3>2 DEF ValueInv, ViewInv
      <4>2. win.s \in Sectors /\ win.c \in Contents
        BY <4>1 DEF Sectors
      <4> QED
        BY <1>1, <3>2, <4>2 DEF Record
    <3> QED
      BY <3>1, <3>2
  <2>3. Image' = [Image EXCEPT ![rec.s] = rec.c]
    BY <1>2, <1>3, <1>6, <2>2, ImageAppend
  <2>4. rec.s \in Sectors /\ rec.c \in Contents
    BY <2>2 DEF Record
  <2> QED
    BY <1>4, <2>1, <2>3, <2>4, AbstractBuffer
<1> QED
  BY <1>2, <1>5, <1>6

\* The log is given up, whatever it holds.
LEMMA CancelRefines ==
    ASSUME IndInv, NEW t \in Tasks, Cancel(t)
    PROVE  AV!Discard
<1>1. pc[t] = "cancel" /\ log' = <<>> /\ status' = "ready" /\ disk' = disk
  BY DEF Cancel, ResetLog
<1>2. status = "open" /\ ValueInv
  <2>1. "cancel" \notin Transferring
    BY DEF Transferring
  <2> QED
    BY <1>1, <2>1, WrappedActive
<1>3. Image' = disk
  <2>1. \A s \in Sectors : Image'[s] = disk'[s]
    BY <1>1 DEF Image
  <2>2. Image' = [s \in Sectors |-> Image'[s]]
    BY DEF Image
  <2>3. disk \in [Sectors -> Contents]
    BY <1>2 DEF ValueInv
  <2> QED
    BY <1>1, <2>1, <2>2, <2>3
<1> QED
  BY <1>1, <1>2, <1>3, AbstractDiscard DEF VolumeOpen, VolumeImage

\* The commit record on the disk is the instant of the commit; without it the
\* transaction stays open for good.
LEMMA CommitRefines ==
    ASSUME IndInv, NEW t \in Tasks, Commit(t)
    PROVE  AV!Commit \/ UNCHANGED AV!vars
<1>1. /\ pc[t] = "commit" /\ status' = "commit" /\ log' = log /\ disk' = disk
      /\ stored' = "commit" \/ stored' = stored
  BY DEF Commit
<1>2. status = "open"
  <2>1. "commit" \in Ended /\ "commit" \notin Transferring
    BY DEF Ended, Transferring
  <2> QED
    BY <1>1, <2>1, WrappedActive
<1>3. Image' = Image
  BY <1>1, ImageSame
<1>4. CASE stored' = "commit"
  BY <1>1, <1>2, <1>3, <1>4, AbstractCommit DEF VolumeOpen, VolumeImage
<1>5. CASE stored' # "commit"
  BY <1>1, <1>2, <1>3, <1>5, AbstractStutter DEF VolumeOpen, VolumeImage
<1> QED
  BY <1>4, <1>5

\* The transfer changes sectors of the disk, and nothing of the committed volume.
LEMMA TransferRefines ==
    ASSUME IndInv, NEW t \in Tasks, ReplayErase(t) \/ ReplayWrite(t)
    PROVE  UNCHANGED AV!vars
<1>1. /\ pc[t] \in {"copy", "erased"} /\ UNCHANGED jrnl
      /\ pc[t] = "copy" => loc[t].at <= Len(log)
      /\ \E c : disk' = [disk EXCEPT ![log[loc[t].at].s] = c]
  BY DEF ReplayErase, ReplayWrite
<1>2. /\ ValueInv /\ status = "commit" /\ stored = "commit" /\ Len(log) \in Nat /\ DOMAIN log = 1 .. Len(log)
      /\ loc[t].at \in 1 .. (Len(log) + 1) /\ (pc[t] = "erased" => loc[t].at <= Len(log))
  BY <1>1, Copying
<1>3. loc[t].at \in DOMAIN log
  BY <1>1, <1>2
<1>4. Image' = Image
  BY <1>1, <1>2, <1>3, ImageTransfer DEF jrnl
<1> QED
  BY <1>1, <1>2, <1>4, AbstractStutter DEF VolumeOpen, VolumeImage, jrnl

\* The log is given up once the disk holds all of it.
LEMMA ReplayDoneRefines ==
    ASSUME IndInv, NEW t \in Tasks, ReplayDone(t)
    PROVE  UNCHANGED AV!vars
<1>1. /\ pc[t] = "copy" /\ loc[t].at > Len(log)
      /\ log' = <<>> /\ status' = "ready" /\ disk' = disk
  BY DEF ReplayDone, Transferred, ResetLog
<1>2. ValueInv /\ status = "commit" /\ stored = "commit"
  BY <1>1, Copying
<1>3. disk = Image
  BY <1>1, DiskIsImage
<1>4. Image' = Image
  <2>1. \A s \in Sectors : Image'[s] = disk'[s]
    BY <1>1 DEF Image
  <2>2. Image' = [s \in Sectors |-> Image'[s]]
    BY DEF Image
  <2>3. disk \in [Sectors -> Contents]
    BY <1>2 DEF ValueInv
  <2> QED
    BY <1>1, <1>3, <2>1, <2>2, <2>3
<1> QED
  BY <1>1, <1>2, <1>3, <1>4, AbstractStutter DEF VolumeOpen, VolumeImage

-----------------------------------------------------------------------------

\* Every step is a step of AtomicVolume or changes nothing there.
LEMMA NextRefines ==
    ASSUME IndInv, [Next]_vars
    PROVE  [AV!Next]_(AV!vars)
<1>1. ASSUME NEW t \in Tasks, NEW op \in Ops, EspJrnlStart(t, op) PROVE AV!Next
  BY <1>1, StartRefines DEF AV!Next
<1>2. ASSUME NEW t \in Tasks, NEW op \in Ops, StartRefused(t, op) \/ BareCall(t, op)
      PROVE  UNCHANGED AV!vars
  BY <1>2, JournalKept DEF StartRefused, BareCall, volume
<1>3. ASSUME NEW t \in Tasks, TaskStep(t) PROVE [AV!Next]_(AV!vars)
  <2>1. CASE Finish(t) \/ AcquireCtx(t) \/ ReleaseCtx(t) \/ get_next_fd(t) \/ Reject(t)
    BY <2>1, JournalKept DEF Finish, AcquireCtx, ReleaseCtx, get_next_fd, Reject, volume
  <2>2. CASE FatEnter(t) \/ FatTouch(t) \/ FatSynced(t) \/ FatExit(t) \/ EspJrnlRead(t) \/ EspJrnlWrite(t)
    BY <2>2, JournalKept DEF FatEnter, FatTouch, FatSynced, FatExit, EspJrnlRead, EspJrnlWrite, volume
  <2>3. CASE AppendRecord(t)
    BY <2>3, AppendRefines DEF AV!Next
  <2>4. CASE Cancel(t)
    BY <2>4, CancelRefines DEF AV!Next
  <2>5. CASE Commit(t)
    BY <2>5, CommitRefines DEF AV!Next
  <2>6. CASE CommitCheck(t) \/ ReplayEnter(t) \/ ReplayFails(t)
    BY <2>6, JournalKept DEF CommitCheck, ReplayEnter, ReplayFails, volume
  <2>7. CASE ReplayErase(t) \/ ReplayWrite(t)
    BY <2>7, TransferRefines
  <2>8. CASE ReplayDone(t)
    BY <2>8, ReplayDoneRefines
  <2> QED
    BY <1>3, <2>1, <2>2, <2>3, <2>4, <2>5, <2>6, <2>7, <2>8 DEF TaskStep
<1>4. CASE Rest \/ UNCHANGED vars
  BY <1>4, JournalKept DEF Rest, vars, volume
<1> QED
  BY <1>1, <1>2, <1>3, <1>4 DEF Next

\* The calls of any number of tasks implement AtomicVolume: a transaction takes effect
\* as a whole at the write of its commit record, or never, if only operations that
\* never reach the disk run beside others.
THEOREM CallsImplement ==
    ASSUME DiskAlone
    PROVE  Spec => JournalAtomic
<1>1. Init => IndInv
  BY InitInv
<1>2. IndInv /\ [Next]_vars => IndInv'
  BY NextInv
<1>3. Init => AV!Init
  <2> SUFFICES ASSUME Init PROVE AV!Init
    OBVIOUS
  <2>1. ValueInv /\ status = "ready" /\ log = <<>>
    BY <1>1 DEF Init, IndInv
  <2>2. Image = disk /\ disk \in [Sectors -> Contents]
    BY <2>1, ImageEmpty DEF ValueInv
  <2> QED
    BY <2>1, <2>2 DEF AV!Init
<1>4. IndInv /\ [Next]_vars => [AV!Next]_(AV!vars)
  BY NextRefines
<1> QED
  BY <1>1, <1>2, <1>3, <1>4, PTL DEF Spec, JournalAtomic, AV!Spec
=============================================================================
