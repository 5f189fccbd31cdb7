------------------------- MODULE EspJrnlRefinement -------------------------
(***************************************************************************)
(* TLAPS proof that the journaling core implements AtomicVolume: a         *)
(* transaction takes effect as a whole, at the step that puts its commit   *)
(* record on the disk, or never.                                           *)
(***************************************************************************)
EXTENDS EspJrnlAtomicProofs

\* The refinement mapping, as in the INSTANCE of EspJrnl.
Img == IF DiskCommitted THEN post ELSE FsImage
DirectGranted == mounted /\ master.status = "FS_DIRECT"

-----------------------------------------------------------------------------
(* Each abstract action, in the terms of the mapping *)

LEMMA AbstractStutter ==
    ASSUME Img' = Img, post' = post, Open' <=> Open, DirectGranted' <=> DirectGranted
    PROVE  UNCHANGED Atomic!vars
BY DEF Atomic!vars, Img, DirectGranted, Open

LEMMA AbstractBegin ==
    ASSUME ~Open, ~DirectGranted, Open', ~DirectGranted', Img' = Img, post' = post
    PROVE  Atomic!Begin
BY DEF Atomic!Begin, Img, DirectGranted, Open

LEMMA AbstractCommit ==
    ASSUME Open, ~Open', DirectGranted' <=> DirectGranted, Img' = post, post' = post
    PROVE  Atomic!Commit
BY DEF Atomic!Commit, Img, DirectGranted, Open

LEMMA AbstractDiscard ==
    ASSUME Open, ~Open', DirectGranted' <=> DirectGranted, Img' = Img, post' = Img
    PROVE  Atomic!Discard
BY DEF Atomic!Discard, Img, DirectGranted, Open

LEMMA AbstractToggle ==
    ASSUME ~Open, ~Open', DirectGranted' <=> ~DirectGranted, Img' = Img, post' = post
    PROVE  Atomic!Toggle
BY DEF Atomic!Toggle, Img, DirectGranted, Open

-----------------------------------------------------------------------------
(* Steps that leave the disk alone *)

\* Img follows the disk and the history variable.
LEMMA SameImg ==
    ASSUME disk' = disk
    PROVE  /\ DiskCommitted' = DiskCommitted
           /\ FsImage' = FsImage
           /\ post' = post => Img' = Img
BY DEF DiskCommitted, FsImage, MasterAddr, LogAddr, Img

\* An open transaction is never direct.
LEMMA OpenNotDirect ==
    ASSUME AllInv, Open
    PROVE  ~DirectGranted
BY DEF AllInv, CtlInv, MasterInv, Open, DirectGranted

\* Outside of a transaction the history variable and the volume agree.
LEMMA SettledImg ==
    ASSUME AllInv, ~Open
    PROVE  post = Img
BY DEF AllInv, DataInv, SettledInv, Img

\* Open transactions see the volume as the sectors hold it.
LEMMA OpenImg ==
    ASSUME AllInv, Open
    PROVE  Img = FsImage
BY DEF AllInv, DataInv, LogInv, Img

\* A step that touches no sector and ends an open transaction discards it; with no
\* transaction open it can only withdraw direct access.
LEMMA EndRefines ==
    ASSUME AllInv, disk' = disk, Settle, ~Open', DirectGranted' => DirectGranted
    PROVE  [Atomic!Next]_(Atomic!vars)
<1>1. DiskCommitted' = DiskCommitted /\ FsImage' = FsImage
  BY SameImg
<1>2. post' = Img /\ Img' = Img
  BY <1>1 DEF Settle, Img
<1>3. CASE Open
  BY <1>2, <1>3, OpenNotDirect, AbstractDiscard DEF Atomic!Next
<1>4. CASE ~Open
  <2>1. post' = post
    BY <1>2, <1>4, SettledImg
  <2>2. CASE DirectGranted' <=> DirectGranted
    BY <1>2, <1>4, <2>1, <2>2, AbstractStutter
  <2>3. CASE DirectGranted' <=> ~DirectGranted
    BY <1>2, <1>4, <2>1, <2>3, AbstractToggle DEF Atomic!Next
  <2> QED
    BY <2>2, <2>3 DEF DirectGranted
<1> QED
  BY <1>3, <1>4

\* Quiet steps change neither the disk nor the history variable.
LEMMA QuietSame ==
    ASSUME Quiet
    PROVE  disk' = disk /\ post' = post
BY DEF Quiet, EspJrnlMount, EspJrnlStart, EspJrnlStopCommit, EspJrnlSetDirectIo, EspJrnlStartRefused,
       EspJrnlStopRefused, EspJrnlSetDirectIoRefused, WriteRefused, WriteDirect, WriteLogged, WriteNoSpace,
       EspJrnlRead, MountBlank, MountInconsistent, MountFound, ReplayAssertFails, ReplayReady,
       ReplayRollback, ReplayCommit, ReplayRead, ReplayBadCrc, ReplayFinish, ReplayNoMemory, LockWait, Refuse

LEMMA QuietRefines ==
    ASSUME ReplayingClient, AllInv, AllInv', Quiet
    PROVE  [Atomic!Next]_(Atomic!vars)
<1> USE DEF AllInv, TypeInv, StepInv, AtMaster, CtlInv, ControlInv, MasterInv, RecordInv, Open, DirectGranted
<1>1. post' = post /\ Img' = Img
  BY QuietSame, SameImg
<1>2. CASE EspJrnlStart
  <2>1. ~Open /\ ~DirectGranted /\ Open' /\ ~DirectGranted'
    BY <1>2 DEF EspJrnlStart, Calling, UpdateMaster, TypeOK
  <2> QED
    BY <1>1, <2>1, AbstractBegin DEF Atomic!Next
<1>3. CASE \E on \in BOOLEAN : EspJrnlSetDirectIo(on)
  <2>1. ~Open /\ ~Open'
    BY <1>3 DEF EspJrnlSetDirectIo, Calling, UpdateMaster, TypeOK
  <2>2. CASE DirectGranted' <=> DirectGranted
    BY <1>1, <2>1, <2>2, AbstractStutter
  <2>3. CASE DirectGranted' <=> ~DirectGranted
    BY <1>1, <2>1, <2>3, AbstractToggle DEF Atomic!Next
  <2> QED
    BY <2>2, <2>3
<1>4. ASSUME (Open' <=> Open) /\ (DirectGranted' <=> DirectGranted)
      PROVE  [Atomic!Next]_(Atomic!vars)
  BY <1>1, <1>4, AbstractStutter
<1>5. CASE \E c \in Configs : EspJrnlMount(c)
  <2>1. (Open' <=> Open) /\ (DirectGranted' <=> DirectGranted)
    BY <1>5 DEF EspJrnlMount
  <2> QED
    BY <1>4, <2>1
<1>6. CASE EspJrnlStopCommit
  <2>1. (Open' <=> Open) /\ (DirectGranted' <=> DirectGranted)
    BY <1>6 DEF EspJrnlStopCommit, Calling, UpdateMaster
  <2> QED
    BY <1>4, <2>1
<1>7. CASE EspJrnlStartRefused \/ EspJrnlStopRefused \/ EspJrnlSetDirectIoRefused \/ WriteRefused
             \/ \E sector \in FsArea, count \in 1 .. MaxCount : EspJrnlRead(sector, count)
  <2>1. (Open' <=> Open) /\ (DirectGranted' <=> DirectGranted)
    BY <1>7 DEF EspJrnlStartRefused, EspJrnlStopRefused, EspJrnlSetDirectIoRefused, WriteRefused, EspJrnlRead,
                Refuse, Locals
  <2> QED
    BY <1>4, <2>1
<1>8. CASE \E o \in Writes : WriteDirect(o) \/ WriteLogged(o) \/ WriteNoSpace(o)
  <2>1. (Open' <=> Open) /\ (DirectGranted' <=> DirectGranted)
    BY <1>8 DEF WriteDirect, WriteLogged, WriteNoSpace, Calling, Refuse, Locals
  <2> QED
    BY <1>4, <2>1
<1>9. CASE MountBlank \/ MountInconsistent \/ MountFound
  <2>1. (Open' <=> Open) /\ (DirectGranted' <=> DirectGranted)
    BY <1>9 DEF MountBlank, MountInconsistent, MountFound
  <2> QED
    BY <1>4, <2>1
<1>10. CASE ReplayAssertFails \/ ReplayReady \/ ReplayRollback
  <2>1. ~mounted /\ ~mounted'
    BY <1>10 DEF ReplayAssertFails, ReplayReady, ReplayRollback, LoseRam
  <2>2. (Open' <=> Open) /\ (DirectGranted' <=> DirectGranted)
    BY <2>1
  <2> QED
    BY <1>4, <2>2
<1>11. CASE ReplayCommit \/ ReplayRead \/ ReplayBadCrc \/ ReplayFinish \/ ReplayNoMemory
  <2>1. master.status = "TRANS_COMMIT" /\ pc \notin {"m_erase", "m_write"} /\ mounted' = mounted
    BY <1>11 DEF ReplayCommit, ReplayRead, ReplayBadCrc, ReplayFinish, ReplayNoMemory, FailCall
  <2>2. /\ mounted => master'.status \in {"TRANS_COMMIT", "TRANS_READY"}
        /\ pc' \in {"m_erase", "m_write"} => after' # "commit"
    BY <1>11, <2>1 DEF ReplayCommit, ReplayRead, ReplayBadCrc, ReplayFinish, ReplayNoMemory, FailCall, Return,
                        ResetMaster, ResetStatus, UpdateMaster
  <2>3. (Open' <=> Open) /\ (DirectGranted' <=> DirectGranted)
    BY <2>1, <2>2
  <2> QED
    BY <1>4, <2>3
<1>12. CASE \E api \in {"start", "cancel", "direct"} : LockWait(api)
  <2>1. (Open' <=> Open) /\ (DirectGranted' <=> DirectGranted)
    BY <1>12 DEF LockWait, Calling, Locals
  <2> QED
    BY <1>4, <2>1
<1> QED
  BY <1>2, <1>3, <1>5, <1>6, <1>7, <1>8, <1>9, <1>10, <1>11, <1>12 DEF Quiet

-----------------------------------------------------------------------------
(* Steps that change a sector *)

\* Erasing or rewriting the master record is invisible, except that the record of a
\* commit makes the transaction take effect.
LEMMA MasterRefines ==
    ASSUME AllInv, AllInv', AtMaster, DiskSector,
           DirectGranted' <=> DirectGranted,
           Open' => Open /\ post' = post /\ ~DiskCommitted',
           DiskCommitted' => Open /\ ~Open' /\ post' = post
    PROVE  [Atomic!Next]_(Atomic!vars)
<1>1. FsImage' = FsImage
  BY MasterFrame DEF AllInv, TypeInv
<1>2. Img = FsImage
  BY MasterIsSettled DEF Img
<1>3. CASE DiskCommitted'
  <2>1. Img' = post
    BY <1>3 DEF Img
  <2> QED
    BY <1>3, <2>1, AbstractCommit DEF Atomic!Next
<1>4. CASE ~DiskCommitted'
  <2>1. Img' = Img
    BY <1>1, <1>2, <1>4 DEF Img
  <2>2. CASE Open'
    BY <2>1, <2>2, AbstractStutter
  <2>3. CASE ~Open'
    <3>1. post' = Img
      BY <1>1, <1>2, <1>4, <2>3 DEF AllInv, DataInv, SettledInv
    <3>2. CASE Open
      BY <2>1, <2>3, <3>1, <3>2, AbstractDiscard DEF Atomic!Next
    <3>3. CASE ~Open
      <4>1. post' = post
        BY <3>1, <3>3, SettledImg
      <4> QED
        BY <2>1, <2>3, <3>3, <4>1, AbstractStutter
    <3> QED
      BY <3>2, <3>3
  <2> QED
    BY <2>2, <2>3
<1> QED
  BY <1>3, <1>4

\* Writing a record that commits is the last thing a commit does to the master.
LEMMA CommitRecord ==
    ASSUME AllInv, AtMaster, DiskSector, DiskCommitted'
    PROVE  after = "commit" /\ mounted /\ master.status = "TRANS_COMMIT" /\ Open
<1>1. disk'[MasterAddr] = RawCell /\ (MasterAddr)' = MasterAddr
  BY MasterFrame DEF AllInv, TypeInv, MasterAddr, LogAddr
<1>2. pc = "m_write"
  <2>1. CASE pc = "m_erase"
    BY <1>1, <2>1 DEF RawCell, DiskCommitted, Erased
  <2> QED
    BY <2>1 DEF AtMaster
<1>3. disk'[MasterAddr] = MasterCell(master)
  BY <1>1, <1>2 DEF RawCell
<1>4. master.status = "TRANS_COMMIT"
  BY <1>1, <1>3 DEF DiskCommitted, MasterCell
<1>5. after \in {"mount", "start", "write", "cancel", "commit", "replay", "direct"}
  BY DEF AllInv, TypeInv, TypeOK, StepInv
<1>6. after = "commit" /\ mounted
  BY <1>4, <1>5 DEF AllInv, CtlInv, MasterInv
<1> QED
  BY <1>4, <1>6 DEF Open, AtMaster

LEMMA MasterStepRefines ==
    ASSUME AllInv, AllInv',
           MasterErase \/ MasterWriteMount \/ MasterWriteReplayedAtMount \/ MasterWriteCommit \/ MasterWriteReturn
    PROVE  [Atomic!Next]_(Atomic!vars)
<1> USE DEF AllInv, TypeInv, CtlInv, MasterInv
<1>1. AtMaster /\ DiskSector
  BY DEF MasterErase, MasterWriteMount, MasterWriteReplayedAtMount, MasterWriteCommit, MasterWriteReturn, RawLast, AtMaster
<1>2. CASE MasterErase
  <2>1. ~DiskCommitted'
    <3>1. disk'[MasterAddr] = Erased /\ (MasterAddr)' = MasterAddr
      BY <1>1, <1>2, MasterFrame DEF MasterErase, RawLast, RawCell, MasterAddr, LogAddr
    <3> QED
      BY <3>1 DEF DiskCommitted, Erased
  <2>2. /\ Open' <=> Open
        /\ DirectGranted' <=> DirectGranted
    BY <1>2 DEF MasterErase, RawLast, Open, DirectGranted
  <2>3. Open' => post' = post
    BY <1>2 DEF MasterErase, Settle
  <2> QED
    BY <1>1, <2>1, <2>2, <2>3, MasterRefines
<1>3. CASE MasterWriteCommit
  <2>1. ~Open' /\ post' = post /\ (DirectGranted' <=> DirectGranted)
    BY <1>3 DEF MasterWriteCommit, Open, DirectGranted
  <2> QED
    BY <1>1, <2>1, MasterRefines, CommitRecord
<1>4. CASE MasterWriteMount \/ MasterWriteReplayedAtMount \/ MasterWriteReturn
  <2>1. ~DiskCommitted' /\ post' = post
    BY <1>1, <1>4, CommitRecord DEF MasterWriteMount, MasterWriteReplayedAtMount, MasterWriteReturn
  <2>2. /\ Open' <=> Open
        /\ DirectGranted' <=> DirectGranted
    BY <1>4 DEF MasterWriteMount, MasterWriteReplayedAtMount, MasterWriteReturn, Return,
                ResetMaster, ResetStatus, UpdateMaster, Open, DirectGranted
  <2> QED
    BY <1>1, <2>1, <2>2, MasterRefines
<1> QED
  BY <1>2, <1>3, <1>4

\* Nothing logged is visible; a finished record joins what a commit would install.
LEMMA LogRefines ==
    ASSUME AllInv, AllInv',
           WriteErase \/ WriteHeader \/ WriteData \/ (RawProgress /\ Logging)
    PROVE  [Atomic!Next]_(Atomic!vars)
<1>1. Logging /\ DiskSector
  BY DEF WriteErase, WriteHeader, WriteData, RawProgress, RawLast, Logging
<1>2. mounted /\ master.status = "TRANS_OPEN" /\ ~DiskCommitted /\ oper \in Writes
  BY <1>1 DEF AllInv, CtlInv, ControlInv, RecordInv, TypeInv, StepInv
<1>3. disk'[MasterAddr] = disk[MasterAddr] /\ FsImage' = FsImage
  BY <1>1, LogFrame DEF AllInv, TypeInv
<1>4. ~DiskCommitted'
  BY <1>2, <1>3 DEF DiskCommitted, MasterAddr, LogAddr
<1>5. Img' = Img
  BY <1>2, <1>3, <1>4 DEF Img
<1>6. mounted' = mounted /\ master'.status = master.status
  BY DEF WriteErase, WriteHeader, WriteData, RawProgress, AllInv, TypeInv, TypeOK
<1>7. Open /\ Open' /\ ~DirectGranted /\ ~DirectGranted'
  BY <1>2, <1>6 DEF Open, DirectGranted
<1>8. CASE WriteErase \/ WriteHeader \/ RawProgress
  <2>1. post' = post
    BY <1>7, <1>8 DEF WriteErase, WriteHeader, RawProgress, Settle
  <2> QED
    BY <1>5, <1>7, <2>1, AbstractStutter
<1>9. CASE WriteData
  <2>1. post' = Overlay(post, oper)
    BY <1>9 DEF WriteData
  <2>2. DOMAIN post = FsArea
    BY DEF AllInv, TypeInv, TypeOK
  <2>3. post' = Atomic!Overlay(post, oper.target, oper.count, oper.buf)
    BY <2>1, <2>2 DEF Overlay, Atomic!Overlay
  <2>4. /\ oper.target \in FsArea
        /\ oper.count \in 1 .. MaxCount
        /\ oper.buf \in [0 .. (oper.count - 1) -> DataCells \cup {Erased}]
    <3>1. oper.count <= MaxCount
      BY <1>2, SizeAssumption DEF Writes
    <3> QED
      BY <1>2, <3>1, WriteFacts, SizeAssumption DEF FsArea
  <2>5. Atomic!Buffer
    BY <1>5, <1>7, <2>3, <2>4 DEF Atomic!Buffer, Img, Open, DirectGranted
  <2> QED
    BY <2>5 DEF Atomic!Next
<1> QED
  BY <1>8, <1>9

\* A transfer is invisible; a direct write changes one sector at a time.
LEMMA TargetRefines ==
    ASSUME AllInv, AllInv', AtTarget, DiskSector, mounted' = mounted,
           mounted => master' = master,
           pc' \notin {"m_erase", "m_write"},
           ~mounted => ~Open',
           master.status = "TRANS_COMMIT" => post' = post
    PROVE  [Atomic!Next]_(Atomic!vars)
<1>1. CASE master.status = "TRANS_COMMIT"
  <2>1. DiskCommitted /\ DiskCommitted' /\ ~Open
    BY <1>1, TransferSame DEF AllInv
  <2>2. Img' = Img
    BY <1>1, <2>1 DEF Img
  <2>3. ~Open' /\ ~DirectGranted /\ ~DirectGranted'
    BY <1>1 DEF Open, DirectGranted
  <2> QED
    BY <1>1, <2>1, <2>2, <2>3, AbstractStutter
<1>2. CASE master.status # "TRANS_COMMIT"
  <2>1. /\ master.status = "FS_DIRECT" /\ mounted
        /\ ~DiskCommitted /\ ~DiskCommitted' /\ ~Open
    BY <1>2, DirectSame DEF AllInv
  <2>2. master' = master /\ DirectGranted /\ DirectGranted' /\ ~Open'
    BY <2>1 DEF Open, DirectGranted
  <2>3. post' = FsImage'
    BY <2>1, <2>2 DEF AllInv, DataInv, SettledInv
  <2>4. /\ RawAddr \in FsArea
        /\ disk'[RawAddr] = RawCell
        /\ \A s \in FsArea : s # RawAddr => disk'[s] = disk[s]
    BY TargetFrame DEF AllInv, TypeInv
  <2>5. RawCell \in DataCells \cup {Erased}
    BY <2>4 DEF AllInv, TypeInv, TypeOK, Content
  <2>6. FsImage' = [FsImage EXCEPT ![RawAddr] = RawCell]
    BY <2>4 DEF FsImage
  <2>7. Img' = [Img EXCEPT ![RawAddr] = RawCell] /\ post' = Img'
    BY <2>1, <2>3, <2>6 DEF Img
  <2>8. Atomic!Direct
    BY <2>1, <2>2, <2>4, <2>5, <2>7 DEF Atomic!Direct, Img, Open, DirectGranted
  <2> QED
    BY <2>8 DEF Atomic!Next
<1> QED
  BY <1>1, <1>2

\* A driver error ends the call; what the sector became decides the abstract step.
LEMMA ErrorRefines ==
    ASSUME AllInv, AllInv', DiskError
    PROVE  [Atomic!Next]_(Atomic!vars)
<1>1. /\ pc' = "idle" /\ after' = "none" /\ mounted' = mounted
      /\ master' = IF mounted THEN master ELSE NoMaster
      /\ Settle
  BY DEF DiskError, FailCall, Return
<1>2. /\ Open' <=> mounted /\ master.status = "TRANS_OPEN"
      /\ DirectGranted' <=> DirectGranted
  BY <1>1 DEF Open, DirectGranted, NoMaster
<1>3. Open' => Open /\ post' = post
  BY <1>1, <1>2 DEF Open, Settle
<1>4. CASE disk' = disk
  <2>1. CASE Open'
    BY <1>2, <1>3, <1>4, <2>1, SameImg, AbstractStutter
  <2>2. CASE ~Open'
    BY <1>1, <1>2, <1>4, <2>2, EndRefines
  <2> QED
    BY <2>1, <2>2
<1>5. CASE DiskSector /\ AtMaster
  <2>1. DiskCommitted' => Open /\ ~Open' /\ post' = post
    BY <1>1, <1>2, <1>5, CommitRecord DEF Settle
  <2>2. Open' => ~DiskCommitted'
    BY <2>1
  <2> QED
    BY <1>2, <1>3, <1>5, <2>1, <2>2, MasterRefines
<1>6. CASE DiskSector /\ Logging
  <2>1. mounted /\ master.status = "TRANS_OPEN" /\ ~DiskCommitted
    BY <1>6 DEF AllInv, CtlInv, ControlInv, RecordInv
  <2>2. disk'[MasterAddr] = disk[MasterAddr] /\ FsImage' = FsImage
    BY <1>6, LogFrame DEF AllInv, TypeInv
  <2>3. ~DiskCommitted'
    BY <2>1, <2>2 DEF DiskCommitted, MasterAddr, LogAddr
  <2>4. Img' = Img /\ Open'
    BY <1>2, <2>1, <2>2, <2>3 DEF Img
  <2> QED
    BY <1>2, <1>3, <2>4, AbstractStutter
<1>7. CASE DiskSector /\ AtTarget
  <2>1. master.status = "TRANS_COMMIT" => post' = post
    BY <1>1, <1>7, TransferSame DEF Settle, AllInv
  <2>2. ~mounted => ~Open'
    BY <1>2
  <2> QED
    BY <1>1, <1>7, <2>1, <2>2, TargetRefines
<1>8. disk' = disk \/ (DiskSector /\ (AtMaster \/ Logging \/ AtTarget))
  BY DEF DiskError, RawPcs, AtMaster, Logging, AtTarget
<1> QED
  BY <1>4, <1>5, <1>6, <1>7, <1>8

LEMMA NextRefines ==
    ASSUME ReplayingClient, AllInv, AllInv', [Next]_vars
    PROVE  [Atomic!Next]_(Atomic!vars)
<1>1. CASE UNCHANGED vars
  <2>1. Img' = Img /\ post' = post /\ (Open' <=> Open) /\ (DirectGranted' <=> DirectGranted)
    BY <1>1, SameImg DEF vars, Open, DirectGranted
  <2> QED
    BY <2>1, AbstractStutter
<1>2. CASE Quiet
  BY <1>2, QuietRefines
<1>3. CASE EspJrnlUnmount \/ EspJrnlStopCancel \/ PowerCut
  <2>1. disk' = disk /\ Settle
    BY <1>3 DEF EspJrnlUnmount, EspJrnlStopCancel, PowerCut
  <2>2. ~Open' /\ ~DirectGranted'
    BY <1>3 DEF EspJrnlUnmount, EspJrnlStopCancel, PowerCut, LoseRam, ResetMaster, ResetStatus, UpdateMaster,
                Open, DirectGranted
  <2> QED
    BY <2>1, <2>2, EndRefines
<1>4. CASE MasterErase \/ MasterWriteMount \/ MasterWriteReplayedAtMount \/ MasterWriteCommit \/ MasterWriteReturn
  BY <1>4, MasterStepRefines
<1>5. CASE WriteErase \/ WriteHeader \/ WriteData \/ (RawProgress /\ Logging)
  BY <1>5, LogRefines
<1>6. CASE TargetErase \/ ReplayTransferred \/ DirectWritten \/ (RawProgress /\ AtTarget)
  <2>1. /\ AtTarget /\ DiskSector /\ mounted' = mounted /\ master' = master
        /\ pc' \notin {"m_erase", "m_write"}
        /\ post' = post \/ Settle
    BY <1>6 DEF TargetErase, ReplayTransferred, DirectWritten, RawProgress, RawLast, AtTarget, Return
  <2>2. master.status = "TRANS_COMMIT" => post' = post
    BY <2>1, TransferSame DEF Settle, AllInv
  <2>3. ~mounted => ~Open'
    BY <2>1 DEF Open
  <2> QED
    BY <2>1, <2>2, <2>3, TargetRefines
<1>7. CASE DiskError
  BY <1>7, ErrorRefines
<1>8. RawProgress => Logging \/ AtTarget
  BY RawProgressPlace DEF AllInv
<1> QED
  BY <1>1, <1>2, <1>3, <1>4, <1>5, <1>6, <1>7, <1>8 DEF Next, Client, Running, Quiet, Blocked

LEMMA InitRefines ==
    ASSUME ReplayingClient, Init
    PROVE  Atomic!Init
<1>1. AllInv
  BY Inductive
<1>2. ~Open /\ ~DirectGranted
  BY DEF Init, Open, DirectGranted
<1>3. post = Img /\ post \in [FsArea -> DataCells \cup {Erased}]
  BY <1>1, <1>2, SettledImg DEF AllInv, TypeInv, TypeOK, Content
<1> QED
  BY <1>2, <1>3 DEF Atomic!Init, Img, Open, DirectGranted

\* The journaling core implements the atomic volume, for every volume, store size and
\* payload and any number of power cuts and disk errors: a transaction between
\* esp_jrnl_start and esp_jrnl_stop reaches the file system as a whole or not at all.
THEOREM Implements ==
    ASSUME ReplayingClient
    PROVE  Spec => Refinement
<1>1. Init => AllInv
  BY Inductive
<1>2. AllInv /\ [Next]_vars => AllInv'
  BY Inductive
<1>3. Init => Atomic!Init
  BY InitRefines
<1>4. AllInv /\ AllInv' /\ [Next]_vars => [Atomic!Next]_(Atomic!vars)
  BY NextRefines
<1> QED
  BY <1>1, <1>2, <1>3, <1>4, PTL DEF Spec, Refinement, Atomic!Spec
=============================================================================
