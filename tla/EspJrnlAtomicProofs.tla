------------------------ MODULE EspJrnlAtomicProofs ------------------------
(***************************************************************************)
(* TLAPS proofs that the journal is atomic: the invariant of EspJrnlInv is *)
(* inductive, hence a committed log is always replayable, is kept until it *)
(* is transferred, and EspJrnl implements AtomicVolume.                    *)
(***************************************************************************)
EXTENDS EspJrnlProofs

-----------------------------------------------------------------------------
(* What one sector of a raw operation leaves alone *)

\* jrnl_update_master touches the master record only.
LEMMA MasterFrame ==
    ASSUME TypeOK, AtMaster, DiskSector
    PROVE  /\ disk'[MasterAddr] = RawCell
           /\ FsImage' = FsImage
           /\ \A s \in FsArea : disk'[s] = disk[s]
           /\ \A p \in 0 .. (StoreSize - 2) : disk'[LogAddr(p)] = disk[LogAddr(p)]
<1>1. RawAddr = MasterAddr
  BY DEF RawAddr, AtMaster
<1>2. /\ disk'[MasterAddr] = RawCell
      /\ \A a \in Volume : a # MasterAddr => disk'[a] = disk[a]
  BY <1>1, Layout DEF DiskSector, TypeOK
<1> QED
  BY <1>2, Layout DEF FsImage

\* esp_jrnl_write touches the store behind the log in use only.
LEMMA LogFrame ==
    ASSUME TypeOK, StepInv, Logging, DiskSector
    PROVE  /\ disk'[MasterAddr] = disk[MasterAddr]
           /\ FsImage' = FsImage
           /\ \A s \in FsArea : disk'[s] = disk[s]
           /\ \A p \in 0 .. (master.nf - 1) : disk'[LogAddr(p)] = disk[LogAddr(p)]
           /\ \A p \in 0 .. (StoreSize - 2) : LogAddr(p) # RawAddr => disk'[LogAddr(p)] = disk[LogAddr(p)]
           /\ disk'[RawAddr] = RawCell
<1>1. oper \in Writes /\ k < RawLen /\ k \in Nat /\ master.nf \in Nat
  BY SizeAssumption DEF StepInv, Logging, TypeOK, RawPcs
<1>2. /\ oper.count \in Nat /\ master.nf + 1 + oper.count < StoreSize - 1
  BY <1>1, WriteFacts DEF StepInv, HasSpace
<1>3. k <= oper.count /\ (pc = "w_data" => k < oper.count)
  BY <1>1, <1>2, WriteFacts DEF RawLen, Logging
<1>4. PICK j \in {k, k + 1} : RawAddr = LogAddr(master.nf + j) /\ master.nf + j \in 0 .. (StoreSize - 2)
  <2>1. CASE pc = "w_data"
    BY <2>1, <1>1, <1>2, <1>3, SizeAssumption DEF RawAddr, LogAddr
  <2>2. CASE pc # "w_data"
    BY <2>2, <1>1, <1>2, <1>3, SizeAssumption DEF RawAddr, LogAddr, Logging
  <2> QED
    BY <2>1, <2>2
<1>5. /\ RawAddr \in Volume
      /\ RawAddr # MasterAddr
      /\ RawAddr \notin FsArea
      /\ \A p \in 0 .. (master.nf - 1) : LogAddr(p) # RawAddr
  <2>1. \A p \in 0 .. (master.nf - 1) : LogAddr(p) # RawAddr
    BY <1>1, <1>4, SizeAssumption DEF LogAddr
  <2> QED
    BY <2>1, <1>4, Layout
<1>6. /\ disk'[RawAddr] = RawCell
      /\ \A a \in Volume : a # RawAddr => disk'[a] = disk[a]
  BY <1>5 DEF DiskSector, TypeOK
<1>7. \A p \in 0 .. (master.nf - 1) : p \in 0 .. (StoreSize - 2)
  BY <1>1, <1>2, SizeAssumption
<1> QED
  BY <1>5, <1>6, <1>7, Layout DEF FsImage

\* Transfers and direct writes touch the sector they are for.
LEMMA TargetFrame ==
    ASSUME TypeOK, StepInv, AtTarget, DiskSector
    PROVE  /\ disk'[MasterAddr] = disk[MasterAddr]
           /\ \A p \in 0 .. (StoreSize - 2) : disk'[LogAddr(p)] = disk[LogAddr(p)]
           /\ RawAddr = oper.target + k
           /\ RawAddr \in FsArea
           /\ k \in 0 .. (oper.count - 1)
           /\ disk'[RawAddr] = RawCell
           /\ \A s \in FsArea : s # RawAddr => disk'[s] = disk[s]
<1>1. oper \in Writes /\ k < RawLen /\ k \in Nat
  BY DEF StepInv, AtTarget, TypeOK, RawPcs
<1>2. k \in 0 .. (oper.count - 1)
  BY <1>1, WriteFacts DEF RawLen, AtTarget
<1>3. RawAddr = oper.target + k
  BY DEF RawAddr, AtTarget
<1>4. RawAddr \in FsArea
  BY <1>1, <1>2, <1>3, WriteFacts, SizeAssumption DEF FsArea
<1> QED
  BY <1>2, <1>3, <1>4, Layout DEF DiskSector, TypeOK

-----------------------------------------------------------------------------
(* Control: who is at which step, and memory against disk *)

CtlInv == ControlInv /\ MasterInv /\ RecordInv

LEMMA InitCtl == Init => CtlInv
<1> SUFFICES ASSUME Init PROVE CtlInv
  OBVIOUS
<1>1. disk[MasterAddr] \in {Erased, MasterCell([status |-> "TRANS_READY", nf |-> 0]), ForeignMaster}
  BY Layout DEF Init
<1> QED
  BY <1>1 DEF Init, CtlInv, ControlInv, MasterInv, RecordInv, Logging, AtTarget, AtMaster, Replaying,
       MasterCell, ForeignMaster, Erased, NoMaster

LEMMA NextCtl ==
    ASSUME ReplayingClient, TypeInv, CtlInv, [Next]_vars
    PROVE  CtlInv'
<1> USE DEF TypeInv, CtlInv, ControlInv, MasterInv, RecordInv, Logging, AtTarget, AtMaster,
            Replaying, RawPcs, DiskCommitted
<1>1. CASE UNCHANGED vars
  BY <1>1 DEF vars, MasterAddr, LogAddr, MasterCell, StepInv
<1>2. CASE \E c \in Configs : EspJrnlMount(c)
  <2>1. PICK c \in Configs : EspJrnlMount(c)
    BY <1>2
  <2>2. c.fresh = FALSE /\ c.replay = TRUE
    BY ConfigAssumption DEF ReplayingClient
  <2> QED
    BY <2>1, <2>2 DEF EspJrnlMount, NoMaster, StepInv, MasterCell, MasterAddr, LogAddr
<1>3. CASE EspJrnlUnmount
  BY <1>3 DEF EspJrnlUnmount, NoMaster, Locals, StepInv, MasterCell, MasterAddr, LogAddr
<1>4. CASE EspJrnlStart
  BY <1>4 DEF EspJrnlStart, Calling, TypeOK, UpdateMaster, StepInv, MasterCell, MasterAddr, LogAddr
<1>5. CASE EspJrnlStartRefused
  BY <1>5 DEF EspJrnlStartRefused, Refuse, Locals, StepInv, MasterCell, MasterAddr, LogAddr
<1>6. CASE EspJrnlStopRefused
  BY <1>6 DEF EspJrnlStopRefused, Refuse, Locals, StepInv, MasterCell, MasterAddr, LogAddr
<1>7. CASE EspJrnlSetDirectIoRefused
  BY <1>7 DEF EspJrnlSetDirectIoRefused, Refuse, Locals, StepInv, MasterCell, MasterAddr, LogAddr
<1>8. CASE WriteRefused
  BY <1>8 DEF WriteRefused, Refuse, Locals, StepInv, MasterCell, MasterAddr, LogAddr
<1>9. CASE EspJrnlStopCancel
  BY <1>9 DEF EspJrnlStopCancel, Calling, ResetMaster, ResetStatus, UpdateMaster, ReplayingClient, StepInv, MasterCell, MasterAddr, LogAddr
<1>10. CASE EspJrnlStopCommit
  BY <1>10 DEF EspJrnlStopCommit, Calling, UpdateMaster, StepInv, MasterCell, MasterAddr, LogAddr
<1>11. CASE \E on \in BOOLEAN : EspJrnlSetDirectIo(on)
  BY <1>11 DEF EspJrnlSetDirectIo, Calling, UpdateMaster, StepInv, MasterCell, MasterAddr, LogAddr
<1>12. CASE \E o \in Writes : WriteDirect(o) \/ WriteLogged(o) \/ WriteNoSpace(o)
  <2>1. PICK o \in Writes : WriteDirect(o) \/ WriteLogged(o) \/ WriteNoSpace(o)
    BY <1>12
  <2>2. CASE WriteDirect(o)
    BY <2>2 DEF WriteDirect, Calling, ReplayingClient, StepInv, MasterCell, MasterAddr, LogAddr
  <2>3. CASE WriteLogged(o)
    BY <2>3 DEF WriteLogged, Calling, ReplayingClient, StepInv, MasterCell, MasterAddr, LogAddr
  <2>4. CASE WriteNoSpace(o)
    BY <2>4 DEF WriteNoSpace, Refuse, Locals, StepInv, MasterCell, MasterAddr, LogAddr
  <2> QED
    BY <2>1, <2>2, <2>3, <2>4
<1>13. CASE \E sector \in FsArea, count \in 1 .. MaxCount : EspJrnlRead(sector, count)
  BY <1>13 DEF EspJrnlRead, Refuse, Locals, StepInv, MasterCell, MasterAddr, LogAddr
<1>14. CASE RawProgress
  <2>1. disk'[MasterAddr] = disk[MasterAddr]
    <3>1. ~AtMaster
      BY <1>14 DEF RawProgress, LastSector, RawLen, StepInv, TypeOK
    <3> QED
      BY <1>14, <3>1, LogFrame, TargetFrame DEF RawProgress
  <2> QED
    BY <1>14, <2>1 DEF RawProgress, StepInv, MasterCell, MasterAddr, LogAddr
<1>15. CASE MasterErase
  <2>1. disk'[MasterAddr] = RawCell
    BY <1>15, MasterFrame DEF MasterErase, RawLast
  <2> QED
    BY <1>15, <2>1 DEF MasterErase, RawLast, RawCell, Erased, StepInv, MasterCell, MasterAddr, LogAddr
<1>16. CASE MasterWriteMount
  <2>1. disk'[MasterAddr] = RawCell
    BY <1>16, MasterFrame DEF MasterWriteMount, RawLast
  <2> QED
    BY <1>16, <2>1 DEF MasterWriteMount, RawLast, RawCell, Return, NoOper, StepInv, MasterCell, MasterAddr, LogAddr
<1>17. CASE MasterWriteReplayedAtMount
  <2>1. disk'[MasterAddr] = RawCell
    BY <1>17, MasterFrame DEF MasterWriteReplayedAtMount, RawLast
  <2> QED
    BY <1>17, <2>1 DEF MasterWriteReplayedAtMount, RawLast, RawCell, ResetMaster, ResetStatus, UpdateMaster, StepInv, MasterCell, MasterAddr, LogAddr
<1>18. CASE MasterWriteCommit
  <2>1. disk'[MasterAddr] = RawCell
    BY <1>18, MasterFrame DEF MasterWriteCommit, RawLast
  <2> QED
    BY <1>18, <2>1 DEF MasterWriteCommit, RawLast, RawCell, StepInv, MasterCell, MasterAddr, LogAddr
<1>19. CASE MasterWriteReturn
  <2>1. disk'[MasterAddr] = RawCell
    BY <1>19, MasterFrame DEF MasterWriteReturn, RawLast
  <2> QED
    BY <1>19, <2>1 DEF MasterWriteReturn, RawLast, RawCell, Return, StepInv, MasterCell, MasterAddr, LogAddr
<1>20. CASE MountBlank
  BY <1>20 DEF MountBlank, ResetMaster, ResetStatus, UpdateMaster, StepInv, MasterCell, MasterAddr, LogAddr
<1>21. CASE MountInconsistent
  BY <1>21 DEF MountInconsistent, Return, NoMaster, StepInv, MasterCell, MasterAddr, LogAddr
<1>22. CASE MountFound
  <2>1. disk[MasterAddr] \in MasterCells
    BY <1>22 DEF MountFound, TypeOK, Erased
  <2>2. disk[MasterAddr] = MasterCell([status |-> disk[MasterAddr].status, nf |-> disk[MasterAddr].nf])
    BY <1>22, <2>1 DEF MountFound, MasterCells, MasterCell
  <2>3. /\ master' = [status |-> disk[MasterAddr].status, nf |-> disk[MasterAddr].nf]
        /\ pc' = "replay"
    BY <1>22 DEF MountFound
  <2>4. disk'[MasterAddr] = MasterCell(master)'
    BY <1>22, <2>2, <2>3 DEF MountFound, MasterCell, MasterAddr, LogAddr
  <2> QED
    BY <1>22, <2>3, <2>4 DEF MountFound, StepInv, MasterAddr, LogAddr, NoMaster
<1>23. CASE ReplayAssertFails
  BY <1>23 DEF ReplayAssertFails, LoseRam, NoMaster, StepInv, MasterCell, MasterAddr, LogAddr
<1>24. CASE ReplayReady
  BY <1>24 DEF ReplayReady, ResetMaster, ResetStatus, UpdateMaster, StepInv, MasterCell, MasterAddr, LogAddr
<1>25. CASE ReplayRollback
  BY <1>25 DEF ReplayRollback, ResetMaster, ResetStatus, UpdateMaster, StepInv, MasterCell, MasterAddr, LogAddr
<1>26. CASE ReplayCommit
  BY <1>26 DEF ReplayCommit, StepInv, MasterCell, MasterAddr, LogAddr
<1>27. CASE ReplayRead
  BY <1>27 DEF ReplayRead, StepInv, MasterCell, MasterAddr, LogAddr
<1>28. CASE ReplayBadCrc
  BY <1>28 DEF ReplayBadCrc, FailCall, Return, NoMaster, StepInv, MasterCell, MasterAddr, LogAddr
<1>29. CASE ReplayFinish
  BY <1>29 DEF ReplayFinish, TypeOK, ResetMaster, ResetStatus, UpdateMaster, StepInv, MasterCell, MasterAddr, LogAddr
<1>30. CASE TargetErase
  <2>1. disk'[MasterAddr] = disk[MasterAddr]
    BY <1>30, TargetFrame DEF TargetErase, RawLast
  <2> QED
    BY <1>30, <2>1 DEF TargetErase, RawLast, StepInv, MasterCell, MasterAddr, LogAddr
<1>31. CASE ReplayTransferred
  <2>1. disk'[MasterAddr] = disk[MasterAddr]
    BY <1>31, TargetFrame DEF ReplayTransferred, RawLast
  <2> QED
    BY <1>31, <2>1 DEF ReplayTransferred, RawLast, StepInv, MasterCell, MasterAddr, LogAddr
<1>32. CASE DirectWritten
  <2>1. disk'[MasterAddr] = disk[MasterAddr]
    BY <1>32, TargetFrame DEF DirectWritten, RawLast
  <2> QED
    BY <1>32, <2>1 DEF DirectWritten, RawLast, Return, StepInv, MasterCell, MasterAddr, LogAddr
<1>33. CASE WriteErase
  <2>1. disk'[MasterAddr] = disk[MasterAddr]
    BY <1>33, LogFrame DEF WriteErase, RawLast
  <2> QED
    BY <1>33, <2>1 DEF WriteErase, RawLast, StepInv, MasterCell, MasterAddr, LogAddr
<1>34. CASE WriteHeader
  <2>1. disk'[MasterAddr] = disk[MasterAddr]
    BY <1>34, LogFrame DEF WriteHeader, RawLast
  <2> QED
    BY <1>34, <2>1 DEF WriteHeader, RawLast, StepInv, MasterCell, MasterAddr, LogAddr
<1>35. CASE WriteData
  <2>1. disk'[MasterAddr] = disk[MasterAddr]
    BY <1>35, LogFrame DEF WriteData, RawLast
  <2> QED
    BY <1>35, <2>1 DEF WriteData, RawLast, UpdateMaster, StepInv, MasterCell, MasterAddr, LogAddr
<1>36. CASE DiskError
  <2>1. \/ disk'[MasterAddr] = disk[MasterAddr]
        \/ AtMaster /\ disk'[MasterAddr] = RawCell
    BY <1>36, MasterFrame, LogFrame, TargetFrame DEF DiskError
  <2> QED
    BY <1>36, <2>1 DEF DiskError, FailCall, Return, NoMaster, RawCell, Erased, StepInv, MasterCell, MasterAddr, LogAddr
<1>37. CASE PowerCut
  BY <1>37 DEF PowerCut, LoseRam, NoMaster, StepInv, MasterCell, MasterAddr, LogAddr
<1>38. CASE \E api \in {"start", "cancel", "direct"} : LockWait(api)
  BY <1>38 DEF LockWait, Calling, Locals, StepInv, MasterCell, MasterAddr, LogAddr
<1>39. CASE ReplayNoMemory
  BY <1>39 DEF ReplayNoMemory, FailCall, Return, NoMaster, StepInv, MasterCell, MasterAddr, LogAddr
<1>40. CASE Blocked
  BY <1>1, <1>40 DEF Blocked
<1> QED
  BY <1>1, <1>2, <1>3, <1>4, <1>5, <1>6, <1>7, <1>8, <1>9, <1>10, <1>11, <1>12, <1>13, <1>14, <1>15, <1>16, <1>17, <1>18, <1>19, <1>20, <1>21, <1>22, <1>23, <1>24, <1>25, <1>26, <1>27, <1>28, <1>29, <1>30, <1>31, <1>32, <1>33, <1>34, <1>35, <1>36, <1>37, <1>38, <1>39, <1>40 DEF Next, Client, Running

-----------------------------------------------------------------------------
(* Lemmas about the log *)

\* d is a disk whose headers below nf are those of client writes.
TypedLog(d, nf) == \A p \in 0 .. (nf - 1) : Header(d, p) => \E o \in Writes : d[LogAddr(p)] = HeaderCell(o)

\* The fields of a header are those of a write.
LEMMA HeaderFacts ==
    ASSUME NEW d, NEW nf \in Nat, TypedLog(d, nf), NEW p \in 0 .. (nf - 1), Header(d, p)
    PROVE  /\ d[LogAddr(p)].target \in Nat
           /\ d[LogAddr(p)].count \in Nat
           /\ d[LogAddr(p)].count >= 1
           /\ d[LogAddr(p)].target + d[LogAddr(p)].count <= FsSectors
<1>1. PICK o \in Writes : d[LogAddr(p)] = HeaderCell(o)
  BY DEF TypedLog
<1> QED
  BY <1>1, WriteFacts DEF HeaderCell

LEMMA VolumeTypedLog ==
    ASSUME NEW d \in [Volume -> Content \cup HeaderCells \cup MasterCells], NEW nf \in 0 .. (StoreSize - 1)
    PROVE  TypedLog(d, nf)
<1> SUFFICES ASSUME NEW p \in 0 .. (nf - 1), Header(d, p)
             PROVE  \E o \in Writes : d[LogAddr(p)] = HeaderCell(o)
  BY DEF TypedLog
<1>1. p \in 0 .. (StoreSize - 2)
  BY SizeAssumption
<1> QED
  BY <1>1, Layout, CellFacts DEF Header

LEMMA DiskTypedLog ==
    ASSUME TypeOK, NEW nf \in 0 .. (StoreSize - 1)
    PROVE  TypedLog(disk, nf)
BY VolumeTypedLog DEF TypeOK

\* The empty log changes nothing.
LEMMA EmptyLog ==
    ASSUME NEW d, NEW f, \A s \in FsArea : f[s] = d[s]
    PROVE  Chain(d, 0) /\ Image(d, 0, f)
BY DEF Chain, Image

\* Only the log in use and the file system matter.
LEMMA SameLog ==
    ASSUME NEW d, NEW e, NEW nf \in Nat, TypedLog(d, nf),
           \A p \in 0 .. (nf - 1) : e[LogAddr(p)] = d[LogAddr(p)]
    PROVE  /\ \A p \in 0 .. (nf - 1) : Header(e, p) <=> Header(d, p)
           /\ \A p \in 0 .. (nf - 1), s \in FsArea : Covers(e, p, s) <=> Covers(d, p, s)
           /\ \A p \in Nat, s \in FsArea : Uncovered(e, p, nf, s) <=> Uncovered(d, p, nf, s)
           /\ Chain(d, nf) => Chain(e, nf)
<1>1. \A p \in 0 .. (nf - 1) : Header(e, p) <=> Header(d, p)
  BY DEF Header
<1>2. \A p \in 0 .. (nf - 1), s \in FsArea : Covers(e, p, s) <=> Covers(d, p, s)
  BY <1>1 DEF Covers
<1>3. \A p \in Nat, s \in FsArea : Uncovered(e, p, nf, s) <=> Uncovered(d, p, nf, s)
  BY <1>2 DEF Uncovered
<1>4. ASSUME Chain(d, nf) PROVE Chain(e, nf)
  <2>1. nf > 0 => Header(e, 0)
    BY <1>1, <1>4 DEF Chain
  <2>2. ASSUME NEW p \in 0 .. (nf - 1), Header(e, p)
        PROVE  /\ p + e[LogAddr(p)].count < nf
               /\ \A j \in 0 .. (e[LogAddr(p)].count - 1) :
                     ~Header(e, p + 1 + j) /\ e[LogAddr(p + 1 + j)] = e[LogAddr(p)].crc[j]
               /\ p + 1 + e[LogAddr(p)].count < nf => Header(e, p + 1 + e[LogAddr(p)].count)
    <3>1. Header(d, p) /\ e[LogAddr(p)] = d[LogAddr(p)]
      BY <1>1, <2>2
    <3>2. d[LogAddr(p)].count \in Nat
      BY <3>1, HeaderFacts
    <3>3. /\ p + d[LogAddr(p)].count < nf
          /\ \A j \in 0 .. (d[LogAddr(p)].count - 1) :
                ~Header(d, p + 1 + j) /\ d[LogAddr(p + 1 + j)] = d[LogAddr(p)].crc[j]
          /\ p + 1 + d[LogAddr(p)].count < nf => Header(d, p + 1 + d[LogAddr(p)].count)
      BY <3>1, <1>4 DEF Chain
    <3>4. \A j \in 0 .. (d[LogAddr(p)].count - 1) : p + 1 + j \in 0 .. (nf - 1)
      BY <3>2, <3>3
    <3>5. p + 1 + d[LogAddr(p)].count < nf => p + 1 + d[LogAddr(p)].count \in 0 .. (nf - 1)
      BY <3>2
    <3> QED
      BY <3>1, <3>3, <3>4, <3>5, <1>1
  <2> QED
    BY <2>1, <2>2 DEF Chain
<1> QED
  BY <1>1, <1>2, <1>3, <1>4

\* The image of a log does not depend on what its records will overwrite.
LEMMA SameImage ==
    ASSUME NEW d, NEW e, NEW nf \in Nat, NEW f, TypedLog(d, nf),
           \A p \in 0 .. (nf - 1) : e[LogAddr(p)] = d[LogAddr(p)],
           \A s \in FsArea : Uncovered(d, 0, nf, s) => e[s] = d[s],
           Image(d, nf, f)
    PROVE  Image(e, nf, f)
<1> SUFFICES ASSUME NEW s \in FsArea
             PROVE  /\ Uncovered(e, 0, nf, s) => f[s] = e[s]
                    /\ \A p \in 0 .. (nf - 1) :
                          Covers(e, p, s) /\ Uncovered(e, p + 1, nf, s)
                             => f[s] = e[LogAddr(p)].crc[s - e[LogAddr(p)].target]
  BY DEF Image
<1>1. Uncovered(e, 0, nf, s) => f[s] = e[s]
  BY SameLog DEF Image
<1>2. ASSUME NEW p \in 0 .. (nf - 1), Covers(e, p, s), Uncovered(e, p + 1, nf, s)
      PROVE  f[s] = e[LogAddr(p)].crc[s - e[LogAddr(p)].target]
  <2>1. p + 1 \in Nat
    OBVIOUS
  <2>2. Covers(d, p, s) /\ Uncovered(d, p + 1, nf, s)
    BY <1>2, <2>1, SameLog
  <2> QED
    BY <2>2 DEF Image
<1> QED
  BY <1>1, <1>2

\* Appending a record extends the chain and overlays the image.
LEMMA AppendLog ==
    ASSUME NEW d, NEW nf \in Nat, NEW f, NEW o \in Writes,
           TypedLog(d, nf + 1 + o.count),
           Chain(d, nf), Image(d, nf, f),
           d[LogAddr(nf)] = HeaderCell(o),
           \A j \in 0 .. (o.count - 1) : d[LogAddr(nf + 1 + j)] = o.buf[j]
    PROVE  /\ Chain(d, nf + 1 + o.count)
           /\ Image(d, nf + 1 + o.count, Overlay(f, o))
<1> DEFINE m == nf + 1 + o.count
<1>1. /\ o.count \in Nat /\ o.count >= 1 /\ o.target \in Nat
      /\ o.buf \in [0 .. (o.count - 1) -> DataCells]
  BY WriteFacts
<1>2. Header(d, nf) /\ d[LogAddr(nf)].count = o.count /\ d[LogAddr(nf)].target = o.target
         /\ d[LogAddr(nf)].crc = o.buf
  BY DEF Header, HeaderCell
<1>3. \A j \in 0 .. (o.count - 1) : ~Header(d, nf + 1 + j)
  BY <1>1 DEF Header, DataCells
<1>4. \A p \in (nf + 1) .. (m - 1) : ~Header(d, p)
  <2> SUFFICES ASSUME NEW p \in (nf + 1) .. (m - 1) PROVE ~Header(d, p)
    OBVIOUS
  <2>1. /\ p - nf - 1 \in 0 .. (o.count - 1)
        /\ nf + 1 + (p - nf - 1) = p
    BY <1>1
  <2> QED
    BY <2>1, <1>3
<1>5. TypedLog(d, nf)
  BY <1>1 DEF TypedLog
<1>6. Chain(d, m)
  <2>1. m > 0 => Header(d, 0)
    <3>1. CASE nf = 0
      BY <3>1, <1>2
    <3>2. CASE nf > 0
      BY <3>2 DEF Chain
    <3> QED
      BY <3>1, <3>2
  <2>2. ASSUME NEW p \in 0 .. (m - 1), Header(d, p)
        PROVE  /\ p + d[LogAddr(p)].count < m
               /\ \A j \in 0 .. (d[LogAddr(p)].count - 1) :
                     ~Header(d, p + 1 + j) /\ d[LogAddr(p + 1 + j)] = d[LogAddr(p)].crc[j]
               /\ p + 1 + d[LogAddr(p)].count < m => Header(d, p + 1 + d[LogAddr(p)].count)
    <3>1. p \in 0 .. (nf - 1) \/ p = nf
      BY <2>2, <1>1, <1>4
    <3>2. CASE p = nf
      BY <3>2, <1>1, <1>2, <1>3
    <3>3. CASE p \in 0 .. (nf - 1)
      <4>1. d[LogAddr(p)].count \in Nat
        BY <3>3, <2>2, <1>5, HeaderFacts
      <4>2. /\ p + d[LogAddr(p)].count < nf
            /\ \A j \in 0 .. (d[LogAddr(p)].count - 1) :
                  ~Header(d, p + 1 + j) /\ d[LogAddr(p + 1 + j)] = d[LogAddr(p)].crc[j]
            /\ p + 1 + d[LogAddr(p)].count < nf => Header(d, p + 1 + d[LogAddr(p)].count)
        BY <3>3, <2>2 DEF Chain
      <4>3. p + 1 + d[LogAddr(p)].count < nf \/ p + 1 + d[LogAddr(p)].count = nf
        BY <3>3, <4>1, <4>2
      <4> QED
        BY <4>1, <4>2, <4>3, <1>1, <1>2
    <3> QED
      BY <3>1, <3>2, <3>3
  <2> HIDE DEF m
  <2> QED
    BY <2>1, <2>2 DEF Chain
<1>7. ASSUME NEW s \in FsArea
      PROVE  /\ Uncovered(d, 0, m, s) => Overlay(f, o)[s] = d[s]
             /\ \A p \in 0 .. (m - 1) :
                   Covers(d, p, s) /\ Uncovered(d, p + 1, m, s)
                      => Overlay(f, o)[s] = d[LogAddr(p)].crc[s - d[LogAddr(p)].target]
  <2>1. Covers(d, nf, s) <=> s \in o.target .. (o.target + o.count - 1)
    BY <1>2 DEF Covers
  <2>2. \A p \in (nf + 1) .. (m - 1) : ~Covers(d, p, s)
    BY <1>4 DEF Covers
  <2>3. nf \in 0 .. (m - 1) /\ \A p \in 0 .. (nf - 1) : p \in 0 .. (m - 1)
    BY <1>1
  <2>4. ASSUME Uncovered(d, 0, m, s) PROVE Overlay(f, o)[s] = d[s]
    <3>1. ~Covers(d, nf, s) /\ Uncovered(d, 0, nf, s)
      BY <2>3, <2>4 DEF Uncovered
    <3> QED
      BY <3>1, <2>1 DEF Overlay, Image
  <2>5. ASSUME NEW p \in 0 .. (m - 1), Covers(d, p, s), Uncovered(d, p + 1, m, s)
        PROVE  Overlay(f, o)[s] = d[LogAddr(p)].crc[s - d[LogAddr(p)].target]
    <3>1. p \in 0 .. (nf - 1) \/ p = nf
      BY <2>2, <2>5, <1>1
    <3>2. CASE p = nf
      BY <3>2, <2>1, <2>5, <1>2 DEF Overlay
    <3>3. CASE p \in 0 .. (nf - 1)
      <4>1. nf \in (p + 1) .. (m - 1)
        BY <3>3, <1>1
      <4>2. ~Covers(d, nf, s)
        BY <4>1, <2>5 DEF Uncovered
      <4>3. Uncovered(d, p + 1, nf, s)
        BY <3>3, <2>3, <2>5, <1>1 DEF Uncovered
      <4> QED
        BY <3>3, <4>2, <4>3, <2>1, <2>5 DEF Overlay, Image
    <3> QED
      BY <3>1, <3>2, <3>3
  <2> QED
    BY <2>4, <2>5
<1> QED
  BY <1>6, <1>7 DEF Image

-----------------------------------------------------------------------------
(* The contents of log and file system *)

DataInv == LogInv /\ SettledInv /\ ReplayInv /\ TransferInv /\ AppendInv

LEMMA InitData == Init => DataInv
<1> SUFFICES ASSUME Init PROVE DataInv
  OBVIOUS
<1>1. disk[MasterAddr] \in {Erased, MasterCell([status |-> "TRANS_READY", nf |-> 0]), ForeignMaster}
  BY Layout DEF Init
<1>2. ~DiskCommitted /\ ~Open
  BY <1>1 DEF Init, DiskCommitted, Open, Erased, MasterCell, ForeignMaster
<1> QED
  BY <1>2 DEF Init, DataInv, LogInv, SettledInv, ReplayInv, TransferInv, AppendInv, Replaying, AtTarget

\* Steps that change neither a sector nor the history variable.
Quiet ==
    \/ \E c \in Configs : EspJrnlMount(c)
    \/ EspJrnlStart
    \/ EspJrnlStopCommit
    \/ \E on \in BOOLEAN : EspJrnlSetDirectIo(on)
    \/ EspJrnlStartRefused \/ EspJrnlStopRefused \/ EspJrnlSetDirectIoRefused \/ WriteRefused
    \/ \E o \in Writes : WriteDirect(o) \/ WriteLogged(o) \/ WriteNoSpace(o)
    \/ \E sector \in FsArea, count \in 1 .. MaxCount : EspJrnlRead(sector, count)
    \/ MountBlank \/ MountInconsistent \/ MountFound
    \/ ReplayAssertFails \/ ReplayReady \/ ReplayRollback \/ ReplayCommit
    \/ ReplayRead \/ ReplayBadCrc \/ ReplayFinish
    \/ ReplayNoMemory
    \/ \E api \in {"start", "cancel", "direct"} : LockWait(api)

LEMMA QuietData ==
    ASSUME ReplayingClient, TypeInv, CtlInv, CtlInv', DataInv, Quiet
    PROVE  DataInv'
<1> USE DEF TypeInv, CtlInv, ControlInv, MasterInv, RecordInv, DataInv, LogInv, SettledInv,
            StepInv, Logging, AtTarget, AtMaster, RawPcs
<1>b. disk' = disk /\ post' = post
  BY DEF Quiet, EspJrnlMount, EspJrnlStart, EspJrnlStopCommit, EspJrnlSetDirectIo, EspJrnlStartRefused,
         EspJrnlStopRefused, EspJrnlSetDirectIoRefused, WriteRefused, WriteDirect, WriteLogged, WriteNoSpace,
         EspJrnlRead, MountBlank, MountInconsistent, MountFound, ReplayAssertFails, ReplayReady,
         ReplayRollback, ReplayCommit, ReplayRead, ReplayBadCrc, ReplayFinish, ReplayNoMemory, LockWait, Refuse
<1>a. /\ disk' = disk /\ post' = post
      /\ DiskCommitted' = DiskCommitted
      /\ FsImage' = FsImage
  BY <1>b DEF DiskCommitted, FsImage, MasterAddr, LogAddr
<1>1. CASE \E c \in Configs : EspJrnlMount(c)
  <2>1. PICK c \in Configs : EspJrnlMount(c)
    BY <1>1
  <2>2. c.fresh = FALSE /\ c.replay = TRUE
    BY ConfigAssumption DEF ReplayingClient
  <2> QED
    BY <2>1, <2>2, <1>a DEF EspJrnlMount, ReplayInv, TransferInv, AppendInv, Replaying, Open, MasterAddr, LogAddr
<1>2. CASE EspJrnlStart
  <2>1. post = FsImage /\ master.nf = 0
    BY <1>2 DEF EspJrnlStart, Calling
  <2>2. Chain(disk, 0) /\ Image(disk, 0, post)
    BY <2>1, EmptyLog DEF FsImage
  <2> QED
    BY <1>2, <1>a, <2>1, <2>2 DEF EspJrnlStart, Calling, UpdateMaster, ReplayInv, TransferInv, AppendInv, Replaying, Open, MasterAddr, LogAddr
<1>3. CASE EspJrnlStopCommit
  BY <1>3, <1>a DEF EspJrnlStopCommit, Calling, UpdateMaster, ReplayInv, TransferInv, AppendInv, Replaying, Open, MasterAddr, LogAddr
<1>4. CASE \E on \in BOOLEAN : EspJrnlSetDirectIo(on)
  BY <1>4, <1>a DEF EspJrnlSetDirectIo, Calling, UpdateMaster, ReplayInv, TransferInv, AppendInv, Replaying, Open, MasterAddr, LogAddr
<1>5. CASE EspJrnlStartRefused \/ EspJrnlStopRefused \/ EspJrnlSetDirectIoRefused \/ WriteRefused
  BY <1>5, <1>a DEF EspJrnlStartRefused, EspJrnlStopRefused, EspJrnlSetDirectIoRefused, WriteRefused,
                      Refuse, Locals, ReplayInv, TransferInv, AppendInv, Replaying, Open, MasterAddr, LogAddr
<1>6. CASE \E o \in Writes : WriteDirect(o) \/ WriteLogged(o) \/ WriteNoSpace(o)
  <2>1. PICK o \in Writes : WriteDirect(o) \/ WriteLogged(o) \/ WriteNoSpace(o)
    BY <1>6
  <2>2. CASE WriteDirect(o)
    BY <2>2, <1>a DEF WriteDirect, Calling, ReplayInv, TransferInv, AppendInv, Replaying, Open, MasterAddr, LogAddr
  <2>3. CASE WriteLogged(o)
    BY <2>3, <1>a DEF WriteLogged, Calling, ReplayInv, TransferInv, AppendInv, Replaying, Open, MasterAddr, LogAddr
  <2>4. CASE WriteNoSpace(o)
    BY <2>4, <1>a DEF WriteNoSpace, Refuse, Locals, ReplayInv, TransferInv, AppendInv, Replaying, Open, MasterAddr, LogAddr
  <2> QED
    BY <2>1, <2>2, <2>3, <2>4
<1>7. CASE \E sector \in FsArea, count \in 1 .. MaxCount : EspJrnlRead(sector, count)
  BY <1>7, <1>a DEF EspJrnlRead, Refuse, Locals, ReplayInv, TransferInv, AppendInv, Replaying, Open, MasterAddr, LogAddr
<1>8. CASE MountBlank
  BY <1>8, <1>a DEF MountBlank, ResetMaster, ResetStatus, UpdateMaster, ReplayInv, TransferInv, AppendInv, Replaying, Open, MasterAddr, LogAddr
<1>9. CASE MountInconsistent
  BY <1>9, <1>a DEF MountInconsistent, Return, ReplayInv, TransferInv, AppendInv, Replaying, Open, MasterAddr, LogAddr
<1>10. CASE MountFound
  BY <1>10, <1>a DEF MountFound, ReplayInv, TransferInv, AppendInv, Replaying, Open, MasterAddr, LogAddr
<1>11. CASE ReplayAssertFails
  BY <1>11, <1>a DEF ReplayAssertFails, LoseRam, NoMaster, ReplayInv, TransferInv, AppendInv, Replaying, Open, MasterAddr, LogAddr
<1>12. CASE ReplayReady
  BY <1>12, <1>a DEF ReplayReady, ResetMaster, ResetStatus, UpdateMaster, ReplayInv, TransferInv, AppendInv, Replaying, Open, MasterAddr, LogAddr
<1>13. CASE ReplayRollback
  BY <1>13, <1>a DEF ReplayRollback, ResetMaster, ResetStatus, UpdateMaster, DiskCommitted, MasterCell, ReplayInv, TransferInv, AppendInv, Replaying, Open, MasterAddr, LogAddr
<1>14. CASE ReplayCommit
  <2>1. DiskCommitted /\ disk[MasterAddr].nf = master.nf
    BY <1>14 DEF ReplayCommit, DiskCommitted, MasterCell
  <2>2. /\ master.nf \in Nat
        /\ 0 < master.nf => Header(disk, 0)
        /\ \A s \in FsArea : Uncovered(disk, 0, master.nf, s) => disk[s] = post[s]
    BY <2>1 DEF Chain, Image, TypeOK
  <2> QED
    BY <1>14, <1>a, <2>2 DEF ReplayCommit, ReplayInv, TransferInv, AppendInv, Replaying, Open, MasterAddr, LogAddr
<1>15. CASE ReplayRead
  <2>1. /\ idx < master.nf
        /\ disk[LogAddr(idx)] = HeaderCell(oper')
    BY <1>15, RecordRead
  <2> QED
    BY <1>15, <1>a, <2>1 DEF ReplayRead, HeaderCell, ReplayInv, TransferInv, AppendInv, Replaying, Open, MasterAddr, LogAddr
<1>16. CASE ReplayBadCrc
  BY <1>16, <1>a DEF ReplayBadCrc, FailCall, Return, NoMaster, ReplayInv, TransferInv, AppendInv, Replaying, Open, MasterAddr, LogAddr
<1>17. CASE ReplayFinish
  <2>1. \A s \in FsArea : Uncovered(disk, idx, master.nf, s)
    BY <1>17 DEF ReplayFinish, ReplayDone, Uncovered, TypeOK
  <2>2. \A s \in FsArea : disk[s] = post[s]
    BY <1>17, <2>1 DEF ReplayFinish, ReplayInv, Replaying
  <2>3. post = FsImage
    BY <2>2 DEF FsImage, TypeOK
  <2> QED
    BY <1>17, <1>a, <2>3 DEF ReplayFinish, ResetMaster, ResetStatus, UpdateMaster, ReplayInv, TransferInv, AppendInv, Replaying, Open, MasterAddr, LogAddr
<1>18. CASE ReplayNoMemory
  BY <1>18, <1>a DEF ReplayNoMemory, FailCall, Return, NoMaster, ReplayInv, TransferInv, AppendInv, Replaying, Open, MasterAddr, LogAddr
<1>19. CASE \E api \in {"start", "cancel", "direct"} : LockWait(api)
  BY <1>19, <1>a DEF LockWait, Calling, Locals, ReplayInv, TransferInv, AppendInv, Replaying, Open, MasterAddr, LogAddr
<1> QED
  BY <1>1, <1>2, <1>3, <1>4, <1>5, <1>6, <1>7, <1>8, <1>9, <1>10, <1>11, <1>12, <1>13, <1>14, <1>15, <1>16, <1>17, <1>18, <1>19 DEF Quiet

\* Steps that end what the client was doing and touch no sector.
LEMMA EndData ==
    ASSUME ReplayingClient, TypeInv, CtlInv, CtlInv', DataInv,
           EspJrnlUnmount \/ EspJrnlStopCancel \/ PowerCut
    PROVE  DataInv'
<1> USE DEF TypeInv, CtlInv, ControlInv, MasterInv, RecordInv, DataInv, LogInv, SettledInv,
            StepInv, Logging, AtTarget, AtMaster, RawPcs
<1>1. disk' = disk /\ Settle /\ ~Open'
  BY DEF EspJrnlUnmount, EspJrnlStopCancel, PowerCut, LoseRam, Open, ResetMaster, ResetStatus, UpdateMaster, NoMaster
<1>2. DiskCommitted' = DiskCommitted /\ FsImage' = FsImage
  BY <1>1 DEF DiskCommitted, FsImage, MasterAddr, LogAddr
<1>3. post' = IF DiskCommitted THEN post ELSE FsImage
  BY <1>1, <1>2 DEF Settle
<1>4. CASE EspJrnlUnmount \/ PowerCut
  BY <1>1, <1>2, <1>3, <1>4
     DEF EspJrnlUnmount, PowerCut, LoseRam, NoMaster, Locals, ReplayInv, TransferInv, AppendInv, Replaying, MasterAddr, LogAddr
<1>5. CASE EspJrnlStopCancel
  <2>1. ~DiskCommitted
    BY <1>5 DEF EspJrnlStopCancel, ReplayingClient
  <2> QED
    BY <1>1, <1>2, <1>3, <1>5, <2>1
       DEF EspJrnlStopCancel, ResetMaster, ResetStatus, UpdateMaster, Calling, ReplayInv, TransferInv, AppendInv,
           Replaying, MasterAddr, LogAddr
<1> QED
  BY <1>4, <1>5

\* Everything the invariant says of the log and of the file system survives a
\* change of the master record.
LEMMA MasterSame ==
    ASSUME TypeInv, AtMaster, DiskSector
    PROVE  /\ FsImage' = FsImage
           /\ \A nf \in 0 .. (StoreSize - 1) :
                 /\ Chain(disk, nf) => Chain(disk', nf)
                 /\ \A f : Image(disk, nf, f) => Image(disk', nf, f)
<1>1. /\ FsImage' = FsImage
      /\ \A s \in FsArea : disk'[s] = disk[s]
      /\ \A p \in 0 .. (StoreSize - 2) : disk'[LogAddr(p)] = disk[LogAddr(p)]
  BY MasterFrame DEF TypeInv
<1>2. ASSUME NEW nf \in 0 .. (StoreSize - 1)
      PROVE  /\ Chain(disk, nf) => Chain(disk', nf)
             /\ \A f : Image(disk, nf, f) => Image(disk', nf, f)
  <2>1. TypedLog(disk, nf) /\ nf \in Nat
    BY DiskTypedLog DEF TypeInv
  <2>2. \A p \in 0 .. (nf - 1) : disk'[LogAddr(p)] = disk[LogAddr(p)]
    BY <1>1, SizeAssumption
  <2>3. Chain(disk, nf) => Chain(disk', nf)
    BY <2>1, <2>2, SameLog
  <2>4. ASSUME NEW f, Image(disk, nf, f) PROVE Image(disk', nf, f)
    BY <1>1, <2>1, <2>2, <2>4, SameImage
  <2> QED
    BY <2>3, <2>4
<1> QED
  BY <1>1, <1>2

LEMMA MasterData ==
    ASSUME ReplayingClient, TypeInv, CtlInv, CtlInv', DataInv,
           MasterErase \/ MasterWriteMount \/ MasterWriteReplayedAtMount \/ MasterWriteCommit \/ MasterWriteReturn
    PROVE  DataInv'
<1> USE DEF TypeInv, CtlInv, ControlInv, MasterInv, RecordInv, DataInv, LogInv, SettledInv,
            StepInv, Logging, AtTarget, AtMaster, RawPcs
<1>1. AtMaster /\ DiskSector /\ master.nf \in 0 .. (StoreSize - 1)
  BY DEF MasterErase, MasterWriteMount, MasterWriteReplayedAtMount, MasterWriteCommit, MasterWriteReturn, RawLast, TypeOK
<1>2. disk'[MasterAddr] = RawCell /\ FsImage' = FsImage
  BY <1>1, MasterFrame
<1>3. /\ Chain(disk, master.nf) => Chain(disk', master.nf)
      /\ Image(disk, master.nf, post) => Image(disk', master.nf, post)
  BY <1>1, MasterSame
<1>4. CASE MasterErase
  <2>1. ~DiskCommitted'
    BY <1>2, <1>4 DEF DiskCommitted, MasterErase, RawLast, RawCell, Erased, MasterAddr, LogAddr
  <2>2. Open' <=> Open
    BY <1>4 DEF Open, MasterErase, RawLast
  <2>3. post' = IF Open THEN post ELSE FsImage
    BY <1>2, <1>4, <2>1, <2>2 DEF MasterErase, Settle
  <2> QED
    BY <1>2, <1>3, <1>4, <2>1, <2>2, <2>3
       DEF MasterErase, RawLast, Open, ReplayInv, TransferInv, AppendInv, Replaying
<1>5. CASE MasterWriteCommit
  <2>1. /\ DiskCommitted' /\ disk'[MasterAddr].nf = master.nf
    BY <1>2, <1>5 DEF DiskCommitted, MasterWriteCommit, RawLast, RawCell, MasterCell, MasterAddr, LogAddr
  <2>2. Open /\ ~Open'
    BY <1>5 DEF Open, MasterWriteCommit, RawLast
  <2> QED
    BY <1>2, <1>3, <1>5, <2>1, <2>2
       DEF MasterWriteCommit, RawLast, ReplayInv, TransferInv, AppendInv, Replaying, MasterAddr, LogAddr
<1>6. CASE MasterWriteMount \/ MasterWriteReplayedAtMount \/ MasterWriteReturn
  <2>1. ~DiskCommitted'
    <3>1. disk'[MasterAddr].status = master.status
      <4>1. pc = "m_write"
        BY <1>6 DEF MasterWriteMount, MasterWriteReplayedAtMount, MasterWriteReturn, RawLast
      <4>2. RawCell = MasterCell(master)
        BY <4>1 DEF RawCell
      <4> QED
        BY <1>2, <4>2 DEF MasterCell
    <3>2. master.status # "TRANS_COMMIT"
      BY <1>6 DEF MasterWriteMount, MasterWriteReplayedAtMount, MasterWriteReturn
    <3> QED
      BY <3>1, <3>2 DEF DiskCommitted, MasterAddr, LogAddr
  <2>2. Open' <=> Open
    BY <1>6 DEF Open, MasterWriteMount, MasterWriteReplayedAtMount, MasterWriteReturn, RawLast, Return,
                ResetMaster, ResetStatus, UpdateMaster
  <2>3. post' = post /\ (Open => master'.nf = master.nf)
    BY <1>6 DEF Open, MasterWriteMount, MasterWriteReplayedAtMount, MasterWriteReturn
  <2>4. post = FsImage \/ Open
    BY <1>6 DEF MasterWriteMount, MasterWriteReplayedAtMount, MasterWriteReturn, Open
  <2>5. LogInv'
    BY <1>3, <2>1, <2>2, <2>3
  <2>6. SettledInv'
    BY <1>2, <1>6, <2>1, <2>2, <2>3, <2>4
       DEF MasterWriteMount, MasterWriteReplayedAtMount, MasterWriteReturn, RawLast, Return,
           ResetMaster, ResetStatus, UpdateMaster, Open
  <2>7. (ReplayInv /\ TransferInv /\ AppendInv)'
    BY <1>6 DEF MasterWriteMount, MasterWriteReplayedAtMount, MasterWriteReturn, RawLast, Return,
           ResetMaster, UpdateMaster, ReplayInv, TransferInv, AppendInv, Replaying
  <2> QED
    BY <2>5, <2>6, <2>7
<1> QED
  BY <1>4, <1>5, <1>6

\* Nothing of the log in use changes while a record is being appended.
LEMMA LogSame ==
    ASSUME TypeInv, Logging, DiskSector
    PROVE  /\ FsImage' = FsImage
           /\ Chain(disk, master.nf) => Chain(disk', master.nf)
           /\ \A f : Image(disk, master.nf, f) => Image(disk', master.nf, f)
<1>1. /\ FsImage' = FsImage
      /\ \A s \in FsArea : disk'[s] = disk[s]
      /\ \A p \in 0 .. (master.nf - 1) : disk'[LogAddr(p)] = disk[LogAddr(p)]
  BY LogFrame DEF TypeInv
<1>2. master.nf \in 0 .. (StoreSize - 1) /\ master.nf \in Nat
  BY SizeAssumption DEF TypeInv, TypeOK
<1>3. TypedLog(disk, master.nf)
  BY <1>2, DiskTypedLog DEF TypeInv
<1>4. Chain(disk, master.nf) => Chain(disk', master.nf)
  BY <1>1, <1>2, <1>3, SameLog
<1>5. ASSUME NEW f, Image(disk, master.nf, f) PROVE Image(disk', master.nf, f)
  BY <1>1, <1>2, <1>3, <1>5, SameImage
<1> QED
  BY <1>1, <1>4, <1>5

LEMMA LogData ==
    ASSUME ReplayingClient, TypeInv, TypeInv', CtlInv, CtlInv', DataInv,
           WriteErase \/ WriteHeader \/ WriteData \/ (RawProgress /\ Logging)
    PROVE  DataInv'
<1> USE DEF TypeInv, CtlInv, ControlInv, MasterInv, RecordInv, DataInv, LogInv, SettledInv,
            StepInv, Logging, AtTarget, AtMaster, RawPcs
<1>1. Logging /\ DiskSector
  BY DEF WriteErase, WriteHeader, WriteData, RawProgress, RawLast
<1>2. Open /\ ~DiskCommitted /\ master.status = "TRANS_OPEN" /\ mounted /\ oper \in Writes
  BY <1>1 DEF Open
<1>3. /\ disk'[MasterAddr] = disk[MasterAddr]
      /\ disk'[RawAddr] = RawCell
      /\ \A p \in 0 .. (StoreSize - 2) : LogAddr(p) # RawAddr => disk'[LogAddr(p)] = disk[LogAddr(p)]
  BY <1>1, LogFrame
<1>4. ~DiskCommitted'
  BY <1>2, <1>3 DEF DiskCommitted, MasterAddr, LogAddr
<1>5. Open'
  <2>1. mounted' = mounted /\ master'.status = master.status
    BY DEF WriteErase, WriteHeader, WriteData, RawProgress, TypeOK
  <2> QED
    BY <1>2, <2>1 DEF Open
<1>6. Chain(disk', master.nf) /\ Image(disk', master.nf, post)
  BY <1>1, <1>2, LogSame
<1>7. /\ master.nf \in Nat /\ k \in Nat /\ oper.count \in Nat /\ oper.count >= 1
      /\ master.nf + 1 + oper.count < StoreSize - 1
      /\ StoreSize \in Nat
  BY <1>1, <1>2, WriteFacts, SizeAssumption DEF HasSpace, TypeOK
<1>8. CASE WriteErase
  BY <1>2, <1>4, <1>5, <1>6, <1>8
     DEF WriteErase, RawLast, ReplayInv, TransferInv, AppendInv, Replaying
<1>9. CASE WriteHeader
  <2>1. k = 0
    BY <1>9, <1>7 DEF WriteHeader, RawLast, RawLen
  <2>2. RawAddr = LogAddr(master.nf)
    BY <1>9, <1>7, <2>1, SizeAssumption DEF WriteHeader, RawLast, RawAddr, LogAddr
  <2>3. disk'[LogAddr(master.nf)] = HeaderCell(oper)
    BY <1>3, <1>9, <2>2 DEF WriteHeader, RawLast, RawCell
  <2> QED
    BY <1>2, <1>4, <1>5, <1>6, <1>9, <2>3
       DEF WriteHeader, RawLast, ReplayInv, TransferInv, AppendInv, Replaying, HeaderCell, LogAddr
<1>10. ASSUME pc = "w_data"
       PROVE  /\ disk'[LogAddr(master.nf)] = HeaderCell(oper)
              /\ \A j \in 0 .. k : disk'[LogAddr(master.nf) + 1 + j] = oper.buf[j]
              /\ k < oper.count
  <2>1. k < oper.count
    BY <1>7, <1>10 DEF RawLen
  <2>2. RawAddr = LogAddr(master.nf) + 1 + k /\ RawAddr = LogAddr(master.nf + 1 + k)
    BY <1>7, <1>10, SizeAssumption DEF RawAddr, LogAddr
  <2>3. LogAddr(master.nf) # RawAddr /\ master.nf \in 0 .. (StoreSize - 2)
    BY <1>7, <2>2, SizeAssumption DEF LogAddr
  <2>4. disk'[LogAddr(master.nf)] = HeaderCell(oper)
    BY <1>3, <1>10, <2>3 DEF AppendInv
  <2>5. disk'[LogAddr(master.nf) + 1 + k] = oper.buf[k]
    BY <1>3, <1>10, <2>2 DEF RawCell
  <2>6. ASSUME NEW j \in 0 .. (k - 1) PROVE disk'[LogAddr(master.nf) + 1 + j] = oper.buf[j]
    <3>1. /\ LogAddr(master.nf) + 1 + j = LogAddr(master.nf + 1 + j)
          /\ LogAddr(master.nf + 1 + j) # RawAddr
          /\ master.nf + 1 + j \in 0 .. (StoreSize - 2)
      BY <1>7, <2>1, <2>2, SizeAssumption DEF LogAddr
    <3>2. disk[LogAddr(master.nf) + 1 + j] = oper.buf[j]
      BY <1>10 DEF AppendInv
    <3> QED
      BY <1>3, <3>1, <3>2
  <2>7. \A j \in 0 .. k : j \in 0 .. (k - 1) \/ j = k
    BY <1>7
  <2> QED
    BY <2>1, <2>4, <2>5, <2>6, <2>7
<1>11. CASE WriteData
  <2>1. pc = "w_data" /\ k = oper.count - 1
    BY <1>7, <1>11 DEF WriteData, RawLast, LastSector, RawLen
  <2>2. \A j \in 0 .. (oper.count - 1) : disk'[LogAddr(master.nf + 1 + j)] = oper.buf[j]
    <3>1. \A j \in 0 .. (oper.count - 1) : LogAddr(master.nf) + 1 + j = LogAddr(master.nf + 1 + j)
      BY <1>7, SizeAssumption DEF LogAddr
    <3> QED
      BY <1>7, <1>10, <2>1, <3>1
  <2>3. disk'[LogAddr(master.nf)] = HeaderCell(oper)
    BY <1>10, <2>1
  <2>4. master.nf + 1 + oper.count \in 0 .. (StoreSize - 1)
    BY <1>7
  <2>5. TypedLog(disk', master.nf + 1 + oper.count)
    <3>1. disk' \in [Volume -> Content \cup HeaderCells \cup MasterCells]
      BY DEF TypeOK
    <3> QED
      BY <2>4, <3>1, VolumeTypedLog
  <2>6. /\ Chain(disk', master.nf + 1 + oper.count)
        /\ Image(disk', master.nf + 1 + oper.count, Overlay(post, oper))
    BY <1>2, <1>6, <1>7, <2>2, <2>3, <2>5, AppendLog
  <2>7. master'.nf = master.nf + 1 + oper.count /\ post' = Overlay(post, oper)
    BY <1>11 DEF WriteData, NextFree, TypeOK
  <2> QED
    BY <1>2, <1>4, <1>5, <1>11, <2>6, <2>7
       DEF WriteData, RawLast, UpdateMaster, ReplayInv, TransferInv, AppendInv, Replaying
<1>12. CASE RawProgress /\ Logging
  <2>1. post' = post
    BY <1>5, <1>12 DEF RawProgress, Settle
  <2>2. CASE pc = "w_data"
    BY <1>2, <1>4, <1>5, <1>6, <1>7, <1>10, <1>12, <2>1, <2>2
       DEF RawProgress, ReplayInv, TransferInv, AppendInv, Replaying, HeaderCell, LogAddr
  <2>3. CASE pc # "w_data"
    BY <1>2, <1>4, <1>5, <1>6, <1>12, <2>1, <2>3
       DEF RawProgress, ReplayInv, TransferInv, AppendInv, Replaying
  <2> QED
    BY <2>2, <2>3
<1> QED
  BY <1>8, <1>9, <1>11, <1>12

\* A transfer changes only what the record being transferred overwrites, so the
\* log on the disk keeps its meaning.
LEMMA TransferSame ==
    ASSUME TypeInv, CtlInv, DataInv, AtTarget, master.status = "TRANS_COMMIT", DiskSector
    PROVE  /\ DiskCommitted /\ DiskCommitted' /\ ~Open
           /\ disk[MasterAddr].nf = master.nf
           /\ disk'[MasterAddr] = disk[MasterAddr]
           /\ Chain(disk, master.nf) /\ Chain(disk', master.nf)
           /\ Image(disk, master.nf, post) /\ Image(disk', master.nf, post)
           /\ master.nf \in Nat /\ idx \in 0 .. (master.nf - 1)
           /\ disk[LogAddr(idx)] = HeaderCell(oper)
           /\ oper \in Writes
           /\ TypedLog(disk, master.nf)
           /\ \A q \in 0 .. (master.nf - 1) : disk'[LogAddr(q)] = disk[LogAddr(q)]
           /\ \A s \in FsArea : ~Covers(disk, idx, s) => disk'[s] = disk[s]
<1> USE DEF TypeInv, CtlInv
<1>1. Replaying /\ ~Open
  BY DEF Replaying, Open, AtTarget
<1>2. disk[MasterAddr] = MasterCell(master)
  BY <1>1 DEF RecordInv
<1>3. /\ disk'[MasterAddr] = disk[MasterAddr]
      /\ \A p \in 0 .. (StoreSize - 2) : disk'[LogAddr(p)] = disk[LogAddr(p)]
      /\ RawAddr = oper.target + k
      /\ k \in 0 .. (oper.count - 1)
      /\ \A s \in FsArea : s # RawAddr => disk'[s] = disk[s]
  BY TargetFrame
<1>4. DiskCommitted /\ disk[MasterAddr].nf = master.nf
  BY <1>2 DEF DiskCommitted, MasterCell
<1>5. DiskCommitted'
  BY <1>3, <1>4 DEF DiskCommitted, MasterAddr, LogAddr
<1>6. /\ master.nf \in 0 .. (StoreSize - 1) /\ master.nf \in Nat
      /\ \A q \in 0 .. (master.nf - 1) : q \in 0 .. (StoreSize - 2)
  BY SizeAssumption DEF TypeOK
<1>7. idx \in 0 .. (master.nf - 1) /\ disk[LogAddr(idx)] = HeaderCell(oper) /\ oper \in Writes
  BY <1>1, <1>6 DEF DataInv, TransferInv, TypeOK, StepInv
<1>8. oper.count \in Nat /\ oper.target \in Nat
  BY <1>7, WriteFacts
<1>9. Covers(disk, idx, RawAddr)
  BY <1>3, <1>7, <1>8 DEF Covers, Header, HeaderCell
<1>10. TypedLog(disk, master.nf)
  BY <1>6, DiskTypedLog
<1>11. Chain(disk, master.nf) /\ Image(disk, master.nf, post)
  BY <1>4 DEF DataInv, LogInv
<1>12. \A q \in 0 .. (master.nf - 1) : disk'[LogAddr(q)] = disk[LogAddr(q)]
  BY <1>3, <1>6
<1>13. \A s \in FsArea : ~Covers(disk, idx, s) => disk'[s] = disk[s]
  BY <1>3, <1>9
<1>14. \A s \in FsArea : Uncovered(disk, 0, master.nf, s) => disk'[s] = disk[s]
  BY <1>7, <1>13 DEF Uncovered
<1>15. Chain(disk', master.nf)
  BY <1>6, <1>10, <1>11, <1>12, SameLog
<1>16. Image(disk', master.nf, post)
  BY <1>6, <1>10, <1>11, <1>12, <1>14, SameImage
<1> QED
  BY <1>1, <1>3, <1>4, <1>5, <1>6, <1>7, <1>10, <1>11, <1>12, <1>13, <1>15, <1>16

\* Direct writes are outside of the journal: no log is waiting.
LEMMA DirectSame ==
    ASSUME TypeInv, CtlInv, DataInv, AtTarget, master.status # "TRANS_COMMIT", DiskSector
    PROVE  /\ master.status = "FS_DIRECT" /\ mounted
           /\ ~DiskCommitted /\ ~DiskCommitted' /\ ~Open
<1>1. master.status = "FS_DIRECT" /\ mounted /\ mode = "direct"
  BY DEF CtlInv, ControlInv
<1>2. ~DiskCommitted
  BY <1>1 DEF CtlInv, RecordInv
<1>3. disk'[MasterAddr] = disk[MasterAddr]
  BY TargetFrame DEF TypeInv
<1>4. ~DiskCommitted'
  BY <1>2, <1>3 DEF DiskCommitted, MasterAddr, LogAddr
<1>5. ~Open
  BY <1>1 DEF Open, AtTarget
<1> QED
  BY <1>1, <1>2, <1>4, <1>5

LEMMA TargetData ==
    ASSUME TypeInv, CtlInv, CtlInv', DataInv,
           TargetErase \/ ReplayTransferred \/ DirectWritten \/ (RawProgress /\ AtTarget)
    PROVE  DataInv'
<1>1. AtTarget /\ DiskSector
  BY DEF TargetErase, ReplayTransferred, DirectWritten, RawProgress, RawLast, AtTarget
<1>2. CASE master.status # "TRANS_COMMIT"
  <2>1. master.status = "FS_DIRECT" /\ mounted /\ ~DiskCommitted'
    BY <1>1, <1>2, DirectSame
  <2>2. /\ master' = master /\ mounted' = mounted /\ Settle
        /\ pc' \in {"t_erase", "t_write", "idle"} /\ after' # "replay"
    BY <1>1, <2>1 DEF TargetErase, ReplayTransferred, DirectWritten, RawProgress, RawLast, AtTarget, Return,
                      TypeInv, StepInv, AtMaster
  <2>3. ~Open'
    BY <2>1, <2>2 DEF Open
  <2>4. post' = FsImage'
    BY <2>1, <2>2, <2>3 DEF Settle
  <2> QED
    BY <2>1, <2>2, <2>3, <2>4 DEF DataInv, LogInv, SettledInv, ReplayInv, TransferInv, AppendInv, Replaying, AtTarget
<1>3. CASE master.status = "TRANS_COMMIT"
  <2>1. /\ DiskCommitted /\ DiskCommitted' /\ ~Open
        /\ disk[MasterAddr].nf = master.nf
        /\ disk'[MasterAddr] = disk[MasterAddr]
        /\ Chain(disk, master.nf) /\ Chain(disk', master.nf)
        /\ Image(disk, master.nf, post) /\ Image(disk', master.nf, post)
        /\ master.nf \in Nat /\ idx \in 0 .. (master.nf - 1)
        /\ disk[LogAddr(idx)] = HeaderCell(oper)
        /\ oper \in Writes
        /\ TypedLog(disk, master.nf)
        /\ \A q \in 0 .. (master.nf - 1) : disk'[LogAddr(q)] = disk[LogAddr(q)]
        /\ \A s \in FsArea : ~Covers(disk, idx, s) => disk'[s] = disk[s]
    BY <1>1, <1>3, TransferSame
  <2>2. /\ master' = master /\ mounted' = mounted /\ after' = "none"
        /\ pc' \in {"t_erase", "t_write", "rp_head"}
        /\ post' = post
    <3>1. /\ master' = master /\ mounted' = mounted /\ after' = "none"
          /\ pc' \in {"t_erase", "t_write", "rp_head"}
          /\ post' = post \/ Settle
      BY <1>1, <1>3 DEF TargetErase, ReplayTransferred, DirectWritten, RawProgress, RawLast, AtTarget,
                        TypeInv, StepInv, AtMaster
    <3> QED
      BY <2>1, <3>1 DEF Settle
  <2>3. ~Open'
    BY <1>3, <2>2 DEF Open
  <2>4. LogInv' /\ SettledInv' /\ AppendInv'
    <3>1. (MasterAddr)' = MasterAddr
      BY DEF MasterAddr, LogAddr
    <3> QED
      BY <1>3, <2>1, <2>2, <2>3, <3>1 DEF LogInv, SettledInv, AppendInv
  <2>5. /\ oper.count \in Nat /\ oper.count >= 1 /\ oper.target \in Nat
        /\ k \in 0 .. (oper.count - 1) /\ RawAddr = oper.target + k /\ RawAddr \in FsArea
        /\ disk'[RawAddr] = RawCell
        /\ \A s \in FsArea : s # RawAddr => disk'[s] = disk[s]
    BY <1>1, <2>1, TargetFrame, WriteFacts DEF TypeInv
  <2>6. \A p \in Nat, s \in FsArea : Uncovered(disk', p, master.nf, s) <=> Uncovered(disk, p, master.nf, s)
    BY <2>1, SameLog
  <2>7. \A s \in FsArea : Uncovered(disk, idx, master.nf, s) => disk'[s] = post[s]
    <3>1. \A s \in FsArea : Uncovered(disk, idx, master.nf, s) => disk[s] = post[s] /\ ~Covers(disk, idx, s)
      BY <1>1, <1>3, <2>1 DEF DataInv, ReplayInv, Replaying, Uncovered
    <3> QED
      BY <2>1, <3>1
  <2>8. Header(disk, idx) /\ disk[LogAddr(idx)].count = oper.count
          /\ disk[LogAddr(idx)].target = oper.target /\ disk[LogAddr(idx)].crc = oper.buf
    BY <2>1 DEF Header, HeaderCell
  <2>9. \A s \in FsArea : Covers(disk, idx, s) <=> s \in oper.target .. (oper.target + oper.count - 1)
    BY <2>8 DEF Covers
  <2>10. pc = "t_write" => \A j \in 0 .. k : disk'[oper.target + j] = oper.buf[j]
    <3> SUFFICES ASSUME pc = "t_write", NEW j \in 0 .. k
                 PROVE  disk'[oper.target + j] = oper.buf[j]
      OBVIOUS
    <3>1. CASE j = k
      BY <2>5, <3>1 DEF RawCell
    <3>2. CASE j # k
      <4>1. j \in 0 .. (k - 1)
        BY <2>5, <3>2
      <4>2. disk[oper.target + j] = oper.buf[j]
        BY <1>1, <1>3, <4>1 DEF DataInv, TransferInv, Replaying
      <4>3. oper.target + j # RawAddr /\ oper.target + j \in FsArea
        BY <2>5, <4>1, SizeAssumption DEF FsArea
      <4> QED
        BY <2>5, <4>2, <4>3
    <3> QED
      BY <3>1, <3>2
  <2>11. CASE TargetErase \/ RawProgress
    <3>1. idx' = idx /\ oper' = oper /\ pc' \in {"t_erase", "t_write"}
      BY <1>1, <2>11 DEF TargetErase, RawProgress, AtTarget
    <3>2. ReplayInv'
      <4>1. Header(disk', idx) /\ idx <= master.nf /\ idx \in Nat
        BY <2>1, <2>8 DEF Header
      <4> QED
        BY <2>2, <2>6, <2>7, <3>1, <4>1 DEF ReplayInv
    <3>3. pc' = "t_write" => \A j \in 0 .. (k' - 1) : disk'[oper.target + j] = oper.buf[j]
      <4>1. CASE TargetErase
        BY <4>1 DEF TargetErase
      <4>2. CASE RawProgress
        <5>1. k' - 1 = k /\ pc' = pc
          BY <2>5, <4>2 DEF RawProgress
        <5> QED
          BY <2>10, <5>1
      <4> QED
        BY <2>11, <4>1, <4>2
    <3>4. TransferInv'
      <4>1. disk'[LogAddr(idx)] = HeaderCell(oper) /\ idx < master.nf
        BY <2>1
      <4> QED
        BY <2>2, <3>1, <3>3, <4>1 DEF TransferInv, LogAddr, HeaderCell
    <3> QED
      BY <2>4, <3>2, <3>4 DEF DataInv
  <2>12. CASE ReplayTransferred
    <3> DEFINE next == idx + 1 + oper.count
    <3>1. idx' = next /\ pc = "t_write" /\ pc' = "rp_head" /\ k = oper.count - 1
      BY <2>5, <2>12 DEF ReplayTransferred, RawLast, LastSector, RawLen, NextRecord
    <3>2. /\ idx + oper.count < master.nf
          /\ \A j \in 0 .. (oper.count - 1) : ~Header(disk, idx + 1 + j)
          /\ next < master.nf => Header(disk, next)
      BY <2>1, <2>8 DEF Chain
    <3>3. next \in Nat /\ next <= master.nf /\ (next < master.nf => Header(disk', next))
      BY <2>1, <2>5, <3>2 DEF Header
    <3>4. ASSUME NEW s \in FsArea, Uncovered(disk, next, master.nf, s) PROVE disk'[s] = post[s]
      <4>1. \A q \in (idx + 1) .. (master.nf - 1) : ~Covers(disk, q, s)
        <5> SUFFICES ASSUME NEW q \in (idx + 1) .. (master.nf - 1) PROVE ~Covers(disk, q, s)
          OBVIOUS
        <5>1. q \in next .. (master.nf - 1) \/ (q - idx - 1 \in 0 .. (oper.count - 1) /\ idx + 1 + (q - idx - 1) = q)
          BY <2>1, <2>5
        <5> QED
          BY <3>2, <3>4, <5>1 DEF Uncovered, Covers
      <4>2. CASE Covers(disk, idx, s)
        <5>1. s - oper.target \in 0 .. (oper.count - 1) /\ oper.target + (s - oper.target) = s
          BY <2>5, <2>9, <4>2, SizeAssumption DEF FsArea
        <5>2. disk'[s] = oper.buf[s - oper.target]
          BY <2>5, <2>10, <3>1, <5>1
        <5>3. post[s] = oper.buf[s - oper.target]
          BY <2>1, <2>8, <4>1, <4>2 DEF Image, Uncovered
        <5> QED
          BY <5>2, <5>3
      <4>3. CASE ~Covers(disk, idx, s)
        <5>1. Uncovered(disk, idx, master.nf, s)
          BY <2>1, <4>1, <4>3 DEF Uncovered
        <5> QED
          BY <2>7, <5>1
      <4> QED
        BY <4>2, <4>3
    <3> HIDE DEF next
    <3>5. ReplayInv'
      BY <2>2, <2>6, <3>1, <3>3, <3>4 DEF ReplayInv
    <3>6. TransferInv'
      BY <3>1 DEF TransferInv, AtTarget
    <3> QED
      BY <2>4, <3>5, <3>6 DEF DataInv
  <2>13. ~DirectWritten
    BY <1>3 DEF DirectWritten
  <2> QED
    BY <2>11, <2>12, <2>13
<1> QED
  BY <1>2, <1>3

\* A driver error ends the call wherever it was; the sector may have changed.
LEMMA ErrorData ==
    ASSUME TypeInv, CtlInv, CtlInv', DataInv, DiskError
    PROVE  DataInv'
<1>1. /\ pc' = "idle" /\ after' = "none" /\ mounted' = mounted
      /\ master' = IF mounted THEN master ELSE NoMaster
      /\ Settle
  BY DEF DiskError, FailCall, Return
<1>2. Open' <=> mounted /\ master.status = "TRANS_OPEN"
  BY <1>1 DEF Open, NoMaster
<1>3. (ReplayInv /\ TransferInv /\ AppendInv)'
  BY <1>1 DEF ReplayInv, TransferInv, AppendInv, Replaying, AtTarget
<1>4. SUFFICES LogInv' /\ SettledInv'
  BY <1>3 DEF DataInv
<1>5. (MasterAddr)' = MasterAddr
  BY DEF MasterAddr, LogAddr
<1>6. CASE UNCHANGED disk
  <2>1. DiskCommitted' = DiskCommitted /\ FsImage' = FsImage
    BY <1>6 DEF DiskCommitted, FsImage, MasterAddr, LogAddr
  <2>2. Open' => Open /\ master' = master
    BY <1>1, <1>2 DEF Open
  <2>3. DiskCommitted \/ Open' => post' = post
    BY <1>1, <2>1 DEF Settle
  <2>4. ~DiskCommitted /\ ~Open' => post' = FsImage
    BY <1>1, <2>1 DEF Settle
  <2>5. LogInv'
    BY <1>5, <1>6, <2>1, <2>2, <2>3 DEF DataInv, LogInv
  <2>6. SettledInv'
    BY <1>1, <1>2, <2>1, <2>3, <2>4 DEF DataInv, SettledInv, NoMaster
  <2> QED
    BY <2>5, <2>6
<1>7. CASE DiskSector /\ AtMaster
  <2>1. disk'[MasterAddr] = RawCell /\ FsImage' = FsImage /\ master.nf \in 0 .. (StoreSize - 1)
    BY <1>7, MasterFrame DEF TypeInv, TypeOK
  <2>2. /\ Chain(disk, master.nf) => Chain(disk', master.nf)
        /\ Image(disk, master.nf, post) => Image(disk', master.nf, post)
    BY <1>7, <2>1, MasterSame
  <2>3. DiskCommitted' => /\ after = "commit" /\ mounted /\ master.status = "TRANS_COMMIT"
                          /\ disk'[MasterAddr].nf = master.nf
    <3>1. CASE pc = "m_erase"
      BY <1>5, <2>1, <3>1 DEF RawCell, DiskCommitted, Erased
    <3>2. CASE pc = "m_write"
      <4>1. disk'[MasterAddr] = MasterCell(master)
        BY <2>1, <3>2 DEF RawCell
      <4>2. /\ disk'[MasterAddr].nf = master.nf
            /\ DiskCommitted' => master.status = "TRANS_COMMIT"
        BY <1>5, <4>1 DEF DiskCommitted, MasterCell
      <4>3. after \in {"mount", "start", "write", "cancel", "commit", "replay", "direct"}
        BY <1>7 DEF TypeInv, TypeOK, StepInv
      <4> QED
        BY <4>2, <4>3 DEF CtlInv, MasterInv
    <3> QED
      BY <1>7, <3>1, <3>2 DEF AtMaster
  <2>4. DiskCommitted' => Open /\ ~Open' /\ post' = post
    BY <1>1, <1>2, <1>7, <2>3 DEF Open, AtMaster, Settle
  <2>5. Open' => Open /\ post' = post /\ master' = master /\ ~DiskCommitted'
    BY <1>1, <1>2, <2>3 DEF Open, Settle
  <2>6. ~DiskCommitted' /\ ~Open' => post' = FsImage'
    BY <1>1 DEF Settle
  <2>7. LogInv'
    BY <1>5, <2>2, <2>3, <2>4, <2>5 DEF DataInv, LogInv
  <2>8. SettledInv'
    BY <1>1, <1>2, <2>3, <2>4, <2>6 DEF SettledInv
  <2> QED
    BY <2>7, <2>8
<1>8. CASE DiskSector /\ Logging
  <2>1. disk'[MasterAddr] = disk[MasterAddr]
    BY <1>8, LogFrame DEF TypeInv
  <2>2. mounted /\ master.status = "TRANS_OPEN" /\ mode = "txn"
    BY <1>8 DEF CtlInv, ControlInv
  <2>3. Open /\ Open' /\ ~DiskCommitted
    BY <1>2, <2>2 DEF Open, CtlInv, RecordInv
  <2>4. ~DiskCommitted'
    BY <1>5, <2>1, <2>3 DEF DiskCommitted
  <2>5. post' = post /\ master' = master
    BY <1>1, <2>2, <2>3 DEF Settle
  <2>6. Chain(disk', master.nf) /\ Image(disk', master.nf, post)
    BY <1>8, <2>3, LogSame DEF DataInv, LogInv
  <2>7. LogInv'
    BY <2>4, <2>5, <2>6 DEF LogInv
  <2>8. SettledInv'
    BY <1>1, <2>2, <2>3, <2>5 DEF SettledInv
  <2> QED
    BY <2>7, <2>8
<1>9. CASE DiskSector /\ AtTarget /\ master.status = "TRANS_COMMIT"
  <2>1. /\ DiskCommitted' /\ ~Open'
        /\ disk'[MasterAddr].nf = master.nf
        /\ Chain(disk', master.nf) /\ Image(disk', master.nf, post)
    BY <1>2, <1>9, TransferSame
  <2>2. post' = post
    BY <1>1, <2>1 DEF Settle
  <2>3. LogInv'
    BY <1>5, <2>1, <2>2 DEF LogInv
  <2>4. SettledInv'
    BY <1>1, <1>9, <2>1 DEF SettledInv, NoMaster
  <2> QED
    BY <2>3, <2>4
<1>10. CASE DiskSector /\ AtTarget /\ master.status # "TRANS_COMMIT"
  <2>1. master.status = "FS_DIRECT" /\ ~DiskCommitted' /\ ~Open'
    BY <1>2, <1>10, DirectSame
  <2>2. post' = FsImage'
    BY <1>1, <2>1 DEF Settle
  <2> QED
    BY <1>1, <2>1, <2>2 DEF LogInv, SettledInv
<1>11. disk' = disk \/ (DiskSector /\ (AtMaster \/ Logging \/ AtTarget))
  BY DEF DiskError, RawPcs, AtMaster, Logging, AtTarget
<1> QED
  BY <1>6, <1>7, <1>8, <1>9, <1>10, <1>11

\* The master record is one sector: no step is left in the middle of it.
LEMMA RawProgressPlace ==
    ASSUME TypeInv, RawProgress
    PROVE  Logging \/ AtTarget
<1> SUFFICES ASSUME AtMaster PROVE FALSE
  BY DEF RawProgress, RawPcs, AtMaster, Logging, AtTarget
<1>1. RawLen = 1 /\ k < RawLen /\ k \in Nat /\ k + 1 # RawLen
  BY DEF RawProgress, LastSector, RawLen, AtMaster, TypeInv, StepInv, TypeOK, RawPcs
<1> QED
  BY <1>1

LEMMA NextData ==
    ASSUME ReplayingClient, TypeInv, TypeInv', CtlInv, CtlInv', DataInv, [Next]_vars
    PROVE  DataInv'
<1>1. CASE UNCHANGED vars
  BY <1>1 DEF vars, DataInv, LogInv, SettledInv, ReplayInv, TransferInv, AppendInv, Replaying, AtTarget,
              Open, DiskCommitted, FsImage, MasterAddr, LogAddr, HeaderCell
<1>2. CASE Quiet
  BY <1>2, QuietData
<1>3. CASE EspJrnlUnmount \/ EspJrnlStopCancel \/ PowerCut
  BY <1>3, EndData
<1>4. CASE MasterErase \/ MasterWriteMount \/ MasterWriteReplayedAtMount \/ MasterWriteCommit \/ MasterWriteReturn
  BY <1>4, MasterData
<1>5. CASE WriteErase \/ WriteHeader \/ WriteData \/ (RawProgress /\ Logging)
  BY <1>5, LogData
<1>6. CASE TargetErase \/ ReplayTransferred \/ DirectWritten \/ (RawProgress /\ AtTarget)
  BY <1>6, TargetData
<1>7. CASE DiskError
  BY <1>7, ErrorData
<1>8. RawProgress => Logging \/ AtTarget
  BY RawProgressPlace
<1> QED
  BY <1>1, <1>2, <1>3, <1>4, <1>5, <1>6, <1>7, <1>8 DEF Next, Client, Running, Quiet, Blocked

-----------------------------------------------------------------------------
(* The theorems *)

AllInv == TypeInv /\ CtlInv /\ DataInv

\* The invariant is inductive, and it is IndInv.
LEMMA Inductive ==
    ASSUME ReplayingClient
    PROVE  /\ Init => AllInv
           /\ AllInv /\ [Next]_vars => AllInv'
           /\ AllInv => IndInv
<1>1. Init => AllInv
  BY InitType, InitCtl, InitData DEF AllInv
<1>2. AllInv /\ [Next]_vars => AllInv'
  BY NextType, NextCtl, NextData DEF AllInv
<1>3. AllInv => IndInv
  BY DEF AllInv, IndInv, TypeInv, CtlInv, DataInv
<1> QED
  BY <1>1, <1>2, <1>3

\* The inductive invariant of EspJrnlInv holds for every volume, store size, payload
\* and number of power cuts and disk errors, if mounts replay what they find
\* (esp_jrnl_mount with replay_journal_after_mount) and the client writes and
\* cancels only inside a transaction it was granted.
THEOREM InvariantHolds ==
    ASSUME ReplayingClient
    PROVE  Spec => []IndInv
<1>1. Init => AllInv
  BY Inductive
<1>2. AllInv /\ [Next]_vars => AllInv'
  BY Inductive
<1>3. AllInv => IndInv
  BY Inductive
<1> QED
  BY <1>1, <1>2, <1>3, PTL DEF Spec

\* Whatever esp_jrnl_write left in the store, jrnl_replay can walk the log of every
\* open and of every committed transaction to its end.
THEOREM LogAlwaysReplayable ==
    ASSUME ReplayingClient
    PROVE  Spec => []LogReplayable
<1>1. IndInv => LogReplayable
  BY DEF IndInv, LogInv, LogReplayable
<1>2. Spec => []IndInv
  BY InvariantHolds
<1> QED
  BY <1>1, <1>2, PTL

LEMMA InvRecovered == IndInv => RecoveredBeforeUse
<1> SUFFICES ASSUME IndInv, mounted, pc = "idle", master.status \in {"TRANS_READY", "TRANS_OPEN"}
             PROVE  /\ DiskCommitted => post = FsImage /\ master.nf = 0
                    /\ master.status = "TRANS_READY" => post = FsImage /\ master.nf = 0
  BY DEF RecoveredBeforeUse
<1>1. CASE master.status = "TRANS_READY"
  BY <1>1 DEF IndInv, SettledInv, RecordInv
<1>2. CASE master.status = "TRANS_OPEN"
  BY <1>2 DEF IndInv, LogInv, Open
<1> QED
  BY <1>1, <1>2

\* A journal the client can use has no committed transaction left to transfer,
\* although jrnl_reset_master may fail after it has changed the record in memory.
THEOREM RecoveryPrecedesUse ==
    ASSUME ReplayingClient
    PROVE  Spec => []RecoveredBeforeUse
BY InvariantHolds, InvRecovered, PTL

-----------------------------------------------------------------------------
(* Action properties *)

\* Only the raw operations change the disk.
LEMMA OnlyRaw ==
    ASSUME [Next]_vars
    PROVE  (disk' = disk /\ spoilt' = spoilt) \/ (DiskSector /\ (AtMaster \/ Logging \/ AtTarget))
<1> USE DEF AtMaster, Logging, AtTarget, RawPcs
<1>1. CASE UNCHANGED vars
  BY <1>1 DEF vars
<1>2. CASE Client
  BY <1>2 DEF Client, EspJrnlMount, EspJrnlUnmount, EspJrnlStart, EspJrnlStartRefused, EspJrnlStopCancel,
              EspJrnlStopCommit, EspJrnlStopRefused, EspJrnlSetDirectIo, EspJrnlSetDirectIoRefused,
              WriteDirect, WriteLogged, WriteNoSpace, WriteRefused, EspJrnlRead, Refuse, LockWait
<1>3. CASE Running
  BY <1>3 DEF Running, RawProgress, MasterErase, MasterWriteMount, MasterWriteReplayedAtMount, MasterWriteCommit,
              MasterWriteReturn, RawLast, MountBlank, MountInconsistent, MountFound, ReplayAssertFails, ReplayReady,
              ReplayRollback, ReplayCommit, ReplayRead, ReplayBadCrc, ReplayFinish, TargetErase, ReplayTransferred,
              DirectWritten, WriteErase, WriteHeader, WriteData
<1>4. CASE DiskError
  BY <1>4 DEF DiskError
<1>5. CASE PowerCut \/ ReplayNoMemory
  BY <1>5 DEF PowerCut, ReplayNoMemory
<1> QED
  BY <1>1, <1>2, <1>3, <1>4, <1>5 DEF Next, Blocked

\* jrnl_update_master never runs over a committed log that is not transferred.
LEMMA MasterIsSettled ==
    ASSUME AllInv, AtMaster, DiskCommitted
    PROVE  post = FsImage
<1>1. after \in {"mount", "start", "write", "cancel", "commit", "replay", "direct"}
  BY DEF AllInv, TypeInv, TypeOK, StepInv
<1>2. CASE after \in {"mount", "cancel", "write"}
  BY <1>2 DEF AllInv, CtlInv, MasterInv, RecordInv
<1>3. CASE after \in {"start", "commit"}
  BY <1>3 DEF AllInv, CtlInv, MasterInv, DataInv, LogInv, Open, AtMaster
<1>4. CASE after \in {"replay", "direct"}
  BY <1>4 DEF AllInv, CtlInv, MasterInv, DataInv, SettledInv
<1> QED
  BY <1>1, <1>2, <1>3, <1>4

\* A committed log is given up only when every sector it writes has been
\* transferred: by jrnl_replay, which resets the master record last, or by a later
\* call that overwrites a record the failing disk had kept.
THEOREM CommittedLogKept ==
    ASSUME ReplayingClient
    PROVE  Spec => CommitKept
<1>1. Init => AllInv
  BY Inductive
<1>2. AllInv /\ [Next]_vars => AllInv'
  BY Inductive
<1>3. AllInv /\ [Next]_vars => [DiskCommitted /\ ~DiskCommitted' => FsImage = post \/ cfg.fresh]_vars
  <2> SUFFICES ASSUME AllInv, [Next]_vars, DiskCommitted, ~DiskCommitted'
               PROVE  FsImage = post
    OBVIOUS
  <2>1. disk'[MasterAddr] # disk[MasterAddr]
    BY DEF DiskCommitted, MasterAddr, LogAddr
  <2>2. disk' = disk \/ (DiskSector /\ (AtMaster \/ Logging \/ AtTarget))
    BY OnlyRaw
  <2>3. AtMaster
    BY <2>1, <2>2, LogFrame, TargetFrame DEF AllInv, TypeInv
  <2> QED
    BY <2>3, MasterIsSettled
<1> QED
  BY <1>1, <1>2, <1>3, PTL DEF Spec, CommitKept

\* Write-ahead rule of jrnl_replay and esp_jrnl_write: outside direct mode a sector
\* of the file system changes only under a committed log that restores it.
THEOREM WriteAheadRule ==
    ASSUME ReplayingClient
    PROVE  Spec => WriteAhead
<1>1. Init => AllInv
  BY Inductive
<1>2. AllInv /\ [Next]_vars => AllInv'
  BY Inductive
<1>3. AllInv /\ [Next]_vars
        => [\A s \in FsArea : disk'[s] # disk[s] => DiskCommitted \/ master.status = "FS_DIRECT"]_vars
  <2> SUFFICES ASSUME AllInv, [Next]_vars, NEW s \in FsArea, disk'[s] # disk[s]
               PROVE  DiskCommitted \/ master.status = "FS_DIRECT"
    OBVIOUS
  <2>1. disk' = disk \/ (DiskSector /\ (AtMaster \/ Logging \/ AtTarget))
    BY OnlyRaw
  <2>2. DiskSector /\ AtTarget
    BY <2>1, MasterFrame, LogFrame DEF AllInv, TypeInv
  <2> QED
    BY <2>2, TransferSame, DirectSame DEF AllInv
<1> QED
  BY <1>1, <1>2, <1>3, PTL DEF Spec, WriteAhead

-----------------------------------------------------------------------------
(* A journal that works is never stuck *)

\* On a medium that keeps what was written jrnl_replay meets no bad checksum.
LEMMA ReplayReadsIntact ==
    ASSUME AllInv, spoilt = {}, pc = "rp_head", ~ReplayDone
    PROVE  HeaderCrcOk(idx) /\ DataCrcOk(idx)
<1>1. /\ disk[MasterAddr] = MasterCell(master)
      /\ master.status = "TRANS_COMMIT"
      /\ idx \in Nat /\ master.nf \in 0 .. (StoreSize - 1) /\ idx < master.nf
      /\ Header(disk, idx)
  BY SizeAssumption DEF AllInv, CtlInv, ControlInv, RecordInv, DataInv, ReplayInv, Replaying, ReplayDone, TypeInv, TypeOK
<1>2. Chain(disk, master.nf)
  BY <1>1 DEF MasterCell, DiskCommitted, AllInv, DataInv, LogInv
<1>3. idx \in 0 .. (master.nf - 1)
  BY <1>1, SizeAssumption
<1>4. \A j \in 0 .. (disk[LogAddr(idx)].count - 1) : disk[LogAddr(idx + 1 + j)] = disk[LogAddr(idx)].crc[j]
  BY <1>1, <1>2, <1>3 DEF Chain
<1>5. PICK o \in Writes : disk[LogAddr(idx)] = HeaderCell(o)
  <2>1. LogAddr(idx) \in Volume
    BY <1>1, <1>3, Layout, SizeAssumption
  <2> QED
    BY <1>1, <2>1, CellFacts DEF AllInv, TypeInv, TypeOK, Header
<1>6. disk[LogAddr(idx)].crc \in [0 .. (disk[LogAddr(idx)].count - 1) -> DataCells]
  BY <1>5, WriteFacts DEF HeaderCell
<1> QED
  BY <1>1, <1>4, <1>6 DEF HeaderCrcOk, Header, DataCrcOk, LoggedData, Seen

LEMMA NextWedge ==
    ASSUME ReplayingClient, AllInv, spoilt = {}, WedgeInv, [Next]_vars
    PROVE  WedgeInv'
<1> USE DEF WedgeInv, AllInv, CtlInv, ControlInv, MasterInv, TypeInv
<1>1. CASE UNCHANGED vars
  BY <1>1 DEF vars
<1>2. CASE Client
  <2>1. CASE \E c \in Configs : EspJrnlMount(c)
    BY <2>1 DEF EspJrnlMount
  <2>2. CASE EspJrnlUnmount
    BY <2>2 DEF EspJrnlUnmount
  <2>3. CASE EspJrnlStart
    BY <2>3 DEF EspJrnlStart, Calling, UpdateMaster, TypeOK
  <2>4. CASE EspJrnlStopCancel
    BY <2>4 DEF EspJrnlStopCancel, ResetMaster, ResetStatus
  <2>8. CASE EspJrnlStopCommit
    BY <2>8 DEF EspJrnlStopCommit, UpdateMaster, TypeOK
  <2>5. CASE \E on \in BOOLEAN : EspJrnlSetDirectIo(on)
    BY <2>5 DEF EspJrnlSetDirectIo, Calling, UpdateMaster, TypeOK
  <2>6. CASE \E o \in Writes : WriteDirect(o) \/ WriteLogged(o)
    BY <2>6 DEF WriteDirect, WriteLogged, Calling, Bounds
  <2>7. CASE \/ EspJrnlStartRefused \/ EspJrnlStopRefused \/ EspJrnlSetDirectIoRefused \/ WriteRefused
             \/ \E o \in Writes : WriteNoSpace(o)
             \/ \E sector \in FsArea, count \in 1 .. MaxCount : EspJrnlRead(sector, count)
    BY <2>7 DEF EspJrnlStartRefused, EspJrnlStopRefused, EspJrnlSetDirectIoRefused, WriteRefused, WriteNoSpace,
                EspJrnlRead, Refuse, Locals, Bounds
  <2>9. CASE \E api \in {"start", "cancel", "direct"} : LockWait(api)
    BY <2>9 DEF LockWait, Calling, Bounds
  <2> QED
    BY <1>2, <2>1, <2>2, <2>3, <2>4, <2>5, <2>6, <2>7, <2>8, <2>9 DEF Client
<1>3. CASE Running
  <2>1. CASE ReplayBadCrc
    BY <2>1, ReplayReadsIntact DEF ReplayBadCrc
  <2>2. CASE MasterWriteMount \/ MasterWriteReplayedAtMount \/ MasterWriteCommit \/ MasterWriteReturn
    BY <2>2 DEF MasterWriteMount, MasterWriteReplayedAtMount, MasterWriteCommit, MasterWriteReturn, RawLast, Return,
                ResetMaster, ResetStatus, UpdateMaster, Bounds
  <2>3. CASE MountBlank \/ MountInconsistent \/ MountFound
    BY <2>3 DEF MountBlank, MountInconsistent, MountFound
  <2>4. CASE ReplayReady \/ ReplayRollback \/ ReplayFinish
    <3>1. master'.status = "TRANS_READY"
      BY <2>4 DEF ReplayReady, ReplayRollback, ReplayFinish, ResetMaster, ResetStatus
    <3> QED
      BY <3>1
  <2>8. CASE ReplayAssertFails
    BY <2>8 DEF ReplayAssertFails, LoseRam
  <2>9. CASE ReplayCommit \/ ReplayRead
    BY <2>9 DEF ReplayCommit, ReplayRead, Bounds
  <2>5. CASE RawProgress \/ MasterErase \/ TargetErase \/ ReplayTransferred \/ WriteErase \/ WriteHeader
    BY <2>5 DEF RawProgress, MasterErase, TargetErase, ReplayTransferred, WriteErase, WriteHeader, RawLast, RawPcs, Bounds
  <2>6. CASE DirectWritten
    BY <2>6 DEF DirectWritten, RawLast, Return, Bounds
  <2>7. CASE WriteData
    BY <2>7 DEF WriteData, RawLast, UpdateMaster, TypeOK, Logging, Bounds
  <2> QED
    BY <1>3, <2>1, <2>2, <2>3, <2>4, <2>5, <2>6, <2>7, <2>8, <2>9 DEF Running
<1>4. CASE DiskError
  BY <1>4, BoundAssumption DEF DiskError, TypeOK
<1>5. CASE PowerCut
  BY <1>5 DEF PowerCut, LoseRam
<1>6. CASE ReplayNoMemory
  BY <1>6, BoundAssumption DEF ReplayNoMemory, TypeOK
<1> QED
  BY <1>1, <1>2, <1>3, <1>4, <1>5, <1>6 DEF Next, Blocked

\* As long as no disk operation or allocation fails, a client without a transaction finds the journal
\* ready to start one: neither esp_jrnl_start, esp_jrnl_write nor esp_jrnl_stop, with its
\* replay of the log, leaves it open or committed or its lock taken, whatever the power does.
THEOREM WedgedOnlyAfterFault ==
    ASSUME ReplayingClient
    PROVE  Spec => []WedgedOnlyByFault
<1> DEFINE Inv == AllInv /\ spoilt = {} /\ WedgeInv
<1>1. Init => Inv
  BY Inductive DEF Init, WedgeInv
<1>2. Inv /\ [Next]_vars => Inv'
  <2> SUFFICES ASSUME Inv, [Next]_vars PROVE Inv'
    OBVIOUS
  <2>1. spoilt' = {}
    BY OnlyRaw DEF DiskSector
  <2>2. AllInv'
    BY Inductive
  <2>3. WedgeInv'
    BY NextWedge
  <2> QED
    BY <2>1, <2>2, <2>3
<1>3. Inv => WedgedOnlyByFault
  BY BoundAssumption DEF WedgeInv, WedgedOnlyByFault, AllInv, TypeInv, TypeOK, StepInv, AtMaster
<1> QED
  BY <1>1, <1>2, <1>3, PTL DEF Spec
=============================================================================
