--------------------------- MODULE EspJrnlProofs ---------------------------
(***************************************************************************)
(* TLAPS proofs about EspJrnl, for every size of volume and store, every   *)
(* payload and any number of power cuts and disk errors.                   *)
(***************************************************************************)
EXTENDS EspJrnlInv, TLAPS

-----------------------------------------------------------------------------
(* Addresses and records *)

\* The parts of the volume do not overlap.
LEMMA Layout ==
    /\ MasterAddr \in Volume
    /\ MasterAddr \notin FsArea
    /\ FsArea \subseteq Volume
    /\ \A p \in 0 .. (StoreSize - 2) :
          /\ LogAddr(p) \in Volume
          /\ LogAddr(p) \notin FsArea
          /\ LogAddr(p) # MasterAddr
BY SizeAssumption DEF MasterAddr, LogAddr, Volume, FsArea, JRNL_MIN_STORE_SIZE

\* A client's write stays inside the file-system part.
LEMMA WriteFacts ==
    ASSUME NEW o \in Writes
    PROVE  /\ o.target \in Nat
           /\ o.count \in Nat
           /\ o.count >= 1
           /\ o.target + o.count <= FsSectors
           /\ o.buf \in [0 .. (o.count - 1) -> DataCells]
           /\ o = [target |-> o.target, count |-> o.count, buf |-> o.buf]
<1>1. PICK n \in 1 .. (IF MaxCount <= FsSectors THEN MaxCount ELSE FsSectors) :
          o \in [target : 0 .. (FsSectors - n), count : {n}, buf : [0 .. (n - 1) -> DataCells]]
  BY DEF Writes
<1>2. n \in Nat /\ n >= 1
  BY SizeAssumption
<1> QED
  BY <1>1, <1>2, SizeAssumption

\* What a typed cell with a given tag is.
LEMMA CellFacts ==
    ASSUME NEW c \in Content \cup HeaderCells \cup MasterCells
    PROVE  /\ c.tag = "oper" => \E o \in Writes : c = HeaderCell(o)
           /\ c.tag = "master" => c \in MasterCells
           /\ c \in Content => c.tag \in {"data", "erased"}
BY DEF Content, HeaderCells, MasterCells, HeaderCell, DataCells, Erased

\* A raw operation leaves every sector well typed, and nothing of the journal in
\* the file-system part.
LEMMA DiskSectorType ==
    ASSUME TypeOK, StepInv, pc \in RawPcs, DiskSector
    PROVE  /\ disk' \in [Volume -> Content \cup HeaderCells \cup MasterCells]
           /\ \A s \in FsArea : disk'[s] \in Content
           /\ disk'[MasterAddr] \in MasterCells \cup {Erased}
           /\ spoilt' \subseteq Volume
<1>1. CASE pc \in {"m_erase", "m_write"}
  <2>1. RawAddr = MasterAddr
    BY <1>1 DEF RawAddr
  <2>2. RawCell \in MasterCells \cup {Erased}
    BY <1>1, SizeAssumption DEF RawCell, MasterCell, MasterCells, TypeOK
  <2>3. Erased \in Content
    BY DEF Content
  <2> QED
    BY <2>1, <2>2, <2>3, Layout DEF DiskSector, TypeOK
<1>2. CASE pc \in {"w_erase", "w_head", "w_data"}
  <2>1. oper \in Writes /\ HasSpace(oper.count) /\ k < RawLen /\ k \in Nat /\ master.nf \in Nat
    BY <1>2, SizeAssumption DEF StepInv, Logging, TypeOK, RawPcs
  <2>2. /\ pc \in {"w_erase", "w_head"} => RawAddr = LogAddr(master.nf + k)
        /\ pc = "w_data" => RawAddr = LogAddr(master.nf + 1 + k)
    BY <1>2, <2>1, SizeAssumption DEF RawAddr, LogAddr
  <2>3. \E p \in 0 .. (StoreSize - 2) : RawAddr = LogAddr(p)
    <3>1. /\ oper.count \in Nat
          /\ master.nf + 1 + oper.count < StoreSize - 1
      BY <2>1, WriteFacts DEF HasSpace
    <3>2. CASE pc \in {"w_erase", "w_head"}
      <4>1. k <= oper.count
        BY <3>2, <3>1, <2>1 DEF RawLen
      <4>2. master.nf + k \in 0 .. (StoreSize - 2)
        BY <4>1, <3>1, <2>1, SizeAssumption
      <4> QED
        BY <4>2, <3>2, <2>2
    <3>3. CASE pc = "w_data"
      <4>1. k < oper.count
        BY <3>3, <3>1, <2>1 DEF RawLen
      <4>2. master.nf + 1 + k \in 0 .. (StoreSize - 2)
        BY <4>1, <3>1, <2>1, SizeAssumption
      <4> QED
        BY <4>2, <3>3, <2>2
    <3> QED
      BY <1>2, <3>2, <3>3
  <2>4. RawCell \in Content \cup HeaderCells
    <3>1. CASE pc = "w_erase"
      BY <3>1 DEF RawCell, Content
    <3>2. CASE pc = "w_head"
      BY <3>2, <2>1 DEF RawCell, HeaderCells
    <3>3. CASE pc = "w_data"
      <4>1. k \in 0 .. (oper.count - 1)
        BY <3>3, <2>1, WriteFacts DEF RawLen
      <4> QED
        BY <3>3, <4>1, <2>1, WriteFacts DEF RawCell, Content
    <3> QED
      BY <1>2, <3>1, <3>2, <3>3
  <2> QED
    BY <2>3, <2>4, Layout DEF DiskSector, TypeOK
<1>3. CASE pc \in {"t_erase", "t_write"}
  <2>1. oper \in Writes /\ k < RawLen /\ k \in Nat
    BY <1>3, SizeAssumption DEF StepInv, AtTarget, TypeOK, RawPcs
  <2>2. k \in 0 .. (oper.count - 1)
    BY <1>3, <2>1, WriteFacts DEF RawLen
  <2>3. RawAddr \in FsArea
    BY <1>3, <2>1, <2>2, WriteFacts, SizeAssumption DEF RawAddr, FsArea
  <2>4. RawCell \in Content
    BY <1>3, <2>1, <2>2, WriteFacts DEF RawCell, Content
  <2> QED
    BY <2>3, <2>4, Layout DEF DiskSector, TypeOK
<1> QED
  BY <1>1, <1>2, <1>3 DEF RawPcs

-----------------------------------------------------------------------------
(* Type correctness *)

TypeInv == TypeOK /\ StepInv

\* The constants of the specification have their types.
LEMMA ConstTypes ==
    /\ NoMaster \in [status : Status, nf : 0 .. (StoreSize - 1)]
    /\ NoOper \in Writes \cup {NoOper}
    /\ NoConfig \in Configs \cup {NoConfig}
    /\ [status |-> "FS_DIRECT", nf |-> 0] \in [status : Status, nf : 0 .. (StoreSize - 1)]
    /\ [status |-> "TRANS_READY", nf |-> 0] \in [status : Status, nf : 0 .. (StoreSize - 1)]
BY SizeAssumption DEF NoMaster, Status, JRNL_MIN_STORE_SIZE

LEMMA InitType == Init => TypeInv
<1> SUFFICES ASSUME Init PROVE TypeInv
  OBVIOUS
<1>1. PICK f \in [FsArea -> DataCells],
           m \in {Erased, MasterCell([status |-> "TRANS_READY", nf |-> 0]), ForeignMaster} :
         disk = [a \in Volume |-> IF a \in FsArea THEN f[a]
                                  ELSE IF a = MasterAddr THEN m ELSE Erased]
  BY DEF Init
<1>2. m \in MasterCells \cup {Erased}
  BY SizeAssumption DEF MasterCell, ForeignMaster, MasterCells, Status, JRNL_MIN_STORE_SIZE
<1>3. /\ \A s \in FsArea : disk[s] \in Content
      /\ disk[MasterAddr] \in MasterCells \cup {Erased}
      /\ disk \in [Volume -> Content \cup HeaderCells \cup MasterCells]
  BY <1>1, <1>2, Layout DEF Content
<1>4. post \in [FsArea -> Content]
  BY <1>3 DEF Init, FsImage
<1>5. TypeOK
  <2>1. cuts \in 0 .. MaxPowerCuts /\ faults \in 0 .. MaxFaults
    BY BoundAssumption DEF Init
  <2>2. master \in [status : Status, nf : 0 .. (StoreSize - 1)]
    BY ConstTypes DEF Init
  <2>3. /\ mounted \in BOOLEAN /\ kept \in BOOLEAN /\ k \in Nat /\ idx \in Nat
        /\ pc \in RawPcs \cup {"idle", "mt_read", "replay", "rp_head", "lock"}
        /\ after \in {"none", "mount", "start", "write", "cancel", "commit", "replay", "direct"}
        /\ oper \in Writes \cup {NoOper}
        /\ cfg \in Configs \cup {NoConfig}
        /\ mode \in {"none", "txn", "direct"}
        /\ spoilt \subseteq Volume
    BY DEF Init
  <2> QED
    BY <1>3, <1>4, <2>1, <2>2, <2>3 DEF TypeOK
<1>6. StepInv
  BY DEF Init, StepInv, RawPcs, AtMaster, Logging, AtTarget
<1> QED
  BY <1>5, <1>6 DEF TypeInv

\* The history variable stays an image of the file system.
LEMMA SettleType ==
    ASSUME post \in [FsArea -> Content], \A s \in FsArea : disk'[s] \in Content, Settle
    PROVE  post' \in [FsArea -> Content]
BY DEF Settle, FsImage

\* What passes the checksums of jrnl_replay is a record as it was written.
LEMMA RecordRead ==
    ASSUME TypeOK, ReplayRead
    PROVE  /\ idx \in 0 .. (StoreSize - 2) /\ idx < master.nf
           /\ oper' \in Writes
           /\ disk[LogAddr(idx)] = HeaderCell(oper')
<1>1. idx \in 0 .. (StoreSize - 2) /\ idx < master.nf
  BY SizeAssumption DEF ReplayRead, ReplayDone, TypeOK
<1>2. Seen(LogAddr(idx)) = disk[LogAddr(idx)] /\ disk[LogAddr(idx)].tag = "oper"
  BY DEF ReplayRead, HeaderCrcOk, Seen, Garbage
<1>3. PICK o \in Writes : disk[LogAddr(idx)] = HeaderCell(o)
  BY <1>1, <1>2, Layout, CellFacts DEF TypeOK
<1>4. oper' = o
  BY <1>2, <1>3, WriteFacts DEF ReplayRead, DataCrcOk, HeaderCell
<1> QED
  BY <1>1, <1>3, <1>4

LEMMA NextType == TypeInv /\ [Next]_vars => TypeInv'
<1> SUFFICES ASSUME TypeOK, StepInv, [Next]_vars
             PROVE  TypeOK' /\ StepInv'
  BY DEF TypeInv
<1> USE ConstTypes DEF StepInv, AtMaster, Logging, AtTarget, RawPcs
<1>1. CASE UNCHANGED vars
  BY <1>1 DEF vars, TypeOK, HasSpace, RawLen, MasterAddr, LogAddr
<1>2. CASE \E c \in Configs : EspJrnlMount(c)
  BY <1>2 DEF EspJrnlMount, ResetMaster, ResetStatus, UpdateMaster, TypeOK, HasSpace, RawLen, MasterAddr, LogAddr, Bounds, Locals
<1>3. CASE EspJrnlUnmount
  <2>1. post' \in [FsArea -> Content]
    BY <1>3, SettleType DEF EspJrnlUnmount, TypeOK
  <2> QED
    BY <1>3, <2>1 DEF EspJrnlUnmount, TypeOK, HasSpace, RawLen, MasterAddr, LogAddr, Bounds, Locals
<1>4. CASE EspJrnlStart
  BY <1>4 DEF EspJrnlStart, Calling, UpdateMaster, Status, TypeOK, HasSpace, RawLen, MasterAddr, LogAddr, Bounds, Locals
<1>5. CASE EspJrnlStartRefused
  BY <1>5 DEF EspJrnlStartRefused, Refuse, TypeOK, HasSpace, RawLen, MasterAddr, LogAddr, Bounds, Locals
<1>6. CASE EspJrnlStopRefused
  BY <1>6 DEF EspJrnlStopRefused, Refuse, TypeOK, HasSpace, RawLen, MasterAddr, LogAddr, Bounds, Locals
<1>7. CASE EspJrnlSetDirectIoRefused
  BY <1>7 DEF EspJrnlSetDirectIoRefused, Refuse, TypeOK, HasSpace, RawLen, MasterAddr, LogAddr, Bounds, Locals
<1>8. CASE WriteRefused
  BY <1>8 DEF WriteRefused, Refuse, TypeOK, HasSpace, RawLen, MasterAddr, LogAddr, Bounds, Locals
<1>9. CASE EspJrnlStopCancel
  <2>1. post' \in [FsArea -> Content]
    BY <1>9, SettleType DEF EspJrnlStopCancel, TypeOK
  <2> QED
    BY <1>9, <2>1 DEF EspJrnlStopCancel, Calling, ResetMaster, ResetStatus, UpdateMaster, TypeOK, HasSpace, RawLen, MasterAddr, LogAddr, Bounds, Locals
<1>10. CASE EspJrnlStopCommit
  BY <1>10 DEF EspJrnlStopCommit, Calling, UpdateMaster, Status, TypeOK, HasSpace, RawLen, MasterAddr, LogAddr, Bounds, Locals
<1>11. CASE \E on \in BOOLEAN : EspJrnlSetDirectIo(on)
  BY <1>11 DEF EspJrnlSetDirectIo, Calling, UpdateMaster, Status, TypeOK, HasSpace, RawLen, MasterAddr, LogAddr, Bounds, Locals
<1>12. CASE \E o \in Writes : WriteDirect(o) \/ WriteLogged(o) \/ WriteNoSpace(o)
  <2>1. PICK o \in Writes : WriteDirect(o) \/ WriteLogged(o) \/ WriteNoSpace(o)
    BY <1>12
  <2>2. CASE WriteDirect(o)
    BY <2>2, WriteFacts DEF WriteDirect, Calling, TypeOK, HasSpace, RawLen, MasterAddr, LogAddr, Bounds, Locals
  <2>3. CASE WriteLogged(o)
    BY <2>3, WriteFacts DEF WriteLogged, Calling, TypeOK, HasSpace, RawLen, MasterAddr, LogAddr, Bounds, Locals
  <2>4. CASE WriteNoSpace(o)
    BY <2>4 DEF WriteNoSpace, Refuse, TypeOK, HasSpace, RawLen, MasterAddr, LogAddr, Bounds, Locals
  <2> QED
    BY <2>1, <2>2, <2>3, <2>4
<1>13. CASE \E sector \in FsArea, count \in 1 .. MaxCount : EspJrnlRead(sector, count)
  BY <1>13 DEF EspJrnlRead, Refuse, TypeOK, HasSpace, RawLen, MasterAddr, LogAddr, Bounds, Locals
<1>14. CASE RawProgress
  <2>1. /\ disk' \in [Volume -> Content \cup HeaderCells \cup MasterCells]
        /\ \A s \in FsArea : disk'[s] \in Content
        /\ disk'[MasterAddr] \in MasterCells \cup {Erased}
        /\ spoilt' \subseteq Volume
    BY <1>14, DiskSectorType DEF RawProgress
  <2>2. post' \in [FsArea -> Content]
    BY <1>14, <2>1, SettleType DEF RawProgress, TypeOK
  <2>3. k' \in Nat /\ k' < RawLen
    BY <1>14, WriteFacts DEF RawProgress, LastSector, RawLen, TypeOK
  <2>4. k' < RawLen'
    BY <1>14, <2>3 DEF RawProgress, RawLen
  <2>5. StepInv'
    BY <1>14, <2>4 DEF RawProgress, HasSpace
  <2> QED
    BY <1>14, <2>1, <2>2, <2>3, <2>5 DEF RawProgress, TypeOK, MasterAddr, LogAddr, Bounds
<1>15. CASE MasterErase
  <2>1. /\ disk' \in [Volume -> Content \cup HeaderCells \cup MasterCells]
        /\ \A s \in FsArea : disk'[s] \in Content
        /\ disk'[MasterAddr] \in MasterCells \cup {Erased}
        /\ spoilt' \subseteq Volume
    BY <1>15, DiskSectorType DEF MasterErase, RawLast
  <2>2. post' \in [FsArea -> Content]
    BY <1>15, <2>1, SettleType DEF MasterErase, TypeOK
  <2> QED
    BY <1>15, <2>1, <2>2, WriteFacts DEF MasterErase, RawLast, TypeOK, HasSpace, RawLen, MasterAddr, LogAddr, Bounds
<1>16. CASE MasterWriteMount
  <2>1. /\ disk' \in [Volume -> Content \cup HeaderCells \cup MasterCells]
        /\ \A s \in FsArea : disk'[s] \in Content
        /\ disk'[MasterAddr] \in MasterCells \cup {Erased}
        /\ spoilt' \subseteq Volume
    BY <1>16, DiskSectorType DEF MasterWriteMount, RawLast
  <2> QED
    BY <1>16, <2>1, WriteFacts DEF MasterWriteMount, RawLast, Return, TypeOK, HasSpace, RawLen, MasterAddr, LogAddr, Bounds
<1>17. CASE MasterWriteReplayedAtMount
  <2>1. /\ disk' \in [Volume -> Content \cup HeaderCells \cup MasterCells]
        /\ \A s \in FsArea : disk'[s] \in Content
        /\ disk'[MasterAddr] \in MasterCells \cup {Erased}
        /\ spoilt' \subseteq Volume
    BY <1>17, DiskSectorType DEF MasterWriteReplayedAtMount, RawLast
  <2> QED
    BY <1>17, <2>1, WriteFacts DEF MasterWriteReplayedAtMount, RawLast, ResetMaster, ResetStatus, UpdateMaster, TypeOK, HasSpace, RawLen, MasterAddr, LogAddr, Bounds
<1>18. CASE MasterWriteCommit
  <2>1. /\ disk' \in [Volume -> Content \cup HeaderCells \cup MasterCells]
        /\ \A s \in FsArea : disk'[s] \in Content
        /\ disk'[MasterAddr] \in MasterCells \cup {Erased}
        /\ spoilt' \subseteq Volume
    BY <1>18, DiskSectorType DEF MasterWriteCommit, RawLast
  <2> QED
    BY <1>18, <2>1, WriteFacts DEF MasterWriteCommit, RawLast, TypeOK, HasSpace, RawLen, MasterAddr, LogAddr, Bounds
<1>19. CASE MasterWriteReturn
  <2>1. /\ disk' \in [Volume -> Content \cup HeaderCells \cup MasterCells]
        /\ \A s \in FsArea : disk'[s] \in Content
        /\ disk'[MasterAddr] \in MasterCells \cup {Erased}
        /\ spoilt' \subseteq Volume
    BY <1>19, DiskSectorType DEF MasterWriteReturn, RawLast
  <2> QED
    BY <1>19, <2>1, WriteFacts DEF MasterWriteReturn, RawLast, Return, TypeOK, HasSpace, RawLen, MasterAddr, LogAddr, Bounds
<1>20. CASE MountBlank
  BY <1>20 DEF MountBlank, ResetMaster, ResetStatus, UpdateMaster, TypeOK, HasSpace, RawLen, MasterAddr, LogAddr, Bounds, Locals
<1>21. CASE MountInconsistent
  BY <1>21 DEF MountInconsistent, Return, TypeOK, HasSpace, RawLen, MasterAddr, LogAddr, Bounds, Locals
<1>22. CASE MountFound
  <2>1. disk[MasterAddr] \in MasterCells
    BY <1>22 DEF MountFound, TypeOK, Erased
  <2>2. [status |-> disk[MasterAddr].status, nf |-> disk[MasterAddr].nf] \in [status : Status, nf : 0 .. (StoreSize - 1)]
    BY <2>1 DEF MasterCells
  <2> QED
    BY <1>22, <2>2 DEF MountFound, ResetMaster, ResetStatus, UpdateMaster, TypeOK, HasSpace, RawLen, MasterAddr, LogAddr, Bounds, Locals
<1>23. CASE ReplayAssertFails
  BY <1>23 DEF ReplayAssertFails, LoseRam, TypeOK, HasSpace, RawLen, MasterAddr, LogAddr, Bounds, Locals
<1>24. CASE ReplayReady
  BY <1>24 DEF ReplayReady, ResetMaster, ResetStatus, UpdateMaster, TypeOK, HasSpace, RawLen, MasterAddr, LogAddr, Bounds, Locals
<1>25. CASE ReplayRollback
  BY <1>25 DEF ReplayRollback, ResetMaster, ResetStatus, UpdateMaster, TypeOK, HasSpace, RawLen, MasterAddr, LogAddr, Bounds, Locals
<1>26. CASE ReplayCommit
  BY <1>26 DEF ReplayCommit, TypeOK, HasSpace, RawLen, MasterAddr, LogAddr, Bounds, Locals
<1>27. CASE ReplayRead
  <2>1. oper' \in Writes
    BY <1>27, RecordRead
  <2> QED
    BY <1>27, <2>1, WriteFacts DEF ReplayRead, TypeOK, HasSpace, RawLen, MasterAddr, LogAddr, Bounds, Locals
<1>28. CASE ReplayBadCrc
  BY <1>28 DEF ReplayBadCrc, FailCall, Return, TypeOK, HasSpace, RawLen, MasterAddr, LogAddr, Bounds, Locals
<1>29. CASE ReplayFinish
  BY <1>29 DEF ReplayFinish, ResetMaster, ResetStatus, UpdateMaster, TypeOK, HasSpace, RawLen, MasterAddr, LogAddr, Bounds, Locals
<1>30. CASE TargetErase
  <2>1. /\ disk' \in [Volume -> Content \cup HeaderCells \cup MasterCells]
        /\ \A s \in FsArea : disk'[s] \in Content
        /\ disk'[MasterAddr] \in MasterCells \cup {Erased}
        /\ spoilt' \subseteq Volume
    BY <1>30, DiskSectorType DEF TargetErase, RawLast
  <2>2. post' \in [FsArea -> Content]
    BY <1>30, <2>1, SettleType DEF TargetErase, TypeOK
  <2> QED
    BY <1>30, <2>1, <2>2, WriteFacts DEF TargetErase, RawLast, TypeOK, HasSpace, RawLen, MasterAddr, LogAddr, Bounds
<1>31. CASE ReplayTransferred
  <2>1. /\ disk' \in [Volume -> Content \cup HeaderCells \cup MasterCells]
        /\ \A s \in FsArea : disk'[s] \in Content
        /\ disk'[MasterAddr] \in MasterCells \cup {Erased}
        /\ spoilt' \subseteq Volume
    BY <1>31, DiskSectorType DEF ReplayTransferred, RawLast
  <2> QED
    BY <1>31, <2>1, WriteFacts DEF ReplayTransferred, RawLast, NextRecord, TypeOK, HasSpace, RawLen, MasterAddr, LogAddr, Bounds
<1>32. CASE DirectWritten
  <2>1. /\ disk' \in [Volume -> Content \cup HeaderCells \cup MasterCells]
        /\ \A s \in FsArea : disk'[s] \in Content
        /\ disk'[MasterAddr] \in MasterCells \cup {Erased}
        /\ spoilt' \subseteq Volume
    BY <1>32, DiskSectorType DEF DirectWritten, RawLast
  <2>2. post' \in [FsArea -> Content]
    BY <1>32, <2>1, SettleType DEF DirectWritten, TypeOK
  <2> QED
    BY <1>32, <2>1, <2>2, WriteFacts DEF DirectWritten, RawLast, Return, TypeOK, HasSpace, RawLen, MasterAddr, LogAddr, Bounds
<1>33. CASE WriteErase
  <2>1. /\ disk' \in [Volume -> Content \cup HeaderCells \cup MasterCells]
        /\ \A s \in FsArea : disk'[s] \in Content
        /\ disk'[MasterAddr] \in MasterCells \cup {Erased}
        /\ spoilt' \subseteq Volume
    BY <1>33, DiskSectorType DEF WriteErase, RawLast
  <2> QED
    BY <1>33, <2>1, WriteFacts DEF WriteErase, RawLast, TypeOK, HasSpace, RawLen, MasterAddr, LogAddr, Bounds
<1>34. CASE WriteHeader
  <2>1. /\ disk' \in [Volume -> Content \cup HeaderCells \cup MasterCells]
        /\ \A s \in FsArea : disk'[s] \in Content
        /\ disk'[MasterAddr] \in MasterCells \cup {Erased}
        /\ spoilt' \subseteq Volume
    BY <1>34, DiskSectorType DEF WriteHeader, RawLast
  <2> QED
    BY <1>34, <2>1, WriteFacts DEF WriteHeader, RawLast, TypeOK, HasSpace, RawLen, MasterAddr, LogAddr, Bounds
<1>35. CASE WriteData
  <2>1. /\ disk' \in [Volume -> Content \cup HeaderCells \cup MasterCells]
        /\ \A s \in FsArea : disk'[s] \in Content
        /\ disk'[MasterAddr] \in MasterCells \cup {Erased}
        /\ spoilt' \subseteq Volume
    BY <1>35, DiskSectorType DEF WriteData, RawLast
  <2>2. oper \in Writes /\ HasSpace(oper.count)
    BY <1>35 DEF WriteData, RawLast
  <2>3. post' \in [FsArea -> Content]
    <3>1. \A s \in FsArea : s \in oper.target .. (oper.target + oper.count - 1) => oper.buf[s - oper.target] \in Content
      BY <2>2, WriteFacts DEF Content, FsArea
    <3> QED
      BY <1>35, <3>1 DEF WriteData, Overlay, TypeOK
  <2>4. master' \in [status : Status, nf : 0 .. (StoreSize - 1)]
    <3>1. /\ oper.count \in Nat /\ master.nf \in Nat
          /\ master.nf + 1 + oper.count < StoreSize - 1
      BY <2>2, WriteFacts, SizeAssumption DEF HasSpace, TypeOK
    <3>2. master.nf + 1 + oper.count \in 0 .. (StoreSize - 1)
      BY <3>1, SizeAssumption
    <3> QED
      BY <1>35, <3>2 DEF WriteData, NextFree, TypeOK
  <2> QED
    BY <1>35, <2>1, <2>3, <2>4 DEF WriteData, UpdateMaster, TypeOK, RawLen, MasterAddr, LogAddr, Bounds
<1>36. CASE DiskError
  <2>1. /\ disk' \in [Volume -> Content \cup HeaderCells \cup MasterCells]
        /\ \A s \in FsArea : disk'[s] \in Content
        /\ disk'[MasterAddr] \in MasterCells \cup {Erased}
        /\ spoilt' \subseteq Volume
    BY <1>36, DiskSectorType DEF DiskError, TypeOK
  <2>2. post' \in [FsArea -> Content]
    BY <1>36, <2>1, SettleType DEF DiskError, TypeOK
  <2>3. faults' \in 0 .. MaxFaults /\ cuts' \in 0 .. MaxPowerCuts
    BY <1>36, BoundAssumption DEF DiskError, TypeOK
  <2> QED
    BY <1>36, <2>1, <2>2, <2>3 DEF DiskError, FailCall, Return, TypeOK, RawLen, MasterAddr, LogAddr
<1>37. CASE PowerCut
  <2>1. post' \in [FsArea -> Content]
    BY <1>37, SettleType DEF PowerCut, TypeOK
  <2>2. faults' \in 0 .. MaxFaults /\ cuts' \in 0 .. MaxPowerCuts
    BY <1>37, BoundAssumption DEF PowerCut, TypeOK
  <2> QED
    BY <1>37, <2>1, <2>2 DEF PowerCut, LoseRam, TypeOK, RawLen, MasterAddr, LogAddr
<1>38. CASE \E api \in {"start", "cancel", "direct"} : LockWait(api)
  BY <1>38 DEF LockWait, Calling, TypeOK, HasSpace, RawLen, MasterAddr, LogAddr, Bounds, Locals
<1>39. CASE ReplayNoMemory
  <2>1. faults' \in 0 .. MaxFaults
    BY <1>39, BoundAssumption DEF ReplayNoMemory, TypeOK
  <2> QED
    BY <1>39, <2>1 DEF ReplayNoMemory, FailCall, Return, TypeOK, HasSpace, RawLen, MasterAddr, LogAddr
<1>40. CASE Blocked
  BY <1>1, <1>40 DEF Blocked
<1> QED
  BY <1>1, <1>2, <1>3, <1>4, <1>5, <1>6, <1>7, <1>8, <1>9, <1>10, <1>11, <1>12, <1>13, <1>14, <1>15, <1>16, <1>17, <1>18, <1>19, <1>20, <1>21, <1>22, <1>23, <1>24, <1>25, <1>26, <1>27, <1>28, <1>29, <1>30, <1>31, <1>32, <1>33, <1>34, <1>35, <1>36, <1>37, <1>38, <1>39, <1>40 DEF Next, Client, Running

\* Every variable keeps its type, journal records stay inside the store and file
\* data outside of it, whatever the client, the configuration and the faults
\* (raw addresses of jrnl_write_internal, esp_jrnl_write and jrnl_replay).
THEOREM TypeCorrect == Spec => []TypeOK
<1>1. Init => TypeInv
  BY InitType
<1>2. TypeInv /\ [Next]_vars => TypeInv'
  BY NextType
<1>3. TypeInv => TypeOK
  BY DEF TypeInv
<1> QED
  BY <1>1, <1>2, <1>3, PTL DEF Spec
=============================================================================
