------------------------- MODULE EspJrnlDecayProofs -------------------------
(***************************************************************************)
(* TLAPS proofs that atomicity survives a medium that spoils sectors of    *)
(* the log, any number of them at any moment.  The invariants of EspJrnl   *)
(* speak of what was written, so decay leaves them alone; what is left to  *)
(* show is that jrnl_replay stops at a spoilt record, which EspJrnlProofs  *)
(* and EspJrnlAtomicProofs have shown of every state of spoilt.            *)
(***************************************************************************)
EXTENDS EspJrnlDecay, EspJrnlRefinement

LEMMA DecayFrame ==
    ASSUME Decay
    PROVE  /\ UNCHANGED <<disk, mounted, master, pc, after, k, idx, oper, cfg, mode, ret, kept, post, cuts, faults>>
           /\ spoilt' \subseteq spoilt \cup LogArea
BY DEF Decay, Locals, Bounds

LEMMA DecayType ==
    ASSUME TypeInv, Decay
    PROVE  TypeInv'
<1>1. LogArea \subseteq Volume
  BY SizeAssumption DEF LogArea, LogAddr, MasterAddr, Volume, JRNL_MIN_STORE_SIZE
<1>2. TypeOK'
  BY <1>1, DecayFrame DEF TypeInv, TypeOK, MasterAddr, LogAddr
<1>3. StepInv'
  BY DecayFrame DEF TypeInv, StepInv, AtMaster, Logging, AtTarget, RawLen, HasSpace
<1> QED
  BY <1>2, <1>3 DEF TypeInv

LEMMA DecayCtl ==
    ASSUME CtlInv, Decay
    PROVE  CtlInv'
BY DecayFrame DEF CtlInv, ControlInv, MasterInv, RecordInv, Logging, AtTarget, AtMaster, Replaying,
                  DiskCommitted, MasterCell, MasterAddr, LogAddr

LEMMA DecayData ==
    ASSUME DataInv, Decay
    PROVE  DataInv'
BY DecayFrame DEF DataInv, LogInv, SettledInv, ReplayInv, TransferInv, AppendInv, Replaying, AtTarget,
                  Open, DiskCommitted, FsImage, MasterAddr, LogAddr, HeaderCell

\* The invariant of EspJrnlAtomicProofs is inductive for a decaying log, too.
LEMMA DecayInductive ==
    ASSUME ReplayingClient, AllInv, [DecayNext]_vars
    PROVE  AllInv'
<1>1. CASE [Next]_vars
  BY <1>1, Inductive
<1>2. CASE Decay
  BY <1>2, DecayType, DecayCtl, DecayData DEF AllInv
<1> QED
  BY <1>1, <1>2 DEF DecayNext

\* NoGarbageTransferred: jrnl_replay compares each record with its checksums before it
\* copies it, so the file system is never given a spoilt sector, whatever the client
\* and the configuration.
THEOREM NothingSpoiltTransferred == DecaySpec => []NoGarbageTransferred
<1>1. TypeInv /\ [DecayNext]_vars => TypeInv'
  BY NextType, DecayType DEF DecayNext
<1>2. TypeInv => NoGarbageTransferred
  BY DEF TypeInv, TypeOK, NoGarbageTransferred, Content, DataCells, Erased, Garbage
<1> QED
  BY <1>1, <1>2, InitType, PTL DEF DecaySpec

\* CommitKeptUnderDecay: jrnl_replay that stops at a bad checksum returns without
\* jrnl_reset_master, and no later call resets the record of a committed log either,
\* before all of it has been transferred.
THEOREM CommittedLogKeptUnderDecay ==
    ASSUME ReplayingClient
    PROVE  DecaySpec => CommitKeptUnderDecay
<1>1. Init => AllInv
  BY Inductive
<1>2. AllInv /\ [DecayNext]_vars => AllInv'
  BY DecayInductive
<1>3. AllInv /\ [DecayNext]_vars => [DiskCommitted /\ ~DiskCommitted' => FsImage = post]_vars
  <2> SUFFICES ASSUME AllInv, [DecayNext]_vars, DiskCommitted, ~DiskCommitted'
               PROVE  FsImage = post
    OBVIOUS
  <2>1. disk'[MasterAddr] # disk[MasterAddr]
    BY DEF DiskCommitted, MasterAddr, LogAddr
  <2>2. [Next]_vars
    BY <2>1, DecayFrame DEF DecayNext
  <2>3. AtMaster
    BY <2>1, <2>2, OnlyRaw, LogFrame, TargetFrame DEF AllInv, TypeInv
  <2> QED
    BY <2>3, MasterIsSettled
<1> QED
  BY <1>1, <1>2, <1>3, PTL DEF DecaySpec, CommitKeptUnderDecay

\* RecoveredBeforeUse: a client never gets a journal that is ready, or open, over a
\* transaction that esp_jrnl_mount or esp_jrnl_stop could not read to its end.
THEOREM RecoveryPrecedesUseUnderDecay ==
    ASSUME ReplayingClient
    PROVE  DecaySpec => []RecoveredBeforeUse
<1>1. Init => AllInv
  BY Inductive
<1>2. AllInv /\ [DecayNext]_vars => AllInv'
  BY DecayInductive
<1>3. AllInv => RecoveredBeforeUse
  BY Inductive, InvRecovered
<1> QED
  BY <1>1, <1>2, <1>3, PTL DEF DecaySpec

\* Decay changes nothing a client can rely on.
LEMMA DecayRefines ==
    ASSUME Decay
    PROVE  UNCHANGED Atomic!vars
<1>1. post' = post /\ (Open' <=> Open) /\ (DirectGranted' <=> DirectGranted)
  BY DecayFrame DEF Open, DirectGranted
<1>2. Img' = Img
  BY <1>1, DecayFrame, SameImg
<1> QED
  BY <1>1, <1>2, AbstractStutter

\* The journaling core implements the atomic volume on a medium that spoils its log: a
\* transaction whose log can no longer be read stays committed for good.  jrnl_replay may
\* have copied a part of it, but no call takes the rest for done.
THEOREM ImplementsUnderDecay ==
    ASSUME ReplayingClient
    PROVE  DecaySpec => Refinement
<1>1. Init => AllInv
  BY Inductive
<1>2. AllInv /\ [DecayNext]_vars => AllInv'
  BY DecayInductive
<1>3. Init => Atomic!Init
  BY InitRefines
<1>4. AllInv /\ AllInv' /\ [DecayNext]_vars => [Atomic!Next]_(Atomic!vars)
  BY NextRefines, DecayRefines DEF DecayNext
<1> QED
  BY <1>1, <1>2, <1>3, <1>4, PTL DEF DecaySpec, Refinement, Atomic!Spec
=============================================================================
