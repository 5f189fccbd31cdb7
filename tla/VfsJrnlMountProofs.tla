------------------------- MODULE VfsJrnlMountProofs -------------------------
(***************************************************************************)
(* TLAPS proofs about VfsJrnlMount, for tables of every size, any media    *)
(* and base paths and a failure at any step of any mount.                  *)
(***************************************************************************)
EXTENDS VfsJrnlMountInv, MinMaxLemmas

\* Mounts and unmounts come from one task, and no base path is mounted twice.
OneMounter == ~ReusePaths /\ \E t : Tasks = {t}

-----------------------------------------------------------------------------
(* Table searches *)

\* A search returns a match, or None if there is none.
LEMMA FirstFacts ==
    ASSUME NEW S \in SUBSET Nat
    PROVE  /\ S = {} => First(S) = None
           /\ S # {} => First(S) \in S /\ First(S) # None
<1>1. ASSUME S # {} PROVE First(S) \in S
  BY <1>1, MinFacts DEF First
<1> QED
  BY <1>1 DEF First, None

\* Indices of the tables are natural numbers.
LEMMA Indices ==
    /\ Drives \in SUBSET Nat
    /\ Handles \in SUBSET Nat
    /\ Devices \in SUBSET Nat
    /\ 0 \in Drives
BY TableAssumption DEF Drives, Handles, Devices

\* What the searches of the mount path return.
LEMMA Searches ==
    /\ FreeDrive # None => FreeDrive \in Drives /\ ~impl[FreeDrive]
    /\ FreeDevice # None => FreeDevice \in Devices /\ device[FreeDevice] = NoMedium
    /\ FreeHandle # None => FreeHandle \in Handles /\ instance[FreeHandle] = NoInstance
    /\ FreeContext # None => FreeContext \in Drives /\ context[FreeContext] = NoContext
<1>1. /\ {d \in Drives : ~impl[d]} \in SUBSET Nat
      /\ {i \in Devices : device[i] = NoMedium} \in SUBSET Nat
      /\ {h \in Handles : instance[h] = NoInstance} \in SUBSET Nat
      /\ {s \in Drives : context[s] = NoContext} \in SUBSET Nat
  BY Indices
<1>2. FreeDrive # None => FreeDrive \in {d \in Drives : ~impl[d]}
  BY <1>1, FirstFacts DEF FreeDrive
<1>3. FreeDevice # None => FreeDevice \in {i \in Devices : device[i] = NoMedium}
  BY <1>1, FirstFacts DEF FreeDevice
<1>4. FreeHandle # None => FreeHandle \in {h \in Handles : instance[h] = NoInstance}
  BY <1>1, FirstFacts DEF FreeHandle
<1>5. FreeContext # None => FreeContext \in {s \in Drives : context[s] = NoContext}
  BY <1>1, FirstFacts DEF FreeContext
<1> QED
  BY <1>2, <1>3, <1>4, <1>5

LEMMA ContextSearch ==
    ASSUME NEW path
    PROVE  /\ ContextOf(path) # None => ContextOf(path) \in Drives /\ context[ContextOf(path)].path = path
           /\ ContextOf(path) = None => \A s \in Drives : context[s].path # path
<1>1. {s \in Drives : context[s].path = path} \in SUBSET Nat
  BY Indices
<1>2. /\ ContextOf(path) # None => ContextOf(path) \in {s \in Drives : context[s].path = path}
      /\ ContextOf(path) = None => {s \in Drives : context[s].path = path} = {}
  BY <1>1, FirstFacts DEF ContextOf
<1> QED
  BY <1>2

-----------------------------------------------------------------------------
(* Unmounting *)

\* All entries of the volume with journal h and base path path are given back, and
\* nothing else is touched.
Released(h, path) ==
    /\ instance' = [instance EXCEPT ![h] = NoInstance]
    /\ device' = [device EXCEPT ![instance[h].device] = NoMedium]
    /\ impl' = [impl EXCEPT ![instance[h].pdrv] = FALSE]
    /\ ffHandles' = [ffHandles EXCEPT ![instance[h].pdrv] = None]
    /\ pdHandles' = [pdHandles EXCEPT ![instance[h].pdrv] = None]
    /\ fatFs' = [fatFs EXCEPT ![instance[h].pdrv] = None]
    /\ context' = [s \in Drives |-> IF context[s].path = path THEN NoContext ELSE context[s]]

\* Both unmount functions do that for a volume with a disk driver.
LEMMA UnmountReleases ==
    ASSUME TypeOK, TableInv,
           NEW h \in Handles, NEW path \in Paths, NEW dev,
           instance[h] # NoInstance, ffHandles[instance[h].pdrv] = h,
           UnmountSpiflash(h, path) \/ UnmountSdmmc(h, path, dev)
    PROVE  Released(h, path)
<1> DEFINE e == instance[h].pdrv
<1>1. h # None /\ h \in Nat
  BY Indices DEF None
<1>2. e \in Drives /\ instance[h].device \in Devices
  BY DEF TypeOK
<1>3. \A d \in Drives : ffHandles[d] = h <=> d = e
  BY <1>1, <1>2 DEF TableInv
<1>4. DriveOf(h) = e
  <2>1. {d \in Drives : ffHandles[d] = h} = {e}
    BY <1>2, <1>3
  <2>2. {e} \in SUBSET Nat
    BY <1>2, Indices
  <2> HIDE DEF e
  <2> QED
    BY <2>1, <2>2, FirstFacts DEF DriveOf
<1>5. e # None
  BY <1>2, Indices DEF None
<1>6. pdHandles' = [pdHandles EXCEPT ![e] = None]
  <2>1. \A d \in Drives : pdHandles[d] = h => d = e
    BY <1>1, <1>3 DEF TableInv
  <2>2. UnregisterPdrv(h)
    BY <1>1 DEF UnmountSpiflash, UnmountSdmmc
  <2> DEFINE S == {x \in Drives : pdHandles[x] = h}
  <2>3. S \in SUBSET Nat
    BY Indices
  <2>4. CASE S = {}
    <3>1. First(S) = None
      <4> HIDE DEF S
      <4> QED
        BY <2>3, <2>4, FirstFacts
    <3>2. pdHandles' = pdHandles
      BY <2>2, <3>1 DEF UnregisterPdrv
    <3>3. pdHandles[e] = None
      <4>1. ffHandles[e] = h
        BY <1>2, <1>3
      <4>2. pdHandles[e] # h
        BY <1>2, <2>4
      <4> QED
        BY <1>2, <4>1, <4>2 DEF TableInv
    <3> QED
      BY <1>2, <3>2, <3>3 DEF TypeOK
  <2>5. CASE S # {}
    <3>1. S = {e}
      BY <2>1, <2>5
    <3>2. First(S) = e
      <4> HIDE DEF S
      <4> QED
        BY <2>3, <2>5, <3>1, FirstFacts
    <3> QED
      BY <2>2, <3>2, <1>5 DEF UnregisterPdrv
  <2> QED
    BY <2>4, <2>5
<1>7. ReleaseDrive(h, e) /\ ReleaseInstance(h, path)
  BY <1>1, <1>4, <1>5 DEF UnmountSpiflash, UnmountSdmmc
<1>8. ffHandles' = [ffHandles EXCEPT ![e] = None]
  BY <1>2, <1>3, <1>7 DEF ReleaseDrive, TypeOK
<1>9. context' = [s \in Drives |-> IF context[s].path = path THEN NoContext ELSE context[s]]
  <2>1. UnregisterPath(path)
    BY <1>7 DEF ReleaseInstance
  <2>2. CASE ContextOf(path) = None
    BY <2>1, <2>2, ContextSearch DEF UnregisterPath, TypeOK
  <2>3. CASE ContextOf(path) # None
    <3>1. ContextOf(path) \in Drives /\ context[ContextOf(path)].path = path
      BY <2>3, ContextSearch
    <3>2. context[ContextOf(path)] # NoContext
      BY <3>1, NameAssumption DEF NoContext
    <3>3. \A s \in Drives : context[s].path = path => s = ContextOf(path)
      BY <3>1, <3>2 DEF TableInv
    <3> QED
      BY <2>1, <2>3, <3>1, <3>3 DEF UnregisterPath, TypeOK
  <2> QED
    BY <2>2, <2>3
<1> QED
  BY <1>6, <1>7, <1>8, <1>9 DEF Released, ReleaseDrive, ReleaseInstance

\* The volume that is released: its device, drive and context are of use to no other.
Releasable(h, m) ==
    /\ instance[h] # NoInstance
    /\ ffHandles[instance[h].pdrv] = h
    /\ device[instance[h].device] = m

LEMMA ReleaseType ==
    ASSUME TypeOK, NEW h \in Handles, NEW path \in Paths, instance[h] # NoInstance, Released(h, path)
    PROVE  /\ device' \in [Devices -> Media \cup {NoMedium}]
           /\ instance' \in [Handles -> [device : Devices, pdrv : Drives, direct : BOOLEAN] \cup {NoInstance}]
           /\ impl' \in [Drives -> BOOLEAN]
           /\ ffHandles' \in [Drives -> Handles \cup {None}]
           /\ pdHandles' \in [Drives -> Handles \cup {None}]
           /\ context' \in [Drives -> [path : Paths, pdrv : Drives] \cup {NoContext}]
           /\ fatFs' \in [Drives -> Drives \cup {None, Wild}]
BY DEF TypeOK, Released

\* Other volumes go on working.
LEMMA ReleaseKeepsVolume ==
    ASSUME TypeOK, NEW h \in Handles, NEW path \in Paths, NEW m,
           Releasable(h, m), Released(h, path),
           NEW w \in held, Works(w), w.handle # h, w.medium # m, w.path # path
    PROVE  Works(w)'
<1> DEFINE i == instance[w.handle]
           e == instance[h]
<1>1. w.handle \in Handles
  BY DEF TypeOK
<1>2. i \in [device : Devices, pdrv : Drives, direct : BOOLEAN] /\ e \in [device : Devices, pdrv : Drives, direct : BOOLEAN]
  BY <1>1 DEF TypeOK, Works, Releasable
<1>3. i.device # e.device /\ i.pdrv # e.pdrv
  BY DEF Works, Releasable
<1>4. instance'[w.handle] = i
  BY <1>1 DEF Released, TypeOK
<1>5. /\ device'[i.device] = device[i.device]
      /\ impl'[i.pdrv] = impl[i.pdrv]
      /\ ffHandles'[i.pdrv] = ffHandles[i.pdrv]
      /\ pdHandles'[i.pdrv] = pdHandles[i.pdrv]
      /\ fatFs'[i.pdrv] = fatFs[i.pdrv]
  BY <1>2, <1>3 DEF Released, TypeOK
<1>6. context'[fatFs[i.pdrv]] = context[fatFs[i.pdrv]]
  BY DEF Released, Works
<1> HIDE DEF i, e
<1> QED
  BY <1>4, <1>5, <1>6 DEF Works, i

\* The tables that lead from a drive to a journal and back still agree.
LEMMA ReleaseKeepsTables ==
    ASSUME TypeOK, TableInv, NEW h \in Handles, NEW path \in Paths, NEW m,
           Releasable(h, m), Released(h, path)
    PROVE  /\ \A d \in Drives : ffHandles'[d] # None <=> impl'[d]
           /\ \A d \in Drives : impl'[d] => instance'[ffHandles'[d]] # NoInstance /\ instance'[ffHandles'[d]].pdrv = d
           /\ \A d \in Drives : pdHandles'[d] # None => pdHandles'[d] = ffHandles'[d]
           /\ \A d \in Drives : fatFs'[d] # None => impl'[d]
           /\ \A r, s \in Drives : context'[r] # NoContext /\ context'[r].path = context'[s].path => r = s
<1> DEFINE e == instance[h].pdrv
<1>1. e \in Drives
  BY DEF TypeOK, Releasable
<1>2. \A d \in Drives : d # e => /\ ffHandles'[d] = ffHandles[d] /\ impl'[d] = impl[d]
                                /\ pdHandles'[d] = pdHandles[d] /\ fatFs'[d] = fatFs[d]
  BY DEF Released, TypeOK
<1>3. ffHandles'[e] = None /\ ~impl'[e] /\ pdHandles'[e] = None /\ fatFs'[e] = None
  BY <1>1 DEF Released, TypeOK
<1>4. \A g \in Handles : g # h => instance'[g] = instance[g]
  BY DEF Released, TypeOK
<1>5. \A s \in Drives : context'[s] # NoContext => context'[s] = context[s]
  BY DEF Released
<1>6. \A s \in Drives : context'[s] = NoContext \/ context'[s] = context[s]
  BY DEF Released
<1>7. \A s \in Drives : context[s] # NoContext => context[s].path # NoPath
  BY NameAssumption DEF TypeOK
<1>8. ffHandles[e] = h
  BY DEF Releasable
<1> HIDE DEF e
<1>9. \A d \in Drives : impl'[d] => d # e /\ impl[d] /\ ffHandles[d] # h /\ ffHandles[d] \in Handles
  BY <1>1, <1>2, <1>3, <1>8 DEF TableInv, TypeOK, Releasable, e
<1>10. \A r, s \in Drives : context'[r] # NoContext /\ context'[r].path = context'[s].path => r = s
  BY <1>5, <1>6, <1>7 DEF TableInv, NoContext
<1> QED
  BY <1>1, <1>2, <1>3, <1>4, <1>9, <1>10 DEF TableInv

-----------------------------------------------------------------------------
(* The invariant: initial states, unmounting and failed mounts *)

LEMMA NoLocalsType == NoLocals \in Locals
BY DEF NoLocals, Locals, MountConfigs

LEMMA InitInv == Init => IndInv
<1> SUFFICES ASSUME Init PROVE IndInv
  OBVIOUS
<1>1. TypeOK
  BY DEF Init, TypeOK, NoLocals
<1>2. LocType
  BY NoLocalsType DEF Init, LocType, Steps
<1>3. MountInv
  BY DEF Init, MountInv, HasDrive, HasDevice, WithInstance, WithDriver, WithContext, NoLocals
<1>4. HeldInv /\ Wired
  BY DEF Init, HeldInv, Wired
<1>5. TableInv
  BY DEF Init, TableInv, NoContext
<1>6. DeviceInv
  BY DEF Init, DeviceInv, DevicesTaken
<1> QED
  BY <1>1, <1>2, <1>3, <1>4, <1>5, <1>6 DEF IndInv

\* The task of a mount that failed, or of no mount, claims nothing.
LEMMA IdleClaims ==
    ASSUME NEW self, Tasks = {self}, LocType, pc' = [pc EXCEPT ![self] = "idle"],
           loc' = [loc EXCEPT ![self] = NoLocals]
    PROVE  /\ pc'[self] = "idle" /\ loc'[self] = NoLocals
           /\ LocType' /\ MountInv'
<1>1. pc'[self] = "idle" /\ loc'[self] = NoLocals
  BY DEF LocType
<1>2. LocType'
  BY NoLocalsType DEF LocType, Steps
<1>3. MountInv'
  BY <1>1 DEF MountInv, HasDrive, HasDevice, WithInstance, WithDriver, WithContext, NoLocals
<1> QED
  BY <1>1, <1>2, <1>3

\* Releasing the volume with journal h ends the use of its device and of no other.
LEMMA ReleaseKeepsDevices ==
    ASSUME TypeOK, DeviceInv, NEW h \in Handles, NEW path \in Paths,
           instance[h] # NoInstance, Released(h, path), orphans' = orphans,
           instance[h].device \notin orphans,
           \A t \in Tasks : ~HasDevice(t)',
           \A v \in held : v.handle # h => v \in held',
           \A v \in held' : v \in held /\ v.handle # h,
           \A t \in Tasks : HasDevice(t) => loc[t].device = instance[h].device
    PROVE  DeviceInv'
<1> DEFINE x == instance[h].device
<1>1. x \in Devices
  BY DEF TypeOK
<1>2. device'[x] = NoMedium /\ \A i \in Devices : i # x => device'[i] = device[i]
  BY <1>1 DEF Released, TypeOK
<1>3. \A v \in held : v.handle \in Handles
  BY DEF TypeOK
<1>4. \A v \in held' : instance'[v.handle] = instance[v.handle]
  BY <1>3 DEF Released, TypeOK
<1> HIDE DEF x
<1>5. ASSUME NEW i \in Devices, device'[i] # NoMedium
      PROVE  i \in DevicesHeld' \cup orphans'
  <2>1. i # x /\ device[i] # NoMedium
    BY <1>2, <1>5
  <2>2. CASE i \in orphans
    BY <2>2
  <2>3. CASE i \in DevicesHeld
    <3>1. PICK v \in held : instance[v.handle].device = i
      BY <2>3 DEF DevicesHeld
    <3>2. v \in held'
      BY <2>1, <3>1 DEF x
    <3> QED
      BY <3>1, <3>2, <1>4 DEF DevicesHeld
  <2> QED
    BY <2>1, <2>2, <2>3 DEF DeviceInv, DevicesTaken, x
<1>6. ASSUME NEW i \in orphans
      PROVE  device'[i] \notin Cards \cup {NoMedium} /\ i \notin DevicesHeld'
  <2>1. device'[i] = device[i] /\ device[i] \notin Cards \cup {NoMedium} /\ i \notin DevicesHeld
    BY <1>2 DEF DeviceInv, TypeOK, x
  <2>2. DevicesHeld' \subseteq DevicesHeld
    BY <1>4 DEF DevicesHeld
  <2> QED
    BY <2>1, <2>2
<1> QED
  BY <1>5, <1>6 DEF DeviceInv, DevicesTaken

\* A step that leaves the devices, and what each volume and mount uses of them, alone.
LEMMA SameDevices ==
    ASSUME DeviceInv, UNCHANGED <<device, orphans, held>>,
           \A v \in held : instance'[v.handle].device = instance[v.handle].device,
           \A t \in Tasks : (HasDevice(t)' <=> HasDevice(t)) /\ loc'[t].device = loc[t].device
    PROVE  DeviceInv'
<1>1. DevicesTaken' = DevicesTaken /\ DevicesHeld' = DevicesHeld
  BY DEF DevicesTaken, DevicesHeld
<1> QED
  BY <1>1 DEF DeviceInv

LEMMA UnmountInv ==
    ASSUME NEW self, Tasks = {self}, IndInv, NEW v \in held, Unmount(self, v)
    PROVE  IndInv'
<1> USE DEF IndInv
<1>1. v.handle \in Handles /\ v.path \in Paths /\ Works(v)
  BY DEF TypeOK, Wired
<1>2. Releasable(v.handle, v.medium)
  BY <1>1 DEF Works, Releasable
<1>3. Released(v.handle, v.path)
  BY <1>1, UnmountReleases DEF Unmount, Works
<1>4. pc[self] = "idle" /\ pc' = pc /\ loc' = loc /\ held' = held \ {v} /\ formatted' = formatted /\ orphans' = orphans
  BY DEF Unmount
<1>5. LocType'
  BY <1>4 DEF LocType
<1>6. HeldInv'
  BY <1>4 DEF HeldInv
<1>7. Wired'
  <2> SUFFICES ASSUME NEW w \in held, w # v PROVE Works(w)'
    BY <1>4 DEF Wired
  <2>1. w.handle # v.handle /\ w.medium # v.medium /\ w.path # v.path
    BY DEF HeldInv
  <2> QED
    BY <2>1, <1>1, <1>2, <1>3, ReleaseKeepsVolume DEF Wired
<1>8. TypeOK'
  <2>1. \A t \in Tasks : loc'[t].handle \in Handles \cup {None} /\ loc'[t].pdrv \in Drives \cup {None}
    BY <1>4 DEF TypeOK
  <2> QED
    BY <2>1, <1>1, <1>3, <1>4, ReleaseType DEF TypeOK, Works
<1>9. MountInv'
  BY <1>4 DEF MountInv, HasDrive, HasDevice, WithInstance, WithDriver, WithContext
<1>10. TableInv'
  <2>1. ASSUME NEW h \in Handles, instance'[h] # NoInstance
        PROVE  \E w \in held' : w.handle = h
    <3>1. h # v.handle /\ instance[h] # NoInstance
      BY <1>1, <2>1, <1>3 DEF Released, TypeOK
    <3>2. \E w \in held : w.handle = h
      BY <3>1, <1>4 DEF TableInv, WithInstance, WithDriver, WithContext
    <3> QED
      BY <3>1, <3>2, <1>4
  <2>2. ASSUME NEW s \in Drives, context'[s] # NoContext
        PROVE  \E w \in held' : w.path = context'[s].path
    <3>1. context'[s] = context[s] /\ context[s].path # v.path
      BY <2>2, <1>3 DEF Released
    <3>2. \E w \in held : w.path = context[s].path
      BY <2>2, <3>1, <1>4 DEF TableInv, WithContext
    <3> QED
      BY <3>1, <3>2, <1>4
  <2> QED
    BY <2>1, <2>2, <1>1, <1>2, <1>3, ReleaseKeepsTables DEF TableInv
<1>11. DeviceInv'
  <2>1. instance[v.handle].device \in DevicesHeld
    BY DEF DevicesHeld
  <2>2. instance[v.handle].device \notin orphans
    BY <2>1 DEF DeviceInv
  <2>3. ~HasDevice(self) /\ ~HasDevice(self)'
    BY <1>4 DEF HasDevice, WithInstance, WithDriver, WithContext
  <2>4. \A w \in held' : w \in held /\ w.handle # v.handle
    BY <1>4 DEF HeldInv
  <2> QED
    BY <2>2, <2>3, <2>4, <1>1, <1>2, <1>3, <1>4, ReleaseKeepsDevices DEF Releasable
<1> QED
  BY <1>5, <1>6, <1>7, <1>8, <1>9, <1>10, <1>11

\* A mount that fails once it has a disk driver gives back what it has, and only that.
LEMMA UndoDriverInv ==
    ASSUME NEW self, Tasks = {self}, IndInv, NEW e, pc[self] \in WithDriver,
           UndoMount(self, e), formatted' \subseteq Media
    PROVE  IndInv'
<1> USE DEF IndInv
<1> DEFINE h == loc[self].handle
           path == loc[self].path
           m == loc[self].medium
<1>1. /\ h \in Handles /\ path \in Paths
      /\ \A v \in held : v.medium # m /\ v.path # path
      /\ instance[h] = [device |-> loc[self].device, pdrv |-> loc[self].pdrv, direct |-> loc[self].cfg.fresh]
      /\ loc[self].device \in Devices /\ loc[self].pdrv \in Drives
      /\ device[loc[self].device] = m
      /\ ffHandles[loc[self].pdrv] = h
  BY DEF MountInv, HasDrive, HasDevice, WithInstance, WithDriver, WithContext
<1>2. instance[h] # NoInstance /\ instance[h].pdrv = loc[self].pdrv /\ instance[h].device = loc[self].device
  <2>1. None \notin Devices
    BY Indices DEF None
  <2> QED
    BY <1>1, <2>1 DEF NoInstance
<1> HIDE DEF h, path, m
<1>3. Releasable(h, m)
  BY <1>1, <1>2 DEF Releasable
<1>4. Released(h, path)
  BY <1>1, <1>2, UnmountReleases DEF UndoMount, h, path
<1>5. /\ pc' = [pc EXCEPT ![self] = "idle"] /\ loc' = [loc EXCEPT ![self] = NoLocals] /\ held' = held
      /\ orphans' = orphans
  <2>1. loc[self].handle # None
    BY <1>1, Indices DEF h, None
  <2> QED
    BY <2>1 DEF UndoMount, Abandoned, Return, Goto
<1>6. pc'[self] = "idle" /\ loc'[self] = NoLocals /\ LocType' /\ MountInv'
  BY <1>5, IdleClaims
<1>7. HeldInv'
  BY <1>5 DEF HeldInv
<1>8. \A v \in held : v.handle # h
  <2> SUFFICES ASSUME NEW v \in held, v.handle = h PROVE FALSE
    OBVIOUS
  <2>1. device[instance[h].device] = v.medium
    BY DEF Wired, Works
  <2> QED
    BY <2>1, <1>1, <1>2
<1>9. Wired'
  BY <1>1, <1>3, <1>4, <1>5, <1>8, ReleaseKeepsVolume DEF Wired
<1>10. TypeOK'
  <2>1. \A t \in Tasks : loc'[t].handle \in Handles \cup {None} /\ loc'[t].pdrv \in Drives \cup {None}
    BY <1>6 DEF NoLocals
  <2> QED
    BY <2>1, <1>1, <1>2, <1>4, <1>5, ReleaseType DEF TypeOK
<1>11. TableInv'
  <2>1. ASSUME NEW g \in Handles, instance'[g] # NoInstance
        PROVE  \E w \in held' : w.handle = g
    <3>1. g # h /\ instance[g] # NoInstance
      BY <2>1, <1>1, <1>4 DEF Released, TypeOK
    <3>2. \E w \in held : w.handle = g
      BY <3>1 DEF TableInv, h
    <3> QED
      BY <3>2, <1>5
  <2>2. ASSUME NEW s \in Drives, context'[s] # NoContext
        PROVE  \E w \in held' : w.path = context'[s].path
    <3>1. context'[s] = context[s] /\ context[s].path # path
      BY <2>2, <1>4 DEF Released
    <3>2. \E w \in held : w.path = context[s].path
      BY <2>2, <3>1 DEF TableInv, path
    <3> QED
      BY <3>1, <3>2, <1>5
  <2> QED
    BY <2>1, <2>2, <1>1, <1>3, <1>4, ReleaseKeepsTables DEF TableInv
<1>12. DeviceInv'
  <2>1. HasDevice(self)
    BY DEF HasDevice, WithInstance
  <2>2. instance[h].device \notin orphans
    BY <1>2, <2>1 DEF DeviceInv
  <2>3. ~HasDevice(self)'
    BY <1>6 DEF HasDevice, WithInstance, WithDriver, WithContext
  <2> QED
    BY <2>2, <2>3, <1>1, <1>2, <1>4, <1>5, <1>8, ReleaseKeepsDevices
<1> QED
  BY <1>6, <1>7, <1>9, <1>10, <1>11, <1>12

\* One that fails before it has a journal instance has at most a device to give back;
\* esp_vfs_fat_spiflash_unmount_jrnl does not even do that.
LEMMA UndoEarlyInv ==
    ASSUME NEW self, Tasks = {self}, IndInv, NEW e, pc[self] \in {"drive", "device", "jrnl"},
           UndoMount(self, e), formatted' \subseteq Media
    PROVE  IndInv'
<1> USE DEF IndInv
<1>1. loc[self].handle = None
  BY DEF MountInv, WithInstance, WithDriver, WithContext
<1>2. /\ instance' = instance /\ impl' = impl /\ ffHandles' = ffHandles /\ pdHandles' = pdHandles
      /\ context' = context /\ fatFs' = fatFs
      /\ device' = device \/ (loc[self].device # None /\ device' = [device EXCEPT ![loc[self].device] = NoMedium])
  BY <1>1 DEF UndoMount, UnmountSdmmc, UnmountSpiflash, tables
<1>3. /\ pc' = [pc EXCEPT ![self] = "idle"] /\ loc' = [loc EXCEPT ![self] = NoLocals] /\ held' = held
  BY DEF UndoMount, Return, Goto
<1>4. pc'[self] = "idle" /\ loc'[self] = NoLocals /\ LocType' /\ MountInv'
  BY <1>3, IdleClaims
<1>5. loc[self].device # None => /\ loc[self].device \in Devices
                                 /\ device[loc[self].device] = loc[self].medium
  BY DEF MountInv
<1>6. \A v \in held : v.medium # loc[self].medium
  BY DEF MountInv
<1>7. Wired'
  <2> SUFFICES ASSUME NEW v \in held PROVE Works(v)'
    BY <1>3 DEF Wired
  <2>1. Works(v) /\ v.handle \in Handles
    BY DEF Wired, TypeOK
  <2>2. device'[instance[v.handle].device] = device[instance[v.handle].device]
    BY <1>2, <1>5, <1>6, <2>1 DEF Works, TypeOK
  <2> QED
    BY <1>2, <2>1, <2>2 DEF Works
<1>8. TypeOK'
  <2>1. device' \in [Devices -> Media \cup {NoMedium}]
    BY <1>2, <1>5 DEF TypeOK
  <2>2. \A t \in Tasks : loc'[t].handle \in Handles \cup {None} /\ loc'[t].pdrv \in Drives \cup {None}
    BY <1>4 DEF NoLocals
  <2> QED
    BY <2>1, <2>2, <1>2, <1>3, <1>5 DEF TypeOK, UndoMount, Abandoned
<1>9. TableInv'
  <2>1. pc[self] \notin WithInstance /\ pc[self] \notin WithContext
    BY DEF WithInstance, WithDriver, WithContext
  <2> QED
    BY <2>1, <1>2, <1>3 DEF TableInv
<1>10. HeldInv'
  BY <1>3 DEF HeldInv
<1>11. DeviceInv'
  <2> DEFINE x == loc[self].device
  <2>1. HasDevice(self) <=> x # None
    BY Indices DEF MountInv, None
  <2>2. ~HasDevice(self)'
    BY <1>4 DEF HasDevice, WithInstance, WithDriver, WithContext
  <2>3. DevicesHeld' = DevicesHeld
    BY <1>2, <1>3 DEF DevicesHeld
  <2>4. CASE x = None
    <3>1. device' = device /\ orphans' = orphans
      BY <2>4, <1>1, <1>2 DEF UndoMount, Abandoned
    <3> QED
      BY <3>1, <2>1, <2>2, <2>3, <2>4 DEF DeviceInv, DevicesTaken
  <2>5. CASE x # None /\ loc[self].medium \in Cards
    <3>1. device' = [device EXCEPT ![x] = NoMedium] /\ orphans' = orphans
      BY <2>5, <1>1 DEF UndoMount, Abandoned, UnmountSdmmc
    <3>2. device'[x] = NoMedium /\ \A i \in Devices : i # x => device'[i] = device[i]
      BY <3>1, <1>5, <2>5 DEF TypeOK
    <3>3. x \notin orphans /\ orphans \subseteq Devices
      BY <2>1, <2>5 DEF DeviceInv, TypeOK
    <3> HIDE DEF x
    <3>4. \A i \in DevicesTaken' : i \in DevicesHeld \cup orphans
      BY <3>2 DEF DeviceInv, DevicesTaken, x
    <3> QED
      BY <3>1, <3>2, <3>3, <3>4, <2>2, <2>3 DEF DeviceInv
  <2>6. CASE x # None /\ loc[self].medium \notin Cards
    <3>1. device' = device /\ orphans' = orphans \cup {x}
      BY <2>6, <1>1 DEF UndoMount, Abandoned, UnmountSpiflash, tables
    <3>2. DevicesTaken' = DevicesTaken
      BY <3>1 DEF DevicesTaken
    <3>3. device[x] = loc[self].medium /\ loc[self].medium # NoMedium
      BY <1>5, <2>6, NameAssumption DEF MountInv
    <3>4. x \notin DevicesHeld
      <4>1. \A v \in held : device[instance[v.handle].device] = v.medium
        BY DEF Wired, Works
      <4> QED
        BY <4>1, <1>6, <3>3 DEF DevicesHeld
    <3> HIDE DEF x
    <3>5. \A i \in DevicesTaken' : i \in DevicesHeld \cup orphans \cup {x}
      BY <3>2 DEF DeviceInv, x
    <3>6. \A i \in orphans \cup {x} : device[i] \notin Cards \cup {NoMedium} /\ i \notin DevicesHeld
      BY <3>3, <3>4, <2>6 DEF DeviceInv
    <3> QED
      BY <3>1, <3>5, <3>6, <2>2, <2>3 DEF DeviceInv
  <2> QED
    BY <2>4, <2>5, <2>6
<1> QED
  BY <1>4, <1>7, <1>8, <1>9, <1>10, <1>11

\* So a mount may fail at any step at which it can.
LEMMA UndoInv ==
    ASSUME NEW self, Tasks = {self}, IndInv, NEW e, pc[self] \notin {"idle", "diskio"},
           UndoMount(self, e), formatted' \subseteq Media
    PROVE  IndInv'
<1>1. pc[self] \in WithDriver \/ pc[self] \in {"drive", "device", "jrnl"}
  BY DEF IndInv, LocType, Steps, WithInstance
<1> QED
  BY <1>1, UndoDriverInv, UndoEarlyInv

-----------------------------------------------------------------------------
(* The steps of a mount *)

\* The steps that have reached a stage, written out.
LEMMA Stages ==
    /\ WithContext = {"pdrv", "mkfs", "fmount", "ready", "fail"}
    /\ WithDriver = {"vfs", "pdrv", "mkfs", "fmount", "ready", "fail"}
    /\ WithInstance = {"diskio", "vfs", "pdrv", "mkfs", "fmount", "ready", "fail"}
    /\ Steps = {"idle", "drive", "device", "jrnl", "diskio", "vfs", "pdrv", "mkfs", "fmount", "ready", "fail"}
BY DEF WithContext, WithDriver, WithInstance, Steps

\* A mount that holds a handle holds no handle of the application's.
LEMMA OwnHandle ==
    ASSUME NEW self, Tasks = {self}, IndInv, pc[self] \in WithInstance, NEW v \in held
    PROVE  v.handle # loc[self].handle
<1> SUFFICES ASSUME v.handle = loc[self].handle PROVE FALSE
  OBVIOUS
<1>1. /\ instance[loc[self].handle].device = loc[self].device
      /\ device[loc[self].device] = loc[self].medium
      /\ v.medium # loc[self].medium
  BY Stages DEF IndInv, MountInv, HasDevice
<1>2. device[instance[v.handle].device] = v.medium
  BY DEF IndInv, Wired, Works
<1> QED
  BY <1>1, <1>2

LEMMA MountCallInv ==
    ASSUME NEW self, Tasks = {self}, ~ReusePaths, IndInv,
           NEW m \in Media, NEW path \in Paths, NEW c \in MountConfigs, MountCall(self, m, path, c)
    PROVE  IndInv'
<1> USE Stages DEF IndInv
<1> DEFINE l == [NoLocals EXCEPT !.medium = m, !.path = path, !.cfg = c]
<1>1. /\ l \in Locals /\ l.medium = m /\ l.path = path
      /\ l.pdrv = None /\ l.device = None /\ l.handle = None
  BY NoLocalsType DEF NoLocals, Locals
<1>2. pc'[self] \in {"device", "drive"} /\ loc'[self] = l /\ (pc'[self] = "device" <=> m \in Cards)
  BY DEF MountCall, Goto, LocType
<1>3. LocType'
  BY <1>1 DEF MountCall, Goto, LocType, Locals
<1>4. \A v \in held : v.medium # m /\ v.path # path
  BY DEF MountCall, MediaInUse, PathsInUse
<1>5. /\ UNCHANGED <<device, instance, impl, ffHandles, pdHandles, context, fatFs>>
      /\ UNCHANGED <<formatted, held, orphans>> /\ pc[self] = "idle"
  BY DEF MountCall, tables
<1> HIDE DEF l
<1>6. MountInv'
  BY <1>1, <1>2, <1>4, <1>5 DEF MountInv, HasDrive, HasDevice
<1>7. TypeOK'
  BY <1>1, <1>2, <1>5 DEF TypeOK
<1>8. TableInv'
  BY <1>2, <1>5 DEF TableInv
<1>9. HeldInv' /\ Wired'
  BY <1>5 DEF HeldInv, Wired, Works
<1>10. DeviceInv'
  <2>1. ~HasDevice(self) /\ loc[self].device = None
    BY <1>5 DEF MountInv, HasDevice
  <2>2. ~HasDevice(self)' /\ loc'[self].device = None
    BY <1>1, <1>2 DEF HasDevice
  <2> QED
    BY <2>1, <2>2, <1>5, SameDevices
<1> QED
  BY <1>3, <1>6, <1>7, <1>8, <1>9, <1>10

LEMMA GetDriveInv ==
    ASSUME NEW self, Tasks = {self}, IndInv, GetDrive(self)
    PROVE  IndInv'
<1> USE Stages DEF IndInv
<1>1. CASE FreeDrive = None
  BY <1>1, UndoInv DEF GetDrive, FailMount, TypeOK
<1>2. CASE FreeDrive # None
  <2>1. FreeDrive \in Drives /\ ~impl[FreeDrive]
    BY <1>2, Searches
  <2>2. /\ UNCHANGED <<device, instance, impl, ffHandles, pdHandles, context, fatFs>>
        /\ UNCHANGED <<formatted, held, orphans>> /\ pc[self] = "drive"
        /\ loc' = [loc EXCEPT ![self].pdrv = FreeDrive]
        /\ pc' = [pc EXCEPT ![self] = IF loc[self].medium \in Cards THEN "jrnl" ELSE "device"]
    BY <1>2 DEF GetDrive, Goto, tables
  <2>3. loc[self] \in Locals
    BY DEF LocType
  <2>4. /\ loc'[self] = [loc[self] EXCEPT !.pdrv = FreeDrive]
        /\ pc'[self] = IF loc[self].medium \in Cards THEN "jrnl" ELSE "device"
    BY <2>2 DEF LocType
  <2>5. LocType'
    BY <2>1, <2>2, <2>3 DEF LocType, Locals
  <2>6. /\ loc'[self].pdrv = FreeDrive /\ loc'[self].medium = loc[self].medium /\ loc'[self].path = loc[self].path
        /\ loc'[self].device = loc[self].device /\ loc'[self].handle = loc[self].handle
    BY <2>3, <2>4 DEF Locals
  <2>7. MountInv'
    BY <2>1, <2>2, <2>4, <2>6 DEF MountInv, HasDrive, HasDevice
  <2>8. TypeOK'
    BY <2>1, <2>2, <2>6 DEF TypeOK
  <2>9. TableInv'
    BY <2>2, <2>4 DEF TableInv
  <2>10. HeldInv' /\ Wired'
    BY <2>2 DEF HeldInv, Wired, Works
  <2>11. DeviceInv'
    <3>1. HasDevice(self)' <=> HasDevice(self)
      BY <2>2, <2>4, <2>6 DEF HasDevice
    <3> QED
      BY <3>1, <2>2, <2>6, SameDevices
  <2> QED
    BY <2>5, <2>7, <2>8, <2>9, <2>10, <2>11
<1> QED
  BY <1>1, <1>2

LEMMA GetDeviceInv ==
    ASSUME NEW self, Tasks = {self}, IndInv, GetDevice(self)
    PROVE  IndInv'
<1> USE Stages DEF IndInv
<1>1. CASE FreeDevice = None
  BY <1>1, UndoInv DEF GetDevice, FailMount, TypeOK
<1>2. CASE FreeDevice # None
  <2>1. FreeDevice \in Devices /\ device[FreeDevice] = NoMedium
    BY <1>2, Searches
  <2>2. /\ UNCHANGED <<instance, impl, ffHandles, pdHandles, context, fatFs>>
        /\ UNCHANGED <<formatted, held, orphans>> /\ pc[self] = "device"
        /\ device' = [device EXCEPT ![FreeDevice] = loc[self].medium]
        /\ loc' = [loc EXCEPT ![self].device = FreeDevice]
        /\ pc' = [pc EXCEPT ![self] = IF loc[self].medium \in Cards THEN "drive" ELSE "jrnl"]
    BY <1>2 DEF GetDevice, Goto
  <2>3. loc[self] \in Locals /\ loc[self].medium \in Media
    BY <2>2 DEF LocType, MountInv
  <2>4. /\ loc'[self] = [loc[self] EXCEPT !.device = FreeDevice]
        /\ pc'[self] = IF loc[self].medium \in Cards THEN "drive" ELSE "jrnl"
        /\ device'[FreeDevice] = loc[self].medium
    BY <2>1, <2>2 DEF LocType, TypeOK
  <2>5. LocType'
    BY <2>1, <2>2, <2>3 DEF LocType, Locals
  <2>6. /\ loc'[self].device = FreeDevice /\ loc'[self].medium = loc[self].medium /\ loc'[self].path = loc[self].path
        /\ loc'[self].pdrv = loc[self].pdrv /\ loc'[self].handle = loc[self].handle
    BY <2>3, <2>4 DEF Locals
  <2>7. MountInv'
    BY <2>1, <2>2, <2>4, <2>6 DEF MountInv, HasDrive, HasDevice
  <2>8. TypeOK'
    BY <2>1, <2>2, <2>3, <2>6 DEF TypeOK
  <2>9. TableInv'
    BY <2>2, <2>4 DEF TableInv
  <2>10. Wired'
    <3> SUFFICES ASSUME NEW v \in held PROVE Works(v)'
      BY <2>2 DEF Wired
    <3>1. Works(v) /\ v.medium # NoMedium
      BY NameAssumption DEF Wired, TypeOK
    <3>2. device'[instance[v.handle].device] = device[instance[v.handle].device]
      BY <2>1, <2>2, <3>1 DEF Works, TypeOK
    <3> QED
      BY <2>2, <3>1, <3>2 DEF Works
  <2>11. HeldInv'
    BY <2>2 DEF HeldInv
  <2>12. DeviceInv'
    <3>1. HasDevice(self)' /\ ~HasDevice(self)
      BY <2>2, <2>4, <2>6 DEF HasDevice
    <3>2. \A i \in Devices : i # FreeDevice => device'[i] = device[i]
      BY <2>2 DEF TypeOK
    <3>3. DevicesHeld' = DevicesHeld
      BY <2>2 DEF DevicesHeld
    <3>4. FreeDevice \notin orphans /\ orphans \subseteq Devices
      BY <2>1 DEF DeviceInv, TypeOK
    <3>5. ASSUME NEW i \in DevicesTaken'
          PROVE  i \in DevicesHeld' \cup orphans' \/ \E t \in Tasks : HasDevice(t)' /\ loc'[t].device = i
      BY <3>1, <3>2, <3>3, <3>5, <2>2, <2>6 DEF DeviceInv, DevicesTaken
    <3>6. ASSUME NEW i \in orphans'
          PROVE  /\ device'[i] \notin Cards \cup {NoMedium} /\ i \notin DevicesHeld'
                 /\ \A t \in Tasks : HasDevice(t)' => loc'[t].device # i
      BY <3>2, <3>3, <3>4, <3>6, <2>2, <2>6 DEF DeviceInv
    <3> QED
      BY <3>5, <3>6 DEF DeviceInv
  <2> QED
    BY <2>5, <2>7, <2>8, <2>9, <2>10, <2>11, <2>12
<1> QED
  BY <1>1, <1>2

LEMMA JrnlMountInv ==
    ASSUME NEW self, Tasks = {self}, IndInv, JrnlMount(self)
    PROVE  IndInv'
<1> USE Stages DEF IndInv
<1>1. CASE FreeHandle = None
  BY <1>1, UndoInv DEF JrnlMount, FailMount, TypeOK
<1>2. CASE FreeHandle # None
  <2> DEFINE i == [device |-> loc[self].device, pdrv |-> loc[self].pdrv, direct |-> loc[self].cfg.fresh]
  <2>1. FreeHandle \in Handles /\ instance[FreeHandle] = NoInstance
    BY <1>2, Searches
  <2>2. /\ UNCHANGED <<device, impl, ffHandles, pdHandles, context, fatFs>>
        /\ UNCHANGED <<formatted, held, orphans>> /\ pc[self] = "jrnl"
        /\ instance' = [instance EXCEPT ![FreeHandle] = i]
        /\ loc' = [loc EXCEPT ![self].handle = FreeHandle]
        /\ pc' = [pc EXCEPT ![self] = "diskio"]
    BY <1>2 DEF JrnlMount, Goto
  <2>3. loc[self] \in Locals /\ loc[self].device \in Devices /\ loc[self].pdrv \in Drives
    BY <2>2 DEF LocType, MountInv, HasDrive, HasDevice
  <2>4. loc[self].cfg.fresh \in BOOLEAN
    BY <2>3 DEF Locals, MountConfigs
  <2>5. i \in [device : Devices, pdrv : Drives, direct : BOOLEAN] /\ i # NoInstance
    <3>1. None \notin Devices
      BY Indices DEF None
    <3> QED
      BY <2>3, <2>4, <3>1 DEF NoInstance
  <2> HIDE DEF i
  <2>6. /\ loc'[self] = [loc[self] EXCEPT !.handle = FreeHandle]
        /\ pc'[self] = "diskio"
        /\ instance'[FreeHandle] = i
        /\ \A h \in Handles : h # FreeHandle => instance'[h] = instance[h]
    BY <2>1, <2>2 DEF LocType, TypeOK
  <2>7. LocType'
    BY <2>1, <2>2, <2>3 DEF LocType, Locals
  <2>8. /\ loc'[self].device = loc[self].device /\ loc'[self].medium = loc[self].medium /\ loc'[self].path = loc[self].path
        /\ loc'[self].pdrv = loc[self].pdrv /\ loc'[self].handle = FreeHandle /\ loc'[self].cfg = loc[self].cfg
    BY <2>3, <2>6 DEF Locals
  <2>9. MountInv'
    BY <2>1, <2>2, <2>6, <2>8 DEF MountInv, HasDrive, HasDevice, i
  <2>10. TypeOK'
    BY <2>1, <2>2, <2>5, <2>8 DEF TypeOK
  <2>11. \A v \in held : v.handle \in Handles /\ v.handle # FreeHandle
    BY <2>1 DEF TypeOK, Wired, Works
  <2>12. \A d \in Drives : impl[d] => ffHandles[d] \in Handles /\ ffHandles[d] # FreeHandle
    BY <2>1 DEF TypeOK, TableInv
  <2>13. TableInv'
    <3>1. ASSUME NEW h \in Handles, instance'[h] # NoInstance
          PROVE  \/ \E v \in held' : v.handle = h
                 \/ \E t \in Tasks : pc'[t] \in WithInstance /\ loc'[t].handle = h
      BY <3>1, <2>2, <2>6, <2>8 DEF TableInv
    <3> QED
      BY <3>1, <2>2, <2>6, <2>12 DEF TableInv
  <2>14. Wired'
    BY <2>2, <2>6, <2>11 DEF Wired, Works
  <2>15. HeldInv'
    BY <2>2 DEF HeldInv
  <2>16. DeviceInv'
    <3>1. HasDevice(self)' /\ HasDevice(self)
      BY <2>2, <2>6 DEF HasDevice
    <3> QED
      BY <3>1, <2>2, <2>6, <2>8, <2>11, SameDevices
  <2> QED
    BY <2>7, <2>9, <2>10, <2>13, <2>14, <2>15, <2>16
<1> QED
  BY <1>1, <1>2

LEMMA DiskioRegisterInv ==
    ASSUME NEW self, Tasks = {self}, IndInv, DiskioRegister(self)
    PROVE  IndInv'
<1> USE Stages DEF IndInv
<1> DEFINE d == loc[self].pdrv
           h == loc[self].handle
<1>1. /\ UNCHANGED <<device, instance, pdHandles, context, fatFs>>
      /\ UNCHANGED <<formatted, held, orphans, loc>> /\ pc[self] = "diskio"
      /\ impl' = [impl EXCEPT ![d] = TRUE]
      /\ ffHandles' = [ffHandles EXCEPT ![d] = h]
      /\ pc' = [pc EXCEPT ![self] = "vfs"]
  BY DEF DiskioRegister, Goto
<1>2. d \in Drives /\ ~impl[d] /\ h \in Handles /\ instance[h] # NoInstance /\ instance[h].pdrv = d /\ h # None
  <2>1. None \notin Devices /\ None \notin Handles
    BY Indices DEF None
  <2> QED
    BY <1>1, <2>1 DEF MountInv, HasDrive, HasDevice, NoInstance
<1> HIDE DEF d, h
<1>3. /\ pc'[self] = "vfs" /\ impl'[d] /\ ffHandles'[d] = h
      /\ \A x \in Drives : x # d => impl'[x] = impl[x] /\ ffHandles'[x] = ffHandles[x]
  BY <1>1, <1>2 DEF LocType, TypeOK
<1>4. LocType'
  BY <1>1 DEF LocType
<1>5. pdHandles[d] = None /\ fatFs[d] = None
  BY <1>2 DEF TableInv
<1>6. MountInv'
  BY <1>1, <1>2, <1>3, <1>5 DEF MountInv, HasDrive, HasDevice, d, h
<1>7. TypeOK'
  BY <1>1, <1>2 DEF TypeOK
<1>8. TableInv'
  BY <1>1, <1>2, <1>3, <1>5 DEF TableInv
<1>9. Wired'
  <2> SUFFICES ASSUME NEW v \in held PROVE Works(v)'
    BY <1>1 DEF Wired
  <2>1. Works(v) /\ instance[v.handle].pdrv \in Drives /\ instance[v.handle].pdrv # d
    BY <1>2 DEF Wired, Works, TypeOK
  <2> QED
    BY <1>1, <1>3, <2>1 DEF Works
<1>10. HeldInv'
  BY <1>1 DEF HeldInv
<1>11. DeviceInv'
  <2>1. HasDevice(self)' /\ HasDevice(self)
    BY <1>1, <1>3 DEF HasDevice
  <2> QED
    BY <2>1, <1>1, SameDevices
<1> QED
  BY <1>4, <1>6, <1>7, <1>8, <1>9, <1>10, <1>11

LEMMA VfsRegisterInv ==
    ASSUME NEW self, Tasks = {self}, IndInv, VfsRegister(self)
    PROVE  IndInv'
<1> USE Stages DEF IndInv
<1> DEFINE path == loc[self].path
           x == [path |-> path, pdrv |-> 0]
<1>0. pc[self] = "vfs" /\ path \in Paths /\ \A v \in held : v.path # path
  BY DEF VfsRegister, MountInv
<1>1. \A s \in Drives : context[s].path # path
  <2> SUFFICES ASSUME NEW s \in Drives, context[s].path = path PROVE FALSE
    OBVIOUS
  <2>1. context[s] # NoContext
    BY <1>0, NameAssumption DEF NoContext
  <2> QED
    BY <1>0, <2>1 DEF TableInv
<1>2. ContextOf(path) = None
  BY <1>1, ContextSearch
<1>3. CASE FreeContext = None
  BY <1>0, <1>2, <1>3, UndoInv DEF VfsRegister, FailMount, TypeOK
<1>4. CASE FreeContext # None
  <2>1. FreeContext \in Drives /\ context[FreeContext] = NoContext
    BY <1>4, Searches
  <2>2. /\ UNCHANGED <<device, instance, impl, ffHandles, pdHandles, fatFs>>
        /\ UNCHANGED <<formatted, held, orphans>>
        /\ context' = [context EXCEPT ![FreeContext] = x]
        /\ loc' = [loc EXCEPT ![self].fs = FreeContext]
        /\ pc' = [pc EXCEPT ![self] = "pdrv"]
    BY <1>2, <1>4 DEF VfsRegister, Goto
  <2>3. loc[self] \in Locals
    BY DEF LocType
  <2>4. x \in [path : Paths, pdrv : Drives] /\ x.path = path /\ x # NoContext
    BY <1>0, Indices, NameAssumption DEF NoContext
  <2> HIDE DEF x
  <2>5. /\ loc'[self] = [loc[self] EXCEPT !.fs = FreeContext]
        /\ pc'[self] = "pdrv"
        /\ context'[FreeContext] = x
        /\ \A s \in Drives : s # FreeContext => context'[s] = context[s]
    BY <2>1, <2>2 DEF LocType, TypeOK
  <2>6. LocType'
    BY <2>1, <2>2, <2>3 DEF LocType, Locals
  <2>7. /\ loc'[self].device = loc[self].device /\ loc'[self].medium = loc[self].medium /\ loc'[self].path = loc[self].path
        /\ loc'[self].pdrv = loc[self].pdrv /\ loc'[self].handle = loc[self].handle /\ loc'[self].cfg = loc[self].cfg
        /\ loc'[self].fs = FreeContext
    BY <2>3, <2>5 DEF Locals
  <2>8. MountInv'
    BY <1>0, <2>1, <2>2, <2>4, <2>5, <2>7 DEF MountInv, HasDrive, HasDevice
  <2>9. TypeOK'
    BY <2>1, <2>2, <2>4, <2>7 DEF TypeOK
  <2>10. TableInv'
    <3>1. ASSUME NEW s \in Drives, context'[s] # NoContext
          PROVE  \/ \E v \in held' : v.path = context'[s].path
                 \/ \E t \in Tasks : pc'[t] \in WithContext /\ loc'[t].path = context'[s].path
      BY <3>1, <1>0, <2>2, <2>4, <2>5, <2>7 DEF TableInv
    <3>2. ASSUME NEW r \in Drives, NEW s \in Drives, context'[r] # NoContext, context'[r].path = context'[s].path
          PROVE  r = s
      BY <3>2, <1>1, <2>4, <2>5 DEF TableInv
    <3>3. ASSUME NEW h \in Handles, instance'[h] # NoInstance
          PROVE  \/ \E v \in held' : v.handle = h
                 \/ \E t \in Tasks : pc'[t] \in WithInstance /\ loc'[t].handle = h
      BY <3>3, <1>0, <2>2, <2>5, <2>7 DEF TableInv
    <3> QED
      BY <3>1, <3>2, <3>3, <2>2 DEF TableInv
  <2>11. Wired'
    <3> SUFFICES ASSUME NEW v \in held PROVE Works(v)'
      BY <2>2 DEF Wired
    <3>1. Works(v) /\ v.path \in Paths
      BY DEF Wired, TypeOK
    <3>2. fatFs[instance[v.handle].pdrv] # FreeContext
      BY <2>1, <3>1, NameAssumption DEF Works, NoContext
    <3>3. context'[fatFs[instance[v.handle].pdrv]] = context[fatFs[instance[v.handle].pdrv]]
      BY <3>1, <3>2, <2>5 DEF Works
    <3> QED
      BY <3>1, <3>3, <2>2 DEF Works
  <2>12. HeldInv'
    BY <2>2 DEF HeldInv
  <2>13. DeviceInv'
    <3>1. HasDevice(self)' /\ HasDevice(self)
      BY <1>0, <2>5 DEF HasDevice
    <3> QED
      BY <3>1, <2>2, <2>7, SameDevices
  <2> QED
    BY <2>6, <2>8, <2>9, <2>10, <2>11, <2>12, <2>13
<1> QED
  BY <1>3, <1>4

LEMMA PdrvRegisterInv ==
    ASSUME NEW self, Tasks = {self}, IndInv, PdrvRegister(self)
    PROVE  IndInv'
<1> USE Stages DEF IndInv
<1> DEFINE d == loc[self].pdrv
           h == loc[self].handle
<1>0. /\ pc[self] = "pdrv" /\ d \in Drives /\ h \in Handles /\ h # None
      /\ impl[d] /\ ffHandles[d] = h
  <2>1. None \notin Handles
    BY Indices DEF None
  <2> QED
    BY <2>1 DEF PdrvRegister, MountInv, HasDrive
<1>1. CASE pdHandles[d] # None
  BY <1>0, <1>1, UndoInv DEF PdrvRegister, FailMount, TypeOK
<1>2. CASE pdHandles[d] = None
  <2>1. /\ UNCHANGED <<device, instance, impl, ffHandles, context, fatFs>>
        /\ UNCHANGED <<formatted, held, orphans, loc>>
        /\ pdHandles' = [pdHandles EXCEPT ![d] = h]
        /\ pc' = [pc EXCEPT ![self] = IF loc[self].cfg.force THEN "mkfs" ELSE "fmount"]
    BY <1>2 DEF PdrvRegister, Goto
  <2> HIDE DEF d, h
  <2>2. /\ pc'[self] \in {"mkfs", "fmount"} /\ pdHandles'[d] = h
        /\ \A x \in Drives : x # d => pdHandles'[x] = pdHandles[x]
    BY <1>0, <2>1 DEF LocType, TypeOK
  <2>3. LocType'
    BY <2>1 DEF LocType
  <2>4. MountInv'
    BY <1>0, <2>1, <2>2 DEF MountInv, HasDrive, HasDevice, d, h
  <2>5. TypeOK'
    BY <1>0, <2>1 DEF TypeOK
  <2>6. TableInv'
    BY <1>0, <2>1, <2>2 DEF TableInv
  <2>7. Wired'
    <3> SUFFICES ASSUME NEW v \in held PROVE Works(v)'
      BY <2>1 DEF Wired
    <3>1. Works(v) /\ instance[v.handle].pdrv \in Drives
      BY DEF Wired, Works, TypeOK
    <3>2. v.handle # h
      BY <1>0, OwnHandle DEF h
    <3>3. instance[v.handle].pdrv # d
      BY <1>0, <3>1, <3>2 DEF Works
    <3> QED
      BY <2>1, <2>2, <3>1, <3>3 DEF Works
  <2>8. HeldInv'
    BY <2>1 DEF HeldInv
  <2>9. DeviceInv'
    <3>1. HasDevice(self)' /\ HasDevice(self)
      BY <1>0, <2>2 DEF HasDevice
    <3> QED
      BY <3>1, <2>1, SameDevices
  <2> QED
    BY <2>3, <2>4, <2>5, <2>6, <2>7, <2>8, <2>9
<1> QED
  BY <1>1, <1>2

\* FatFS takes the file-system object: f_mount, at once or after f_mkfs.
LEMMA AttachInv ==
    ASSUME NEW self, Tasks = {self}, IndInv, pc[self] \in {"fmount", "mkfs"}, AttachFs(self),
           NEW step \in {"ready", "mkfs", "fail"}, pc' = [pc EXCEPT ![self] = step],
           UNCHANGED <<device, instance, impl, ffHandles, pdHandles, held, orphans, loc>>, formatted' \subseteq Media
    PROVE  IndInv'
<1> USE Stages DEF IndInv
<1> DEFINE d == loc[self].pdrv
           f == loc[self].fs
<1>1. /\ d \in Drives /\ f \in Drives /\ context[f].path = loc[self].path /\ loc[self].path \in Paths
      /\ impl[d] /\ ffHandles[d] = loc[self].handle
  BY DEF MountInv, HasDrive
<1>2. context[f] # NoContext
  BY <1>1, NameAssumption DEF NoContext
<1>3. f # Wild /\ f # None
  BY <1>1, Indices DEF Wild, None
<1>4. fatFs' = [fatFs EXCEPT ![d] = f] /\ context' = [context EXCEPT ![f].pdrv = d]
  BY <1>3 DEF AttachFs
<1> HIDE DEF d, f
<1>5. context[f] \in [path : Paths, pdrv : Drives]
  BY <1>1, <1>2 DEF TypeOK
<1>6. /\ fatFs'[d] = f /\ context'[f] = [path |-> loc[self].path, pdrv |-> d]
      /\ \A x \in Drives : x # d => fatFs'[x] = fatFs[x]
      /\ \A s \in Drives : s # f => context'[s] = context[s]
  BY <1>1, <1>4, <1>5 DEF TypeOK
<1>7. context'[f] # NoContext
  BY <1>1, <1>6, NameAssumption DEF NoContext
<1>8. pc'[self] = step /\ LocType'
  BY DEF LocType
<1>9. MountInv'
  BY <1>1, <1>3, <1>6, <1>8 DEF MountInv, HasDrive, HasDevice, d, f
<1>10. TypeOK'
  BY <1>1, <1>4, <1>5 DEF TypeOK
<1>11. TableInv'
  <2>1. \A s \in Drives : context'[s].path = context[s].path /\ (context'[s] # NoContext <=> context[s] # NoContext)
    BY <1>1, <1>2, <1>6, <1>7
  <2>2. \A s \in Drives : context'[s] # NoContext =>
             \/ \E v \in held' : v.path = context'[s].path
             \/ \E t \in Tasks : pc'[t] \in WithContext /\ loc'[t].path = context'[s].path
    BY <2>1, <1>8 DEF TableInv
  <2>3. \A r, s \in Drives : context'[r] # NoContext /\ context'[r].path = context'[s].path => r = s
    BY <2>1 DEF TableInv
  <2>4. \A h \in Handles : instance'[h] # NoInstance =>
             \/ \E v \in held' : v.handle = h
             \/ \E t \in Tasks : pc'[t] \in WithInstance /\ loc'[t].handle = h
    BY <1>8 DEF TableInv
  <2> QED
    BY <2>2, <2>3, <2>4, <1>1, <1>6 DEF TableInv
<1>12. Wired'
  <2> SUFFICES ASSUME NEW v \in held PROVE Works(v)'
    BY DEF Wired
  <2>1. Works(v) /\ instance[v.handle].pdrv \in Drives
    BY DEF Wired, Works, TypeOK
  <2>2. v.handle # loc[self].handle /\ v.path # loc[self].path
    BY OwnHandle DEF MountInv
  <2>3. instance[v.handle].pdrv # d
    BY <1>1, <2>1, <2>2 DEF Works
  <2>4. fatFs[instance[v.handle].pdrv] # f
    BY <1>1, <2>1, <2>2 DEF Works
  <2> QED
    BY <1>6, <2>1, <2>3, <2>4 DEF Works
<1>13. HeldInv'
  BY DEF HeldInv
<1>14. DeviceInv'
  <2>1. HasDevice(self)' /\ HasDevice(self)
    BY <1>8 DEF HasDevice
  <2> QED
    BY <2>1, SameDevices
<1> QED
  BY <1>8, <1>9, <1>10, <1>11, <1>12, <1>13, <1>14

LEMMA FMountInv ==
    ASSUME NEW self, Tasks = {self}, IndInv, FMount(self)
    PROVE  IndInv'
<1>1. \E step \in {"ready", "mkfs", "fail"} : pc' = [pc EXCEPT ![self] = step]
  BY DEF FMount, Goto
<1> QED
  BY <1>1, AttachInv DEF FMount, IndInv, TypeOK

LEMMA MkfsInv ==
    ASSUME NEW self, Tasks = {self}, IndInv, Mkfs(self)
    PROVE  IndInv'
<1>1. pc[self] = "mkfs" /\ loc[self].medium \in Media
  BY DEF Mkfs, IndInv, MountInv
<1>2. CASE FailMount(self, "mkfs_refused")
  BY <1>1, <1>2, UndoInv DEF FailMount, IndInv, TypeOK
<1>3. CASE ~FailMount(self, "mkfs_refused")
  <2>1. /\ formatted' = formatted \cup {loc[self].medium} /\ AttachFs(self)
        /\ pc' = [pc EXCEPT ![self] = "ready"]
        /\ UNCHANGED <<device, instance, impl, ffHandles, pdHandles, held, orphans, loc>>
    BY <1>3 DEF Mkfs, Goto
  <2>2. formatted' \subseteq Media
    BY <1>1, <2>1 DEF IndInv, TypeOK
  <2> QED
    BY <1>1, <2>1, <2>2, AttachInv
<1> QED
  BY <1>2, <1>3

LEMMA SetReadyInv ==
    ASSUME NEW self, Tasks = {self}, IndInv, SetReady(self)
    PROVE  IndInv'
<1> USE Stages DEF IndInv
<1> DEFINE l == loc[self]
           h == loc[self].handle
           d == loc[self].pdrv
           v == [handle |-> loc[self].handle, path |-> loc[self].path, medium |-> loc[self].medium]
<1>1. /\ pc[self] = "ready" /\ d \in Drives /\ l.device \in Devices /\ h \in Handles
      /\ l.medium \in Media /\ l.path \in Paths
      /\ device[l.device] = l.medium
      /\ instance[h] = [device |-> l.device, pdrv |-> d, direct |-> l.cfg.fresh]
      /\ impl[d] /\ ffHandles[d] = h /\ pdHandles[d] = h
      /\ l.fs \in Drives /\ context[l.fs].path = l.path /\ context[l.fs].pdrv = d /\ fatFs[d] = l.fs
      /\ \A w \in held : w.medium # l.medium /\ w.path # l.path
  BY DEF SetReady, MountInv, HasDrive, HasDevice
<1>2. instance[h] # NoInstance
  <2>1. None \notin Devices
    BY Indices DEF None
  <2> QED
    BY <1>1, <2>1 DEF NoInstance
<1>3. /\ instance' = [instance EXCEPT ![h].direct = FALSE]
      /\ held' = held \cup {v}
      /\ pc' = [pc EXCEPT ![self] = "idle"] /\ loc' = [loc EXCEPT ![self] = NoLocals]
      /\ UNCHANGED <<device, impl, ffHandles, pdHandles, context, fatFs, formatted, orphans>>
  BY <1>2 DEF SetReady, Return, Goto
<1>4. pc'[self] = "idle" /\ loc'[self] = NoLocals /\ LocType' /\ MountInv'
  BY <1>3, IdleClaims
<1>5. \A w \in held : w.handle # h /\ w.handle \in Handles
  BY <1>1, OwnHandle DEF TypeOK
<1>6. v \in [handle : Handles, path : Paths, medium : Media] /\ v.handle = h /\ v.path = l.path /\ v.medium = l.medium
  BY <1>1
<1>7. context[l.fs] = [path |-> l.path, pdrv |-> d]
  <2>1. context[l.fs] # NoContext
    BY <1>1, NameAssumption DEF NoContext
  <2> QED
    BY <1>1, <2>1 DEF TypeOK
<1> HIDE DEF l, h, d, v
<1>8. /\ instance'[h].device = l.device /\ instance'[h].pdrv = d /\ instance'[h].direct = FALSE
      /\ \A g \in Handles : g # h => instance'[g] = instance[g]
  <2>1. instance'[h] = [instance[h] EXCEPT !.direct = FALSE]
    BY <1>1, <1>3 DEF TypeOK
  <2>2. instance[h].device = l.device /\ instance[h].pdrv = d
    BY <1>1
  <2>3. instance[h] \in [device : Devices, pdrv : Drives, direct : BOOLEAN]
    BY <1>1, <1>2 DEF TypeOK
  <2> QED
    BY <1>1, <1>3, <2>1, <2>2, <2>3 DEF TypeOK
<1>9. instance'[h] # NoInstance
  <2>1. None \notin Devices
    BY Indices DEF None
  <2> QED
    BY <1>1, <1>8, <2>1 DEF NoInstance
<1>10. instance' \in [Handles -> [device : Devices, pdrv : Drives, direct : BOOLEAN] \cup {NoInstance}]
  <2>1. instance[h] \in [device : Devices, pdrv : Drives, direct : BOOLEAN]
    BY <1>1, <1>2 DEF TypeOK
  <2> QED
    BY <2>1, <1>1, <1>3 DEF TypeOK
<1>11. TypeOK'
  <2>1. \A t \in Tasks : loc'[t].handle \in Handles \cup {None} /\ loc'[t].pdrv \in Drives \cup {None}
    BY <1>4 DEF NoLocals
  <2> QED
    BY <2>1, <1>3, <1>6, <1>10 DEF TypeOK
<1>12. HeldInv'
  BY <1>1, <1>3, <1>5, <1>6 DEF HeldInv
<1>13. Wired'
  <2>1. PICK u : u = v
    OBVIOUS
  <2>2. u.handle = h /\ u.path = l.path /\ u.medium = l.medium
    BY <1>6, <2>1
  <2>3. Works(u)'
    BY <1>1, <1>3, <2>2, <1>7, <1>8, <1>9 DEF Works
  <2>4. \A w \in held : Works(w)'
    BY <1>3, <1>5, <1>8 DEF Wired, Works
  <2>5. held' = held \cup {u}
    BY <1>3, <2>1
  <2> QED
    BY <2>3, <2>4, <2>5 DEF Wired
<1>14. TableInv'
  <2>1. ASSUME NEW g \in Handles, instance'[g] # NoInstance
        PROVE  \E w \in held' : w.handle = g
    BY <2>1, <1>3, <1>6, <1>8 DEF TableInv, h
  <2>2. ASSUME NEW s \in Drives, context'[s] # NoContext
        PROVE  \E w \in held' : w.path = context'[s].path
    BY <2>2, <1>3, <1>6 DEF TableInv, l
  <2>3. \A x \in Drives : impl[x] => ffHandles[x] \in Handles
    BY DEF TableInv, TypeOK
  <2>4. \A x \in Drives : impl'[x] => instance'[ffHandles'[x]] # NoInstance /\ instance'[ffHandles'[x]].pdrv = x
    BY <2>3, <1>1, <1>3, <1>8, <1>9 DEF TableInv
  <2> QED
    BY <2>1, <2>2, <2>4, <1>3 DEF TableInv
<1>15. DeviceInv'
  <2>1. ~HasDevice(self)' /\ HasDevice(self)
    BY <1>1, <1>4 DEF HasDevice
  <2>2. DevicesHeld' = DevicesHeld \cup {l.device}
    BY <1>3, <1>5, <1>6, <1>8 DEF DevicesHeld
  <2>3. DevicesTaken' = DevicesTaken
    BY <1>3 DEF DevicesTaken
  <2>4. \A i \in DevicesTaken : i \in DevicesHeld \cup orphans \cup {l.device}
    BY DEF DeviceInv, l
  <2>5. \A i \in orphans : i # l.device
    BY <2>1 DEF DeviceInv, l
  <2> QED
    BY <2>1, <2>2, <2>3, <2>4, <2>5, <1>3 DEF DeviceInv
<1> QED
  BY <1>4, <1>11, <1>12, <1>13, <1>14, <1>15

-----------------------------------------------------------------------------
(* The theorems *)

LEMMA NextInv ==
    ASSUME OneMounter, IndInv, [Next]_vars
    PROVE  IndInv'
<1>1. CASE UNCHANGED vars
  BY <1>1 DEF vars, tables, IndInv, TypeOK, LocType, MountInv, HasDrive, HasDevice, HeldInv, TableInv, DeviceInv,
              DevicesTaken, DevicesHeld, Wired, Works
<1>2. PICK self : Tasks = {self}
  BY DEF OneMounter
<1>3. CASE Next
  <2>1. CASE \E m \in Media, path \in Paths, c \in MountConfigs : MountCall(self, m, path, c)
    BY <1>2, <2>1, MountCallInv DEF OneMounter
  <2>2. CASE \E v \in held : Unmount(self, v)
    BY <1>2, <2>2, UnmountInv
  <2>3. CASE GetDrive(self) \/ GetDevice(self) \/ JrnlMount(self) \/ DiskioRegister(self)
    BY <1>2, <2>3, GetDriveInv, GetDeviceInv, JrnlMountInv, DiskioRegisterInv
  <2>4. CASE VfsRegister(self) \/ PdrvRegister(self) \/ FMount(self) \/ Mkfs(self) \/ SetReady(self)
    BY <1>2, <2>4, VfsRegisterInv, PdrvRegisterInv, FMountInv, MkfsInv, SetReadyInv
  <2>5. CASE MountNoFilesystem(self)
    BY <1>2, <2>5, UndoInv DEF MountNoFilesystem, FailMount, IndInv, TypeOK
  <2>6. CASE StepFails(self)
    <3>1. formatted' \subseteq Media
      BY <2>6 DEF StepFails, IndInv, TypeOK
    <3> QED
      BY <1>2, <2>6, <3>1, UndoInv DEF StepFails
  <2> QED
    BY <1>2, <1>3, <2>1, <2>2, <2>3, <2>4, <2>5, <2>6 DEF Next, Step
<1> QED
  BY <1>1, <1>3

\* The invariant holds for every number of drives, handles and devices, any media and
\* paths, and failures of any mount at any step.
THEOREM TablesConsistent ==
    ASSUME OneMounter
    PROVE  Spec => []IndInv
<1>1. Init => IndInv
  BY InitInv
<1>2. IndInv /\ [Next]_vars => IndInv'
  BY NextInv
<1> QED
  BY <1>1, <1>2, PTL DEF Spec

\* Tables, handles and drive numbers stay in range, although wl_mount,
\* ff_diskio_get_drive and the tables themselves can run out.
THEOREM MountTypeCorrect ==
    ASSUME OneMounter
    PROVE  Spec => []TypeOK
<1>1. IndInv => TypeOK
  BY DEF IndInv
<1> QED
  BY <1>1, TablesConsistent, PTL

\* Each volume given to the application by esp_vfs_fat_spiflash_mount_jrnl or
\* esp_vfs_fat_sdmmc_mount_jrnl works until it is unmounted, whatever happens to others.
THEOREM VolumesWired ==
    ASSUME OneMounter
    PROVE  Spec => []Wired
<1>1. IndInv => Wired
  BY DEF IndInv
<1> QED
  BY <1>1, TablesConsistent, PTL

\* The owner of a drive number in use: a volume of the application or the mount under way.
LEMMA DriveOwner ==
    ASSUME IndInv, NEW d \in Drives, impl[d]
    PROVE  \/ \E v \in held : v.handle = ffHandles[d] /\ instance[v.handle].pdrv = d
           \/ \E t \in Tasks : pc[t] \in WithInstance /\ loc[t].handle = ffHandles[d] /\ loc[t].pdrv = d
<1>1. ffHandles[d] \in Handles /\ instance[ffHandles[d]] # NoInstance /\ instance[ffHandles[d]].pdrv = d
  BY DEF IndInv, TableInv, TypeOK
<1>2. CASE \E v \in held : v.handle = ffHandles[d]
  BY <1>1, <1>2
<1>3. CASE \E t \in Tasks : pc[t] \in WithInstance /\ loc[t].handle = ffHandles[d]
  <2>1. PICK t \in Tasks : pc[t] \in WithInstance /\ loc[t].handle = ffHandles[d]
    BY <1>3
  <2>2. instance[loc[t].handle] = [device |-> loc[t].device, pdrv |-> loc[t].pdrv, direct |-> loc[t].cfg.fresh]
    BY <2>1 DEF IndInv, MountInv
  <2>3. loc[t].pdrv = d
    BY <1>1, <2>1, <2>2
  <2> QED
    BY <2>1, <2>3
<1> QED
  BY <1>1, <1>2, <1>3 DEF IndInv, TableInv

\* FatFS never works on a file-system object that vfs_fat_unregister_path_jrnl has freed
\* or that vfs_fat_register_cfg_jrnl never set.
THEOREM FsObjectsLive ==
    ASSUME OneMounter
    PROVE  Spec => []FsObjectLive
<1>1. IndInv => FsObjectLive
  <2> SUFFICES ASSUME IndInv, NEW d \in Drives, fatFs[d] # None
               PROVE  fatFs[d] # Wild /\ context[fatFs[d]] # NoContext
    BY DEF FsObjectLive
  <2>1. impl[d] /\ Wild \notin Drives
    BY Indices DEF IndInv, TableInv, Wild
  <2>2. CASE \E v \in held : v.handle = ffHandles[d] /\ instance[v.handle].pdrv = d
    <3>1. PICK v \in held : v.handle = ffHandles[d] /\ instance[v.handle].pdrv = d
      BY <2>2
    <3>2. fatFs[d] \in Drives /\ context[fatFs[d]] = [path |-> v.path, pdrv |-> d] /\ v.path \in Paths
      BY <3>1 DEF IndInv, Wired, Works, TypeOK
    <3>3. context[fatFs[d]].path = v.path
      BY <3>2
    <3> QED
      BY <2>1, <3>2, <3>3, NameAssumption DEF NoContext
  <2>3. CASE \E t \in Tasks : pc[t] \in WithInstance /\ loc[t].handle = ffHandles[d] /\ loc[t].pdrv = d
    <3>1. PICK t \in Tasks : pc[t] \in WithInstance /\ loc[t].handle = ffHandles[d] /\ loc[t].pdrv = d
      BY <2>3
    <3>2. pc[t] \in WithDriver
      BY <2>1, <3>1, Stages DEF IndInv, MountInv, HasDrive
    <3>3. fatFs[d] = loc[t].fs /\ loc[t].fs \in Drives /\ context[loc[t].fs].path = loc[t].path /\ loc[t].path \in Paths
      BY <3>1, <3>2, Stages DEF IndInv, MountInv
    <3> QED
      BY <2>1, <3>3, NameAssumption DEF NoContext
  <2> QED
    BY <2>1, <2>2, <2>3, DriveOwner
<1> QED
  BY <1>1, TablesConsistent, PTL

\* Between calls the volumes of the application account for every entry of the seven
\* tables but one kind: the wear-levelling handle of a flash mount that failed before
\* esp_jrnl_mount succeeded.  Any other failed mount, and every unmount, has given back
\* all it took.
THEOREM NothingLeft ==
    ASSUME OneMounter
    PROVE  Spec => []NothingLeftBehind
<1>1. IndInv => NothingLeftBehind
  <2> SUFFICES ASSUME IndInv, AllIdle
               PROVE  /\ DevicesTaken = DevicesHeld \cup orphans
                      /\ \A i \in orphans : device[i] \notin Cards /\ i \notin DevicesHeld
                      /\ {h \in Handles : instance[h] # NoInstance} = {v.handle : v \in held}
                      /\ {d \in Drives : impl[d]} = {instance[v.handle].pdrv : v \in held}
                      /\ {context[s].path : s \in Drives} \ {NoPath} = {v.path : v \in held}
                      /\ \A d \in Drives : ~impl[d] => ffHandles[d] = None /\ pdHandles[d] = None /\ fatFs[d] = None
    BY DEF NothingLeftBehind
  <2>1. \A t \in Tasks : pc[t] \notin WithInstance /\ pc[t] \notin WithContext
    BY Stages DEF AllIdle
  <2>2. \A v \in held : v.handle \in Handles /\ v.path \in Paths /\ Works(v)
    BY DEF IndInv, TypeOK, Wired
  <2>3. {h \in Handles : instance[h] # NoInstance} = {v.handle : v \in held}
    <3>1. \A h \in Handles : instance[h] # NoInstance => \E v \in held : v.handle = h
      BY <2>1 DEF IndInv, TableInv
    <3>2. \A v \in held : v.handle \in Handles /\ instance[v.handle] # NoInstance
      BY <2>2 DEF Works
    <3> QED
      BY <3>1, <3>2
  <2>4. {d \in Drives : impl[d]} = {instance[v.handle].pdrv : v \in held}
    <3>1. \A d \in Drives : impl[d] => \E v \in held : d = instance[v.handle].pdrv
      BY <2>1, DriveOwner
    <3>2. \A v \in held : instance[v.handle].pdrv \in Drives /\ impl[instance[v.handle].pdrv]
      BY <2>2 DEF Works, IndInv, TypeOK
    <3> QED
      BY <3>1, <3>2
  <2>5. {context[s].path : s \in Drives} \ {NoPath} = {v.path : v \in held}
    <3>1. \A s \in Drives : context[s].path # NoPath => \E v \in held : v.path = context[s].path
      BY <2>1 DEF IndInv, TableInv, NoContext
    <3>2. ASSUME NEW v \in held
          PROVE  v.path # NoPath /\ \E s \in Drives : context[s].path = v.path
      <4>1. v.path \in Paths /\ Works(v)
        BY <2>2
      <4>2. PICK s \in Drives : context[s] = [path |-> v.path, pdrv |-> instance[v.handle].pdrv]
        BY <4>1 DEF Works
      <4>3. context[s].path = v.path
        BY <4>2
      <4> QED
        BY <4>1, <4>3, NameAssumption
    <3> QED
      BY <3>1, <3>2
  <2>6. \A d \in Drives : ~impl[d] => ffHandles[d] = None /\ pdHandles[d] = None /\ fatFs[d] = None
    BY DEF IndInv, TableInv
  <2>7. DevicesTaken = DevicesHeld \cup orphans
    <3>1. \A t \in Tasks : ~HasDevice(t)
      BY Stages DEF AllIdle, HasDevice
    <3>2. DevicesTaken \subseteq DevicesHeld \cup orphans
      BY <3>1 DEF IndInv, DeviceInv
    <3>3. orphans \subseteq DevicesTaken
      BY DEF IndInv, TypeOK, DeviceInv, DevicesTaken
    <3>4. ASSUME NEW v \in held
          PROVE  instance[v.handle].device \in DevicesTaken
      <4>1. instance[v.handle].device \in Devices /\ device[instance[v.handle].device] = v.medium
        BY <2>2 DEF Works, IndInv, TypeOK
      <4>2. v.medium # NoMedium
        BY NameAssumption DEF IndInv, TypeOK
      <4> QED
        BY <4>1, <4>2 DEF DevicesTaken
    <3> QED
      BY <3>2, <3>3, <3>4 DEF DevicesHeld
  <2>8. \A i \in orphans : device[i] \notin Cards /\ i \notin DevicesHeld
    BY DEF IndInv, DeviceInv
  <2> QED
    BY <2>3, <2>4, <2>5, <2>6, <2>7, <2>8
<1> QED
  BY <1>1, TablesConsistent, PTL
=============================================================================
