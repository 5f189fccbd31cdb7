---------------------------- MODULE VfsJrnlMount ----------------------------
(***************************************************************************)
(* Mounting and unmounting journaled FAT volumes:                          *)
(* vfs_jrnl_fat_spiflash.c, vfs_jrnl_fat_sdmmc.c, the tables of            *)
(* vfs_jrnl_fat.c and diskio_jrnl.c and the handle table of esp_jrnl.c.    *)
(* A volume is usable only while seven tables agree about it; mounting     *)
(* fills them one after the other without a lock and any step may fail.  A *)
(* step of a mount is one such call; unmounting, which cannot fail         *)
(* half-way on a valid handle, is one step.                                *)
(***************************************************************************)
EXTENDS Integers, FiniteSets, FiniteSetsExt

CONSTANTS
    Tasks,        \* tasks calling the API
    MaxVolumes,   \* FF_VOLUMES: drive numbers and file-system contexts
    MaxHandles,   \* JRNL_MAX_HANDLES
    MaxDevices,   \* wear-levelling handles and card structures
    Partitions,   \* SPI flash partitions
    Cards,        \* SD cards
    Paths,        \* base paths
    ReusePaths    \* may a base path be mounted while it is in use?

ASSUME TableAssumption ==
    /\ MaxVolumes \in Nat \ {0}
    /\ MaxHandles \in Nat /\ MaxVolumes <= MaxHandles \* asserted in ff_diskio_register_jrnl
    /\ MaxDevices \in Nat \ {0}
    /\ ReusePaths \in BOOLEAN

Drives == 0 .. (MaxVolumes - 1)
Handles == 0 .. (MaxHandles - 1)
Devices == 0 .. (MaxDevices - 1)
Media == Partitions \cup Cards

None == -1        \* NULL, JRNL_INVALID_HANDLE, 0xFF
Wild == -2        \* the uninitialised local FATFS* fs

VARIABLES
    device,       \* wear-levelling handles and cards in use, by medium
    instance,     \* s_jrnl_instance_ptrs: device, drive and direct status
    impl,         \* drives with a disk driver registered in FatFS
    ffHandles,    \* ff_jrnl_handles: the journal disk writes of a drive go to
    pdHandles,    \* s_jrnl_handles: the journal transactions of a drive use
    context,      \* s_fat_ctxs: base path and fs.pdrv
    fatFs,        \* FatFS: the file-system object mounted on a drive
    formatted,    \* media that hold a FAT file system
    held,         \* volumes the application has mounted: handle and path
    orphans,      \* history: wear-levelling handles kept by mounts that failed
    pc,           \* the step the call of a task has reached
    loc,          \* locals of the call
    ret           \* result of the last call of a task

tables == <<device, instance, impl, ffHandles, pdHandles, context, fatFs>>
vars == <<tables, formatted, held, orphans, pc, loc, ret>>

NoMedium == "none"
NoPath == "none"
ASSUME NameAssumption == NoMedium \notin Media /\ NoPath \notin Paths

NoInstance == [device |-> None, pdrv |-> None, direct |-> FALSE]
NoContext == [path |-> NoPath, pdrv |-> None]

\* fresh stands for overwrite_existing || force_fs_format, force for
\* force_fs_format and format for format_if_mount_failed.
MountConfigs == {c \in [fresh : BOOLEAN, force : BOOLEAN, format : BOOLEAN] : c.force => c.fresh}

NoLocals == [medium |-> NoMedium, path |-> NoPath, cfg |-> [fresh |-> FALSE, force |-> FALSE, format |-> FALSE],
             pdrv |-> None, device |-> None, handle |-> None, fs |-> Wild]

Init ==
    /\ device = [i \in Devices |-> NoMedium]
    /\ instance = [h \in Handles |-> NoInstance]
    /\ impl = [d \in Drives |-> FALSE]
    /\ ffHandles = [d \in Drives |-> None]
    /\ pdHandles = [d \in Drives |-> None]
    /\ context = [s \in Drives |-> NoContext]
    /\ fatFs = [d \in Drives |-> None]
    /\ formatted \in SUBSET Media
    /\ held = {}
    /\ orphans = {}
    /\ pc = [t \in Tasks |-> "idle"]
    /\ loc = [t \in Tasks |-> NoLocals]
    /\ ret = [t \in Tasks |-> "none"]

-----------------------------------------------------------------------------
(* Table searches: the first match, or None *)

First(S) == IF S = {} THEN None ELSE Min(S)

\* ff_diskio_get_drive; it reserves nothing.
FreeDrive == First({d \in Drives : ~impl[d]})

FreeDevice == First({i \in Devices : device[i] = NoMedium})
FreeHandle == First({h \in Handles : instance[h] = NoInstance})

\* ff_diskio_get_pdrv_jrnl
DriveOf(h) == First({d \in Drives : ffHandles[d] = h})

\* find_context_index_by_path, find_unused_context_index
ContextOf(path) == First({s \in Drives : context[s].path = path})
FreeContext == First({s \in Drives : context[s] = NoContext})

Goto(t, step) == pc' = [pc EXCEPT ![t] = step]

Return(t, e) ==
    /\ Goto(t, "idle")
    /\ loc' = [loc EXCEPT ![t] = NoLocals]
    /\ ret' = [ret EXCEPT ![t] = e]

-----------------------------------------------------------------------------
(* Unmounting *)

\* vfs_fat_unregister_pdrv_jrnl_handle
UnregisterPdrv(h) ==
    LET d == First({x \in Drives : pdHandles[x] = h}) IN
    pdHandles' = IF d = None THEN pdHandles ELSE [pdHandles EXCEPT ![d] = None]

\* Mutant: the file system stays mounted in FatFS.
ReleaseDriveMounted(h, d) ==
    /\ ffHandles' = [x \in Drives |-> IF ffHandles[x] = h THEN None ELSE ffHandles[x]]
    /\ impl' = [impl EXCEPT ![d] = FALSE]
    /\ UNCHANGED fatFs

\* ff_diskio_clear_pdrv_jrnl, f_mount(0, drv, 0) and ff_diskio_unregister.
ReleaseDrive(h, d) ==
    /\ ffHandles' = [x \in Drives |-> IF ffHandles[x] = h THEN None ELSE ffHandles[x]]
    /\ fatFs' = [fatFs EXCEPT ![d] = None]
    /\ impl' = [impl EXCEPT ![d] = FALSE]

\* vfs_fat_unregister_path_jrnl
UnregisterPath(path) ==
    LET s == ContextOf(path) IN
    context' = IF s = None THEN context ELSE [context EXCEPT ![s] = NoContext]

\* esp_jrnl_unmount, wl_unmount or the release of the card, and the base path.
ReleaseInstance(h, path) ==
    /\ instance' = [instance EXCEPT ![h] = NoInstance]
    /\ device' = [device EXCEPT ![instance[h].device] = NoMedium]
    /\ UnregisterPath(path)

\* esp_vfs_fat_spiflash_unmount_jrnl: does nothing without a handle.
UnmountSpiflash(h, path) ==
    LET d == DriveOf(h) IN
    IF h = None THEN UNCHANGED tables
    ELSE /\ UnregisterPdrv(h)
         /\ IF d = None THEN UNCHANGED <<ffHandles, fatFs, impl>> ELSE ReleaseDrive(h, d)
         /\ IF d # None /\ instance[h] # NoInstance
            THEN ReleaseInstance(h, path)
            ELSE UNCHANGED <<instance, device, context>>

\* Mutant: a failed mount of a card leaves it as one of flash leaves its device.
UnmountSdmmcAsFlash(h, path, dev) == UnmountSpiflash(h, path)

\* esp_vfs_fat_sdmmc_unmount_jrnl; dev is the card a failed mount releases itself.
UnmountSdmmc(h, path, dev) ==
    LET d == DriveOf(h) IN
    IF h = None
    THEN /\ device' = IF dev = None THEN device ELSE [device EXCEPT ![dev] = NoMedium]
         /\ UNCHANGED <<instance, impl, ffHandles, pdHandles, context, fatFs>>
    ELSE IF instance[h] = NoInstance THEN UNCHANGED tables
    ELSE /\ UnregisterPdrv(h)
         /\ IF d = None THEN UNCHANGED <<ffHandles, fatFs, impl>> ELSE ReleaseDrive(h, d)
         /\ ReleaseInstance(h, path)

Unmount(t, v) ==
    /\ pc[t] = "idle"
    /\ IF v.medium \in Cards THEN UnmountSdmmc(v.handle, v.path, None) ELSE UnmountSpiflash(v.handle, v.path)
    /\ held' = held \ {v}
    /\ ret' = [ret EXCEPT ![t] = "unmounted"]
    /\ UNCHANGED <<formatted, orphans, pc, loc>>

-----------------------------------------------------------------------------
(* Mounting *)

\* Media and paths of the volumes mounted or being mounted.
MediaInUse == {v.medium : v \in held} \cup {loc[t].medium : t \in Tasks}
PathsInUse == {v.path : v \in held} \cup {loc[t].path : t \in Tasks}

\* The wear-levelling handle that esp_vfs_fat_spiflash_unmount_jrnl leaves mounted when
\* it is called without a journal handle to find it by.
Abandoned(l) ==
    IF l.medium \notin Cards /\ l.handle = None /\ l.device # None THEN {l.device} ELSE {}

\* Whatever went wrong, the call undoes what it has done so far and returns e.
UndoMount(t, e) ==
    LET l == loc[t] IN
    /\ IF l.medium \in Cards THEN UnmountSdmmc(l.handle, l.path, l.device)
                             ELSE UnmountSpiflash(l.handle, l.path)
    /\ orphans' = orphans \cup Abandoned(l)
    /\ Return(t, e)
    /\ UNCHANGED held

FailMount(t, e) == UndoMount(t, e) /\ UNCHANGED formatted

\* A drive number is chosen first on flash, the card is started first on SD.
MountCall(t, m, path, c) ==
    /\ pc[t] = "idle"
    /\ m \in Media \ MediaInUse
    /\ ReusePaths \/ path \notin PathsInUse
    /\ Goto(t, IF m \in Cards THEN "device" ELSE "drive")
    /\ loc' = [loc EXCEPT ![t] = [NoLocals EXCEPT !.medium = m, !.path = path, !.cfg = c]]
    /\ ret' = [ret EXCEPT ![t] = "pending"]
    /\ UNCHANGED <<tables, formatted, held, orphans>>

GetDrive(t) ==
    /\ pc[t] = "drive"
    /\ IF FreeDrive = None
       THEN FailMount(t, "no_mem")
       ELSE /\ loc' = [loc EXCEPT ![t].pdrv = FreeDrive]
            /\ Goto(t, IF loc[t].medium \in Cards THEN "jrnl" ELSE "device")
            /\ UNCHANGED <<tables, formatted, held, orphans, ret>>

\* Mutant: running out of devices goes unnoticed.
GetDeviceUnchecked(t) ==
    /\ pc[t] = "device"
    /\ device' = [i \in Devices |-> IF i = FreeDevice THEN loc[t].medium ELSE device[i]]
    /\ loc' = [loc EXCEPT ![t].device = FreeDevice]
    /\ Goto(t, IF loc[t].medium \in Cards THEN "drive" ELSE "jrnl")
    /\ UNCHANGED <<instance, impl, ffHandles, pdHandles, context, fatFs, formatted, held, orphans, ret>>

\* wl_mount, or allocation and initialisation of the card.
GetDevice(t) ==
    /\ pc[t] = "device"
    /\ IF FreeDevice = None
       THEN FailMount(t, "no_mem")
       ELSE /\ device' = [device EXCEPT ![FreeDevice] = loc[t].medium]
            /\ loc' = [loc EXCEPT ![t].device = FreeDevice]
            /\ Goto(t, IF loc[t].medium \in Cards THEN "drive" ELSE "jrnl")
            /\ UNCHANGED <<instance, impl, ffHandles, pdHandles, context, fatFs, formatted, held, orphans, ret>>

\* esp_jrnl_mount: under s_instances_lock.
JrnlMount(t) ==
    /\ pc[t] = "jrnl"
    /\ IF FreeHandle = None
       THEN FailMount(t, "no_mem")
       ELSE /\ instance' = [instance EXCEPT ![FreeHandle] =
                              [device |-> loc[t].device, pdrv |-> loc[t].pdrv, direct |-> loc[t].cfg.fresh]]
            /\ loc' = [loc EXCEPT ![t].handle = FreeHandle]
            /\ Goto(t, "diskio")
            /\ UNCHANGED <<device, impl, ffHandles, pdHandles, context, fatFs, formatted, held, orphans, ret>>

\* ff_diskio_register_jrnl
DiskioRegister(t) ==
    /\ pc[t] = "diskio"
    /\ impl' = [impl EXCEPT ![loc[t].pdrv] = TRUE]
    /\ ffHandles' = [ffHandles EXCEPT ![loc[t].pdrv] = loc[t].handle]
    /\ Goto(t, "vfs")
    /\ UNCHANGED <<device, instance, pdHandles, context, fatFs, formatted, held, orphans, loc, ret>>

\* vfs_fat_register_cfg_jrnl: the new context is zeroed, so its drive is 0 until
\* f_mount.  A path that is already registered is let through, fs unset.
VfsRegister(t) ==
    /\ pc[t] = "vfs"
    /\ IF ContextOf(loc[t].path) # None
       THEN Goto(t, "pdrv") /\ UNCHANGED <<tables, formatted, held, orphans, loc, ret>>
       ELSE IF FreeContext = None
       THEN FailMount(t, "no_mem")
       ELSE /\ context' = [context EXCEPT ![FreeContext] = [path |-> loc[t].path, pdrv |-> 0]]
            /\ loc' = [loc EXCEPT ![t].fs = FreeContext]
            /\ Goto(t, "pdrv")
            /\ UNCHANGED <<device, instance, impl, ffHandles, pdHandles, fatFs, formatted, held, orphans, ret>>

\* vfs_fat_register_pdrv_jrnl_handle
PdrvRegister(t) ==
    /\ pc[t] = "pdrv"
    /\ IF pdHandles[loc[t].pdrv] # None
       THEN FailMount(t, "invalid_state")
       ELSE /\ pdHandles' = [pdHandles EXCEPT ![loc[t].pdrv] = loc[t].handle]
            /\ Goto(t, IF loc[t].cfg.force THEN "mkfs" ELSE "fmount")
            /\ UNCHANGED <<device, instance, impl, ffHandles, context, fatFs, formatted, held, orphans, loc, ret>>

\* FatFS takes the object before it looks at the medium.
AttachFs(t) ==
    /\ fatFs' = [fatFs EXCEPT ![loc[t].pdrv] = loc[t].fs]
    /\ context' = IF loc[t].fs = Wild THEN context
                  ELSE [context EXCEPT ![loc[t].fs].pdrv = loc[t].pdrv]

\* f_mount with immediate effect: no file system leads to formatting or to failure.
FMount(t) ==
    /\ pc[t] = "fmount"
    /\ AttachFs(t)
    /\ Goto(t, IF loc[t].medium \in formatted THEN "ready"
               ELSE IF loc[t].cfg.format THEN "mkfs" ELSE "fail")
    /\ UNCHANGED <<device, instance, impl, ffHandles, pdHandles, formatted, held, orphans, loc, ret>>

\* f_mkfs writes through the journal of the drive, which takes writes outside a
\* transaction only in direct mode; then f_mount.
Mkfs(t) ==
    /\ pc[t] = "mkfs"
    /\ LET h == ffHandles[loc[t].pdrv] IN
       IF h = None \/ ~instance[h].direct
       THEN FailMount(t, "mkfs_refused")
       ELSE /\ formatted' = formatted \cup {loc[t].medium}
            /\ AttachFs(t)
            /\ Goto(t, "ready")
            /\ UNCHANGED <<device, instance, impl, ffHandles, pdHandles, held, orphans, loc, ret>>

MountNoFilesystem(t) == pc[t] = "fail" /\ FailMount(t, "fail")

\* Mutant: the journal is left in direct mode.
SetReadyKeepsDirect(t) ==
    /\ pc[t] = "ready"
    /\ held' = held \cup {[handle |-> loc[t].handle, path |-> loc[t].path, medium |-> loc[t].medium]}
    /\ Return(t, "ok")
    /\ UNCHANGED <<tables, formatted, orphans>>

\* esp_jrnl_set_direct_io(false), and the handle goes to the caller.
SetReady(t) ==
    /\ pc[t] = "ready"
    /\ IF instance[loc[t].handle] = NoInstance
       THEN FailMount(t, "invalid_arg")
       ELSE /\ instance' = [instance EXCEPT ![loc[t].handle].direct = FALSE]
            /\ held' = held \cup {[handle |-> loc[t].handle, path |-> loc[t].path, medium |-> loc[t].medium]}
            /\ Return(t, "ok")
            /\ UNCHANGED <<device, impl, ffHandles, pdHandles, context, fatFs, formatted, orphans>>

\* A driver error or a failed allocation in the call at hand.  Choosing a drive and
\* the two registrations in static tables cannot fail that way.  Formatting that
\* fails half-way may have destroyed the file system that was there.
StepFails(t) ==
    /\ pc[t] \in {"device", "jrnl", "vfs", "fmount", "mkfs", "ready"}
    /\ pc[t] = "vfs" => ContextOf(loc[t].path) = None
    /\ formatted' = formatted \/ (pc[t] = "mkfs" /\ formatted' = formatted \ {loc[t].medium})
    /\ UndoMount(t, "disk")

Step(t) ==
    \/ GetDrive(t)
    \/ GetDevice(t)
    \/ JrnlMount(t)
    \/ DiskioRegister(t)
    \/ VfsRegister(t)
    \/ PdrvRegister(t)
    \/ FMount(t)
    \/ Mkfs(t)
    \/ MountNoFilesystem(t)
    \/ SetReady(t)
    \/ StepFails(t)

Next ==
    \E t \in Tasks :
        \/ \E m \in Media, path \in Paths, c \in MountConfigs : MountCall(t, m, path, c)
        \/ \E v \in held : Unmount(t, v)
        \/ Step(t)

Spec == Init /\ [][Next]_vars

-----------------------------------------------------------------------------
(* Properties *)

\* Every table holds what belongs in it; a journal instance always has a device and
\* a drive, although wl_mount and ff_diskio_get_drive can run out of them.
TypeOK ==
    /\ device \in [Devices -> Media \cup {NoMedium}]
    /\ instance \in [Handles -> [device : Devices, pdrv : Drives, direct : BOOLEAN] \cup {NoInstance}]
    /\ impl \in [Drives -> BOOLEAN]
    /\ ffHandles \in [Drives -> Handles \cup {None}]
    /\ pdHandles \in [Drives -> Handles \cup {None}]
    /\ context \in [Drives -> [path : Paths, pdrv : Drives] \cup {NoContext}]
    /\ fatFs \in [Drives -> Drives \cup {None, Wild}]
    /\ formatted \subseteq Media
    /\ held \subseteq [handle : Handles, path : Paths, medium : Media]
    /\ orphans \subseteq Devices
    /\ \A t \in Tasks : loc[t].handle \in Handles \cup {None} /\ loc[t].pdrv \in Drives \cup {None}

\* The context of volume v leads to a drive whose transactions (s_jrnl_handles) and
\* disk writes (ff_jrnl_handles) go to the one journal instance on its own medium,
\* ready for transactions.
Works(v) ==
    LET i == instance[v.handle] IN
    /\ i # NoInstance
    /\ device[i.device] = v.medium
    /\ ~i.direct
    /\ impl[i.pdrv]
    /\ ffHandles[i.pdrv] = v.handle
    /\ pdHandles[i.pdrv] = v.handle
    /\ fatFs[i.pdrv] \in Drives
    /\ context[fatFs[i.pdrv]] = [path |-> v.path, pdrv |-> i.pdrv]

\* Every volume the application was given works, whatever mounts and unmounts of other
\* volumes came in between and however they failed: the tables agree about it.
Wired == \A v \in held : Works(v)

\* FatFS never holds a file-system object that was freed or never set.
FsObjectLive ==
    \A d \in Drives : fatFs[d] # None => fatFs[d] # Wild /\ context[fatFs[d]] # NoContext

AllIdle == \A t \in Tasks : pc[t] = "idle"

\* Devices in use, and those the volumes of the application use.
DevicesTaken == {i \in Devices : device[i] # NoMedium}
DevicesHeld == {instance[v.handle].device : v \in held}

\* Between calls the mounted volumes account for every entry of all seven tables, with
\* one exception: a mount of a flash partition that failed before esp_jrnl_mount gave it
\* a handle has kept its wear-levelling handle (vfs_jrnl_fat_spiflash.c:184).  However
\* else a mount failed, and whenever it was of a card, it has left nothing behind.
NothingLeftBehind ==
    AllIdle =>
        /\ DevicesTaken = DevicesHeld \cup orphans
        /\ \A i \in orphans : device[i] \notin Cards /\ i \notin DevicesHeld
        /\ {h \in Handles : instance[h] # NoInstance} = {v.handle : v \in held}
        /\ {d \in Drives : impl[d]} = {instance[v.handle].pdrv : v \in held}
        /\ {context[s].path : s \in Drives} \ {NoPath} = {v.path : v \in held}
        /\ \A d \in Drives : ~impl[d] => ffHandles[d] = None /\ pdHandles[d] = None /\ fatFs[d] = None

-----------------------------------------------------------------------------
(* A statement of the documentation the code does not keep *)

\* Formatting during a mount is never refused by the journal.
FormatAccepted == \A t \in Tasks : ret[t] # "mkfs_refused"
=============================================================================
