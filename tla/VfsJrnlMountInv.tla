--------------------------- MODULE VfsJrnlMountInv ---------------------------
(***************************************************************************)
(* The inductive invariant of VfsJrnlMount for an application that mounts  *)
(* and unmounts from one task and uses a base path once: who owns each     *)
(* entry of the seven tables, and how much of it a mount under way has     *)
(* filled in.                                                              *)
(***************************************************************************)
EXTENDS VfsJrnlMount

\* Steps of a mount that has ...
WithContext == {"pdrv", "mkfs", "fmount", "ready", "fail"}  \* ... a base path registered
WithDriver == WithContext \cup {"vfs"}                      \* ... a disk driver
WithInstance == WithDriver \cup {"diskio"}                  \* ... a journal instance

Steps == WithInstance \cup {"idle", "drive", "device", "jrnl"}

Locals ==
    [medium : Media \cup {NoMedium}, path : Paths \cup {NoPath}, cfg : MountConfigs,
     pdrv : Drives \cup {None}, device : Devices \cup {None}, handle : Handles \cup {None},
     fs : Drives \cup {Wild}]

LocType ==
    /\ pc \in [Tasks -> Steps]
    /\ loc \in [Tasks -> Locals]

\* A drive and a device are found in the opposite order on flash and on cards.
HasDrive(t) == pc[t] \in WithInstance \cup {"jrnl"} \/ (pc[t] = "device" /\ loc[t].medium \notin Cards)
HasDevice(t) == pc[t] \in WithInstance \cup {"jrnl"} \/ (pc[t] = "drive" /\ loc[t].medium \in Cards)

\* What a mount under way has obtained so far.
MountInv ==
    \A t \in Tasks :
        /\ pc[t] # "idle" => loc[t].medium \in Media /\ loc[t].path \in Paths
        /\ pc[t] # "idle" => \A v \in held : v.medium # loc[t].medium /\ v.path # loc[t].path
        /\ HasDrive(t) => loc[t].pdrv \in Drives
        /\ HasDrive(t) /\ pc[t] \notin WithDriver => ~impl[loc[t].pdrv]
        /\ HasDevice(t) => loc[t].device \in Devices /\ device[loc[t].device] = loc[t].medium
        /\ ~HasDevice(t) => loc[t].device = None
        /\ pc[t] \in WithInstance =>
              /\ loc[t].handle \in Handles
              /\ instance[loc[t].handle] =
                    [device |-> loc[t].device, pdrv |-> loc[t].pdrv, direct |-> loc[t].cfg.fresh]
        /\ pc[t] \notin WithInstance => loc[t].handle = None
        /\ pc[t] \in WithDriver => impl[loc[t].pdrv] /\ ffHandles[loc[t].pdrv] = loc[t].handle
        /\ pc[t] \in WithContext => loc[t].fs \in Drives /\ context[loc[t].fs].path = loc[t].path
        /\ pc[t] \in WithContext \ {"pdrv"} => pdHandles[loc[t].pdrv] = loc[t].handle
        /\ pc[t] \in WithDriver /\ fatFs[loc[t].pdrv] # None =>
              /\ pc[t] \in WithContext
              /\ fatFs[loc[t].pdrv] = loc[t].fs
              /\ context[loc[t].fs].pdrv = loc[t].pdrv
        /\ pc[t] = "ready" => fatFs[loc[t].pdrv] # None

\* Volumes of the application differ in everything they use.
HeldInv ==
    \A v, w \in held : v.handle = w.handle \/ v.path = w.path \/ v.medium = w.medium => v = w

\* Every entry in use has an owner, and the tables that lead from a drive to a journal
\* agree with the one that leads back.
TableInv ==
    /\ \A h \in Handles :
          instance[h] # NoInstance =>
             \/ \E v \in held : v.handle = h
             \/ \E t \in Tasks : pc[t] \in WithInstance /\ loc[t].handle = h
    /\ \A d \in Drives : ffHandles[d] # None <=> impl[d]
    /\ \A d \in Drives : impl[d] => instance[ffHandles[d]] # NoInstance /\ instance[ffHandles[d]].pdrv = d
    /\ \A d \in Drives : pdHandles[d] # None => pdHandles[d] = ffHandles[d]
    /\ \A d \in Drives : fatFs[d] # None => impl[d]
    /\ \A s \in Drives :
          context[s] # NoContext =>
             \/ \E v \in held : v.path = context[s].path
             \/ \E t \in Tasks : pc[t] \in WithContext /\ loc[t].path = context[s].path
    /\ \A r, s \in Drives : context[r] # NoContext /\ context[r].path = context[s].path => r = s

\* Every device in use has an owner: a volume, the mount under way, or a failed mount of
\* a flash partition that kept it.  The device of a failed mount is never used again.
DeviceInv ==
    /\ \A i \in DevicesTaken :
          \/ i \in DevicesHeld \cup orphans
          \/ \E t \in Tasks : HasDevice(t) /\ loc[t].device = i
    /\ \A i \in orphans :
          /\ device[i] \notin Cards \cup {NoMedium}
          /\ i \notin DevicesHeld
          /\ \A t \in Tasks : HasDevice(t) => loc[t].device # i

\* The conjunction every step preserves.
IndInv == TypeOK /\ LocType /\ MountInv /\ HeldInv /\ TableInv /\ DeviceInv /\ Wired
=============================================================================
