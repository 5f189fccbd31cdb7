---------------------------- MODULE AtomicVolume ----------------------------
(***************************************************************************)
(* What the journaling layer promises of the file-system part of a volume: *)
(* a transaction collects sector writes that nobody sees, and either all   *)
(* of them appear at one instant or none ever does.  A power cut is not an *)
(* action here: the only thing it may do is discard an open transaction.   *)
(* EspJrnl is shown to implement this specification.                       *)
(***************************************************************************)
EXTENDS Integers

CONSTANTS
    Sectors,      \* sectors of the file-system part of the volume
    Content,      \* what a sector can hold
    MaxCount      \* longest write, in sectors

VARIABLES
    img,          \* the volume as a reader may rely on it after recovery
    pend,         \* the volume as it would be if the transaction were committed
    open,         \* is a transaction open?
    direct        \* is direct access granted?

vars == <<img, pend, open, direct>>

\* image f with the sectors target, target + 1, ... replaced by those of buf.
Overlay(f, target, count, buf) ==
    [s \in DOMAIN f |-> IF s \in target .. (target + count - 1)
                        THEN buf[s - target] ELSE f[s]]

TypeOK ==
    /\ img \in [Sectors -> Content]
    /\ pend \in [Sectors -> Content]
    /\ open \in BOOLEAN
    /\ direct \in BOOLEAN

Init ==
    /\ img \in [Sectors -> Content]
    /\ pend = img
    /\ open = FALSE
    /\ direct = FALSE

Begin ==
    /\ ~open
    /\ ~direct
    /\ open' = TRUE
    /\ UNCHANGED <<img, pend, direct>>

\* A write of an open transaction changes only what a commit would install.
Buffer ==
    /\ open
    /\ \E target \in Sectors, count \in 1 .. MaxCount : \E buf \in [0 .. (count - 1) -> Content] :
          pend' = Overlay(pend, target, count, buf)
    /\ UNCHANGED <<img, open, direct>>

Commit ==
    /\ open
    /\ img' = pend
    /\ open' = FALSE
    /\ UNCHANGED <<pend, direct>>

Discard ==
    /\ open
    /\ pend' = img
    /\ open' = FALSE
    /\ UNCHANGED <<img, direct>>

\* Direct access is granted and withdrawn outside any transaction.
Toggle ==
    /\ ~open
    /\ direct' = ~direct
    /\ UNCHANGED <<img, pend, open>>

\* Direct access promises nothing beyond one sector.
Direct ==
    /\ direct
    /\ ~open
    /\ \E s \in Sectors, c \in Content : img' = [img EXCEPT ![s] = c]
    /\ pend' = img'
    /\ UNCHANGED <<open, direct>>

Next == Begin \/ Buffer \/ Commit \/ Discard \/ Toggle \/ Direct

Spec == Init /\ [][Next]_vars
=============================================================================
