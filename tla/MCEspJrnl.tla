----------------------------- MODULE MCEspJrnl -----------------------------
(* Instances of EspJrnl for TLC. *)
EXTENDS EspJrnlInv, TLC

DefaultConfig == {[fresh |-> FALSE, replay |-> TRUE]}
ReplayingConfigs == DefaultConfig \cup {[fresh |-> TRUE, replay |-> TRUE]}

Symmetric == Permutations(Data)
=============================================================================
