--------------------------- MODULE MCEspJrnlDecay ---------------------------
(* Instance of EspJrnlDecay for TLC. *)
EXTENDS EspJrnlDecay, EspJrnlInv, TLC

DefaultConfig == {[fresh |-> FALSE, replay |-> TRUE]}

Symmetric == Permutations(Data)
=============================================================================
