--------------------------- MODULE MCOutboundFence ---------------------------
(* Small instances of the outbound fence for TLC.                          *)
EXTENDS OutboundFence, TLC

CONSTANTS d1, d2, s1, s2, f1, f2, a1, a2

OneFirm == [f \in Fences |-> a1]
OwnFirm == (f1 :> a1) @@ (f2 :> a2)

DispatcherSymmetry == Permutations(Dispatchers)
ActorSymmetry == Permutations(Dispatchers) \cup Permutations(Fences)
=============================================================================
