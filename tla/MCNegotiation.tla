---------------------------- MODULE MCNegotiation ---------------------------
(***************************************************************************)
(* Small instances of Negotiation: one start request per session           *)
(* (MCNegotiation.cfg), two for the same one (MCNegotiationLive.cfg), or a *)
(* single one (MCDirectionApplied.cfg).                                    *)
(***************************************************************************)
EXTENDS Negotiation, TLC

CONSTANTS s1, s2, x1, x2

OnePerSession == (x1 :> s1) @@ (x2 :> s2)
BothForOne == (x1 :> s1) @@ (x2 :> s1)
JustOne == x1 :> s1
=============================================================================
