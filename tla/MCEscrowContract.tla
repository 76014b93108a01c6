-------------------------- MODULE MCEscrowContract --------------------------
(***************************************************************************)
(* A small instance of EscrowContract.  Two employers share the contract,  *)
(* e2 is also a seeker (an account may earn on one side and pay on the     *)
(* other), and prices 5 and 2 make the 80% share exact in one case and     *)
(* rounded in the other.  e1 can afford three views at 2, one more than    *)
(* the access list keeps.  Money is conserved and fees leave the cycle, so *)
(* the behaviours are finite without a bound on the number of calls.       *)
(***************************************************************************)
EXTENDS EscrowContract, TLC

CONSTANTS e1, e2, s1, owner

MCAccount == {e1, e2, s1, owner}

MCInitialWallet == (e1 :> 7) @@ (e2 :> 3) @@ (s1 :> 0) @@ (owner :> 0)
=============================================================================
