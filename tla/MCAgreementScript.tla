------------------------- MODULE MCAgreementScript --------------------------
(***************************************************************************)
(* Two approvals, a confirmTx and two rejections of one agreement: five    *)
(* calls, each with its request given, which keeps the instance small.     *)
(***************************************************************************)
EXTENDS Agreement, TLC

CONSTANTS approve1, approve2, confirm, reject1, reject2, t1

Script ==
    approve1 :> [kind |-> "approve", user |-> Seeker,   tx |-> Null] @@
    approve2 :> [kind |-> "approve", user |-> Employer, tx |-> Null] @@
    confirm  :> [kind |-> "confirm", user |-> Employer, tx |-> t1] @@
    reject1  :> [kind |-> "reject",  user |-> Seeker,   tx |-> Null] @@
    reject2  :> [kind |-> "reject",  user |-> Employer, tx |-> Null]

ScriptedSpec ==
    Init /\ [][\E c \in Call : Begin(c, Script[c]) \/ Run(c)]_vars
=============================================================================
