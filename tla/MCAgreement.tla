---------------------------- MODULE MCAgreement -----------------------------
(***************************************************************************)
(* Four overlapping calls on one agreement.  first approves, confirm       *)
(* records a transaction, any1 and any2 ask for anything: among these are  *)
(* two approvals, a confirmTx and a rejection, which take a session to     *)
(* FAILED and back to AGREED.  Who calls confirmTx does not matter to the  *)
(* code, so one user stands for all.                                       *)
(***************************************************************************)
EXTENDS Agreement, TLC

CONSTANTS first, any1, any2, confirm

Asked ==
    first   :> {r \in Request : r.kind = "approve"} @@
    any1    :> {r \in Request : r.kind = "confirm" => r.user = Employer} @@
    any2    :> {r \in Request : r.kind = "confirm" => r.user = Employer} @@
    confirm :> {r \in Request : r.kind = "confirm" /\ r.user = Employer}

MixedNext ==
    \E c \in Call : (\E r \in Asked[c] : Begin(c, r)) \/ Run(c) \/ Abort(c)

MixedSpec == Init /\ [][MixedNext]_vars /\ Fairness
=============================================================================
