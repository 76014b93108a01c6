----------------------------- MODULE MCMatching -----------------------------
(***************************************************************************)
(* A small instance of Matching: one seeker passes the filters for the job *)
(* of each of two employers, one of which names no minimal salary; the     *)
(* third has no job, but may buy the profile.  Short account ids fit the   *)
(* hash column, that of a Web3Auth user (64 digits), the third, does not.  *)
(* HighSalary is 10 to 12, which does not overlap 1 to 9.                  *)
(*                                                                         *)
(* FewIncidents keeps a behaviour to one failure or one change of a        *)
(* status, and the answers of the reranker, while calls overlap, to such   *)
(* as name each pair once.                                                 *)
(***************************************************************************)
EXTENDS Matching, TLC

CONSTANTS s1, j1, j2, e1, e2, e3, a, b

Employers == [j \in Job |-> IF j = j1 THEN e1 ELSE e2]

Offer(min, max, skills) == [min |-> min, max |-> max, skills |-> skills]
Resumes == [s \in Seeker |-> Offer(<<4>>, <<9>>, {a})]
HighSalary == [s \in Seeker |-> Offer(<<1, 0>>, <<1, 2>>, {a})]
Postings == [j \in Job |-> IF j = j1 THEN Offer(<<1>>, <<9>>, {a, b})
                                     ELSE Offer(Null, <<6>>, {a})]
CallSymmetry == Permutations(Call)

FewIncidents ==
    /\ faults + relisted <= 1
    /\ overlapped => twice = {} /\ relisted = 0

NameLengths == [u \in User |-> IF u = e3 THEN 64 ELSE 22]
=============================================================================
