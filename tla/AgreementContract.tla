------------------------- MODULE AgreementContract --------------------------
(***************************************************************************)
(* The smart contract that keeps the agreements                            *)
(* (contract/agreement/src/lib.rs).  A call that panics changes nothing, so *)
(* only the calls that pass every assertion are steps.                     *)
(*                                                                         *)
(* A text is a sequence of tokens, so that the canonical form of a summary  *)
(* is what format! makes of it: a text may itself contain the colon.  The   *)
(* hash and the signatures are ideal: each tells what it was made of.       *)
(***************************************************************************)
EXTENDS Naturals, Sequences

CONSTANTS
    Account,
    Session,
    Summary,  \* the summaries that are agreed on, each field a text
    Key,      \* the Ed25519 key pairs
    Null      \* None, or an empty signature

VARIABLES
    owner,        \* who deployed the contract
    system_agent, \* the agent that may record for the parties, or Null
    agreements    \* the record of each session, or Null

vars == <<owner, system_agent, agreements>>

\* format!("{}:{}:{}:{}").
canonical_summary_bytes(summary) ==
    summary.position_title \o <<":">> \o summary.agreed_salary \o <<":">>
        \o summary.start_date \o <<":">> \o summary.negotiation_rounds

Sha256(bytes) == [digest |-> bytes]
Signed(key, bytes) == [key |-> key, bytes |-> bytes]

\* The arguments of record_agreement.
Arguments(session, hash, summary, seeker, employer, seekerSig, employerSig, seekerKey, employerKey) ==
    [session_id |-> session, agreement_hash |-> hash, summary |-> summary,
     seeker_account |-> seeker, employer_account |-> employer,
     seeker_signature |-> seekerSig, employer_signature |-> employerSig,
     seeker_public_key |-> seekerKey, employer_public_key |-> employerKey]

Init ==
    /\ owner \in Account
    /\ system_agent = Null
    /\ agreements = [s \in Session |-> Null]

set_system_agent(caller, agent) ==
    /\ caller = owner
    /\ system_agent' = agent
    /\ UNCHANGED <<owner, agreements>>

MayRecord(caller, call) ==
    caller \in {call.seeker_account, call.employer_account, system_agent}

Vacant_Ignored(call) == TRUE
Vacant(call) == agreements[call.session_id] = Null

\* The hash and both signatures are those of the canonical summary.
Genuine(call) ==
    LET bytes == canonical_summary_bytes(call.summary)
    IN  /\ call.seeker_signature # Null /\ call.employer_signature # Null
        /\ call.agreement_hash = Sha256(bytes)
        /\ call.seeker_signature = Signed(call.seeker_public_key, bytes)
        /\ call.employer_signature = Signed(call.employer_public_key, bytes)

Accepted(caller, call) == MayRecord(caller, call) /\ Vacant(call) /\ Genuine(call)

record_agreement(caller, call) ==
    /\ Accepted(caller, call)
    /\ agreements' = [agreements EXCEPT ![call.session_id] = call]
    /\ UNCHANGED <<owner, system_agent>>

\* Calls with the hash and the signatures of one summary, perhaps not their own.
Attempt ==
    {Arguments(s, Sha256(b), m, x, y, IF none THEN Null ELSE Signed(k, b), Signed(l, b), k, l) :
        s \in Session, b \in {canonical_summary_bytes(m) : m \in Summary}, m \in Summary,
        x \in Account, y \in Account, none \in BOOLEAN, k \in Key, l \in Key}

Next ==
    \/ \E caller, agent \in Account : set_system_agent(caller, agent)
    \/ \E caller \in Account, call \in Attempt : record_agreement(caller, call)

Spec == Init /\ [][Next]_vars

-----------------------------------------------------------------------------

\* A record is never written over, whoever calls and whatever agent the owner
\* appoints later (record_agreement).
RecordsAreFinal ==
    [][\A s \in Session : agreements[s] # Null => agreements'[s] = agreements[s]]_vars
=============================================================================
