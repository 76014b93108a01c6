------------------------------ MODULE Accounts ------------------------------
(***************************************************************************)
(* Signing up and logging in: backend/src/auth, and in the browser the      *)
(* login and signup pages, lib/auth.tsx, the adapter of the two kinds of    *)
(* wallets (lib/wallet-adapter.tsx, lib/web3auth.tsx, lib/wallet-selector). *)
(*                                                                         *)
(* A social account signs with a key that the page derives, and is named    *)
(* after it; other accounts sign in a wallet of their own.  The handler of  *)
(* a click goes on with what the page had when it was rendered: "rendered"  *)
(* is the key it had then.  A nonce is used by one attempt only, so an      *)
(* attempt carries its own.  Signatures themselves are cryptography: one    *)
(* stands for the account whose key made it.                                *)
(***************************************************************************)
EXTENDS Naturals, FiniteSets

CONSTANTS
    Social,   \* accounts of a social login: Google's, Kakao's
    Named,    \* accounts of a NEAR wallet
    Role,
    Tab,
    MaxTries, \* bound of the model: attempts to sign up or log in
    MaxOpens, \* bound of the model: pages opened
    Null

VARIABLES
    rows,     \* the user table: [role, key] or Null
    user,     \* the account whose user and jwt the browser stores
    session,  \* the social account the browser's storage remembers
    tab,      \* each tab: its page, its wallets and its attempt
    funded,   \* how often each account was given NEAR for gas
    tries, opens,
    mixed     \* history: accounts for which another key was still rendered

vars == <<rows, user, session, tab, funded, tries, opens, mixed>>

Account == Social \cup Named
NoTry == [at |-> "none", chosen |-> Null, account |-> Null, rendered |-> Null,
          nonce |-> FALSE, intent |-> "login", role |-> Null, signer |-> Null]
Opened(page) == [page |-> page, ready |-> FALSE, connected |-> Null, key |-> Null,
                 ref |-> Null, near |-> Null, try |-> NoTry]

Init ==
    /\ rows = [a \in Account |-> Null]
    /\ user = Null /\ session = Null
    /\ tab = [t \in Tab |-> Opened("login")]
    /\ funded = [a \in Account |-> 0]
    /\ tries = 0 /\ opens = 0
    /\ mixed = {}

Put(t, r) == tab' = [tab EXCEPT ![t] = r]
PutTry(t, r) == tab' = [tab EXCEPT ![t].try = r]
At(t, s) == tab[t].try.at = s
Begin(t) == At(t, "none") /\ tries < MaxTries /\ tries' = tries + 1
Intents(page) == IF page = "login" THEN {<<"login", Null>>} ELSE {"signup"} \X Role

-----------------------------------------------------------------------------
\* The wallets.

\* A page is opened; the signup page ends the stored login.
OpenPage(t, page) ==
    /\ opens < MaxOpens /\ opens' = opens + 1
    /\ Put(t, [Opened(page) EXCEPT !.near = tab[t].near])
    /\ user' = IF page = "signup" THEN Null ELSE user
    /\ UNCHANGED <<rows, session, funded, tries, mixed>>

\* ensureInit: the remembered session is restored; its keys may be refused.
Restore(t) ==
    /\ ~tab[t].ready
    /\ \E key \in {session, Null} :
           Put(t, [tab[t] EXCEPT !.ready = TRUE, !.connected = session, !.key = key])
    /\ UNCHANGED <<rows, user, session, funded, tries, opens, mixed>>

\* signOut of both kinds; Web3Auth's only if the page knows it is connected.
SignedOut_RefKept(w) ==
    [w EXCEPT !.near = Null, !.key = Null,
              !.connected = IF w.key = Null THEN @ ELSE Null]
SignedOut(w) ==
    [w EXCEPT !.ref = Null, !.near = Null, !.key = Null,
              !.connected = IF w.key = Null THEN @ ELSE Null]
Remembered(w) == IF w.key = Null THEN session ELSE Null

\* The account chosen in the wallet selector.
ChooseWallet(t, a) ==
    /\ At(t, "none") /\ tab[t].near # a
    /\ Put(t, [tab[t] EXCEPT !.near = a])
    /\ UNCHANGED <<rows, user, session, funded, tries, opens, mixed>>

Logout(t) ==
    /\ At(t, "none") /\ user # Null
    /\ user' = Null
    /\ session' = Remembered(tab[t])
    /\ Put(t, SignedOut(tab[t]))
    /\ UNCHANGED <<rows, funded, tries, opens, mixed>>

-----------------------------------------------------------------------------
\* The pages.

\* handleSocialLogin, handleSocialSignup: any session is cleared first.
StartSocial(t, a) ==
    /\ Begin(t)
    /\ session' = Remembered(tab[t])
    /\ \E i \in Intents(tab[t].page) :
           Put(t, [SignedOut(tab[t]) EXCEPT
                     !.try = [NoTry EXCEPT !.at = "connect", !.chosen = a,
                                !.rendered = tab[t].key, !.intent = i[1], !.role = i[2]]])
    /\ UNCHANGED <<rows, user, funded, opens, mixed>>

\* connect: a provider that is still connected is used again; else the user
\* logs in at the chosen one, or closes its window.
Connect(t) ==
    LET w == tab[t]
        account == IF w.connected # Null THEN w.connected ELSE w.try.chosen
    IN  /\ At(t, "connect") /\ w.ready
        /\ Put(t, [w EXCEPT !.connected = account, !.key = account, !.ref = account,
                            !.try.account = account, !.try.at = "challenge"])
        /\ session' = account
        /\ mixed' = mixed \cup (IF w.try.rendered \in {Null, account} THEN {} ELSE {account})
        /\ UNCHANGED <<rows, user, funded, tries, opens>>

\* handleConnectWallet, with an account of the wallet selector.
StartWallet(t) ==
    LET w == tab[t]
    IN  /\ Begin(t)
        /\ w.key = Null /\ w.near # Null
        /\ \E i \in Intents(w.page) :
               PutTry(t, [NoTry EXCEPT !.at = "challenge", !.account = w.near,
                                       !.intent = i[1], !.role = i[2]])
        /\ UNCHANGED <<rows, user, session, funded, opens, mixed>>

\* doLogin: a fresh nonce, signed with the key the handler finds first.
Challenge(t) ==
    /\ At(t, "challenge")
    /\ PutTry(t, [tab[t].try EXCEPT !.nonce = TRUE, !.at = "sign"])
    /\ UNCHANGED <<rows, user, session, funded, tries, opens, mixed>>

Signer(w) ==
    IF w.try.rendered # Null THEN w.try.rendered ELSE IF w.ref # Null THEN w.ref ELSE w.near
Sign(t) ==
    /\ At(t, "sign") /\ Signer(tab[t]) # Null
    /\ PutTry(t, [tab[t].try EXCEPT !.signer = Signer(tab[t]), !.at = "verify"])
    /\ UNCHANGED <<rows, user, session, funded, tries, opens, mixed>>

-----------------------------------------------------------------------------
\* The service.

\* validateChallenge: five minutes, once; the signature fits the sent key.
Expire(t) ==
    /\ tab[t].try.nonce
    /\ PutTry(t, [tab[t].try EXCEPT !.nonce = FALSE])
    /\ UNCHANGED <<rows, user, session, funded, tries, opens, mixed>>
Verify(t) ==
    /\ At(t, "verify") /\ tab[t].try.nonce
    /\ PutTry(t, [tab[t].try EXCEPT !.nonce = FALSE, !.at = "find"])
    /\ UNCHANGED <<rows, user, session, funded, tries, opens, mixed>>

\* An existing user is answered, unless they sign up with another role; only a
\* signup creates one.
Admitted(try) ==
    LET row == rows[try.account]
    IN  row # Null /\ (try.intent = "login" \/ row.role = try.role)
Find(t) ==
    /\ At(t, "find")
    /\ \/ Admitted(tab[t].try) /\ PutTry(t, [tab[t].try EXCEPT !.at = "answer"])
       \/ /\ tab[t].try.intent = "signup" /\ rows[tab[t].try.account] = Null
          /\ PutTry(t, [tab[t].try EXCEPT !.at = "create"])
    /\ UNCHANGED <<rows, user, session, funded, tries, opens, mixed>>

\* near_account_id is unique; a new implicit account is funded.
Taken_Never(a) == FALSE
Taken(a) == rows[a] # Null
Create(t) ==
    LET try == tab[t].try
    IN  /\ At(t, "create") /\ ~Taken(try.account)
        /\ rows' = [rows EXCEPT ![try.account] = [role |-> try.role, key |-> try.signer]]
        /\ funded' = IF try.account \in Social THEN [funded EXCEPT ![try.account] = @ + 1]
                                               ELSE funded
        /\ PutTry(t, [try EXCEPT !.at = "answer"])
        /\ UNCHANGED <<user, session, tries, opens, mixed>>

\* The page stores the user and the jwt.
Answer(t) ==
    /\ At(t, "answer")
    /\ user' = tab[t].try.account
    /\ PutTry(t, NoTry)
    /\ UNCHANGED <<rows, session, funded, tries, opens, mixed>>

\* The user cancels, or a step is refused or fails.
Fail(t) ==
    /\ ~At(t, "none")
    /\ PutTry(t, NoTry)
    /\ UNCHANGED <<rows, user, session, funded, tries, opens, mixed>>

Next ==
    \E t \in Tab :
        \/ \E page \in {"login", "signup"} : OpenPage(t, page)
        \/ Restore(t) \/ Logout(t) \/ StartWallet(t) \/ Connect(t)
        \/ \E a \in Social : StartSocial(t, a)
        \/ \E a \in Named : ChooseWallet(t, a)
        \/ Challenge(t) \/ Sign(t) \/ Expire(t) \/ Verify(t) \/ Find(t) \/ Create(t)
        \/ Answer(t) \/ Fail(t)

Spec == Init /\ [][Next]_vars

-----------------------------------------------------------------------------

\* Whatever wallets a tab has seen, an account is registered with its own key,
\* or the platform could never relay a transaction of its owner; unless another
\* social account's key was still rendered when its owner clicked
\* (signMessage, connectWeb3Auth, signOut).
KeyIsAccounts == \A a \in Account \ mixed : rows[a] # Null => rows[a].key = a

\* However the signups of an account overlap, it is given NEAR once at the most,
\* and not without being registered (verify, createUser).
FundedOnce == \A a \in Account : funded[a] <= 1 /\ (funded[a] = 1 => rows[a] # Null)

-----------------------------------------------------------------------------
\* Why an account is registered with its own key: until it has signed, an attempt
\* finds the key of its account first, and then it carries it.
OrNull(S) == S \cup {Null}
Tries == [at : {"none", "connect", "challenge", "sign", "verify", "find", "create", "answer"},
          chosen : OrNull(Account), account : OrNull(Account), rendered : OrNull(Account),
          nonce : BOOLEAN, intent : {"login", "signup"}, role : OrNull(Role),
          signer : OrNull(Account)]
Tabs == [page : {"login", "signup"}, ready : BOOLEAN, connected : OrNull(Account),
         key : OrNull(Account), ref : OrNull(Account), near : OrNull(Account), try : Tries]
Row == [role : Role, key : Account]
TypeOK ==
    /\ rows \in [Account -> OrNull(Row)]
    /\ session \in OrNull(Account)
    /\ tab \in [Tab -> Tabs]
    /\ funded \in [Account -> Nat]
    /\ mixed \subseteq Account

Underway(try) == try.at \in {"challenge", "sign", "verify", "find", "create", "answer"}
Tracks(w) ==
    /\ w.ref # Null => w.ready /\ w.key # Null
    /\ w.try.at = "connect" => w.try.chosen \in Account
    /\ Underway(w.try) => w.try.account \in Account
    /\ w.try.intent = "signup" => w.try.role \in Role
    /\ w.try.at = "create" => w.try.intent = "signup"
    /\ w.try.at \in {"verify", "find", "create"} => w.try.signer \in Account
    /\ w.try.account \notin mixed =>
         /\ w.try.at \in {"challenge", "sign"} => Signer(w) = w.try.account
         /\ w.try.at \in {"verify", "find", "create"} => w.try.signer = w.try.account

AccountsInv == TypeOK /\ (\A t \in Tab : Tracks(tab[t])) /\ KeyIsAccounts /\ FundedOnce
=============================================================================
