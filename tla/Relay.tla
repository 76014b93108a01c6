------------------------------- MODULE Relay --------------------------------
(***************************************************************************)
(* Meta-transactions: the server builds a delegate action, the user signs   *)
(* it, and the server relays it and pays the gas (backend/src/relay,        *)
(* signAndSendTransaction of frontend/src/lib/wallet-adapter.tsx).          *)
(*                                                                         *)
(* Time passes in steps of a minute, which is the interval of the purge;    *)
(* Window stands for the five minutes of the rate limit and of the cache.   *)
(***************************************************************************)
EXTENDS Naturals, FiniteSets

CONSTANTS
    Account,
    Request,   \* requests to relay; each is prepared once
    Window,
    RateMax,   \* RATE_MAX
    MaxTime, MaxRestarts, \* bounds of the model
    Null

VARIABLES
    now,
    rateLimits, \* the times the server remembers for each account, each with
                \* the request that it counts
    request,    \* each request: where it is, its owner, delegate and age
    nonce,      \* chain: the last nonce used of each account's key
    relays,     \* chain: how often a request's delegate was sent to it
    spent,      \* history: every time at which an account got one prepared
    restarts    \* how often the server restarted

vars == <<now, rateLimits, request, nonce, relays, spent, restarts>>

New == [at |-> "new", account |-> Null, nonce |-> 0, createdAt |-> 0, age |-> 0]

Init ==
    /\ now = 1
    /\ rateLimits = [a \in Account |-> {}]
    /\ request = [r \in Request |-> New]
    /\ nonce = [a \in Account |-> 0]
    /\ relays = [r \in Request |-> 0]
    /\ spent = [a \in Account |-> {}]
    /\ restarts = 0

At(r, s) == request[r].at = s
Goto(r, s) == request' = [request EXCEPT ![r].at = s]

\* enforceRateLimit: the times within the window.
Recent_Half(times) == {t \in times : t.at + Window > now + 1}
Recent(times) == {t \in times : t.at + Window > now}

\* Calls and transfers go to the escrow contract, keys to the account itself.
Allowed(action, receiver) == receiver = IF action = "AddKey" THEN "self" ELSE "escrow"

\* A time that counts, and which of the server's lives it was in.
Time(r) == [at |-> now, request |-> r, life |-> restarts]

\* prepareDelegate up to the query of the chain; a refused action has counted.
Prepare(r, a) ==
    /\ At(r, "new")
    /\ Cardinality(Recent(rateLimits[a])) < RateMax
    /\ rateLimits' = [rateLimits EXCEPT ![a] = Recent(@) \cup {Time(r)}]
    /\ spent' = [spent EXCEPT ![a] = @ \cup {Time(r)}]
    /\ \E action \in {"FunctionCall", "Transfer", "AddKey"},
          receiver \in {"escrow", "self", "other"} :
           request' = [request EXCEPT ![r].account = a,
                         ![r].at = IF Allowed(action, receiver) THEN "query" ELSE "failed"]
    /\ UNCHANGED <<now, nonce, relays, restarts>>

\* The key's next nonce; the delegate is cached and goes to the user.
Build(r) ==
    /\ At(r, "query")
    /\ request' = [request EXCEPT ![r].at = "cached", ![r].createdAt = now,
                                  ![r].nonce = nonce[request[r].account] + 1]
    /\ UNCHANGED <<now, rateLimits, nonce, relays, spent, restarts>>

\* submitDelegate, called with the user's signature, perhaps more than once: the
\* entry is taken from the cache before the delegate is sent.
TakenOnce(r) == request[r].at = "cached"
Submit(r) ==
    /\ TakenOnce(r)
    /\ request' = [request EXCEPT ![r].at = "relaying", ![r].age = now - request[r].createdAt]
    /\ relays' = [relays EXCEPT ![r] = @ + 1]
    /\ UNCHANGED <<now, rateLimits, nonce, spent, restarts>>

\* The chain runs a delegate with a fresh nonce only.
Land(r) ==
    /\ At(r, "relaying")
    /\ LET a == request[r].account
       IN  IF request[r].nonce > nonce[a]
           THEN Goto(r, "done") /\ nonce' = [nonce EXCEPT ![a] = request[r].nonce]
           ELSE Goto(r, "failed") /\ UNCHANGED nonce
    /\ UNCHANGED <<now, rateLimits, relays, spent, restarts>>

\* A query, a signature or a delivery fails.
Fail(r) ==
    /\ request[r].at \in {"query", "relaying"}
    /\ Goto(r, "failed")
    /\ UNCHANGED <<now, rateLimits, nonce, relays, spent, restarts>>

\* purgeExpired, every minute.
Expired(r) == At(r, "cached") /\ request[r].createdAt + Window < now'
Tick ==
    /\ now < MaxTime /\ now' = now + 1
    /\ request' = [r \in Request |-> IF Expired(r) THEN [request[r] EXCEPT !.at = "failed"]
                                                   ELSE request[r]]
    /\ UNCHANGED <<rateLimits, nonce, relays, spent, restarts>>

\* The server stops and starts again: the list of times and the cache are only
\* in its memory.  What it had sent to the chain may still be run.
Forgotten(r) == request[r].at \in {"query", "cached"}
Restart ==
    /\ restarts < MaxRestarts /\ restarts' = restarts + 1
    /\ rateLimits' = [a \in Account |-> {}]
    /\ request' = [r \in Request |-> IF Forgotten(r) THEN [request[r] EXCEPT !.at = "failed"]
                                                     ELSE request[r]]
    /\ UNCHANGED <<now, nonce, relays, spent>>

Next ==
    \/ \E r \in Request : Build(r) \/ Submit(r) \/ Land(r) \/ Fail(r)
    \/ \E r \in Request, a \in Account : Prepare(r, a)
    \/ Tick \/ Restart

Spec == Init /\ [][Next]_vars

-----------------------------------------------------------------------------

\* What the relayer pays for is bounded.  Between two starts of the server, no
\* window has more than RATE_MAX delegates of an account prepared (the limit is
\* kept in memory, so that each start allows as many again); a delegate is
\* relayed once in all of them, and only until the purge that follows its five
\* minutes (enforceRateLimit, submitDelegate).
Since(a, life) == {t \in spent[a] : t.life = life}
RelayBounded ==
    /\ \A a \in Account, life \in 0 .. restarts :
           Cardinality({t \in Since(a, life) : t.at + Window > now}) <= RateMax
    /\ \A r \in Request : relays[r] <= 1 /\ request[r].age <= Window

-----------------------------------------------------------------------------
\* Why it is bounded: within the window the pruned list has every time of this
\* life, and what is in the cache was not relayed and has survived every purge.
Rows == [at : {"new", "query", "cached", "relaying", "done", "failed"},
         account : Account \cup {Null}, nonce : Nat, createdAt : Nat, age : Nat]
TypeOK ==
    /\ now \in Nat /\ restarts \in Nat
    /\ request \in [Request -> Rows] /\ nonce \in [Account -> Nat]
    /\ \A r \in Request :
           request[r].at \in {"query", "cached", "relaying"} => request[r].account \in Account
    /\ relays \in [Request -> Nat]
    /\ DOMAIN rateLimits = Account /\ DOMAIN spent = Account
    /\ \A a \in Account :
           /\ rateLimits[a] \cup spent[a] \subseteq [at : Nat, request : Request, life : Nat]
           /\ \A t \in spent[a] : t.life <= restarts

PrunedIsWhole ==
    \A a \in Account :
        /\ Recent(rateLimits[a]) = Recent(Since(a, restarts))
        /\ \A life \in Nat : /\ IsFiniteSet(Recent(Since(a, life)))
                              /\ Cardinality(Recent(Since(a, life))) <= RateMax
CachedIsFresh ==
    \A r \in Request :
        /\ relays[r] <= 1 /\ request[r].age <= Window
        /\ request[r].at \in {"new", "query", "cached"} => relays[r] = 0
        /\ At(r, "cached") => /\ request[r].createdAt <= now
                             /\ now <= request[r].createdAt + Window

RelayInv == TypeOK /\ PrunedIsWhole /\ CachedIsFresh
=============================================================================
