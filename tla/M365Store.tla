----------------------------- MODULE M365Store -----------------------------
(***************************************************************************)
(* The accounts of the built-in M365 supplier: the store and its refresh   *)
(* of tokens (m365/auth_cache.go), and the rotation over the accounts      *)
(* (pickAccount in m365/engine.go).                                        *)
(*                                                                         *)
(* A caller asks for an account: it steps through the rotation at most     *)
(* once, and each account it meets is made valid, which may mean a refresh *)
(* upstream.  One refresh per account is under way; the others wait for    *)
(* its outcome.  Every method is one critical section, except EnsureValid, *)
(* which unlocks with a copy of the account before it refreshes.           *)
(*                                                                         *)
(* A token is a number.  It is stale once what remains of its life is at   *)
(* most the threshold of EnsureValid.                                      *)
(***************************************************************************)
EXTENDS Integers, Sequences, FiniteSets

CONSTANTS
    Ids,        \* accounts that may be in the store
    Callers,    \* requests that ask for an account
    Free,       \* no caller
    NoId,       \* no account
    MaxTokens   \* bound: tokens issued, the stored ones included

ASSUME StoreAssumption == Free \notin Callers /\ NoId \notin Ids /\ MaxTokens \in Nat

VARIABLES
    accounts,  \* Store.data.Accounts
    nextIdx,   \* Store.nextIdx
    inflight,  \* Store.inflight: the caller that refreshes the account
    issued,    \* tokens issued so far
    stale,     \* stored tokens that are (nearly) expired
    at,        \* per caller: where pickAccount is
    tries,     \* per caller: rounds left of its loop
    who,       \* per caller: the account it has at hand
    got,       \* per caller: the token a refresh brought or that it picked
    before     \* history, per caller: tokens that were stale when it asked

storeVars == <<accounts, nextIdx, inflight, issued, stale>>
callerVars == <<at, tries, who, got, before>>
m365Vars == <<storeVars, callerVars>>

Tokens == 1 .. MaxTokens

Account == [id : Ids, status : {"online", "expired"}, token : Tokens, renewable : BOOLEAN]

\* The outcome of a refresh that failed.
Error == 0

Positions(id) == {i \in DOMAIN accounts : accounts[i].id = id}
Stored(id) == Positions(id) # {}
Lookup(id) == accounts[CHOOSE i \in Positions(id) : TRUE]
StoredTokens == {accounts[i].token : i \in DOMAIN accounts}

\* Deviation: the mark is trusted, not the time.
FreshIfOnline(a) == a.status = "online"

\* EnsureValid returns such an account as it is.
Fresh(a) == a.token \notin stale

-----------------------------------------------------------------------------
\* The store.

\* The account of that name is marked, if it is (still) there.
Expired(id) == [i \in DOMAIN accounts |->
                    IF accounts[i].id = id THEN [accounts[i] EXCEPT !.status = "expired"]
                    ELSE accounts[i]]

\* Upsert: the account is replaced where it is, or appended.  Without a new
\* refresh token it keeps the one it has.
Upserted(id, token, renewable) ==
    LET new == [id |-> id, status |-> "online", token |-> token,
                renewable |-> renewable \/ (Stored(id) /\ Lookup(id).renewable)]
    IN  IF Stored(id) THEN [i \in DOMAIN accounts |-> IF accounts[i].id = id THEN new ELSE accounts[i]]
        ELSE Append(accounts, new)

IssueToken == issued < MaxTokens /\ issued' = issued + 1

\* CompleteAuth and ProvisionAccount: somebody logs in.
Login(id) ==
    /\ IssueToken
    /\ \E renewable \in BOOLEAN : accounts' = Upserted(id, issued', renewable)
    /\ UNCHANGED <<nextIdx, inflight, stale, callerVars>>

\* DeleteAccount.  The rest moves up; the index stays.
Delete(id) ==
    /\ \E i \in Positions(id) :
           accounts' = SubSeq(accounts, 1, i - 1) \o SubSeq(accounts, i + 1, Len(accounts))
    /\ UNCHANGED <<nextIdx, inflight, issued, stale, callerVars>>

\* A token nears its end.  It lives for an hour or so: not so short that it
\* ends while the refresh that brought it is being wound up.
Age(t) ==
    /\ t \in StoredTokens \ stale
    /\ \A c \in Callers : at[c] = "closing" => got[c] # t
    /\ stale' = stale \cup {t}
    /\ UNCHANGED <<accounts, nextIdx, inflight, issued, callerVars>>

-----------------------------------------------------------------------------
\* A caller in pickAccount.

GoTo(c, place) == at' = [at EXCEPT ![c] = place]

\* The loop runs as often as there are accounts at the start.
Ask(c) ==
    /\ at[c] = "idle"
    /\ GoTo(c, IF accounts = <<>> THEN "refused" ELSE "next")
    /\ tries' = [tries EXCEPT ![c] = Len(accounts)]
    /\ before' = [before EXCEPT ![c] = stale]
    /\ UNCHANGED <<storeVars, who, got>>

\* Next: the rotation is shared by all callers.
Rotate(c) ==
    /\ at[c] = "next" /\ tries[c] > 0 /\ accounts # <<>>
    /\ LET n == Len(accounts) IN
        /\ who' = [who EXCEPT ![c] = accounts[(nextIdx % n) + 1].id]
        /\ nextIdx' = (nextIdx + 1) % n
    /\ tries' = [tries EXCEPT ![c] = @ - 1]
    /\ GoTo(c, "ensure")
    /\ UNCHANGED <<accounts, inflight, issued, stale, got, before>>

\* The loop is over, or the store is empty.
GiveUp(c) ==
    /\ at[c] = "next" /\ (tries[c] = 0 \/ accounts = <<>>)
    /\ GoTo(c, "refused")
    /\ UNCHANGED <<storeVars, tries, who, got, before>>

\* The account at hand will not do: on to the next round.
PassOver(c) ==
    /\ GoTo(c, "next")
    /\ who' = [who EXCEPT ![c] = NoId]
    /\ got' = [got EXCEPT ![c] = Error]
    /\ UNCHANGED <<tries, before>>

Take(c, token) ==
    /\ GoTo(c, "picked")
    /\ got' = [got EXCEPT ![c] = token]
    /\ UNCHANGED <<tries, who, before>>

\* A valid account is taken, unless neither it nor its token names a tenant.
Weigh(c, token) == Take(c, token) \/ PassOver(c)

Gone(c) == ~Stored(who[c])
Current(c) == Lookup(who[c])

\* EnsureValid returns a fresh account whatever its mark says, and pickAccount
\* passes a marked one over.
EnsureValid(c) ==
    /\ at[c] = "ensure" /\ ~Gone(c) /\ Fresh(Current(c))
    /\ IF Current(c).status = "expired" THEN PassOver(c) ELSE Weigh(c, Current(c).token)
    /\ UNCHANGED storeVars

EnsureGone(c) == at[c] = "ensure" /\ Gone(c) /\ PassOver(c) /\ UNCHANGED storeVars

\* Nobody can refresh it.
EnsureExpired(c) ==
    /\ at[c] = "ensure" /\ ~Gone(c) /\ ~Fresh(Current(c)) /\ ~Current(c).renewable
    /\ accounts' = Expired(who[c])
    /\ PassOver(c)
    /\ UNCHANGED <<nextIdx, inflight, issued, stale>>

\* It unlocks with a copy; what it sends upstream is the token in that copy,
\* which need not be the stored one any more.
EnsureRefresh(c) ==
    /\ at[c] = "ensure" /\ ~Gone(c) /\ ~Fresh(Current(c)) /\ Current(c).renewable
    /\ GoTo(c, "refresh")
    /\ UNCHANGED <<storeVars, tries, who, got, before>>

\* Deviation: nobody is looked up.
LeadAnyway(c) ==
    /\ at[c] = "refresh"
    /\ inflight' = [inflight EXCEPT ![who[c]] = c]
    /\ GoTo(c, "upstream")
    /\ UNCHANGED <<accounts, nextIdx, issued, stale, tries, who, got, before>>

\* refreshInflight: look up and enter in one critical section.
Lead(c) ==
    /\ at[c] = "refresh" /\ inflight[who[c]] = Free
    /\ inflight' = [inflight EXCEPT ![who[c]] = c]
    /\ GoTo(c, "upstream")
    /\ UNCHANGED <<accounts, nextIdx, issued, stale, tries, who, got, before>>

\* `done` may be closed already.
Join(c) ==
    /\ at[c] = "refresh" /\ inflight[who[c]] # Free
    /\ LET leader == inflight[who[c]] IN
        IF at[leader] = "closing" THEN got' = [got EXCEPT ![c] = got[leader]] /\ GoTo(c, "returned")
        ELSE UNCHANGED got /\ GoTo(c, "waiting")
    /\ UNCHANGED <<storeVars, tries, who, before>>

\* The outcome is set and `done` closed, which wakes whoever waits.
Wake(c, outcome) ==
    LET woken == {w \in Callers : at[w] = "waiting" /\ inflight[who[w]] = c} IN
    /\ at' = [w \in Callers |-> IF w = c THEN "closing" ELSE IF w \in woken THEN "returned" ELSE at[w]]
    /\ got' = [w \in Callers |-> IF w \in woken \cup {c} THEN outcome ELSE got[w]]
    /\ UNCHANGED <<tries, who, before>>

RefreshFails(c) ==
    /\ at[c] = "upstream"
    /\ accounts' = Expired(who[c])
    /\ Wake(c, Error)
    /\ UNCHANGED <<nextIdx, inflight, issued, stale>>

\* The file may not be written: the callers get that error although the account
\* in memory is the new one.
RefreshSucceeds(c) ==
    /\ at[c] = "upstream"
    /\ IssueToken
    /\ \E renewable, saved \in BOOLEAN :
        /\ accounts' = Upserted(who[c], issued', renewable)
        /\ Wake(c, IF saved THEN issued' ELSE Error)
    /\ UNCHANGED <<nextIdx, inflight, stale>>

\* The entry goes in a critical section of its own.
Close(c) ==
    /\ at[c] = "closing"
    /\ inflight' = [inflight EXCEPT ![who[c]] = Free]
    /\ GoTo(c, "returned")
    /\ UNCHANGED <<accounts, nextIdx, issued, stale, tries, who, got, before>>

TakeOutcome(c) ==
    /\ at[c] = "returned"
    /\ IF got[c] = Error THEN PassOver(c) ELSE Weigh(c, got[c])
    /\ UNCHANGED storeVars

\* The request ends, with an account or without; another one comes.
Leave(c) ==
    /\ at[c] \in {"picked", "refused"}
    /\ GoTo(c, "idle")
    /\ tries' = [tries EXCEPT ![c] = 0]
    /\ who' = [who EXCEPT ![c] = NoId]
    /\ got' = [got EXCEPT ![c] = Error]
    /\ before' = [before EXCEPT ![c] = {}]
    /\ UNCHANGED storeVars

Pick(c) ==
    \/ Rotate(c) \/ GiveUp(c)
    \/ EnsureGone(c) \/ EnsureValid(c) \/ EnsureExpired(c) \/ EnsureRefresh(c)
    \/ Lead(c) \/ Join(c) \/ Close(c) \/ TakeOutcome(c)

Upstream(c) == RefreshFails(c) \/ RefreshSucceeds(c)

Others == \/ \E id \in Ids : Login(id) \/ Delete(id)
          \/ \E t \in Tokens : Age(t)

\* OpenStore.  The file holds some accounts and may be old: any of its tokens
\* may be stale, any account marked or without a refresh token.
StoreInit ==
    /\ \E n \in 0 .. Cardinality(Ids) : accounts \in
           {as \in [1 .. n -> Account] :
               /\ \A i, j \in 1 .. n : as[i].id = as[j].id => i = j
               /\ \A i \in 1 .. n : as[i].token = i}
    /\ nextIdx = 0
    /\ inflight = [id \in Ids |-> Free]
    /\ issued = Len(accounts)
    /\ stale \in SUBSET (1 .. issued)
    /\ at = [c \in Callers |-> "idle"]
    /\ tries = [c \in Callers |-> 0]
    /\ who = [c \in Callers |-> NoId]
    /\ got = [c \in Callers |-> Error]
    /\ before = [c \in Callers |-> {}]

StoreNext == (\E c \in Callers : Ask(c) \/ Pick(c) \/ Upstream(c) \/ Leave(c)) \/ Others

StoreSpec == StoreInit /\ [][StoreNext]_m365Vars

-----------------------------------------------------------------------------
\* Properties.

Places == {"idle", "next", "ensure", "refresh", "upstream", "waiting",
           "closing", "returned", "picked", "refused"}
AtHand == {"ensure", "refresh", "upstream", "waiting", "closing", "returned", "picked"}

\* Every variable has its type, and a caller has an account at hand exactly
\* while it works on one.
StoreTypeOK ==
    /\ accounts \in Seq(Account)
    /\ nextIdx \in Nat
    /\ inflight \in [Ids -> Callers \cup {Free}]
    /\ issued \in 0 .. MaxTokens
    /\ stale \subseteq Tokens
    /\ at \in [Callers -> Places]
    /\ tries \in [Callers -> Nat]
    /\ who \in [Callers -> Ids \cup {NoId}]
    /\ got \in [Callers -> Tokens \cup {Error}]
    /\ before \in [Callers -> SUBSET Tokens]
    /\ \A c \in Callers : at[c] \in AtHand <=> who[c] # NoId

\* At most one refresh of an account is under way, and its entry says whose;
\* whoever waits, waits for one that will still wake it.  (refreshInflight.)
SingleFlight ==
    /\ \A c \in Callers, id \in Ids :
           inflight[id] = c <=> at[c] \in {"upstream", "closing"} /\ who[c] = id
    /\ \A c \in Callers : at[c] = "waiting" =>
           inflight[who[c]] # Free /\ at[inflight[who[c]]] = "upstream"

\* The token a request goes out with was not near its end when the request
\* asked: it is fresh from the store, or newer than the call.
TokenWasFresh == \A c \in Callers : at[c] = "picked" => got[c] \notin before[c]

=============================================================================
