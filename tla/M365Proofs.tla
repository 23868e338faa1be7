----------------------------- MODULE M365Proofs -----------------------------
(***************************************************************************)
(* Theorems about M365Store and M365Bridge.                                *)
(***************************************************************************)
EXTENDS M365Bridge, SequenceTheorems, TLAPS

LEMMA Modulus == \A a \in Nat, n \in Nat : n > 0 => a % n \in 0 .. n - 1
  OBVIOUS

\* What a rotation finds is a stored account.
LEMMA RotationFinds ==
  ASSUME StoreTypeOK, accounts # <<>>
  PROVE  /\ Len(accounts) \in Nat \ {0}
         /\ accounts[(nextIdx % Len(accounts)) + 1] \in Account
         /\ (nextIdx + 1) % Len(accounts) \in Nat
  <1>1. accounts \in Seq(Account) /\ nextIdx \in Nat  BY DEF StoreTypeOK
  <1>2. Len(accounts) \in Nat \ {0}  BY <1>1
  <1>3. /\ nextIdx % Len(accounts) \in 0 .. Len(accounts) - 1
        /\ (nextIdx + 1) % Len(accounts) \in Nat
    BY <1>1, <1>2, Modulus
  <1>4. (nextIdx % Len(accounts)) + 1 \in 1 .. Len(accounts)  BY <1>2, <1>3
  <1> QED  BY <1>1, <1>2, <1>3, <1>4

\* The store keeps its type when an account is marked, put or deleted.
LEMMA ExpiredType ==
  ASSUME accounts \in Seq(Account), NEW id \in Ids
  PROVE  Expired(id) \in Seq(Account)
  <1>1. \A a \in Account : [a EXCEPT !.status = "expired"] \in Account  BY DEF Account
  <1>2. DOMAIN accounts = 1 .. Len(accounts) /\ Len(accounts) \in Nat
    OBVIOUS
  <1>3. \A i \in DOMAIN accounts :
           (IF accounts[i].id = id THEN [accounts[i] EXCEPT !.status = "expired"] ELSE accounts[i]) \in Account
    BY <1>1
  <1>4. Expired(id) \in [1 .. Len(accounts) -> Account]  BY <1>2, <1>3 DEF Expired
  <1> QED  BY <1>2, <1>4

LEMMA UpsertedType ==
  ASSUME accounts \in Seq(Account), NEW id \in Ids, NEW token \in Tokens, NEW renewable \in BOOLEAN
  PROVE  Upserted(id, token, renewable) \in Seq(Account)
  <1> DEFINE new == [id |-> id, status |-> "online", token |-> token,
                     renewable |-> renewable \/ (Stored(id) /\ Lookup(id).renewable)]
  <1>1. new \in Account  BY DEF Account
  <1>2. CASE Stored(id)  BY <1>1, <1>2 DEF Upserted
  <1>3. CASE ~Stored(id)  BY <1>1, <1>3 DEF Upserted
  <1> QED  BY <1>2, <1>3

LEMMA DeletedType ==
  ASSUME accounts \in Seq(Account), NEW i \in DOMAIN accounts
  PROVE  SubSeq(accounts, 1, i - 1) \o SubSeq(accounts, i + 1, Len(accounts)) \in Seq(Account)
  <1>1. i \in 1 .. Len(accounts) /\ Len(accounts) \in Nat  OBVIOUS
  <1>2. SubSeq(accounts, 1, i - 1) \in Seq(Account)  BY <1>1
  <1>3. SubSeq(accounts, i + 1, Len(accounts)) \in Seq(Account)  BY <1>1
  <1> QED  BY <1>2, <1>3

-----------------------------------------------------------------------------

LEMMA TypeInit == StoreInit => StoreTypeOK
  <1> SUFFICES ASSUME StoreInit PROVE StoreTypeOK  OBVIOUS
  <1>1. PICK n \in 0 .. Cardinality(Ids) :
            accounts \in {as \in [1 .. n -> Account] :
               /\ \A i, j \in 1 .. n : as[i].id = as[j].id => i = j
               /\ \A i \in 1 .. n : as[i].token = i}
    BY DEF StoreInit
  <1>2. accounts \in Seq(Account) /\ Len(accounts) = n /\ n \in Nat
    BY <1>1
  <1>3. n <= MaxTokens
    <2>1. CASE n = 0  BY <2>1, StoreAssumption
    <2>2. CASE n # 0
      <3>1. accounts[n] \in Account /\ accounts[n].token = n  BY <1>1, <1>2, <2>2
      <3> QED  BY <3>1, <1>2, StoreAssumption DEF Account, Tokens
    <2> QED  BY <2>1, <2>2
  <1>4. issued \in 0 .. MaxTokens /\ stale \subseteq Tokens
    BY <1>2, <1>3, StoreAssumption DEF StoreInit, Tokens
  <1> QED
    BY <1>2, <1>4, StoreAssumption DEF StoreInit, StoreTypeOK, Places, AtHand, Error, Tokens

\* A step that changes one caller's place, and perhaps the account it has at
\* hand, its tries, its token and its history, but nothing in the store.
LEMMA TypePlace ==
  ASSUME StoreTypeOK, NEW c \in Callers, NEW place \in Places,
         UNCHANGED storeVars,
         GoTo(c, place),
         tries' \in [Callers -> Nat],
         who' \in [Callers -> Ids \cup {NoId}],
         \A d \in Callers \ {c} : who'[d] = who[d],
         place \in AtHand <=> who'[c] # NoId,
         got' \in [Callers -> Tokens \cup {Error}],
         before' \in [Callers -> SUBSET Tokens]
  PROVE  StoreTypeOK'
  <1>1. at' \in [Callers -> Places] /\ at'[c] = place
        /\ \A d \in Callers \ {c} : at'[d] = at[d]
    BY DEF StoreTypeOK, GoTo
  <1> QED  BY <1>1 DEF StoreTypeOK, storeVars

LEMMA TypeStep == StoreTypeOK /\ [StoreNext]_m365Vars => StoreTypeOK'
  <1> SUFFICES ASSUME StoreTypeOK, [StoreNext]_m365Vars PROVE StoreTypeOK'  OBVIOUS
  <1> USE DEF AtHand, Places
  <1>0. NoId \notin Ids /\ Free \notin Callers /\ MaxTokens \in Nat  BY StoreAssumption
  <1>1. ASSUME NEW c \in Callers, Ask(c) PROVE StoreTypeOK'
    <2>1. Len(accounts) \in Nat  BY DEF StoreTypeOK
    <2> QED  BY <1>1, <2>1, TypePlace DEF Ask, StoreTypeOK, GoTo, storeVars
  <1>2. ASSUME NEW c \in Callers, Rotate(c) PROVE StoreTypeOK'
    <2>1. /\ accounts[(nextIdx % Len(accounts)) + 1].id \in Ids
          /\ (nextIdx + 1) % Len(accounts) \in Nat
      BY <1>2, RotationFinds DEF Rotate, Account
    <2>2. tries[c] - 1 \in Nat  BY <1>2 DEF Rotate, StoreTypeOK
    <2> QED  BY <1>0, <1>2, <2>1, <2>2 DEF Rotate, StoreTypeOK, GoTo
  <1>3. ASSUME NEW c \in Callers, GiveUp(c) PROVE StoreTypeOK'
    BY <1>3, TypePlace DEF GiveUp, StoreTypeOK, GoTo, storeVars
  <1>4. ASSUME NEW c \in Callers, PassOver(c), UNCHANGED storeVars PROVE StoreTypeOK'
    BY <1>4, TypePlace DEF PassOver, StoreTypeOK, storeVars
  <1>5. ASSUME NEW c \in Callers, EnsureValid(c) PROVE StoreTypeOK'
    <2>1. Current(c).token \in Tokens
      <3>1. DOMAIN accounts = 1 .. Len(accounts) /\ Positions(who[c]) # {}
        BY <1>5 DEF EnsureValid, Gone, Stored, StoreTypeOK
      <3>2. PICK i \in DOMAIN accounts : Current(c) = accounts[i]
        BY <3>1 DEF Current, Lookup, Positions
      <3>3. accounts[i] \in Account  BY <3>1 DEF StoreTypeOK
      <3> QED  BY <3>2, <3>3 DEF Account
    <2>2. CASE Current(c).status = "expired"  BY <1>4, <1>5, <2>2 DEF EnsureValid
    <2>3. CASE Current(c).status # "expired"
      <3>1. Weigh(c, Current(c).token) /\ UNCHANGED storeVars /\ at[c] = "ensure"
        BY <1>5, <2>3 DEF EnsureValid
      <3>2. CASE Take(c, Current(c).token)
        BY <2>1, <3>1, <3>2, TypePlace DEF Take, StoreTypeOK, storeVars
      <3> QED  BY <1>4, <3>1, <3>2 DEF Weigh
    <2> QED  BY <2>2, <2>3
  <1>6. ASSUME NEW c \in Callers, EnsureGone(c) PROVE StoreTypeOK'
    BY <1>4, <1>6 DEF EnsureGone
  <1>7. ASSUME NEW c \in Callers, EnsureExpired(c) PROVE StoreTypeOK'
    <2>1. who[c] \in Ids  BY <1>7 DEF EnsureExpired, StoreTypeOK
    <2>2. accounts' \in Seq(Account)  BY <1>7, <2>1, ExpiredType DEF EnsureExpired, StoreTypeOK
    <2> QED  BY <1>0, <1>7, <2>2 DEF EnsureExpired, PassOver, GoTo, StoreTypeOK
  <1>8. ASSUME NEW c \in Callers, EnsureRefresh(c) PROVE StoreTypeOK'
    BY <1>8, TypePlace DEF EnsureRefresh, StoreTypeOK, GoTo, storeVars
  <1>9. ASSUME NEW c \in Callers, Lead(c) PROVE StoreTypeOK'
    BY <1>9 DEF Lead, StoreTypeOK, GoTo
  <1>10. ASSUME NEW c \in Callers, Join(c) PROVE StoreTypeOK'
    <2>1. inflight[who[c]] \in Callers  BY <1>10 DEF Join, StoreTypeOK
    <2>2. CASE at[inflight[who[c]]] = "closing"
      <3>1. got' \in [Callers -> Tokens \cup {Error}]  BY <1>10, <2>1, <2>2 DEF Join, StoreTypeOK
      <3> QED  BY <1>10, <2>2, <3>1, TypePlace DEF Join, StoreTypeOK, GoTo, storeVars
    <2>3. CASE at[inflight[who[c]]] # "closing"
      BY <1>10, <2>3, TypePlace DEF Join, StoreTypeOK, GoTo, storeVars
    <2> QED  BY <2>2, <2>3
  <1>11. ASSUME NEW c \in Callers, at[c] = "upstream", NEW outcome \in Tokens \cup {Error},
                Wake(c, outcome), accounts' \in Seq(Account), issued' \in 0 .. MaxTokens,
                UNCHANGED <<nextIdx, inflight, stale>>
         PROVE  StoreTypeOK'
    <2>1. /\ at' \in [Callers -> Places]
          /\ \A d \in Callers : at'[d] \in AtHand <=> at[d] \in AtHand
      BY <1>11 DEF Wake, StoreTypeOK
    <2>2. got' \in [Callers -> Tokens \cup {Error}]  BY <1>11 DEF Wake, StoreTypeOK
    <2>3. UNCHANGED <<tries, who, before>>  BY <1>11 DEF Wake
    <2> QED  BY <1>11, <2>1, <2>2, <2>3 DEF StoreTypeOK
  <1>12. ASSUME NEW c \in Callers, RefreshFails(c) PROVE StoreTypeOK'
    <2>1. who[c] \in Ids  BY <1>12 DEF RefreshFails, StoreTypeOK
    <2>2. accounts' \in Seq(Account)  BY <1>12, <2>1, ExpiredType DEF RefreshFails, StoreTypeOK
    <2> QED  BY <1>11, <1>12, <2>2 DEF RefreshFails, StoreTypeOK
  <1>13. issued < MaxTokens => issued + 1 \in Tokens /\ issued + 1 \in 0 .. MaxTokens
    BY <1>0 DEF StoreTypeOK, Tokens
  <1>14. ASSUME NEW c \in Callers, RefreshSucceeds(c) PROVE StoreTypeOK'
    <2>1. who[c] \in Ids  BY <1>14 DEF RefreshSucceeds, StoreTypeOK
    <2>2. issued' \in Tokens /\ issued' \in 0 .. MaxTokens
      BY <1>13, <1>14 DEF RefreshSucceeds, IssueToken
    <2>3. PICK renewable \in BOOLEAN, saved \in BOOLEAN :
              /\ accounts' = Upserted(who[c], issued', renewable)
              /\ Wake(c, IF saved THEN issued' ELSE Error)
      BY <1>14 DEF RefreshSucceeds
    <2>4. accounts' \in Seq(Account)  BY <2>1, <2>2, <2>3, UpsertedType DEF StoreTypeOK
    <2> QED  BY <1>11, <1>14, <2>2, <2>3, <2>4 DEF RefreshSucceeds
  <1>15. ASSUME NEW c \in Callers, Close(c) PROVE StoreTypeOK'
    BY <1>15 DEF Close, StoreTypeOK, GoTo
  <1>16. ASSUME NEW c \in Callers, TakeOutcome(c) PROVE StoreTypeOK'
    <2>1. CASE got[c] = Error  BY <1>4, <1>16, <2>1 DEF TakeOutcome
    <2>2. CASE got[c] # Error
      <3>1. Weigh(c, got[c]) /\ UNCHANGED storeVars /\ at[c] = "returned"
        BY <1>16, <2>2 DEF TakeOutcome
      <3>2. CASE Take(c, got[c])
        BY <3>1, <3>2, <2>2, TypePlace DEF Take, StoreTypeOK, storeVars
      <3> QED  BY <1>4, <3>1, <3>2 DEF Weigh
    <2> QED  BY <2>1, <2>2
  <1>17. ASSUME NEW c \in Callers, Leave(c) PROVE StoreTypeOK'
    BY <1>17, TypePlace DEF Leave, StoreTypeOK, GoTo, storeVars
  <1>18. ASSUME NEW id \in Ids, Login(id) PROVE StoreTypeOK'
    <2>1. issued' \in Tokens /\ issued' \in 0 .. MaxTokens
      BY <1>13, <1>18 DEF Login, IssueToken
    <2>2. accounts' \in Seq(Account)  BY <1>18, <2>1, UpsertedType DEF Login, StoreTypeOK
    <2> QED  BY <1>18, <2>1, <2>2 DEF Login, StoreTypeOK, callerVars
  <1>19. ASSUME NEW id \in Ids, Delete(id) PROVE StoreTypeOK'
    <2>1. accounts' \in Seq(Account)
      BY <1>19, DeletedType DEF Delete, Positions, StoreTypeOK
    <2> QED  BY <1>19, <2>1 DEF Delete, StoreTypeOK, callerVars
  <1>20. ASSUME NEW t \in Tokens, Age(t) PROVE StoreTypeOK'
    BY <1>20 DEF Age, StoreTypeOK, callerVars
  <1>21. CASE UNCHANGED m365Vars
    BY <1>21 DEF m365Vars, storeVars, callerVars, StoreTypeOK
  <1> QED
    BY <1>1, <1>2, <1>3, <1>5, <1>6, <1>7, <1>8, <1>9, <1>10, <1>12, <1>14, <1>15, <1>16, <1>17,
       <1>18, <1>19, <1>20, <1>21
    DEF StoreNext, Pick, Upstream, Others

\* The types of M365Store, for any number of accounts, callers and tokens.
THEOREM StoreTypeCorrect == StoreSpec => []StoreTypeOK
  <1> QED  BY TypeInit, TypeStep, PTL DEF StoreSpec

-----------------------------------------------------------------------------
\* Single flight.

Refreshing == {"upstream", "closing"}

\* A caller moves, and neither end of its move has to do with a refresh.
LEMMA FlightElsewhere ==
  ASSUME StoreTypeOK, SingleFlight, NEW c \in Callers, UNCHANGED inflight,
         at[c] \notin Refreshing \cup {"waiting"}, at'[c] \notin Refreshing \cup {"waiting"},
         \A d \in Callers \ {c} : at'[d] = at[d] /\ who'[d] = who[d]
  PROVE  SingleFlight'
  <1>1. ASSUME NEW d \in Callers, NEW id \in Ids
        PROVE  inflight'[id] = d <=> at'[d] \in {"upstream", "closing"} /\ who'[d] = id
    BY <1>1 DEF SingleFlight, Refreshing
  <1>2. ASSUME NEW d \in Callers, at'[d] = "waiting"
        PROVE  inflight'[who'[d]] # Free /\ at'[inflight'[who'[d]]] = "upstream"
    <2>1. d # c /\ at[d] = "waiting" /\ who'[d] = who[d]  BY <1>2
    <2>2. inflight[who[d]] # Free /\ at[inflight[who[d]]] = "upstream"
      BY <2>1 DEF SingleFlight
    <2>3. inflight[who[d]] \in Callers \ {c}
      <3>1. who[d] \in Ids  BY <2>1 DEF StoreTypeOK, AtHand
      <3>2. inflight[who[d]] \in Callers  BY <2>2, <3>1 DEF StoreTypeOK
      <3> QED  BY <2>2, <3>2 DEF Refreshing
    <2> QED  BY <2>1, <2>2, <2>3
  <1> QED  BY <1>1, <1>2 DEF SingleFlight

\* The end of a refresh wakes exactly those who wait for it.
LEMMA FlightWakes ==
  ASSUME StoreTypeOK, SingleFlight, NEW c \in Callers, at[c] = "upstream",
         NEW outcome, Wake(c, outcome), UNCHANGED inflight
  PROVE  SingleFlight'
  <1> DEFINE woken == {w \in Callers : at[w] = "waiting" /\ inflight[who[w]] = c}
  <1>1. /\ at' = [w \in Callers |-> IF w = c THEN "closing" ELSE IF w \in woken THEN "returned" ELSE at[w]]
        /\ who' = who
    BY DEF Wake
  <1>2. \A w \in Callers : at'[w] \in {"upstream", "closing"} <=> at[w] \in {"upstream", "closing"}
    BY <1>1
  <1>3. ASSUME NEW d \in Callers, at'[d] = "waiting"
        PROVE  inflight[who[d]] # Free /\ at'[inflight[who[d]]] = "upstream"
    <2>1. at[d] = "waiting" /\ inflight[who[d]] # c  BY <1>1, <1>3
    <2>2. inflight[who[d]] # Free /\ at[inflight[who[d]]] = "upstream"
      BY <2>1 DEF SingleFlight
    <2>3. inflight[who[d]] \in Callers
      <3>1. who[d] \in Ids  BY <2>1 DEF StoreTypeOK, AtHand
      <3> QED  BY <2>2, <3>1 DEF StoreTypeOK
    <2> QED  BY <1>1, <2>1, <2>2, <2>3
  <1> QED  BY <1>1, <1>2, <1>3 DEF SingleFlight

LEMMA FlightInit == StoreInit => SingleFlight
  BY StoreAssumption DEF StoreInit, SingleFlight

LEMMA FlightStep == StoreTypeOK /\ SingleFlight /\ [StoreNext]_m365Vars => SingleFlight'
  <1> SUFFICES ASSUME StoreTypeOK, SingleFlight, [StoreNext]_m365Vars PROVE SingleFlight'  OBVIOUS
  <1>1. ASSUME NEW c \in Callers,
               \/ Ask(c) \/ Rotate(c) \/ GiveUp(c) \/ EnsureRefresh(c) \/ Leave(c)
        PROVE  SingleFlight'
    <2>1. /\ UNCHANGED inflight
          /\ at[c] \notin Refreshing \cup {"waiting"} /\ at'[c] \notin Refreshing \cup {"waiting"}
          /\ \A d \in Callers \ {c} : at'[d] = at[d] /\ who'[d] = who[d]
      BY <1>1 DEF Ask, Rotate, GiveUp, EnsureRefresh, Leave, GoTo, Refreshing, storeVars, StoreTypeOK
    <2> QED  BY <2>1, FlightElsewhere
  <1>2. ASSUME NEW c \in Callers, at[c] \in {"ensure", "returned"}, UNCHANGED inflight,
               NEW token, PassOver(c) \/ Take(c, token)
        PROVE  SingleFlight'
    <2>1. /\ at[c] \notin Refreshing \cup {"waiting"} /\ at'[c] \notin Refreshing \cup {"waiting"}
          /\ \A d \in Callers \ {c} : at'[d] = at[d] /\ who'[d] = who[d]
      BY <1>2 DEF PassOver, Take, GoTo, Refreshing, StoreTypeOK
    <2> QED  BY <1>2, <2>1, FlightElsewhere
  <1>3. ASSUME NEW c \in Callers,
               EnsureValid(c) \/ EnsureGone(c) \/ EnsureExpired(c) \/ TakeOutcome(c)
        PROVE  SingleFlight'
    <2>1. CASE EnsureValid(c)
      BY <1>2, <2>1 DEF EnsureValid, Weigh, storeVars
    <2>2. CASE EnsureGone(c)
      BY <1>2, <2>2 DEF EnsureGone, storeVars
    <2>3. CASE EnsureExpired(c)
      BY <1>2, <2>3 DEF EnsureExpired
    <2>4. CASE TakeOutcome(c)
      BY <1>2, <2>4 DEF TakeOutcome, Weigh, storeVars
    <2> QED  BY <1>3, <2>1, <2>2, <2>3, <2>4
  <1>4. ASSUME NEW c \in Callers, Lead(c) PROVE SingleFlight'
    <2>1. /\ who[c] \in Ids /\ inflight[who[c]] = Free /\ at[c] = "refresh"
          /\ inflight' = [inflight EXCEPT ![who[c]] = c]
          /\ at' = [at EXCEPT ![c] = "upstream"] /\ who' = who
      BY <1>4 DEF Lead, GoTo, StoreTypeOK, AtHand
    <2>2. ASSUME NEW d \in Callers, NEW id \in Ids
          PROVE  inflight'[id] = d <=> at'[d] \in {"upstream", "closing"} /\ who'[d] = id
      BY <2>1, <2>2, StoreAssumption DEF SingleFlight, StoreTypeOK
    <2>3. ASSUME NEW d \in Callers, at'[d] = "waiting"
          PROVE  inflight'[who'[d]] # Free /\ at'[inflight'[who'[d]]] = "upstream"
      <3>1. at[d] = "waiting" /\ who[d] \in Ids  BY <2>1, <2>3 DEF StoreTypeOK, AtHand
      <3>2. inflight[who[d]] # Free /\ at[inflight[who[d]]] = "upstream"
        BY <3>1 DEF SingleFlight
      <3>3. inflight[who[d]] \in Callers \ {c} /\ who[d] # who[c]
        BY <2>1, <3>1, <3>2 DEF StoreTypeOK
      <3> QED  BY <2>1, <3>1, <3>2, <3>3 DEF StoreTypeOK
    <2> QED  BY <2>2, <2>3 DEF SingleFlight
  <1>5. ASSUME NEW c \in Callers, Join(c) PROVE SingleFlight'
    <2>1. /\ who[c] \in Ids /\ inflight[who[c]] \in Callers /\ at[c] = "refresh"
          /\ UNCHANGED <<inflight, who>>
      BY <1>5 DEF Join, StoreTypeOK, AtHand, storeVars
    <2>2. CASE at[inflight[who[c]]] = "closing"
      <3>1. at' = [at EXCEPT ![c] = "returned"]  BY <1>5, <2>2 DEF Join, GoTo
      <3> QED  BY <2>1, <3>1, FlightElsewhere DEF Refreshing, StoreTypeOK
    <2>3. CASE at[inflight[who[c]]] # "closing"
      <3>1. at' = [at EXCEPT ![c] = "waiting"]  BY <1>5, <2>3 DEF Join, GoTo
      <3>2. at[inflight[who[c]]] = "upstream"  BY <2>1, <2>3 DEF SingleFlight
      <3>3. ASSUME NEW d \in Callers, at'[d] = "waiting"
            PROVE  inflight[who[d]] # Free /\ at'[inflight[who[d]]] = "upstream"
        <4>1. CASE d = c  BY <2>1, <3>1, <3>2, <4>1, StoreAssumption DEF StoreTypeOK
        <4>2. CASE d # c
          <5>1. at[d] = "waiting"  BY <3>1, <3>3, <4>2 DEF StoreTypeOK
          <5>2. inflight[who[d]] # Free /\ at[inflight[who[d]]] = "upstream"
            BY <5>1 DEF SingleFlight
          <5> QED  BY <2>1, <3>1, <5>2 DEF StoreTypeOK
        <4> QED  BY <4>1, <4>2
      <3>4. ASSUME NEW d \in Callers, NEW id \in Ids
            PROVE  inflight[id] = d <=> at'[d] \in {"upstream", "closing"} /\ who[d] = id
        BY <2>1, <3>1, <3>4 DEF SingleFlight, StoreTypeOK
      <3> QED  BY <2>1, <3>3, <3>4 DEF SingleFlight
    <2> QED  BY <2>2, <2>3
  <1>6. ASSUME NEW c \in Callers, RefreshFails(c) \/ RefreshSucceeds(c) PROVE SingleFlight'
    BY <1>6, FlightWakes DEF RefreshFails, RefreshSucceeds
  <1>7. ASSUME NEW c \in Callers, Close(c) PROVE SingleFlight'
    <2>1. /\ who[c] \in Ids /\ inflight[who[c]] = c /\ at[c] = "closing"
          /\ inflight' = [inflight EXCEPT ![who[c]] = Free]
          /\ at' = [at EXCEPT ![c] = "returned"] /\ who' = who
      BY <1>7 DEF Close, GoTo, StoreTypeOK, AtHand, SingleFlight
    <2>2. ASSUME NEW d \in Callers, NEW id \in Ids
          PROVE  inflight'[id] = d <=> at'[d] \in {"upstream", "closing"} /\ who'[d] = id
      BY <2>1, <2>2, StoreAssumption DEF SingleFlight, StoreTypeOK
    <2>3. ASSUME NEW d \in Callers, at'[d] = "waiting"
          PROVE  inflight'[who'[d]] # Free /\ at'[inflight'[who'[d]]] = "upstream"
      <3>1. at[d] = "waiting" /\ who[d] \in Ids  BY <2>1, <2>3 DEF StoreTypeOK, AtHand
      <3>2. inflight[who[d]] # Free /\ at[inflight[who[d]]] = "upstream"
        BY <3>1 DEF SingleFlight
      <3>3. inflight[who[d]] # c /\ who[d] # who[c]  BY <2>1, <3>2
      <3> QED  BY <2>1, <3>1, <3>2, <3>3 DEF StoreTypeOK
    <2> QED  BY <2>2, <2>3 DEF SingleFlight
  <1>8. ASSUME \/ \E id \in Ids : Login(id) \/ Delete(id)
               \/ \E t \in Tokens : Age(t)
               \/ UNCHANGED m365Vars
        PROVE  SingleFlight'
    <2>1. UNCHANGED <<inflight, at, who>>
      BY <1>8 DEF Login, Delete, Age, m365Vars, storeVars, callerVars
    <2> QED  BY <2>1 DEF SingleFlight
  <1> QED
    BY <1>1, <1>3, <1>4, <1>5, <1>6, <1>7, <1>8 DEF StoreNext, Pick, Upstream, Others

\* refreshInflight, for any number of accounts and callers: one refresh of an
\* account at a time, and nobody waits for a refresh that is over.
THEOREM OneFlight == StoreSpec => []SingleFlight
  <1>1. StoreInit => StoreTypeOK /\ SingleFlight  BY TypeInit, FlightInit
  <1>2. StoreTypeOK /\ SingleFlight /\ [StoreNext]_m365Vars => (StoreTypeOK /\ SingleFlight)'
    BY TypeStep, FlightStep
  <1> QED  BY <1>1, <1>2, PTL DEF StoreSpec

-----------------------------------------------------------------------------
\* The freshness of what is picked.

\* Tokens are stale only once issued, and what a caller was brought is newer
\* than what was stale when it asked.  A leader's outcome is not stale yet
\* when a caller joins it late.
FreshInv ==
    /\ stale \cup StoredTokens \subseteq 1 .. issued
    /\ \A c \in Callers :
        /\ before[c] \subseteq stale
        /\ at[c] \in {"closing", "returned", "picked"} /\ got[c] # Error => got[c] \notin before[c]
        /\ at[c] = "closing" /\ got[c] # Error => got[c] \notin stale
        /\ at[c] = "picked" => got[c] # Error

LEMMA StoredType ==
  ASSUME accounts \in Seq(Account)
  PROVE  \A i \in DOMAIN accounts : accounts[i].token \in Tokens /\ accounts[i].token \in StoredTokens
  <1> SUFFICES ASSUME NEW i \in DOMAIN accounts
               PROVE  accounts[i].token \in Tokens /\ accounts[i].token \in StoredTokens
      OBVIOUS
  <1>1. accounts[i] \in Account  OBVIOUS
  <1>2. accounts[i].token \in Tokens  BY <1>1 DEF Account
  <1>3. accounts[i].token \in StoredTokens  BY Zenon DEF StoredTokens
  <1> QED  BY <1>2, <1>3

\* Marks and deletions bring no token that was not stored.
LEMMA ExpiredTokens ==
  ASSUME accounts \in Seq(Account), NEW id \in Ids, accounts' = Expired(id)
  PROVE  StoredTokens' = StoredTokens
  <1>1. DOMAIN accounts' = DOMAIN accounts  BY DEF Expired
  <1>2. \A i \in DOMAIN accounts : accounts[i] \in Account  OBVIOUS
  <1>3. \A i \in DOMAIN accounts : accounts'[i].token = accounts[i].token
    BY <1>2 DEF Expired, Account
  <1> QED  BY <1>1, <1>3 DEF StoredTokens

\* Where a place behind the deleted one comes from.
LEMMA Shift ==
  \A n \in Nat : \A i \in 1 .. n, j \in 1 .. n - 1 :
      ~(j <= i - 1) => /\ j - (i - 1) \in 1 .. n - i
                       /\ i + (j - (i - 1)) = j + 1
                       /\ j + 1 \in 1 .. n
  OBVIOUS

LEMMA DeletedTokens ==
  ASSUME accounts \in Seq(Account), NEW i \in DOMAIN accounts,
         accounts' = SubSeq(accounts, 1, i - 1) \o SubSeq(accounts, i + 1, Len(accounts))
  PROVE  StoredTokens' \subseteq StoredTokens
  <1>1. i \in 1 .. Len(accounts) /\ Len(accounts) \in Nat /\ DOMAIN accounts = 1 .. Len(accounts)
    OBVIOUS
  <1> DEFINE head == SubSeq(accounts, 1, i - 1)
             rest == SubSeq(accounts, i + 1, Len(accounts))
  <1>2. /\ head \in Seq(Account) /\ Len(head) = i - 1
        /\ \A j \in 1 .. i - 1 : head[j] = accounts[1 + j - 1]
    <2>1. \A j \in 1 .. i - 1 : accounts[j] \in Account  BY <1>1
    <2>2. i - 1 \in Int /\ 1 \in Int /\ i - 1 >= 0  BY <1>1
    <2> QED  BY <2>1, <2>2, SubSeqProperties
  <1>3. /\ rest \in Seq(Account) /\ Len(rest) = Len(accounts) - i
        /\ \A j \in 1 .. Len(accounts) - i : rest[j] = accounts[i + j]
    <2>1. \A j \in i + 1 .. Len(accounts) : accounts[j] \in Account  BY <1>1
    <2>2. Len(accounts) \in Int /\ i + 1 \in Int  BY <1>1
    <2>3. /\ rest \in Seq(Account)
          /\ Len(rest) = IF i + 1 <= Len(accounts) THEN Len(accounts) - (i + 1) + 1 ELSE 0
          /\ \A j \in 1 .. Len(accounts) - (i + 1) + 1 : rest[j] = accounts[i + 1 + j - 1]
      BY <2>1, <2>2, SubSeqProperties
    <2> HIDE DEF rest
    <2>4. Len(rest) = Len(accounts) - i  BY <1>1, <2>3
    <2>5. ASSUME NEW j \in 1 .. Len(accounts) - i PROVE rest[j] = accounts[i + j]
      <3>1. i + 1 + j - 1 = i + j /\ j \in 1 .. Len(accounts) - (i + 1) + 1  BY <1>1
      <3>2. rest[j] = accounts[i + 1 + j - 1]  BY <2>3, <3>1
      <3> QED  BY <3>1, <3>2
    <2> QED  BY <2>3, <2>4, <2>5
  <1> HIDE DEF head, rest
  <1>4. /\ DOMAIN accounts' = 1 .. Len(accounts) - 1
        /\ \A j \in 1 .. Len(accounts) - 1 :
               accounts'[j] = IF j <= i - 1 THEN head[j] ELSE rest[j - (i - 1)]
    <2>1. accounts' = head \o rest  BY DEF head, rest
    <2>2. /\ Len(head \o rest) = Len(head) + Len(rest) /\ head \o rest \in Seq(Account)
          /\ \A j \in 1 .. Len(head) + Len(rest) :
                 (head \o rest)[j] = IF j <= Len(head) THEN head[j] ELSE rest[j - Len(head)]
      BY <1>2, <1>3, ConcatProperties
    <2>3. Len(head) + Len(rest) = Len(accounts) - 1  BY <1>1, <1>2, <1>3
    <2>4. DOMAIN (head \o rest) = 1 .. Len(head \o rest)  BY <2>2
    <2> QED  BY <1>2, <2>1, <2>2, <2>3, <2>4
  <1>5. ASSUME NEW j \in DOMAIN accounts'
        PROVE  \E k \in DOMAIN accounts : accounts'[j] = accounts[k]
    <2>1. CASE j <= i - 1
      <3>1. accounts'[j] = accounts[j] /\ j \in DOMAIN accounts  BY <1>1, <1>2, <1>4, <1>5, <2>1
      <3> QED  BY <3>1
    <2>2. CASE ~(j <= i - 1)
      <3>1. j \in 1 .. Len(accounts) - 1  BY <1>4, <1>5
      <3>2. /\ j - (i - 1) \in 1 .. Len(accounts) - i
            /\ i + (j - (i - 1)) = j + 1 /\ j + 1 \in DOMAIN accounts
        BY Zenon, <1>1, <2>2, <3>1, Shift
      <3>3. rest[j - (i - 1)] = accounts[i + (j - (i - 1))]  BY Zenon, <1>3, <3>2
      <3>4. accounts'[j] = rest[j - (i - 1)]  BY <1>4, <2>2, <3>1
      <3> QED  BY Zenon, <3>2, <3>3, <3>4
    <2> QED  BY Zenon, <2>1, <2>2
  <1>6. ASSUME NEW x \in StoredTokens' PROVE x \in StoredTokens
    <2>1. PICK j \in DOMAIN accounts' : x = accounts'[j].token  BY Zenon DEF StoredTokens
    <2>2. PICK k \in DOMAIN accounts : accounts'[j] = accounts[k]  BY <1>5
    <2> QED  BY Zenon, <2>1, <2>2 DEF StoredTokens
  <1> QED  BY Zenon, <1>6

LEMMA UpsertedTokens ==
  ASSUME accounts \in Seq(Account), NEW id \in Ids, NEW token \in Tokens, NEW renewable \in BOOLEAN,
         accounts' = Upserted(id, token, renewable)
  PROVE  StoredTokens' \subseteq StoredTokens \cup {token}
  <1> DEFINE new == [id |-> id, status |-> "online", token |-> token,
                     renewable |-> renewable \/ (Stored(id) /\ Lookup(id).renewable)]
  <1>1. CASE Stored(id)
    <2>1. accounts' = [i \in DOMAIN accounts |-> IF accounts[i].id = id THEN new ELSE accounts[i]]
      BY <1>1 DEF Upserted
    <2>2. new.token = token  OBVIOUS
    <2> HIDE DEF new
    <2> QED  BY <2>1, <2>2 DEF StoredTokens
  <1>2. CASE ~Stored(id)
    <2>1. accounts' = Append(accounts, new)  BY <1>2 DEF Upserted
    <2>2. new.token = token  OBVIOUS
    <2> HIDE DEF new
    <2>3. DOMAIN accounts' = 1 .. Len(accounts) + 1  BY <2>1
    <2>4. \A i \in DOMAIN accounts' : accounts'[i] = new \/ (i \in DOMAIN accounts /\ accounts'[i] = accounts[i])
      BY <2>1, <2>3
    <2> QED  BY <2>2, <2>4 DEF StoredTokens
  <1> QED  BY <1>1, <1>2

LEMMA FreshInit == StoreInit => FreshInv
  <1> SUFFICES ASSUME StoreInit PROVE FreshInv  OBVIOUS
  <1>1. PICK n \in 0 .. Cardinality(Ids) :
            accounts \in {as \in [1 .. n -> Account] :
               /\ \A i, j \in 1 .. n : as[i].id = as[j].id => i = j
               /\ \A i \in 1 .. n : as[i].token = i}
    BY DEF StoreInit
  <1>2. n \in Nat /\ Len(accounts) = n /\ DOMAIN accounts = 1 .. n  BY <1>1
  <1>3. StoredTokens \subseteq 1 .. issued  BY <1>1, <1>2 DEF StoreInit, StoredTokens
  <1>4. stale \subseteq 1 .. issued  BY DEF StoreInit
  <1> QED  BY <1>3, <1>4 DEF StoreInit, FreshInv

LEMMA FreshStep ==
  ASSUME StoreTypeOK, FreshInv, [StoreNext]_m365Vars
  PROVE  FreshInv'
  <1>1. ASSUME NEW c \in Callers,
               Ask(c) \/ Rotate(c) \/ GiveUp(c) \/ EnsureRefresh(c) \/ Lead(c) \/ Leave(c)
        PROVE  FreshInv'
    <2>1. UNCHANGED <<accounts, issued, stale>>
      BY <1>1 DEF Ask, Rotate, GiveUp, EnsureRefresh, Lead, Leave, storeVars
    <2>2. StoredTokens' = StoredTokens  BY <2>1 DEF StoredTokens
    <2>3. CASE Ask(c)  BY <2>1, <2>2, <2>3 DEF Ask, GoTo, FreshInv, StoreTypeOK
    <2>4. CASE Leave(c)  BY <2>1, <2>2, <2>4 DEF Leave, GoTo, FreshInv, StoreTypeOK
    <2>5. CASE Rotate(c) \/ GiveUp(c) \/ EnsureRefresh(c) \/ Lead(c)
      <3>1. UNCHANGED <<got, before>>
        BY <2>5 DEF Rotate, GiveUp, EnsureRefresh, Lead
      <3>2. \E place \in {"ensure", "refused", "refresh", "upstream"} : GoTo(c, place)
        BY <2>5 DEF Rotate, GiveUp, EnsureRefresh, Lead
      <3> QED  BY <2>1, <2>2, <3>1, <3>2 DEF GoTo, FreshInv, StoreTypeOK
    <2> QED  BY <1>1, <2>3, <2>4, <2>5
  <1>2. ASSUME NEW c \in Callers, PassOver(c), UNCHANGED <<issued, stale>>, StoredTokens' = StoredTokens
        PROVE  FreshInv'
    BY <1>2 DEF PassOver, GoTo, FreshInv, StoreTypeOK
  <1>3. ASSUME NEW c \in Callers, NEW token \in Tokens, Take(c, token), token \notin before[c],
               UNCHANGED storeVars
        PROVE  FreshInv'
    <2>1. token # Error  BY StoreAssumption DEF Tokens, Error
    <2> QED  BY <1>3, <2>1 DEF Take, GoTo, FreshInv, StoredTokens, StoreTypeOK, storeVars
  <1>4. ASSUME UNCHANGED storeVars PROVE UNCHANGED <<issued, stale>> /\ StoredTokens' = StoredTokens
    BY <1>4 DEF storeVars, StoredTokens
  <1>5. ASSUME NEW c \in Callers, EnsureValid(c) PROVE FreshInv'
    <2>1. Current(c).token \in Tokens /\ Current(c).token \notin before[c]
      <3>1. PICK i \in DOMAIN accounts : Current(c) = accounts[i]
        BY <1>5 DEF EnsureValid, Gone, Stored, Current, Lookup, Positions
      <3>2. Current(c).token \in Tokens  BY <3>1, StoredType DEF StoreTypeOK
      <3> QED  BY <1>5, <3>2 DEF EnsureValid, Fresh, FreshInv
    <2> QED  BY <1>2, <1>3, <1>4, <1>5, <2>1 DEF EnsureValid, Weigh
  <1>6. ASSUME NEW c \in Callers, EnsureGone(c) PROVE FreshInv'
    BY <1>2, <1>4, <1>6 DEF EnsureGone
  <1>7. ASSUME NEW c \in Callers, EnsureExpired(c) PROVE FreshInv'
    <2>1. who[c] \in Ids  BY <1>7 DEF EnsureExpired, StoreTypeOK, AtHand
    <2>2. StoredTokens' = StoredTokens  BY <1>7, <2>1, ExpiredTokens DEF EnsureExpired, StoreTypeOK
    <2> QED  BY <1>2, <1>7, <2>2 DEF EnsureExpired
  <1>8. ASSUME NEW c \in Callers, Join(c) PROVE FreshInv'
    <2>1. inflight[who[c]] \in Callers  BY <1>8 DEF Join, StoreTypeOK, AtHand
    <2>2. CASE at[inflight[who[c]]] = "closing"
      <3>1. got' = [got EXCEPT ![c] = got[inflight[who[c]]]] /\ at' = [at EXCEPT ![c] = "returned"]
        BY <1>8, <2>2 DEF Join, GoTo
      <3>2. got'[c] # Error => got'[c] \notin before[c]  BY <2>1, <2>2, <3>1 DEF FreshInv, StoreTypeOK
      <3> QED  BY <1>4, <1>8, <3>1, <3>2 DEF Join, FreshInv, StoreTypeOK
    <2>3. CASE at[inflight[who[c]]] # "closing"
      BY <1>4, <1>8, <2>3 DEF Join, GoTo, FreshInv, StoreTypeOK
    <2> QED  BY <2>2, <2>3
  <1>9. ASSUME NEW c \in Callers, RefreshFails(c) PROVE FreshInv'
    <2>1. who[c] \in Ids  BY <1>9 DEF RefreshFails, StoreTypeOK, AtHand
    <2>2. StoredTokens' = StoredTokens  BY <1>9, <2>1, ExpiredTokens DEF RefreshFails, StoreTypeOK
    <2> QED  BY <1>9, <2>2 DEF RefreshFails, Wake, FreshInv, StoreTypeOK
  <1>10. issued < MaxTokens => /\ issued + 1 \in Tokens /\ issued + 1 \notin 1 .. issued
                               /\ 1 .. issued \subseteq 1 .. (issued + 1)
    BY StoreAssumption DEF StoreTypeOK, Tokens
  <1>11. ASSUME NEW c \in Callers, RefreshSucceeds(c) PROVE FreshInv'
    <2>1. who[c] \in Ids  BY <1>11 DEF RefreshSucceeds, StoreTypeOK, AtHand
    <2>2. issued' = issued + 1 /\ issued' \in Tokens /\ issued' \notin 1 .. issued
          /\ 1 .. issued \subseteq 1 .. issued' /\ issued' \in 1 .. issued'
      BY <1>10, <1>11 DEF RefreshSucceeds, IssueToken, StoreTypeOK
    <2>3. PICK renewable \in BOOLEAN, saved \in BOOLEAN :
              /\ accounts' = Upserted(who[c], issued', renewable)
              /\ Wake(c, IF saved THEN issued' ELSE Error)
      BY <1>11 DEF RefreshSucceeds
    <2>4. StoredTokens' \subseteq StoredTokens \cup {issued'}
      BY <2>1, <2>2, <2>3, UpsertedTokens DEF StoreTypeOK
    <2>5. issued' \notin stale /\ stale' = stale  BY <1>11, <2>2 DEF RefreshSucceeds, FreshInv
    <2> DEFINE outcome == IF saved THEN issued' ELSE Error
    <2>6. Wake(c, outcome) /\ (outcome # Error => outcome \notin stale)  BY <2>3, <2>5
    <2> HIDE DEF outcome
    <2>7. stale' \cup StoredTokens' \subseteq 1 .. issued'  BY <2>2, <2>4, <2>5 DEF FreshInv
    <2> QED  BY <2>5, <2>6, <2>7 DEF Wake, FreshInv, StoreTypeOK
  <1>12. ASSUME NEW c \in Callers, Close(c) PROVE FreshInv'
    BY <1>12 DEF Close, GoTo, FreshInv, StoredTokens, StoreTypeOK
  <1>13. ASSUME NEW c \in Callers, TakeOutcome(c) PROVE FreshInv'
    <2>1. CASE got[c] = Error  BY <1>2, <1>4, <1>13, <2>1 DEF TakeOutcome
    <2>2. CASE got[c] # Error
      <3>1. got[c] \in Tokens /\ got[c] \notin before[c]
        BY <1>13, <2>2 DEF TakeOutcome, FreshInv, StoreTypeOK
      <3> QED  BY <1>2, <1>3, <1>4, <1>13, <2>2, <3>1 DEF TakeOutcome, Weigh
    <2> QED  BY <2>1, <2>2
  <1>14. ASSUME NEW id \in Ids, Login(id) PROVE FreshInv'
    <2>1. issued' \in Tokens /\ 1 .. issued \subseteq 1 .. issued' /\ issued' \in 1 .. issued'
      BY <1>10, <1>14 DEF Login, IssueToken, StoreTypeOK
    <2>2. StoredTokens' \subseteq StoredTokens \cup {issued'}
      BY <1>14, <2>1, UpsertedTokens DEF Login, StoreTypeOK
    <2> QED  BY <1>14, <2>1, <2>2 DEF Login, FreshInv, callerVars
  <1>15. ASSUME NEW id \in Ids, Delete(id) PROVE FreshInv'
    <2>1. StoredTokens' \subseteq StoredTokens
      BY <1>15, DeletedTokens DEF Delete, Positions, StoreTypeOK
    <2> QED  BY <1>15, <2>1 DEF Delete, FreshInv, callerVars
  <1>16. ASSUME NEW t \in Tokens, Age(t) PROVE FreshInv'
    BY <1>16 DEF Age, FreshInv, StoredTokens, callerVars
  <1>17. CASE UNCHANGED m365Vars
    BY <1>17 DEF m365Vars, storeVars, callerVars, FreshInv, StoredTokens
  <1> QED
    BY <1>1, <1>5, <1>6, <1>7, <1>8, <1>9, <1>11, <1>12, <1>13, <1>14, <1>15, <1>16, <1>17
    DEF StoreNext, Pick, Upstream, Others

\* pickAccount, for any number of accounts, callers and tokens: a request never
\* goes out with a token that was near its end when the request asked.
THEOREM PickedFresh == StoreSpec => []TokenWasFresh
  <1>1. StoreInit => StoreTypeOK /\ FreshInv  BY TypeInit, FreshInit
  <1>2. StoreTypeOK /\ FreshInv /\ [StoreNext]_m365Vars => (StoreTypeOK /\ FreshInv)'
    BY TypeStep, FreshStep
  <1>3. FreshInv => TokenWasFresh  BY DEF FreshInv, TokenWasFresh
  <1> QED  BY <1>1, <1>2, <1>3, PTL DEF StoreSpec

-----------------------------------------------------------------------------
\* The bridge.

LEMMA BridgeStep == [BridgeNext]_allVars => [StoreNext]_m365Vars
  <1> SUFFICES ASSUME [BridgeNext]_allVars PROVE [StoreNext]_m365Vars  OBVIOUS
  <1>1. ASSUME NEW c \in Callers, PickAccount(c) PROVE StoreNext
    BY <1>1 DEF PickAccount, StoreNext
  <1>2. ASSUME NEW c \in Callers, RequestEnds(c) PROVE StoreNext
    BY <1>2 DEF RequestEnds, StoreNext
  <1>3. ASSUME NEW c \in Callers,
               \/ Dispatch(c) \/ Refused(c) \/ CutOff(c) \/ Connect(c) \/ ClosePipe(c)
               \/ Consume(c) \/ TimesOut(c) \/ HangUp(c) \/ Delta(c) \/ ChatFails(c) \/ ChatEnds(c)
        PROVE  UNCHANGED m365Vars
    BY <1>3 DEF Dispatch, Refused, CutOff, Connect, ClosePipe, Consume, StreamReturned, Read, ReadEnd,
                TimesOut, HangUp, Delta, ChatFails, ChatEnds, Over
  <1>4. Others => StoreNext  BY DEF StoreNext
  <1>5. UNCHANGED allVars => UNCHANGED m365Vars  BY DEF allVars
  <1> QED  BY <1>1, <1>2, <1>3, <1>4, <1>5 DEF BridgeNext, Produce

\* Requests use the store only as M365Store lets its callers: what is proved of
\* the store holds under dispatchM365, too.
THEOREM BridgeUsesStore == BridgeSpec => StoreSpec
  <1>1. BridgeInit => StoreInit  BY DEF BridgeInit
  <1> QED  BY <1>1, BridgeStep, PTL DEF BridgeSpec, StoreSpec

\* refreshInflight as dispatchM365 reaches it: however requests come, end and
\* are cut off, one refresh of an account at a time.
THEOREM BridgeOneFlight == BridgeSpec => []SingleFlight
  BY BridgeUsesStore, OneFlight, PTL

-----------------------------------------------------------------------------
\* The end of a stream.

Marks == {"finish", "error"}

BridgeTypes ==
    /\ handler \in [Callers -> {"idle", "dispatch", "reading", "end", "gone"}]
    /\ chat \in [Callers -> {"off", "picking", "talking", "ended"}]
    /\ ctx \in [Callers -> {"live", "return", "cause"}]
    /\ pipe \in [Callers -> {"open", "writer", "reader"}]
    /\ writing \in [Callers -> Pieces \cup {Nothing}]
    /\ last \in [Callers -> Pieces \cup {Nothing}]

\* Once the chat is over, its mark waits to be read or has been read last; the
\* pipe is closed only then.
MarkInv ==
    \A c \in Callers :
        /\ handler[c] = "idle" => chat[c] = "off" /\ pipe[c] = "open"
        /\ handler[c] = "end" => pipe[c] = "writer"
        /\ pipe[c] = "writer" => chat[c] = "ended" /\ writing[c] = Nothing /\ last[c] \in Marks
        /\ c \in Streams /\ chat[c] = "ended" /\ pipe[c] = "open" =>
               \/ writing[c] \in Marks
               \/ writing[c] = Nothing /\ last[c] \in Marks

LEMMA MarkStep ==
  ASSUME BridgeTypes, MarkInv, [BridgeNext]_allVars
  PROVE  BridgeTypes' /\ MarkInv'
  <1> USE DEF Set, BridgeTypes, MarkInv, Marks, Pieces, Nothing
  <1>1. ASSUME NEW c \in Callers, Dispatch(c) PROVE BridgeTypes' /\ MarkInv'
    BY <1>1 DEF Dispatch
  <1>2. ASSUME NEW c \in Callers, StreamReturned(c) PROVE BridgeTypes' /\ MarkInv'
    BY <1>2 DEF StreamReturned
  <1>3. ASSUME NEW c \in Callers, Refused(c) \/ CutOff(c) \/ ChatFails(c) \/ ChatEnds(c)
        PROVE  BridgeTypes' /\ MarkInv'
    <2>1. PICK piece \in Marks : Over(c, piece)
      BY <1>3 DEF Refused, CutOff, ChatFails, ChatEnds
    <2>2. chat[c] \in {"picking", "talking"}
      BY <1>3 DEF Refused, CutOff, ChatFails, ChatEnds, Dialing, Talking
    <2> QED  BY <2>1, <2>2 DEF Over
  <1>4. ASSUME NEW c \in Callers, Connect(c) PROVE BridgeTypes' /\ MarkInv'
    BY <1>4 DEF Connect, Dialing
  <1>5. ASSUME NEW c \in Callers, Delta(c) PROVE BridgeTypes' /\ MarkInv'
    BY <1>5 DEF Delta, Talking
  <1>6. ASSUME NEW c \in Callers, Read(c) PROVE BridgeTypes' /\ MarkInv'
    BY <1>6 DEF Read
  <1>7. ASSUME NEW c \in Callers, ClosePipe(c) PROVE BridgeTypes' /\ MarkInv'
    BY <1>7 DEF ClosePipe
  <1>8. ASSUME NEW c \in Callers, ReadEnd(c) PROVE BridgeTypes' /\ MarkInv'
    BY <1>8 DEF ReadEnd
  <1>9. ASSUME NEW c \in Callers, HangUp(c) PROVE BridgeTypes' /\ MarkInv'
    BY <1>9 DEF HangUp
  <1>10. ASSUME NEW c \in Callers, RequestEnds(c) PROVE BridgeTypes' /\ MarkInv'
    BY <1>10 DEF RequestEnds
  <1>11. ASSUME UNCHANGED <<handler, chat, ctx, pipe, writing, last>> PROVE BridgeTypes' /\ MarkInv'
    BY <1>11
  <1>12. ASSUME NEW c \in Callers, TimesOut(c) PROVE BridgeTypes' /\ MarkInv'
    BY <1>12 DEF TimesOut
  <1>13. ASSUME NEW c \in Callers, PickAccount(c) PROVE BridgeTypes' /\ MarkInv'
    BY <1>11, <1>13 DEF PickAccount, bridgeVars
  <1> QED
    BY <1>1, <1>2, <1>3, <1>4, <1>5, <1>6, <1>7, <1>8, <1>9, <1>10, <1>11, <1>12, <1>13
    DEF BridgeNext, Produce, Consume, bridgeVars, allVars

\* The types of M365Bridge, for any number of requests.
THEOREM BridgeTypeCorrect == BridgeSpec => []BridgeTypeOK
  <1>1. BridgeInit => BridgeTypes /\ MarkInv
    BY DEF BridgeInit, BridgeTypes, MarkInv, Marks, Pieces, Nothing
  <1>2. BridgeTypes /\ MarkInv /\ [BridgeNext]_allVars => (BridgeTypes /\ MarkInv)'
    BY MarkStep
  <1>3. BridgeSpec => []BridgeTypes  BY <1>1, <1>2, PTL DEF BridgeSpec
  <1>4. BridgeSpec => []StoreTypeOK  BY BridgeUsesStore, StoreTypeCorrect, PTL
  <1>5. BridgeTypes /\ StoreTypeOK => BridgeTypeOK  BY DEF BridgeTypes, BridgeTypeOK
  <1> QED  BY <1>3, <1>4, <1>5, PTL

\* m365StreamResponse, for any number of requests: a stream that a client reads
\* to its end has ended with a finish or an error.
THEOREM StreamsMarked == BridgeSpec => []StreamEndsMarked
  <1>1. BridgeInit => BridgeTypes /\ MarkInv
    BY DEF BridgeInit, BridgeTypes, MarkInv, Marks, Pieces, Nothing
  <1>2. BridgeTypes /\ MarkInv /\ [BridgeNext]_allVars => (BridgeTypes /\ MarkInv)'
    BY MarkStep
  <1>3. MarkInv => StreamEndsMarked  BY DEF MarkInv, StreamEndsMarked, Marks
  <1> QED  BY <1>1, <1>2, <1>3, PTL DEF BridgeSpec
=============================================================================
