---------------------------- MODULE ClineProofs ----------------------------
(***************************************************************************)
(* Proofs about ClinePool, for any accounts, requests, plans of exits and  *)
(* refresh tokens.                                                         *)
(***************************************************************************)
EXTENDS ClinePool, FiniteSetTheorems, TLAPS

-----------------------------------------------------------------------------
\* The index and the length of a choice.
LEMMA ActiveFinite ==
    ASSUME ClineTypeOK
    PROVE  /\ IsFiniteSet(Active) /\ Active \subseteq DOMAIN cOrder
           /\ Cardinality(Active) \in Nat /\ Cardinality(Active) <= Cardinality(ClineAccts)
           /\ Active # {} => Cardinality(Active) > 0
<1> DEFINE f == [i \in Active |-> cOrder[i]]
<1>1. Active \subseteq DOMAIN cOrder /\ DOMAIN cOrder \subseteq 1 .. Len(cOrder) /\ Len(cOrder) \in Nat
    BY DEF ClineTypeOK, Active
<1>2. f \in [Active -> ClineAccts]
    BY <1>1 DEF ClineTypeOK
<1>3. \A a, b \in DOMAIN f : f[a] = f[b] => a = b
    BY <1>1 DEF ClineTypeOK, IsInjective
<1>4. f \in Injection(Active, ClineAccts)
    BY <1>2, <1>3 DEF Injection, IsInjective
<1>5. IsFiniteSet(Active) /\ Cardinality(Active) <= Cardinality(ClineAccts)
    BY <1>4, FS_Injection, ClineAssumption
<1> QED
    BY <1>1, <1>5, FS_CardinalityType, FS_EmptySet

\* A turn is one of the places and leaves the index at one.
LEMMA TurnRange ==
    ASSUME NEW n \in Nat, n > 0, cIdx \in Nat
    PROVE  /\ Turn(n)[1] = (IF cIdx >= n THEN 0 ELSE cIdx) /\ Turn(n)[1] \in 0 .. (n - 1)
           /\ Turn(n)[2] = (IF Turn(n)[1] = n - 1 THEN 0 ELSE Turn(n)[1] + 1)
           /\ Turn(n)[2] \in 0 .. (n - 1)
<1> DEFINE i == IF cIdx >= n THEN 0 ELSE cIdx
<1>1. i \in 0 .. (n - 1)
    OBVIOUS
<1>2. (i + 1) % n = IF i = n - 1 THEN 0 ELSE i + 1
    <2>1. CASE i = n - 1
        BY <2>1, <1>1
    <2>2. CASE i # n - 1
        BY <2>2, <1>1
    <2> QED
        BY <2>1, <2>2
<1>3. Turn(n) = <<i, (i + 1) % n>>
    BY DEF Turn
<1> HIDE DEF i
<1>4. Turn(n)[1] = i /\ Turn(n)[2] = (IF i = n - 1 THEN 0 ELSE i + 1)
    BY <1>2, <1>3
<1> QED
    BY <1>1, <1>4 DEF i

-----------------------------------------------------------------------------
\* The refresh tokens.  A new one that is on its way to the pool is the only one
\* that Cline accepts; what any other request sends or brings is not newer than
\* the account's own.
Fresh(r) == At(r, "answered") /\ cReq[r].answer # Lost /\ cReq[r].answer # cReq[r].token

TokensKept ==
    /\ \A a \in ClineAccts : cAcct[a].refresh <= cValid[a]
    /\ \A r \in ClineReqs :
         At(r, "refresh") \/ At(r, "answered") => cReq[r].token <= cAcct[cReq[r].acct].refresh
    /\ \A r \in ClineReqs :
         Fresh(r) => cReq[r].answer = cValid[cReq[r].acct] /\ cAcct[cReq[r].acct].refresh < cValid[cReq[r].acct]
    /\ \A q, r \in ClineReqs : Fresh(q) /\ Fresh(r) /\ cReq[q].acct = cReq[r].acct => q = r
    /\ \A a \in Known \ cOrphans :
         cAcct[a].refresh = cValid[a] \/ \E r \in ClineReqs : Fresh(r) /\ cReq[r].acct = a

AccountType == [status : {"active", "cooldown", "due", "expired"}, access : BOOLEAN,
                refresh : 1 .. MaxRefresh]
RequestType == [at : {"idle", "ensure", "refresh", "answered", "send", "resend", "done"},
                acct : ClineAccts \cup {NoAcct}, plan : ClinePlans \cup {<<>>}, exit : Nat,
                token : 0 .. MaxRefresh, answer : 0 .. MaxRefresh, again : BOOLEAN]

ClineShape ==
    /\ cAcct \in [ClineAccts -> AccountType]
    /\ cOrder \in Seq(ClineAccts) /\ IsInjective(cOrder)
    /\ cValid \in [ClineAccts -> 1 .. MaxRefresh]
    /\ cReq \in [ClineReqs -> RequestType]
    /\ \A r \in ClineReqs : cReq[r].at \in {"idle", "done"} \/ cReq[r].acct \in Known

LEMMA ShapeOfType == ClineTypeOK => ClineShape
BY DEF ClineTypeOK, ClineShape, AccountType, RequestType

LEMMA KnownAccts == cOrder \in Seq(ClineAccts) => Known \subseteq ClineAccts
<1> SUFFICES ASSUME cOrder \in Seq(ClineAccts), NEW i \in DOMAIN cOrder PROVE cOrder[i] \in ClineAccts
    BY DEF Known
<1> QED
    OBVIOUS

\* A step that writes no refresh token, neither in the pool nor at Cline, and that
\* gives an answer to nobody: a request may read the account's token to send it.
TokensRest ==
    /\ \A a \in ClineAccts : cAcct'[a].refresh = cAcct[a].refresh
    /\ cValid' = cValid /\ cOrphans' = cOrphans /\ Known' \subseteq Known
    /\ \A r \in ClineReqs :
         \/ cReq'[r] = cReq[r]
         \/ ~Fresh(r) /\ cReq'[r].at \notin {"refresh", "answered"}
         \/ /\ ~Fresh(r) /\ cReq'[r].at = "refresh" /\ cReq'[r].acct \in ClineAccts
            /\ cReq'[r].token = cAcct[cReq'[r].acct].refresh

LEMMA RestKeepsTokens ==
    ASSUME ClineShape, TokensKept, TokensRest PROVE TokensKept'
<1> DEFINE Sending(r) == At(r, "refresh") \/ At(r, "answered")
<1>0. \A r \in ClineReqs : Sending(r) => cReq[r].acct \in ClineAccts
    BY KnownAccts DEF ClineShape, At
<1>1. \A r \in ClineReqs : Fresh(r)' <=> Fresh(r) /\ cReq'[r] = cReq[r]
    BY DEF TokensRest, Fresh, At
<1>2. \A r \in ClineReqs : Fresh(r)' <=> Fresh(r)
    BY <1>1 DEF TokensRest
<1>3. (\A a \in ClineAccts : cAcct[a].refresh <= cValid[a])'
    BY DEF TokensRest, TokensKept, ClineShape, AccountType, RequestType
<1>4. ASSUME NEW r \in ClineReqs, Sending(r)' PROVE (cReq[r].token <= cAcct[cReq[r].acct].refresh)'
    <2>1. CASE cReq'[r] = cReq[r]
        <3>1. Sending(r)
            BY <1>4, <2>1 DEF At
        <3> QED
            BY <2>1, <3>1, <1>0 DEF TokensRest, TokensKept
    <2>2. CASE cReq'[r].at = "refresh" /\ cReq'[r].acct \in ClineAccts /\ cReq'[r].token = cAcct[cReq'[r].acct].refresh
        <3>1. cReq'[r].token = cAcct'[cReq'[r].acct].refresh /\ cReq'[r].token \in Int
            BY <2>2 DEF TokensRest, ClineShape, AccountType, RequestType
        <3> QED
            BY <3>1
    <2> QED
        BY <1>4, <2>1, <2>2 DEF TokensRest, At
<1>5. ASSUME NEW r \in ClineReqs, Fresh(r)'
      PROVE  (cReq[r].answer = cValid[cReq[r].acct] /\ cAcct[cReq[r].acct].refresh < cValid[cReq[r].acct])'
    <2>1. Fresh(r) /\ cReq'[r] = cReq[r] /\ cReq[r].acct \in ClineAccts
        BY <1>5, <1>0, <1>1 DEF Fresh
    <2> QED
        BY <2>1 DEF TokensRest, TokensKept
<1>6. (\A q, r \in ClineReqs : Fresh(q) /\ Fresh(r) /\ cReq[q].acct = cReq[r].acct => q = r)'
    BY <1>1 DEF TokensKept
<1>7. ASSUME NEW a \in (Known \ cOrphans)'
      PROVE  (cAcct[a].refresh = cValid[a] \/ \E r \in ClineReqs : Fresh(r) /\ cReq[r].acct = a)'
    <2>1. a \in Known \ cOrphans /\ a \in ClineAccts
        BY <1>7, KnownAccts DEF TokensRest, ClineShape, AccountType, RequestType
    <2>2. cAcct[a].refresh = cValid[a] \/ \E r \in ClineReqs : Fresh(r) /\ cReq[r].acct = a
        BY <2>1 DEF TokensKept
    <2>3. \A r \in ClineReqs : Fresh(r) => Fresh(r)' /\ cReq'[r] = cReq[r]
        BY <1>1, <1>2
    <2> QED
        BY <2>1, <2>2, <2>3 DEF TokensRest
<1> QED
    BY <1>3, <1>4, <1>5, <1>6, <1>7 DEF TokensKept

-----------------------------------------------------------------------------
\* What is appended and not yet written is the end of the pool; the index, and
\* the exits a request has tried, are within their lists.
ClineBounds ==
    /\ cUnsaved \subseteq Known
    /\ \A i \in DOMAIN cOrder : cOrder[i] \in cUnsaved <=> i > Len(cOrder) - Cardinality(cUnsaved)
    /\ cIdx \in 0 .. Cardinality(ClineAccts)
    /\ \A r \in ClineReqs : cReq[r].exit \in 0 .. (Len(cReq[r].plan) + 1)

LEMMA TypeIsShapeAndBounds == ClineTypeOK <=> ClineShape /\ ClineBounds
BY DEF ClineTypeOK, ClineShape, ClineBounds, AccountType, RequestType

LEMMA UnsavedCard ==
    ASSUME ClineShape, ClineBounds
    PROVE  /\ IsFiniteSet(cUnsaved) /\ Cardinality(cUnsaved) \in Nat /\ Cardinality(ClineAccts) \in Nat
           /\ Cardinality({}) = 0
BY KnownAccts, FS_Subset, FS_CardinalityType, FS_EmptySet, ClineAssumption DEF ClineShape, ClineBounds

\* The pool as it is, written or not.
LEMMA SavedBounds ==
    ASSUME ClineShape, ClineBounds, cOrder' = cOrder, cUnsaved' \in {cUnsaved, {}},
           cIdx' = cIdx \/ cIdx' \in 0 .. Cardinality(ClineAccts),
           \A r \in ClineReqs : \/ cReq'[r].exit = cReq[r].exit /\ cReq'[r].plan = cReq[r].plan
                               \/ cReq'[r].exit \in 0 .. (Len(cReq'[r].plan) + 1)
    PROVE  ClineBounds'
<1>1. Known' = Known /\ Cardinality({}) = 0 /\ Len(cOrder) \in Nat /\ DOMAIN cOrder = 1 .. Len(cOrder)
    BY UnsavedCard DEF Known, ClineShape
<1>2. \A i \in DOMAIN cOrder' : cOrder'[i] \in cUnsaved' <=> i > Len(cOrder') - Cardinality(cUnsaved')
    <2>1. CASE cUnsaved' = cUnsaved
        BY <2>1 DEF ClineBounds
    <2>2. CASE cUnsaved' = {}
        BY <1>1, <2>2
    <2> QED
        BY <2>1, <2>2
<1>3. (\A r \in ClineReqs : cReq[r].exit \in 0 .. (Len(cReq[r].plan) + 1))'
    BY DEF ClineBounds
<1>4. cUnsaved' \subseteq Known' /\ cIdx' \in 0 .. Cardinality(ClineAccts)
    BY <1>1 DEF ClineBounds
<1> QED
    BY <1>2, <1>3, <1>4 DEF ClineBounds

LEMMA PlanLength == \A plan \in ClinePlans \cup {<<>>} : Len(plan) \in Nat
BY ClineAssumption

LEMMA FreshExit == FreshReq.exit = 0 /\ FreshReq.plan = <<>>
BY DEF FreshReq

-----------------------------------------------------------------------------
\* A step that leaves the list of accounts, or writes it.
ListRests ==
    /\ cUnsaved' \in {cUnsaved, {}}
    /\ cIdx' = cIdx \/ cIdx' \in 0 .. Cardinality(ClineAccts)
    /\ UNCHANGED <<cOrder, cValid, cOrphans>>

\* A request that moves on, to a place where it waits for no answer, or to send
\* the account's token.
LEMMA RequestMoves ==
    ASSUME ClineShape, ClineBounds, NEW r \in ClineReqs, NEW v \in RequestType,
           cReq' = [cReq EXCEPT ![r] = v],
           v.at \in {"idle", "done"} \/ v.acct \in Known,
           ~Fresh(r),
           v.at \notin {"refresh", "answered"} \/ (v.at = "refresh" /\ v.token = cAcct[v.acct].refresh),
           cAcct' \in [ClineAccts -> AccountType],
           \A a \in ClineAccts : cAcct'[a].refresh = cAcct[a].refresh,
           \/ v.exit = cReq[r].exit /\ v.plan = cReq[r].plan
           \/ v.exit \in 0 .. (Len(v.plan) + 1),
           ListRests
    PROVE  ClineShape' /\ ClineBounds' /\ TokensRest
<1>1. Known' = Known /\ Known \subseteq ClineAccts
    BY KnownAccts DEF Known, ClineShape, ListRests
<1>2. cReq'[r] = v /\ \A q \in ClineReqs \ {r} : cReq'[q] = cReq[q]
    BY DEF ClineShape
<1>3. cReq' \in [ClineReqs -> RequestType]
    BY DEF ClineShape
<1>4. \A q \in ClineReqs : cReq'[q].at \in {"idle", "done"} \/ cReq'[q].acct \in Known
    BY <1>2 DEF ClineShape
<1>5. ClineShape'
    BY <1>1, <1>3, <1>4 DEF ClineShape, ListRests
<1>6. TokensRest
    <2> SUFFICES ASSUME NEW q \in ClineReqs
                 PROVE  \/ cReq'[q] = cReq[q]
                        \/ ~Fresh(q) /\ cReq'[q].at \notin {"refresh", "answered"}
                        \/ /\ ~Fresh(q) /\ cReq'[q].at = "refresh" /\ cReq'[q].acct \in ClineAccts
                           /\ cReq'[q].token = cAcct[cReq'[q].acct].refresh
        BY <1>1 DEF TokensRest, ListRests
    <2> QED
        BY <1>1, <1>2
<1>7. ClineBounds'
    BY <1>2, SavedBounds DEF ListRests
<1> QED
    BY <1>5, <1>6, <1>7

LEMMA DoneType == [FreshReq EXCEPT !.at = "done"] \in RequestType /\ FreshReq \in RequestType
                  /\ [FreshReq EXCEPT !.at = "done"].at = "done" /\ FreshReq.at = "idle"
                  /\ FreshReq.exit \in 0 .. (Len(FreshReq.plan) + 1)
                  /\ [FreshReq EXCEPT !.at = "done"].exit \in 0 .. (Len([FreshReq EXCEPT !.at = "done"].plan) + 1)
<1>1. 0 \in 0 .. MaxRefresh
    BY ClineAssumption
<1> DEFINE none == <<>>
<1>2. FreshReq = [at |-> "idle", acct |-> NoAcct, plan |-> none, exit |-> 0,
                  token |-> 0, answer |-> 0, again |-> FALSE]
    BY DEF FreshReq, Lost
<1>3. none \in ClinePlans \cup {<<>>} /\ Len(none) = 0
    OBVIOUS
<1> HIDE DEF none
<1>4. FreshReq \in RequestType /\ FreshReq.at = "idle" /\ FreshReq.exit = 0 /\ FreshReq.plan = none
    BY <1>1, <1>2, <1>3 DEF RequestType
<1> DEFINE v == [FreshReq EXCEPT !.at = "done"]
<1>5. v \in RequestType /\ v.at = "done" /\ v.exit = 0 /\ v.plan = none
    BY <1>4 DEF RequestType
<1> QED
    BY <1>3, <1>4, <1>5

\* A step that changes no request, and of the accounts no refresh token.
LEMMA AccountsMove ==
    ASSUME ClineShape, ClineBounds, ListRests, UNCHANGED cReq,
           cAcct' \in [ClineAccts -> AccountType],
           \A a \in ClineAccts : cAcct'[a].refresh = cAcct[a].refresh
    PROVE  ClineShape' /\ ClineBounds' /\ TokensRest
<1>1. ClineShape' /\ TokensRest
    BY DEF ClineShape, TokensRest, Known, ListRests
<1>2. ClineBounds'
    BY SavedBounds DEF ListRests
<1> QED
    BY <1>1, <1>2

LEMMA LiftKeeps ==
    ASSUME ClineShape, LiftAll
    PROVE  /\ cAcct' \in [ClineAccts -> AccountType]
           /\ \A a \in ClineAccts : cAcct'[a].refresh = cAcct[a].refresh
<1> SUFFICES ASSUME NEW a \in ClineAccts PROVE Lifted(a) \in AccountType /\ Lifted(a).refresh = cAcct[a].refresh
    BY DEF LiftAll, ClineShape
<1>1. cAcct[a] \in AccountType
    BY DEF ClineShape
<1> QED
    BY <1>1 DEF Lifted, AccountType

LEMMA StatusKeeps ==
    ASSUME ClineShape, NEW b \in ClineAccts, NEW v \in AccountType, v.refresh = cAcct[b].refresh,
           cAcct' = [cAcct EXCEPT ![b] = v]
    PROVE  /\ cAcct' \in [ClineAccts -> AccountType]
           /\ \A a \in ClineAccts : cAcct'[a].refresh = cAcct[a].refresh
BY DEF ClineShape

LEMMA PickRests ==
    ASSUME ClineShape, ClineBounds, NEW r \in ClineReqs, Pick(r) PROVE ClineShape' /\ ClineBounds' /\ TokensRest
<1>1. At(r, "idle") /\ ~Fresh(r) /\ UNCHANGED <<cOrder, cValid, cOrphans>>
    BY DEF Pick, At, Fresh, poolVars
<1>0. cIdx \in 0 .. Cardinality(ClineAccts) /\ ClineTypeOK
    BY TypeIsShapeAndBounds DEF ClineBounds
<1>2. CASE Active = {}
    <2>1. End(r) /\ UNCHANGED cAcct /\ ListRests
        BY <1>1, <1>2 DEF Pick, poolVars, ListRests
    <2> QED
        BY <1>1, <2>1, DoneType, RequestMoves DEF End, ClineShape
<1>3. CASE Active # {}
    <2>1. LiftAll /\ cUnsaved' = {}
        BY <1>3 DEF Pick
    <2>2. PICK plan \in ClinePlans, i \in Active :
            /\ cReq' = [cReq EXCEPT ![r] = [FreshReq EXCEPT !.at = "ensure", !.acct = cOrder[i],
                                                            !.plan = plan, !.exit = 1]]
            /\ cIdx' = cIdx \/ cIdx' = Turn(Cardinality(Active))[2]
        BY <1>3 DEF Pick
    <2> DEFINE v == [FreshReq EXCEPT !.at = "ensure", !.acct = cOrder[i], !.plan = plan, !.exit = 1]
    <2>3. cOrder[i] \in Known /\ cOrder[i] \in ClineAccts
        <3>1. i \in DOMAIN cOrder
            BY DEF Active
        <3> QED
            BY <3>1, KnownAccts DEF ClineShape, Known
    <2>4. v \in RequestType /\ v.at = "ensure" /\ v.acct = cOrder[i] /\ v.exit = 1 /\ v.plan = plan
        BY <2>3, DoneType DEF RequestType
    <2>5. v.exit \in 0 .. (Len(v.plan) + 1)
        BY <2>4, PlanLength
    <2> HIDE DEF v
    <2>6. ListRests
        <3>1. cIdx \in Nat /\ Cardinality(ClineAccts) \in Nat
            BY <1>0, UnsavedCard
        <3>2. cIdx' = cIdx \/ cIdx' \in 0 .. Cardinality(ClineAccts)
            BY <1>0, <1>3, <2>2, <3>1, ActiveFinite, TurnRange
        <3> QED
            BY <1>1, <2>1, <3>2 DEF ListRests
    <2> QED
        BY <1>1, <2>1, <2>2, <2>3, <2>4, <2>5, <2>6, LiftKeeps, RequestMoves DEF v
<1> QED
    BY <1>2, <1>3

\* What a request under way is known to have.
LEMMA UnderWay ==
    ASSUME ClineShape, NEW r \in ClineReqs, ~At(r, "idle"), ~At(r, "done")
    PROVE  /\ cReq[r] \in RequestType /\ cReq[r].acct \in Known /\ cReq[r].acct \in ClineAccts
           /\ cAcct[cReq[r].acct] \in AccountType
BY KnownAccts DEF ClineShape, At

LEMMA EnsureRests ==
    ASSUME ClineShape, ClineBounds, NEW r \in ClineReqs, Ensure(r) PROVE ClineShape' /\ ClineBounds' /\ TokensRest
<1>1. At(r, "ensure") /\ ~Fresh(r) /\ cAcct' = cAcct /\ ListRests
    BY DEF Ensure, At, Fresh, poolVars, ListRests
<1>2. /\ cReq[r] \in RequestType /\ cReq[r].acct \in Known /\ cReq[r].acct \in ClineAccts
      /\ cAcct[cReq[r].acct] \in AccountType
    BY <1>1, UnderWay DEF At
<1> DEFINE t == cAcct[cReq[r].acct].refresh
           u == [cReq[r] EXCEPT !.at = "send"]
           v == [cReq[r] EXCEPT !.at = "refresh", !.token = t]
<1>3. t \in 0 .. MaxRefresh
    BY <1>2, ClineAssumption DEF AccountType
<1>4. cReq' = [cReq EXCEPT ![r] = u] \/ cReq' = [cReq EXCEPT ![r] = v]
    BY DEF Ensure, Move
<1>5. /\ u \in RequestType /\ u.at = "send" /\ u.acct = cReq[r].acct
      /\ u.exit = cReq[r].exit /\ u.plan = cReq[r].plan
      /\ v \in RequestType /\ v.at = "refresh" /\ v.acct = cReq[r].acct /\ v.token = t
      /\ v.exit = cReq[r].exit /\ v.plan = cReq[r].plan
    BY <1>2, <1>3 DEF RequestType
<1> HIDE DEF u, v
<1>6. cAcct' \in [ClineAccts -> AccountType] /\ \A a \in ClineAccts : cAcct'[a].refresh = cAcct[a].refresh
    BY <1>1 DEF ClineShape
<1>7. CASE cReq' = [cReq EXCEPT ![r] = u]
    BY <1>1, <1>2, <1>5, <1>6, <1>7, RequestMoves
<1>8. CASE cReq' = [cReq EXCEPT ![r] = v]
    BY <1>1, <1>2, <1>5, <1>6, <1>8, RequestMoves
<1> QED
    BY <1>4, <1>7, <1>8

\* A request that ends, whatever becomes of its account's status.
LEMMA EndRests ==
    ASSUME ClineShape, ClineBounds, NEW r \in ClineReqs, End(r), ~Fresh(r), ListRests,
           cAcct' = cAcct \/ (~At(r, "idle") /\ ~At(r, "done")
                              /\ \E w \in {"cooldown", "expired"} : cAcct' = [cAcct EXCEPT ![cReq[r].acct].status = w])
    PROVE  ClineShape' /\ ClineBounds' /\ TokensRest
<1>1. cAcct' \in [ClineAccts -> AccountType] /\ \A a \in ClineAccts : cAcct'[a].refresh = cAcct[a].refresh
    <2>1. CASE cAcct' = cAcct
        BY <2>1 DEF ClineShape
    <2>2. CASE cAcct' # cAcct
        <3>1. PICK w \in {"cooldown", "expired"} : cAcct' = [cAcct EXCEPT ![cReq[r].acct].status = w]
            BY <2>2
        <3>2. cReq[r].acct \in ClineAccts /\ cAcct[cReq[r].acct] \in AccountType
            BY <2>2, UnderWay
        <3> DEFINE v == [cAcct[cReq[r].acct] EXCEPT !.status = w]
        <3>3. cAcct' = [cAcct EXCEPT ![cReq[r].acct] = v]
            BY <3>1
        <3>4. v \in AccountType /\ v.refresh = cAcct[cReq[r].acct].refresh
            BY <3>2 DEF AccountType
        <3> HIDE DEF v
        <3> QED
            BY <3>2, <3>3, <3>4, StatusKeeps
    <2> QED
        BY <2>1, <2>2
<1> QED
    BY <1>1, DoneType, RequestMoves DEF End

LEMMA ExitRests ==
    ASSUME ClineShape, ClineBounds, NEW r \in ClineReqs, ExitFails(r) PROVE ClineShape' /\ ClineBounds' /\ TokensRest
<1>1. At(r, "send") /\ ~Fresh(r) /\ ListRests
    BY DEF ExitFails, At, Fresh, Cooled, ListRests
<1>2. CASE cReq[r].exit < Len(cReq[r].plan)
    <2>1. /\ cReq[r] \in RequestType /\ cReq[r].acct \in Known
        BY <1>1, UnderWay DEF At
    <2> DEFINE v == [cReq[r] EXCEPT !.exit = cReq[r].exit + 1]
    <2>2. cReq' = [cReq EXCEPT ![r] = v] /\ UNCHANGED cAcct
        BY <1>2 DEF ExitFails
    <2>3. v \in RequestType /\ v.at = "send" /\ v.acct = cReq[r].acct /\ v.exit = cReq[r].exit + 1 /\ v.plan = cReq[r].plan
        BY <1>1, <2>1 DEF RequestType, At
    <2>5. v.exit \in 0 .. (Len(v.plan) + 1)
        BY <1>2, <2>1, <2>3, PlanLength DEF ClineBounds, RequestType
    <2>4. cAcct' \in [ClineAccts -> AccountType] /\ \A a \in ClineAccts : cAcct'[a].refresh = cAcct[a].refresh
        BY <2>2 DEF ClineShape
    <2> HIDE DEF v
    <2> QED
        BY <1>1, <2>1, <2>2, <2>3, <2>4, <2>5, RequestMoves
<1>3. CASE ~(cReq[r].exit < Len(cReq[r].plan))
    <2>1. End(r) /\ (cAcct' = cAcct \/ cAcct' = [cAcct EXCEPT ![cReq[r].acct].status = "cooldown"])
        BY <1>3 DEF ExitFails, Cooled
    <2> QED
        BY <1>1, <2>1, EndRests DEF At
<1> QED
    BY <1>2, <1>3

LEMMA UnauthorizedRests ==
    ASSUME ClineShape, ClineBounds, NEW r \in ClineReqs, Unauthorized(r) PROVE ClineShape' /\ ClineBounds' /\ TokensRest
<1>1. ~Fresh(r) /\ cAcct' = cAcct /\ ListRests
    BY DEF Unauthorized, At, Fresh, poolVars, ListRests
<1>2. CASE End(r)
    BY <1>1, <1>2, EndRests
<1>3. CASE At(r, "send") /\ cReq' = [cReq EXCEPT ![r].at = "refresh", ![r].again = TRUE,
                                                 ![r].token = cAcct[cReq[r].acct].refresh]
    <2>1. /\ cReq[r] \in RequestType /\ cReq[r].acct \in Known /\ cReq[r].acct \in ClineAccts
          /\ cAcct[cReq[r].acct] \in AccountType
        BY <1>3, UnderWay DEF At
    <2> DEFINE t == cAcct[cReq[r].acct].refresh
               v == [cReq[r] EXCEPT !.at = "refresh", !.again = TRUE, !.token = t]
    <2>2. t \in 0 .. MaxRefresh
        BY <2>1, ClineAssumption DEF AccountType
    <2>3. cReq' = [cReq EXCEPT ![r] = v]
        BY <1>3
    <2>4. /\ v \in RequestType /\ v.at = "refresh" /\ v.acct = cReq[r].acct /\ v.token = t
          /\ v.exit = cReq[r].exit /\ v.plan = cReq[r].plan
        BY <2>1, <2>2 DEF RequestType
    <2>5. cAcct' \in [ClineAccts -> AccountType] /\ \A a \in ClineAccts : cAcct'[a].refresh = cAcct[a].refresh
        BY <1>1 DEF ClineShape
    <2> HIDE DEF v
    <2> QED
        BY <1>1, <2>1, <2>3, <2>4, <2>5, RequestMoves
<1> QED
    BY <1>2, <1>3 DEF Unauthorized

LEMMA EndingsRest ==
    ASSUME ClineShape, ClineBounds, NEW r \in ClineReqs, Limited(r) \/ Answered(r) \/ ModelsFetched(r)
    PROVE  ClineShape' /\ ClineBounds' /\ TokensRest
<1>1. /\ ~Fresh(r) /\ ~At(r, "idle") /\ ~At(r, "done") /\ ListRests /\ End(r)
      /\ cAcct' = cAcct \/ cAcct' = [cAcct EXCEPT ![cReq[r].acct].status = "cooldown"]
    BY DEF Limited, Answered, ModelsFetched, Cooled, At, Fresh, poolVars, ListRests
<1> QED
    BY <1>1, EndRests

LEMMA AgainRests ==
    ASSUME ClineShape, ClineBounds, NEW r \in ClineReqs, Again(r) PROVE ClineShape' /\ ClineBounds' /\ TokensRest
<1>1. ~Fresh(r) /\ cAcct' = cAcct /\ ListRests /\ cReq' = [cReq EXCEPT ![r] = FreshReq]
    BY DEF Again, At, Fresh, poolVars, ListRests
<1>2. cAcct' \in [ClineAccts -> AccountType] /\ \A a \in ClineAccts : cAcct'[a].refresh = cAcct[a].refresh
    BY <1>1 DEF ClineShape
<1> QED
    BY <1>1, <1>2, DoneType, RequestMoves

LEMMA OthersRest ==
    ASSUME ClineShape, ClineBounds,
           \/ \E a \in ClineAccts : CooldownOver(a) \/ AccessExpires(a)
           \/ ListAccounts \/ LoginStart \/ LoginFails \/ LoginSave \/ UNCHANGED clineVars
    PROVE  ClineShape' /\ ClineBounds' /\ TokensRest
<1>1. ASSUME NEW a \in ClineAccts, CooldownOver(a) \/ AccessExpires(a) PROVE ClineShape' /\ ClineBounds' /\ TokensRest
    <2>1. cAcct[a] \in AccountType
        BY DEF ClineShape
    <2> DEFINE u == [cAcct[a] EXCEPT !.status = "due"]
               v == [cAcct[a] EXCEPT !.access = FALSE]
    <2>2. u \in AccountType /\ u.refresh = cAcct[a].refresh /\ v \in AccountType /\ v.refresh = cAcct[a].refresh
        BY <2>1 DEF AccountType
    <2>3. /\ cAcct' = [cAcct EXCEPT ![a] = u] \/ cAcct' = [cAcct EXCEPT ![a] = v]
          /\ ListRests /\ UNCHANGED cReq
        BY <1>1 DEF CooldownOver, AccessExpires, ListRests
    <2> HIDE DEF u, v
    <2>4. cAcct' \in [ClineAccts -> AccountType] /\ \A b \in ClineAccts : cAcct'[b].refresh = cAcct[b].refresh
        BY <2>2, <2>3, StatusKeeps
    <2> QED
        BY <2>3, <2>4, AccountsMove
<1>2. CASE ListAccounts
    BY <1>2, LiftKeeps, AccountsMove DEF ListAccounts, ListRests
<1>3. CASE LoginStart \/ LoginFails \/ LoginSave \/ UNCHANGED clineVars
    <2>1. UNCHANGED <<cAcct, cReq>> /\ ListRests
        BY <1>3 DEF LoginStart, LoginFails, LoginSave, clineVars, poolVars, ListRests
    <2> QED
        BY <2>1, AccountsMove DEF ClineShape
<1> QED
    BY <1>1, <1>2, <1>3

-----------------------------------------------------------------------------
\* The steps that write refresh tokens.

\* An account that is in nobody's pool is known to no request.
LEMMA AppendKeeps ==
    ASSUME ClineShape, TokensKept, NEW a \in ClineAccts, LoginAppend(a)
    PROVE  ClineShape' /\ TokensKept'
<1> DEFINE v == [NewAcct EXCEPT !.refresh = cValid[a]]
<1>1. /\ a \notin Known /\ cOrder' = Append(cOrder, a) /\ cAcct' = [cAcct EXCEPT ![a] = v]
      /\ cOrphans' = cOrphans \ {a} /\ UNCHANGED <<cValid, cReq>>
    BY DEF LoginAppend
<1>2. v \in AccountType /\ v.refresh = cValid[a]
    BY DEF NewAcct, AccountType, ClineShape
<1> HIDE DEF v
<1>3. /\ Known' = Known \cup {a} /\ cOrder' \in Seq(ClineAccts) /\ IsInjective(cOrder)'
    <2>1. /\ cOrder \in Seq(ClineAccts) /\ Len(cOrder') = Len(cOrder) + 1 /\ cOrder'[Len(cOrder) + 1] = a
          /\ \A i \in 1 .. Len(cOrder) : cOrder'[i] = cOrder[i]
          /\ cOrder' \in Seq(ClineAccts)
          /\ DOMAIN cOrder = 1 .. Len(cOrder) /\ DOMAIN cOrder' = 1 .. (Len(cOrder) + 1) /\ Len(cOrder) \in Nat
        BY <1>1 DEF ClineShape
    <2>2. IsInjective(cOrder)'
        <3> SUFFICES ASSUME NEW i \in DOMAIN cOrder', NEW j \in DOMAIN cOrder', cOrder'[i] = cOrder'[j]
                     PROVE  i = j
            BY DEF IsInjective
        <3>1. \A k \in DOMAIN cOrder : cOrder[k] # a
            BY <1>1 DEF Known
        <3> QED
            BY <2>1, <3>1 DEF IsInjective, ClineShape
    <2>3. Known' = Known \cup {a}
        BY <2>1 DEF Known
    <2> QED
        BY <2>1, <2>2, <2>3
<1>4. cAcct' \in [ClineAccts -> AccountType] /\ cAcct'[a] = v /\ \A b \in ClineAccts \ {a} : cAcct'[b] = cAcct[b]
    BY <1>1, <1>2 DEF ClineShape
<1>5. ClineShape'
    BY <1>1, <1>3, <1>4 DEF ClineShape
<1>6. \A r \in ClineReqs : ~At(r, "idle") /\ ~At(r, "done") => cReq[r].acct \in ClineAccts /\ cReq[r].acct # a
    BY <1>1, UnderWay
<1>7. \A r \in ClineReqs : Fresh(r)' <=> Fresh(r)
    BY <1>1 DEF Fresh, At
<1>8. (\A b \in ClineAccts : cAcct[b].refresh <= cValid[b])'
    BY <1>1, <1>2, <1>4 DEF TokensKept, ClineShape
<1>9. ASSUME NEW r \in ClineReqs, At(r, "refresh") \/ At(r, "answered")
      PROVE  cReq[r].token <= cAcct'[cReq[r].acct].refresh
    <2>1. cReq[r].acct \in ClineAccts /\ cReq[r].acct # a
        BY <1>6, <1>9 DEF At
    <2> QED
        BY <1>4, <1>9, <2>1 DEF TokensKept
<1>10. ASSUME NEW r \in ClineReqs, Fresh(r)
       PROVE  cReq[r].answer = cValid[cReq[r].acct] /\ cAcct'[cReq[r].acct].refresh < cValid[cReq[r].acct]
    <2>1. cReq[r].acct \in ClineAccts /\ cReq[r].acct # a
        BY <1>6, <1>10 DEF At, Fresh
    <2> QED
        BY <1>4, <1>10, <2>1 DEF TokensKept
<1>11. ASSUME NEW b \in (Known \ cOrphans)'
       PROVE  cAcct'[b].refresh = cValid[b] \/ \E r \in ClineReqs : Fresh(r) /\ cReq[r].acct = b
    <2>1. CASE b = a
        BY <1>2, <1>4, <2>1
    <2>2. CASE b # a
        <3>1. b \in Known \ cOrphans /\ b \in ClineAccts
            BY <1>1, <1>3, <2>2, KnownAccts DEF ClineShape
        <3> QED
            BY <1>4, <2>2, <3>1 DEF TokensKept
    <2> QED
        BY <2>1, <2>2
<1>12. TokensKept'
    <2>1. /\ \A r \in ClineReqs : At(r, "refresh")' <=> At(r, "refresh")
          /\ \A r \in ClineReqs : At(r, "answered")' <=> At(r, "answered")
          /\ cReq' = cReq /\ cValid' = cValid
        BY <1>1 DEF At
    <2>2. \A q, r \in ClineReqs : Fresh(q) /\ Fresh(r) /\ cReq[q].acct = cReq[r].acct => q = r
        BY DEF TokensKept
    <2> QED
        BY <1>7, <1>8, <1>9, <1>10, <1>11, <2>1, <2>2 DEF TokensKept
<1> QED
    BY <1>5, <1>12

\* Cline takes only the token it handed out last.  Then the account has it, and no
\* newer one is on its way.
LEMMA AnswerKeeps ==
    ASSUME ClineShape, TokensKept, NEW r \in ClineReqs, ClineAnswers(r)
    PROVE  ClineShape' /\ TokensKept'
<1> DEFINE a == cReq[r].acct
           t == cReq[r].token
<1>1. /\ At(r, "refresh") /\ ~Fresh(r) /\ UNCHANGED <<cAcct, cOrder>>
      /\ cReq[r] \in RequestType /\ a \in Known /\ a \in ClineAccts /\ cAcct[a] \in AccountType
    BY UnderWay DEF ClineAnswers, At, Fresh, poolVars
<1>2. t <= cAcct[a].refresh /\ cAcct[a].refresh <= cValid[a]
    BY <1>1 DEF TokensKept
<1>3. PICK w \in 0 .. MaxRefresh :
        /\ cReq' = [cReq EXCEPT ![r].at = "answered", ![r].answer = w]
        /\ \/ w = Lost /\ UNCHANGED <<cValid, cOrphans>>
           \/ w = t /\ UNCHANGED <<cValid, cOrphans>>
           \/ /\ t = cValid[a] /\ cValid[a] < MaxRefresh /\ cValid' = [cValid EXCEPT ![a] = cValid[a] + 1]
              /\ \/ w = cValid[a] + 1 /\ UNCHANGED cOrphans
                 \/ w = Lost /\ cOrphans' = cOrphans \cup {a}
    <2>1. cValid[a] \in 1 .. MaxRefresh /\ t \in 0 .. MaxRefresh /\ Lost \in 0 .. MaxRefresh
        BY <1>1, ClineAssumption DEF ClineShape, RequestType, Lost
    <2>2. cValid[a] < MaxRefresh => cValid[a] + 1 \in 0 .. MaxRefresh
        BY <2>1, ClineAssumption
    <2> QED
        BY <2>1, <2>2, Zenon DEF ClineAnswers
<1> DEFINE v == [cReq[r] EXCEPT !.at = "answered", !.answer = w]
<1>4. cReq' = [cReq EXCEPT ![r] = v]
    BY <1>3
<1>5. v \in RequestType /\ v.at = "answered" /\ v.acct = a /\ v.token = t /\ v.answer = w
    BY <1>1, <1>3 DEF RequestType
<1> HIDE DEF v
<1>6. cReq'[r] = v /\ (\A q \in ClineReqs \ {r} : cReq'[q] = cReq[q]) /\ cReq' \in [ClineReqs -> RequestType]
    BY <1>4, <1>5 DEF ClineShape
<1>7. cValid' \in [ClineAccts -> 1 .. MaxRefresh]
    <2>1. cValid[a] < MaxRefresh => cValid[a] + 1 \in 1 .. MaxRefresh
        BY <1>1, ClineAssumption DEF ClineShape
    <2> QED
        BY <1>3, <2>1 DEF ClineShape
<1>8. Known' = Known /\ Known \subseteq ClineAccts
    BY <1>1, KnownAccts DEF Known, ClineShape
<1>9. ClineShape'
    <2>1. \A q \in ClineReqs : cReq'[q].at \in {"idle", "done"} \/ cReq'[q].acct \in Known
        BY <1>1, <1>5, <1>6 DEF ClineShape
    <2> QED
        BY <1>1, <1>6, <1>7, <1>8, <2>1 DEF ClineShape
<1>10. CASE cValid' = cValid /\ cOrphans' = cOrphans /\ w \in {Lost, t}
    <2>1. \A q \in ClineReqs : Fresh(q)' <=> Fresh(q)
        BY <1>1, <1>5, <1>6, <1>10 DEF Fresh, At
    <2>2. \A q \in ClineReqs : Fresh(q) => cReq'[q] = cReq[q]
        BY <1>1, <1>6
    <2>3. \A q \in ClineReqs : (At(q, "refresh") \/ At(q, "answered"))' =>
                (At(q, "refresh") \/ At(q, "answered")) /\ cReq'[q].token = cReq[q].token /\ cReq'[q].acct = cReq[q].acct
        BY <1>1, <1>5, <1>6 DEF At
    <2> QED
        BY <1>1, <1>8, <1>9, <1>10, <2>1, <2>2, <2>3 DEF TokensKept
<1>11. CASE /\ t = cValid[a] /\ cValid' = [cValid EXCEPT ![a] = cValid[a] + 1]
            /\ \/ w = cValid[a] + 1 /\ UNCHANGED cOrphans
               \/ w = Lost /\ cOrphans' = cOrphans \cup {a}
    <2>0. cAcct[a].refresh = cValid[a] /\ t \in Int /\ cValid[a] \in Int
        BY <1>1, <1>2, <1>11 DEF AccountType, ClineShape
    <2>1. cValid'[a] = cValid[a] + 1 /\ \A b \in ClineAccts \ {a} : cValid'[b] = cValid[b]
        BY <1>1, <1>11 DEF ClineShape
    <2>2. \A q \in ClineReqs : Fresh(q) => cReq[q].acct # a /\ cReq[q].acct \in ClineAccts
        <3> SUFFICES ASSUME NEW q \in ClineReqs, Fresh(q) PROVE cReq[q].acct # a /\ cReq[q].acct \in ClineAccts
            OBVIOUS
        <3>1. cReq[q].acct \in ClineAccts
            BY UnderWay DEF Fresh, At
        <3>2. cAcct[cReq[q].acct].refresh < cValid[cReq[q].acct]
            BY DEF TokensKept
        <3> QED
            BY <2>0, <3>1, <3>2
    <2>3. \A q \in ClineReqs : Fresh(q)' <=> (IF q = r THEN w = cValid[a] + 1 ELSE Fresh(q))
        <3>1. \A q \in ClineReqs \ {r} : Fresh(q)' <=> Fresh(q)
            BY <1>6 DEF Fresh, At
        <3>2. Fresh(r)' <=> w # Lost /\ w # t
            BY <1>5, <1>6 DEF Fresh, At
        <3>3. cValid[a] + 1 # Lost /\ cValid[a] + 1 # t
            BY <1>11, <2>0, <1>2, <1>1 DEF Lost, AccountType
        <3> QED
            BY <1>11, <3>1, <3>2, <3>3
    <2>4. (\A b \in ClineAccts : cAcct[b].refresh <= cValid[b])'
        BY <1>1, <2>0, <2>1 DEF TokensKept
    <2>5. ASSUME NEW q \in ClineReqs, (At(q, "refresh") \/ At(q, "answered"))'
          PROVE  (cReq[q].token <= cAcct[cReq[q].acct].refresh)'
        BY <1>1, <1>2, <1>5, <1>6, <2>5 DEF TokensKept, At
    <2>6. ASSUME NEW q \in ClineReqs, Fresh(q)'
          PROVE  (cReq[q].answer = cValid[cReq[q].acct] /\ cAcct[cReq[q].acct].refresh < cValid[cReq[q].acct])'
        <3>1. CASE q = r
            BY <1>1, <1>5, <1>6, <2>0, <2>1, <2>3, <2>6, <3>1
        <3>2. CASE q # r
            <4>1. Fresh(q) /\ cReq'[q] = cReq[q] /\ cReq[q].acct # a /\ cReq[q].acct \in ClineAccts
                BY <1>6, <2>2, <2>3, <2>6, <3>2
            <4> QED
                BY <1>1, <2>1, <4>1 DEF TokensKept
        <3> QED
            BY <3>1, <3>2
    <2>7. (\A p, q \in ClineReqs : Fresh(p) /\ Fresh(q) /\ cReq[p].acct = cReq[q].acct => p = q)'
        BY <1>5, <1>6, <2>2, <2>3 DEF TokensKept
    <2>8. ASSUME NEW b \in (Known \ cOrphans)'
          PROVE  (cAcct[b].refresh = cValid[b] \/ \E q \in ClineReqs : Fresh(q) /\ cReq[q].acct = b)'
        <3>1. b \in Known \ cOrphans /\ b \in ClineAccts
            BY <1>8, <1>11, <2>8
        <3>2. CASE b = a
            <4>1. w = cValid[a] + 1
                BY <1>11, <2>8, <3>2
            <4>2. Fresh(r)' /\ cReq'[r].acct = b
                BY <1>5, <1>6, <2>3, <3>2, <4>1
            <4> QED
                BY <4>2
        <3>3. CASE b # a
            <4>1. cAcct[b].refresh = cValid[b] \/ \E q \in ClineReqs : Fresh(q) /\ cReq[q].acct = b
                BY <3>1 DEF TokensKept
            <4>2. \A q \in ClineReqs : Fresh(q) => Fresh(q)' /\ cReq'[q] = cReq[q]
                BY <1>1, <1>6, <2>3
            <4> QED
                BY <1>1, <2>1, <3>1, <3>3, <4>1, <4>2
        <3> QED
            BY <3>2, <3>3
    <2> QED
        BY <1>9, <2>4, <2>5, <2>6, <2>7, <2>8 DEF TokensKept
<1> QED
    BY <1>3, <1>10, <1>11

\* The answer is written back.  A new token is the one that Cline accepts, so it is
\* newer than all that others hold; without a new one the account keeps its own.
LEMMA RefreshKeeps ==
    ASSUME ClineShape, ClineBounds, TokensKept, NEW r \in ClineReqs, Refreshed(r)
    PROVE  ClineShape' /\ ClineBounds' /\ TokensKept'
<1> DEFINE a == cReq[r].acct
           w == cReq[r].answer
<1>1. /\ At(r, "answered") /\ ListRests /\ UNCHANGED <<cOrder, cValid, cOrphans>>
      /\ cReq[r] \in RequestType /\ a \in Known /\ a \in ClineAccts /\ cAcct[a] \in AccountType
    BY UnderWay DEF Refreshed, At, ListRests
<1>2. CASE w = Lost
    <2>1. End(r) /\ cAcct' = [cAcct EXCEPT ![a].status = "expired"] /\ ~Fresh(r)
        BY <1>2 DEF Refreshed, Fresh
    <2> QED
        BY <1>1, <2>1, EndRests, RestKeepsTokens DEF At
<1>3. CASE w # Lost
    <2> DEFINE place == IF cReq[r].again THEN "resend" ELSE "send"
               v == [cReq[r] EXCEPT !.at = place, !.token = Lost, !.answer = Lost]
               n == [status |-> "active", access |-> TRUE, refresh |-> Kept(r)]
    <2>1. cReq' = [cReq EXCEPT ![r] = v] /\ cAcct' = [cAcct EXCEPT ![a] = n]
        BY <1>3 DEF Refreshed
    <2>2. /\ v \in RequestType /\ v.at \in {"send", "resend"} /\ v.acct = a
          /\ v.exit = cReq[r].exit /\ v.plan = cReq[r].plan
        <3>1. place \in {"send", "resend"} /\ Lost \in 0 .. MaxRefresh
            BY ClineAssumption DEF Lost
        <3> HIDE DEF place
        <3> QED
            BY <1>1, <3>1 DEF RequestType
    <2>3. CASE w = cReq[r].token
        <3>1. Kept(r) = cAcct[a].refresh /\ ~Fresh(r)
            BY <2>3 DEF Kept, Fresh
        <3>2. n \in AccountType /\ n.refresh = cAcct[a].refresh
            BY <1>1, <3>1 DEF AccountType
        <3> HIDE DEF n, v
        <3>3. cAcct' \in [ClineAccts -> AccountType] /\ \A b \in ClineAccts : cAcct'[b].refresh = cAcct[b].refresh
            BY <1>1, <2>1, <3>2, StatusKeeps
        <3> QED
            BY <1>1, <2>1, <2>2, <3>1, <3>3, RequestMoves, RestKeepsTokens
    <2>4. CASE w # cReq[r].token
        <3>1. Fresh(r) /\ Kept(r) = w
            BY <1>1, <1>3, <2>4 DEF Fresh, Kept
        <3>2. w = cValid[a] /\ cAcct[a].refresh < cValid[a] /\ cValid[a] \in 1 .. MaxRefresh
            BY <1>1, <3>1 DEF TokensKept, ClineShape
        <3>3. n \in AccountType /\ n.refresh = cValid[a]
            BY <3>1, <3>2 DEF AccountType
        <3> HIDE DEF n, v
        <3>4. /\ cAcct'[a] = n /\ (\A b \in ClineAccts \ {a} : cAcct'[b] = cAcct[b])
              /\ cAcct' \in [ClineAccts -> AccountType]
            BY <1>1, <2>1, <3>3 DEF ClineShape
        <3>5. cReq \in [ClineReqs -> RequestType]
            BY DEF ClineShape
        <3>6. cReq'[r] = v /\ (\A q \in ClineReqs \ {r} : cReq'[q] = cReq[q]) /\ cReq' \in [ClineReqs -> RequestType]
            BY <2>1, <2>2, <3>5
        <3>7. Known' = Known /\ Known \subseteq ClineAccts
            BY <1>1, KnownAccts DEF Known, ClineShape
        <3>8. \A q \in ClineReqs : cReq'[q].at \in {"idle", "done"} \/ cReq'[q].acct \in Known
            BY <1>1, <2>2, <3>6 DEF ClineShape
        <3>9. ClineShape'
            BY <1>1, <3>4, <3>6, <3>7, <3>8 DEF ClineShape
        <3>10. \A q \in ClineReqs : Fresh(q)' <=> Fresh(q) /\ q # r
            <4>1. ~Fresh(r)'
                BY <2>2, <3>6 DEF Fresh, At
            <4>2. \A q \in ClineReqs \ {r} : Fresh(q)' <=> Fresh(q)
                BY <3>6 DEF Fresh, At
            <4> QED
                BY <4>1, <4>2
        <3>11. \A q \in ClineReqs : Fresh(q) /\ q # r => cReq[q].acct # a /\ cReq[q].acct \in ClineAccts
            BY <3>1, UnderWay DEF TokensKept, Fresh, At
        <3>12. (\A b \in ClineAccts : cAcct[b].refresh <= cValid[b])'
            BY <1>1, <3>2, <3>3, <3>4 DEF TokensKept
        <3>13. ASSUME NEW q \in ClineReqs, (At(q, "refresh") \/ At(q, "answered"))'
               PROVE  (cReq[q].token <= cAcct[cReq[q].acct].refresh)'
            <4>1. q # r /\ cReq'[q] = cReq[q]
                BY <2>2, <3>6, <3>13 DEF At
            <4>2. /\ cReq[q].acct \in ClineAccts /\ cReq[q].token <= cAcct[cReq[q].acct].refresh
                  /\ cReq[q].token \in Int /\ cAcct[a].refresh \in Int
                BY <1>1, <3>13, <4>1, UnderWay DEF TokensKept, At, RequestType, AccountType
            <4> QED
                BY <3>2, <3>3, <3>4, <4>1, <4>2
        <3>14. ASSUME NEW q \in ClineReqs, Fresh(q)'
               PROVE  (cReq[q].answer = cValid[cReq[q].acct] /\ cAcct[cReq[q].acct].refresh < cValid[cReq[q].acct])'
            <4>1. Fresh(q) /\ cReq'[q] = cReq[q] /\ cReq[q].acct # a /\ cReq[q].acct \in ClineAccts
                BY <3>6, <3>10, <3>11, <3>14
            <4> QED
                BY <1>1, <3>4, <4>1 DEF TokensKept
        <3>15. (\A p, q \in ClineReqs : Fresh(p) /\ Fresh(q) /\ cReq[p].acct = cReq[q].acct => p = q)'
            BY <3>6, <3>10 DEF TokensKept
        <3>16. ASSUME NEW b \in (Known \ cOrphans)'
               PROVE  (cAcct[b].refresh = cValid[b] \/ \E q \in ClineReqs : Fresh(q) /\ cReq[q].acct = b)'
            <4>1. b \in Known \ cOrphans /\ b \in ClineAccts
                BY <1>1, <3>7, <3>16
            <4>2. CASE b = a
                BY <1>1, <3>3, <3>4, <4>2
            <4>3. CASE b # a
                <5>1. cAcct[b].refresh = cValid[b] \/ \E q \in ClineReqs : Fresh(q) /\ cReq[q].acct = b
                    BY <4>1 DEF TokensKept
                <5>2. \A q \in ClineReqs : Fresh(q) /\ cReq[q].acct = b => Fresh(q)' /\ cReq'[q] = cReq[q]
                    BY <3>6, <3>10, <4>3
                <5> QED
                    BY <1>1, <3>4, <4>1, <4>3, <5>1, <5>2
            <4> QED
                BY <4>2, <4>3
        <3>17. ClineBounds'
            BY <1>1, <2>2, <3>6, SavedBounds DEF ListRests
        <3> QED
            BY <3>9, <3>12, <3>13, <3>14, <3>15, <3>16, <3>17 DEF TokensKept
    <2> QED
        BY <2>3, <2>4
<1> QED
    BY <1>2, <1>3

\* What of the pool is read again is its beginning.
LEMMA RestartOrder ==
    ASSUME ClineShape, cUnsaved \subseteq Known, ClineRestart
    PROVE  cOrder' \in Seq(ClineAccts) /\ IsInjective(cOrder)' /\ Known' \subseteq Known
<1>1. cOrder' \in {<<>>, SubSeq(cOrder, 1, Len(cOrder) - Cardinality(cUnsaved))}
    BY DEF ClineRestart
<1>2. Cardinality(cUnsaved) \in Nat
    BY KnownAccts, FS_Subset, FS_CardinalityType, ClineAssumption DEF ClineShape
<1>3. CASE cOrder' = <<>>
    BY <1>3 DEF IsInjective, Known
<1>4. CASE cOrder' = SubSeq(cOrder, 1, Len(cOrder) - Cardinality(cUnsaved))
    <2> DEFINE m == Len(cOrder) - Cardinality(cUnsaved)
    <2>1. cOrder \in Seq(ClineAccts) /\ Len(cOrder) \in Nat /\ m \in Int /\ m <= Len(cOrder)
        BY <1>2 DEF ClineShape
    <2> HIDE DEF m
    <2>2. DOMAIN cOrder' \subseteq DOMAIN cOrder /\ \A i \in DOMAIN cOrder' : cOrder'[i] = cOrder[i]
        BY <1>4, <2>1 DEF m
    <2>3. cOrder' \in Seq(ClineAccts)
        BY <1>4, <2>1 DEF m
    <2> QED
        BY <2>2, <2>3 DEF IsInjective, Known, ClineShape
<1> QED
    BY <1>1, <1>3, <1>4

\* After a restart nobody has an answer any more; what was lost with one is noted.
LEMMA RestartKeeps ==
    ASSUME ClineShape, TokensKept, cUnsaved \subseteq Known, ClineRestart
    PROVE  ClineShape' /\ TokensKept'
<1> DEFINE rest(a) == [cAcct[a] EXCEPT !.access = FALSE]
<1>1. /\ cReq' = [r \in ClineReqs |-> FreshReq] /\ cValid' = cValid
      /\ cAcct' = [a \in ClineAccts |-> rest(a)]
      /\ cOrphans' = cOrphans \cup {cReq[r].acct : r \in {q \in ClineReqs : Fresh(q)}}
      /\ cOrder' \in {<<>>, SubSeq(cOrder, 1, Len(cOrder) - Cardinality(cUnsaved))}
    BY DEF ClineRestart, Fresh
<1>2. Known \subseteq ClineAccts
    BY KnownAccts DEF ClineShape
<1>4. cOrder' \in Seq(ClineAccts) /\ IsInjective(cOrder)' /\ Known' \subseteq Known
    BY RestartOrder
<1>5. \A a \in ClineAccts : rest(a) \in AccountType /\ rest(a).refresh = cAcct[a].refresh
    <2> SUFFICES ASSUME NEW a \in ClineAccts PROVE rest(a) \in AccountType /\ rest(a).refresh = cAcct[a].refresh
        OBVIOUS
    <2>1. cAcct[a] \in AccountType
        BY DEF ClineShape
    <2> QED
        BY <2>1 DEF AccountType
<1> HIDE DEF rest
<1>6. cAcct' \in [ClineAccts -> AccountType] /\ \A a \in ClineAccts : cAcct'[a].refresh = cAcct[a].refresh
    BY <1>1, <1>5
<1>7. \A r \in ClineReqs : cReq'[r] = FreshReq
    BY <1>1
<1>8. ClineShape'
    BY <1>1, <1>4, <1>6, <1>7, DoneType DEF ClineShape
<1>9. \A r \in ClineReqs : ~Fresh(r)' /\ ~At(r, "refresh")' /\ ~At(r, "answered")'
    BY <1>7, DoneType DEF Fresh, At
<1>10. ASSUME NEW a \in (Known \ cOrphans)' PROVE cAcct'[a].refresh = cValid'[a]
    <2>1. a \in Known \ cOrphans /\ a \in ClineAccts /\ ~\E r \in ClineReqs : Fresh(r) /\ cReq[r].acct = a
        BY <1>1, <1>2, <1>4, <1>10
    <2> QED
        BY <1>1, <1>6, <2>1 DEF TokensKept
<1>11. (\A a \in ClineAccts : cAcct[a].refresh <= cValid[a])'
    BY <1>1, <1>6 DEF TokensKept
<1> QED
    BY <1>8, <1>9, <1>10, <1>11 DEF TokensKept

-----------------------------------------------------------------------------
LEMMA AppendBounds ==
    ASSUME ClineShape, ClineBounds, NEW a \in ClineAccts, LoginAppend(a) PROVE ClineBounds'
<1>1. /\ a \notin Known /\ cOrder' = Append(cOrder, a) /\ cUnsaved' = cUnsaved \cup {a}
      /\ UNCHANGED <<cIdx, cReq>>
    BY DEF LoginAppend
<1>2. /\ cOrder \in Seq(ClineAccts) /\ Len(cOrder') = Len(cOrder) + 1 /\ cOrder'[Len(cOrder) + 1] = a
      /\ \A i \in 1 .. Len(cOrder) : cOrder'[i] = cOrder[i]
      /\ DOMAIN cOrder = 1 .. Len(cOrder) /\ DOMAIN cOrder' = 1 .. (Len(cOrder) + 1) /\ Len(cOrder) \in Nat
    BY <1>1 DEF ClineShape
<1>3. Known' = Known \cup {a}
    BY <1>2 DEF Known
<1>4. IsFiniteSet(cUnsaved) /\ Cardinality(cUnsaved) \in Nat /\ a \notin cUnsaved
    BY <1>1, UnsavedCard DEF ClineBounds
<1>5. Cardinality(cUnsaved') = Cardinality(cUnsaved) + 1
    BY <1>1, <1>4, FS_AddElement
<1>6. ASSUME NEW i \in DOMAIN cOrder'
      PROVE  cOrder'[i] \in cUnsaved' <=> i > Len(cOrder') - Cardinality(cUnsaved')
    <2>1. CASE i = Len(cOrder) + 1
        BY <1>1, <1>2, <1>4, <1>5, <2>1
    <2>2. CASE i # Len(cOrder) + 1
        <3>1. i \in DOMAIN cOrder /\ cOrder'[i] = cOrder[i] /\ cOrder[i] # a
            BY <1>1, <1>2, <2>2 DEF Known
        <3>2. cOrder'[i] \in cUnsaved' <=> cOrder[i] \in cUnsaved
            BY <1>1, <3>1
        <3> QED
            BY <1>2, <1>4, <1>5, <3>1, <3>2 DEF ClineBounds
    <2> QED
        BY <2>1, <2>2
<1> QED
    BY <1>1, <1>3, <1>6 DEF ClineBounds

LEMMA AnswerBounds ==
    ASSUME ClineShape, ClineBounds, NEW r \in ClineReqs, ClineAnswers(r) PROVE ClineBounds'
<1>1. UNCHANGED <<cOrder, cUnsaved, cIdx>>
    BY DEF ClineAnswers, poolVars
<1>2. PICK w : cReq' = [cReq EXCEPT ![r].at = "answered", ![r].answer = w]
    BY Zenon DEF ClineAnswers
<1>3. cReq \in [ClineReqs -> RequestType]
    BY DEF ClineShape
<1>4. \A q \in ClineReqs : cReq'[q].exit = cReq[q].exit /\ cReq'[q].plan = cReq[q].plan
    BY <1>2, <1>3 DEF RequestType
<1> QED
    BY <1>1, <1>4, SavedBounds

LEMMA RestartBounds ==
    ASSUME ClineShape, ClineBounds, ClineRestart PROVE ClineBounds'
<1>1. /\ cReq' = [r \in ClineReqs |-> FreshReq] /\ cUnsaved' = {}
      /\ cOrder' \in {<<>>, SubSeq(cOrder, 1, Len(cOrder) - Cardinality(cUnsaved))}
      /\ cIdx' \in {0, cIdx}
    BY DEF ClineRestart
<1>2. Cardinality(cUnsaved) \in Nat /\ Cardinality({}) = 0 /\ Cardinality(ClineAccts) \in Nat
    BY UnsavedCard
<1>4. \A i \in DOMAIN cOrder' : ~(i > Len(cOrder') - Cardinality(cUnsaved'))
    <2>1. cOrder' \in Seq(ClineAccts)
        BY RestartOrder DEF ClineBounds
    <2> QED
        BY <1>1, <1>2, <2>1
<1>5. \A r \in ClineReqs : cReq'[r].exit \in 0 .. (Len(cReq'[r].plan) + 1)
    BY <1>1, DoneType
<1> QED
    BY <1>1, <1>2, <1>4, <1>5 DEF ClineBounds

-----------------------------------------------------------------------------
\* The picks in a row from one choice are as many as it has at most; the last is
\* of the place before the index, the one before it of the place before that, and
\* so on around the pool.
RankIn(S, i) == Cardinality({j \in S : j < i})
Back(idx, steps, n) == IF idx - 1 - steps >= 0 THEN idx - 1 - steps ELSE idx - 1 - steps + n

LEMMA BackOne ==
    ASSUME NEW n \in Nat, NEW t \in 0 .. (n - 1), NEW idx, idx = IF t = n - 1 THEN 0 ELSE t + 1
    PROVE  Back(idx, 0, n) = t
BY DEF Back

LEMMA BackMore ==
    ASSUME NEW n \in Nat, NEW t \in 0 .. (n - 1), NEW idx, idx = (IF t = n - 1 THEN 0 ELSE t + 1),
           NEW s \in Nat, s + 1 < n
    PROVE  Back(idx, s + 1, n) = Back(t, s, n)
BY DEF Back

LEMMA BackDiffers ==
    ASSUME NEW n \in Nat, NEW idx \in 0 .. (n - 1), NEW s \in 0 .. (n - 1), NEW t \in 0 .. (n - 1),
           Back(idx, s, n) = Back(idx, t, n)
    PROVE  s = t
BY DEF Back

PicksInTurn ==
    /\ cPicks \in Seq([choice : [order : Seq(ClineAccts), active : SUBSET Nat], acct : ClineAccts])
    /\ cPicks # <<>> =>
         LET c == cPicks[1].choice IN
         /\ Cardinality(c.active) \in Nat /\ Cardinality(c.active) > 0
         /\ c.active \subseteq DOMAIN c.order /\ IsInjective(c.order)
         /\ Len(cPicks) <= Cardinality(c.active)
         /\ cIdx \in 0 .. (Cardinality(c.active) - 1)
         /\ \A k \in DOMAIN cPicks :
              /\ cPicks[k].choice = c
              /\ \E i \in c.active : /\ cPicks[k].acct = c.order[i]
                                     /\ RankIn(c.active, i) = Back(cIdx, Len(cPicks) - k, Cardinality(c.active))

LEMMA PicksEven == PicksInTurn => RotationEven
<1> SUFFICES ASSUME PicksInTurn, NEW k \in DOMAIN cPicks, NEW l \in DOMAIN cPicks,
                    cPicks[k].acct = cPicks[l].acct
             PROVE  k = l
    BY DEF RotationEven, IsInjective
<1> DEFINE c == cPicks[1].choice
           n == Cardinality(c.active)
<1>1. /\ n \in Nat /\ IsInjective(c.order) /\ c.active \subseteq DOMAIN c.order /\ Len(cPicks) <= n
      /\ cIdx \in 0 .. (n - 1) /\ DOMAIN cPicks = 1 .. Len(cPicks) /\ Len(cPicks) \in Nat
    BY DEF PicksInTurn
<1> HIDE DEF c, n
<1>6. \A j \in DOMAIN cPicks : \E i \in c.active : /\ cPicks[j].acct = c.order[i]
                                                /\ RankIn(c.active, i) = Back(cIdx, Len(cPicks) - j, n)
    <2>1. cPicks # <<>>
        OBVIOUS
    <2> QED
        BY <2>1, Zenon DEF PicksInTurn, c, n
<1>2. PICK i \in c.active : cPicks[k].acct = c.order[i] /\ RankIn(c.active, i) = Back(cIdx, Len(cPicks) - k, n)
    BY <1>6
<1>3. PICK m \in c.active : cPicks[l].acct = c.order[m] /\ RankIn(c.active, m) = Back(cIdx, Len(cPicks) - l, n)
    BY <1>6
<1>4. i = m
    BY <1>1, <1>2, <1>3 DEF IsInjective
<1>5. Back(cIdx, Len(cPicks) - k, n) = Back(cIdx, Len(cPicks) - l, n)
    BY <1>2, <1>3, <1>4
<1>7. Len(cPicks) - k \in 0 .. (n - 1) /\ Len(cPicks) - l \in 0 .. (n - 1)
    BY <1>1
<1>8. Len(cPicks) - k = Len(cPicks) - l
    BY <1>1, <1>5, <1>7, BackDiffers
<1> QED
    BY <1>1, <1>8

\* A pick that begins a new row, or goes on with one.
LEMMA PickInTurn ==
    ASSUME ClineTypeOK, PicksInTurn, Active # {}, NEW i \in Active,
           Rank(i) = Turn(Cardinality(Active))[1], cIdx' = Turn(Cardinality(Active))[2], Noted(cOrder[i])
    PROVE  PicksInTurn'
<1> DEFINE n == Cardinality(Active)
           pick == [choice |-> Choice, acct |-> cOrder[i]]
           l == Append(cPicks, pick)
           PickType == [choice : [order : Seq(ClineAccts), active : SUBSET Nat], acct : ClineAccts]
<1>1. n \in Nat /\ n > 0 /\ Active \subseteq DOMAIN cOrder
    BY ActiveFinite
<1>2. cIdx \in Nat /\ cOrder \in Seq(ClineAccts) /\ IsInjective(cOrder)
    <2>1. cIdx \in 0 .. Cardinality(ClineAccts) /\ ClineShape /\ ClineBounds
        BY TypeIsShapeAndBounds DEF ClineBounds
    <2> QED
        BY <2>1, UnsavedCard DEF ClineShape
<1>3. /\ Turn(n)[1] = (IF cIdx >= n THEN 0 ELSE cIdx) /\ Turn(n)[1] \in 0 .. (n - 1)
      /\ cIdx' = (IF Turn(n)[1] = n - 1 THEN 0 ELSE Turn(n)[1] + 1) /\ cIdx' \in 0 .. (n - 1)
    BY <1>1, <1>2, TurnRange
<1>4. Rank(i) = RankIn(Active, i)
    BY DEF Rank, RankIn
<1>5. Choice.order = cOrder /\ Choice.active = Active /\ pick.choice = Choice /\ pick.acct = cOrder[i] /\ pick \in PickType
    BY <1>1, <1>2 DEF Choice
<1> HIDE DEF n, pick, PickType
<1>6. CASE cPicks = <<>> \/ cPicks[1].choice # Choice
    <2>1. cPicks' = <<pick>>
        BY <1>6 DEF Noted, pick
    <2>2. Len(cPicks') = 1 /\ DOMAIN cPicks' = {1} /\ cPicks'[1] = pick /\ cPicks' \in Seq(PickType)
        BY <1>5, <2>1
    <2>3. Back(cIdx', Len(cPicks') - 1, n) = Turn(n)[1]
        <3>1. Len(cPicks') - 1 = 0
            BY <2>2
        <3> QED
            BY <1>1, <1>3, <3>1, BackOne
    <2> QED
        BY <1>1, <1>2, <1>3, <1>4, <1>5, <2>2, <2>3 DEF PicksInTurn, n, PickType
<1>7. CASE ~(cPicks = <<>> \/ cPicks[1].choice # Choice)
    <2>1. /\ cPicks \in Seq(PickType) /\ cPicks # <<>> /\ cPicks[1].choice = Choice /\ Len(cPicks) <= n /\ cIdx \in 0 .. (n - 1)
          /\ \A k \in DOMAIN cPicks :
               /\ cPicks[k].choice = Choice
               /\ \E m \in Active : cPicks[k].acct = cOrder[m] /\ RankIn(Active, m) = Back(cIdx, Len(cPicks) - k, n)
        BY <1>5, <1>7 DEF PicksInTurn, n, PickType
    <2>2. cIdx \in 0 .. (n - 1) /\ cIdx' = (IF cIdx = n - 1 THEN 0 ELSE cIdx + 1)
        BY <1>1, <1>3, <2>1
    <2>3. CASE Len(l) > n
        <3>1. cPicks' = Tail(l)
            BY <1>7, <2>3 DEF Noted, n, pick
        <3>2. /\ Len(cPicks) = n /\ Len(cPicks') = n /\ cPicks' \in Seq(PickType) /\ cPicks'[n] = pick
              /\ DOMAIN cPicks = 1 .. n /\ DOMAIN cPicks' = 1 .. n
              /\ \A k \in 1 .. (n - 1) : cPicks'[k] = cPicks[k + 1]
            BY <1>1, <1>5, <2>1, <2>3, <3>1
        <3>3. cPicks'[1].choice = Choice
            <4>1. CASE n = 1
                BY <1>5, <3>2, <4>1
            <4>2. CASE n # 1
                <5>1. 1 \in 1 .. (n - 1) /\ 2 \in DOMAIN cPicks
                    BY <1>1, <3>2, <4>2
                <5> QED
                    BY <2>1, <3>2, <5>1
            <4> QED
                BY <4>1, <4>2
        <3>4. ASSUME NEW k \in 1 .. n
              PROVE  /\ cPicks'[k].choice = Choice
                     /\ \E m \in Active : cPicks'[k].acct = cOrder[m] /\ RankIn(Active, m) = Back(cIdx', Len(cPicks') - k, n)
            <4>1. CASE k = n
                <5>1. Back(cIdx', Len(cPicks') - k, n) = Turn(n)[1]
                    <6>1. Len(cPicks') - k = 0
                        BY <1>1, <3>2, <4>1
                    <6> QED
                        BY <1>1, <1>3, <6>1, BackOne
                <5> QED
                    BY <1>3, <1>4, <1>5, <3>2, <4>1, <5>1 DEF n
            <4>2. CASE k # n
                <5>1. k + 1 \in DOMAIN cPicks /\ cPicks'[k] = cPicks[k + 1]
                    BY <1>1, <3>2, <4>2
                <5>2. Back(cIdx', Len(cPicks') - k, n) = Back(cIdx, Len(cPicks) - (k + 1), n)
                    <6>1. Len(cPicks') - k = (Len(cPicks) - (k + 1)) + 1 /\ Len(cPicks) - (k + 1) \in Nat /\ Len(cPicks) - k < n
                        BY <1>1, <3>2, <4>2
                    <6> QED
                        BY <1>1, <2>2, <6>1, BackMore
                <5> QED
                    BY <2>1, <5>1, <5>2
            <4> QED
                BY <4>1, <4>2
        <3>5. /\ cPicks' # <<>> /\ cPicks'[1].choice.active = Active /\ cPicks'[1].choice.order = cOrder
              /\ DOMAIN cPicks' = 1 .. Len(cPicks') /\ Len(cPicks') <= n
            BY <1>1, <1>5, <3>2, <3>3
        <3> HIDE DEF l
        <3> QED
            BY <1>1, <1>2, <1>3, <1>5, <3>2, <3>3, <3>4, <3>5 DEF PicksInTurn, n, PickType
    <2>4. CASE ~(Len(l) > n)
        <3>1. cPicks' = l
            BY <1>7, <2>4 DEF Noted, n, pick
        <3>2. /\ Len(cPicks') = Len(cPicks) + 1 /\ Len(cPicks') <= n /\ cPicks' \in Seq(PickType) /\ cPicks'[Len(cPicks) + 1] = pick
              /\ DOMAIN cPicks = 1 .. Len(cPicks) /\ DOMAIN cPicks' = 1 .. (Len(cPicks) + 1) /\ Len(cPicks) \in Nat /\ Len(cPicks) > 0
              /\ \A k \in 1 .. Len(cPicks) : cPicks'[k] = cPicks[k]
            BY <1>1, <1>5, <2>1, <2>4, <3>1
        <3>3. cPicks'[1].choice = Choice /\ cPicks' # <<>>
            BY <1>1, <1>5, <2>1, <3>2
        <3>4. ASSUME NEW k \in DOMAIN cPicks'
              PROVE  /\ cPicks'[k].choice = Choice
                     /\ \E m \in Active : cPicks'[k].acct = cOrder[m] /\ RankIn(Active, m) = Back(cIdx', Len(cPicks') - k, n)
            <4>1. CASE k = Len(cPicks) + 1
                <5>1. Back(cIdx', Len(cPicks') - k, n) = Turn(n)[1]
                    <6>1. Len(cPicks') - k = 0
                        BY <1>1, <3>2, <4>1
                    <6> QED
                        BY <1>1, <1>3, <6>1, BackOne
                <5> QED
                    BY <1>3, <1>4, <1>5, <3>2, <4>1, <5>1 DEF n
            <4>2. CASE k # Len(cPicks) + 1
                <5>1. k \in DOMAIN cPicks /\ cPicks'[k] = cPicks[k]
                    BY <1>1, <3>2, <4>2
                <5>2. Back(cIdx', Len(cPicks') - k, n) = Back(cIdx, Len(cPicks) - k, n)
                    <6>1. Len(cPicks') - k = (Len(cPicks) - k) + 1 /\ Len(cPicks) - k \in Nat /\ Len(cPicks) - k + 1 < n
                        BY <1>1, <3>2, <4>2
                    <6> QED
                        BY <1>1, <2>2, <6>1, BackMore
                <5> QED
                    BY <2>1, <5>1, <5>2
            <4> QED
                BY <4>1, <4>2
        <3>5. /\ cPicks' # <<>> /\ cPicks'[1].choice.active = Active /\ cPicks'[1].choice.order = cOrder
              /\ DOMAIN cPicks' = 1 .. Len(cPicks') /\ Len(cPicks') <= n
            BY <1>1, <1>5, <3>2, <3>3
        <3> HIDE DEF l
        <3> QED
            BY <1>1, <1>2, <1>3, <1>5, <3>2, <3>3, <3>4, <3>5 DEF PicksInTurn, n, PickType
    <2> QED
        BY <2>3, <2>4
<1> QED
    BY <1>6, <1>7

\* Nothing but a chat's pick and a restart moves the index or the row of picks.
LEMMA PicksRest == PicksInTurn /\ UNCHANGED <<cPicks, cIdx>> => PicksInTurn'
BY DEF PicksInTurn

ClineInv == ClineShape /\ ClineBounds /\ TokensKept /\ PicksInTurn

LEMMA PicksNext ==
    ASSUME ClineInv, [ClineNext]_clineVars PROVE PicksInTurn'
<1>1. PicksInTurn /\ ClineTypeOK
    BY TypeIsShapeAndBounds DEF ClineInv
<1>2. ASSUME NEW r \in ClineReqs, Pick(r) PROVE PicksInTurn'
    <2>1. CASE UNCHANGED <<cPicks, cIdx>>
        BY <1>1, <2>1, PicksRest
    <2>2. CASE ~UNCHANGED <<cPicks, cIdx>>
        <3>1. Active # {}
            BY <1>2, <2>2 DEF Pick, poolVars
        <3>2. PICK i \in Active : /\ Rank(i) = Turn(Cardinality(Active))[1]
                                 /\ cIdx' = Turn(Cardinality(Active))[2] /\ Noted(cOrder[i])
            BY <1>2, <2>2, <3>1 DEF Pick
        <3> QED
            BY <1>1, <3>1, <3>2, PickInTurn
    <2> QED
        BY <2>1, <2>2
<1>3. CASE ClineRestart
    <2>1. cPicks' = <<>>
        BY <1>3 DEF ClineRestart
    <2> QED
        BY <2>1 DEF PicksInTurn
<1>4. CASE UNCHANGED <<cPicks, cIdx>>
    BY <1>1, <1>4, PicksRest
<1> QED
    BY <1>2, <1>3, <1>4 DEF ClineNext, ClineStep, Ensure, ClineAnswers, Refreshed, ExitFails, Unauthorized,
       Limited, Answered, ModelsFetched, Again, CooldownOver, AccessExpires, LoginAppend, ListAccounts,
       LoginStart, LoginFails, LoginSave, clineVars, poolVars

LEMMA ClineInitInv == ClineInit => ClineInv
<1> SUFFICES ASSUME ClineInit PROVE ClineInv
    OBVIOUS
<1> DEFINE read == [NewAcct EXCEPT !.access = FALSE]
<1>1. cAcct = [a \in ClineAccts |-> read] /\ read \in AccountType /\ read.refresh = 1
    <2>1. 1 \in 1 .. MaxRefresh
        BY ClineAssumption
    <2>2. read \in AccountType /\ read.refresh = 1
        BY <2>1 DEF NewAcct, AccountType
    <2> QED
        BY <2>2 DEF ClineInit
<1> HIDE DEF read
<1>2. cAcct \in [ClineAccts -> AccountType] /\ \A a \in ClineAccts : cAcct[a].refresh = 1
    BY <1>1
<1>3. cOrder \in Seq(ClineAccts) /\ IsInjective(cOrder)
    <2>1. CASE cOrder = <<>>
        BY <2>1 DEF IsInjective
    <2>2. CASE cOrder \in Bijection(1 .. Cardinality(ClineAccts), ClineAccts)
        <3>1. cOrder \in [1 .. Cardinality(ClineAccts) -> ClineAccts] /\ IsInjective(cOrder)
            BY <2>2 DEF Bijection, Injection
        <3>2. Cardinality(ClineAccts) \in Nat
            BY FS_CardinalityType, ClineAssumption
        <3> QED
            BY <3>1, <3>2
    <2> QED
        BY <2>1, <2>2 DEF ClineInit
<1>4. cValid \in [ClineAccts -> 1 .. MaxRefresh] /\ \A a \in ClineAccts : cValid[a] = 1
    BY ClineAssumption DEF ClineInit
<1>5. cReq \in [ClineReqs -> RequestType] /\ \A r \in ClineReqs : cReq[r] = FreshReq
    BY DoneType DEF ClineInit
<1>6. ClineShape
    BY <1>2, <1>3, <1>4, <1>5, DoneType DEF ClineShape
<1>7. TokensKept
    <2>1. \A r \in ClineReqs : ~Fresh(r) /\ ~At(r, "refresh") /\ ~At(r, "answered")
        BY <1>5, DoneType DEF Fresh, At
    <2>2. \A a \in Known : a \in ClineAccts
        BY <1>3, KnownAccts
    <2> QED
        BY <1>2, <1>4, <2>1, <2>2 DEF TokensKept
<1>8. ClineBounds
    <2>1. Cardinality(ClineAccts) \in Nat /\ Cardinality({}) = 0
        BY FS_CardinalityType, FS_EmptySet, ClineAssumption
    <2>2. \A i \in DOMAIN cOrder : ~(i > Len(cOrder))
        BY <1>3
    <2> QED
        BY <1>3, <1>5, <2>1, <2>2, DoneType DEF ClineBounds, ClineInit
<1>9. PicksInTurn
    BY DEF PicksInTurn, ClineInit
<1> QED
    BY <1>6, <1>7, <1>8, <1>9 DEF ClineInv

LEMMA ClineNextInv == ClineInv /\ [ClineNext]_clineVars => ClineInv'
<1> SUFFICES ASSUME ClineInv, [ClineNext]_clineVars PROVE ClineShape' /\ ClineBounds' /\ TokensKept'
    BY PicksNext DEF ClineInv
<1>1. ClineShape /\ ClineBounds /\ TokensKept /\ cUnsaved \subseteq Known
    BY DEF ClineInv, ClineBounds
<1>2. ASSUME ClineShape' /\ ClineBounds' /\ TokensRest PROVE ClineShape' /\ ClineBounds' /\ TokensKept'
    BY <1>1, <1>2, RestKeepsTokens
<1>3. ASSUME NEW r \in ClineReqs, ClineStep(r) \/ Again(r)
      PROVE  ClineShape' /\ ClineBounds' /\ TokensKept'
    <2>1. CASE Pick(r)
        BY <1>1, <1>2, <2>1, PickRests
    <2>2. CASE Ensure(r)
        BY <1>1, <1>2, <2>2, EnsureRests
    <2>3. CASE ClineAnswers(r)
        BY <1>1, <2>3, AnswerKeeps, AnswerBounds
    <2>4. CASE Refreshed(r)
        BY <1>1, <2>4, RefreshKeeps
    <2>5. CASE ExitFails(r)
        BY <1>1, <1>2, <2>5, ExitRests
    <2>6. CASE Unauthorized(r)
        BY <1>1, <1>2, <2>6, UnauthorizedRests
    <2>7. CASE Limited(r) \/ Answered(r) \/ ModelsFetched(r)
        BY <1>1, <1>2, <2>7, EndingsRest
    <2>8. CASE Again(r)
        BY <1>1, <1>2, <2>8, AgainRests
    <2> QED
        BY <1>3, <2>1, <2>2, <2>3, <2>4, <2>5, <2>6, <2>7, <2>8 DEF ClineStep
<1>4. ASSUME NEW a \in ClineAccts, LoginAppend(a)
      PROVE  ClineShape' /\ ClineBounds' /\ TokensKept'
    BY <1>1, <1>4, AppendKeeps, AppendBounds
<1>5. CASE ClineRestart
    BY <1>1, <1>5, RestartKeeps, RestartBounds
<1>6. ASSUME NEW a \in ClineAccts, CooldownOver(a) \/ AccessExpires(a)
      PROVE  ClineShape' /\ ClineBounds' /\ TokensKept'
    BY <1>1, <1>2, <1>6, OthersRest
<1>7. CASE ListAccounts \/ LoginStart \/ LoginFails \/ LoginSave \/ UNCHANGED clineVars
    BY <1>1, <1>2, <1>7, OthersRest
<1> QED
    BY <1>3, <1>4, <1>5, <1>6, <1>7 DEF ClineNext

LEMMA ClineInvariance == ClineSpec => []ClineInv
BY ClineInitInv, ClineNextInv, PTL DEF ClineSpec

\* What the pool, its index and the requests hold stays of its type, and what is
\* not yet written stays the end of the pool.
THEOREM ClineTyped == ClineSpec => []ClineTypeOK
<1>1. ClineInv => ClineTypeOK
    BY TypeIsShapeAndBounds DEF ClineInv
<1> QED
    BY <1>1, ClineInvariance, PTL

\* Round robin stays even, for any number of accounts and requests, however the
\* cooldowns, the window and the logins change the list meanwhile: between two
\* picks of one account from one choice lie the picks of all the others.
THEOREM RotationIsEven == ClineSpec => []RotationEven
<1>1. ClineInv => RotationEven
    BY PicksEven DEF ClineInv
<1> QED
    BY <1>1, ClineInvariance, PTL

\* No overlap of refreshes, restarts and logins makes the pool forget the refresh
\* token that Cline accepts, unless the answer that brought it was lost.
THEOREM RefreshTokenKept == ClineSpec => []KeepsRefreshToken
<1>1. ClineInv => KeepsRefreshToken
    <2> SUFFICES ASSUME ClineInv, NEW a \in Known \ cOrphans, cAcct[a].refresh # cValid[a]
                 PROVE  \E r \in ClineReqs : At(r, "answered") /\ cReq[r].acct = a /\ cReq[r].answer = cValid[a]
        BY DEF KeepsRefreshToken
    <2>1. PICK r \in ClineReqs : Fresh(r) /\ cReq[r].acct = a
        BY DEF ClineInv, TokensKept
    <2> QED
        BY <2>1 DEF ClineInv, TokensKept, Fresh
<1> QED
    BY <1>1, ClineInvariance, PTL
=============================================================================
