------------------------------ MODULE ClinePool ------------------------------
(***************************************************************************)
(* The accounts of the Cline supplier and the requests that use them       *)
(* (cline.go, cline_models.go).                                            *)
(*                                                                         *)
(* The pool of accounts is one mutex; a request holds a pointer to its     *)
(* account and reads the tokens behind it without that mutex.  A refresh   *)
(* reads the refresh token, asks Cline, and writes what came back in one   *)
(* critical section; nothing keeps two requests from doing so at once.     *)
(* The pool is written to disk at the end of each critical section that    *)
(* changes it; the access tokens are not in the file.                      *)
(*                                                                         *)
(* Cline itself is modelled from how the code uses it: a refresh token is  *)
(* spent by a refresh that hands out a new one, and stays valid if none is *)
(* handed out.                                                             *)
(***************************************************************************)
EXTENDS Integers, Sequences, FiniteSets, Functions

CONSTANTS
    ClineAccts,    \* accounts that may be in the pool
    ClineChats,    \* chat requests
    ClineFetches,  \* requests for the list of models
    ClinePlans,    \* the sequences clineExits may return; <<>>: the pool of nodes is off
    NoAcct,        \* no account
    MaxRefresh     \* bound: refresh tokens handed out per account

ASSUME ClineAssumption ==
    /\ NoAcct \notin ClineAccts /\ IsFiniteSet(ClineAccts)
    /\ MaxRefresh \in Nat \ {0}
    /\ ClinePlans \subseteq Seq({"exit", "direct"})

ClineReqs == ClineChats \cup ClineFetches

VARIABLES
    cAcct,     \* per account: its status ("due": a cooldown whose time is over), whether
               \* it has an access token that still runs, and its refresh token
    cOrder,    \* clineAccountPool.Accounts, in order
    cIdx,      \* clineAccountPool.CurrentIdx
    cUnsaved,  \* accounts appended and not yet written
    cLogin,    \* clineAddAccountFromDeviceAuth
    cValid,    \* Cline: the refresh token it accepts, per account
    cReq,      \* per request: where it is
    cPicks,    \* history: picks by round robin since the choice last changed
    cOrphans   \* history: accounts whose new token was lost on its way to the pool

poolVars == <<cAcct, cOrder, cIdx, cUnsaved>>
clineVars == <<poolVars, cLogin, cValid, cReq, cPicks, cOrphans>>

Lost == 0  \* a refresh that brought an error

NewAcct == [status |-> "active", access |-> TRUE, refresh |-> 1]

FreshReq == [at |-> "idle", acct |-> NoAcct, plan |-> <<>>, exit |-> 0, token |-> Lost,
             answer |-> Lost, again |-> FALSE]

\* loadClinePool: no pool, or one of all accounts in some order, whose access
\* tokens are not in the file.
ClineInit ==
    /\ cAcct = [a \in ClineAccts |-> [NewAcct EXCEPT !.access = FALSE]]
    /\ cOrder \in {<<>>} \cup Bijection(1 .. Cardinality(ClineAccts), ClineAccts)
    /\ cIdx = 0 /\ cUnsaved = {} /\ cLogin = "idle"
    /\ cValid = [a \in ClineAccts |-> 1]
    /\ cReq = [r \in ClineReqs |-> FreshReq]
    /\ cPicks = <<>> /\ cOrphans = {}

Known == {cOrder[i] : i \in DOMAIN cOrder}

-----------------------------------------------------------------------------
\* The pool.

\* A cooldown whose time is over is lifted.
Lifted(a) == IF cAcct[a].status = "due" THEN [cAcct[a] EXCEPT !.status = "active"] ELSE cAcct[a]

\* The accounts to choose from, by their places in the pool, once the cooldowns
\* that are over are lifted; how many of them come before place i.
Active == {i \in DOMAIN cOrder : Lifted(cOrder[i]).status = "active"}
Rank(i) == Cardinality({j \in Active : j < i})

LiftAll == cAcct' = [a \in ClineAccts |-> IF a \in Known THEN Lifted(a) ELSE cAcct[a]]

\* Deviation: the index is not moved on.
TurnStaying(n) == LET i == IF cIdx >= n THEN 0 ELSE cIdx IN <<i, i>>

\* Round robin among n accounts: which of them, and the index after it.
Turn(n) == LET i == IF cIdx >= n THEN 0 ELSE cIdx IN <<i, (i + 1) % n>>

\* History: the picks in a row from one and the same choice, as many as it has.
Choice == [order |-> cOrder, active |-> Active]
Noted(a) == LET pick == [choice |-> Choice, acct |-> a]
                l == Append(cPicks, pick)
            IN  cPicks' = IF cPicks = <<>> \/ cPicks[1].choice # Choice THEN <<pick>>
                          ELSE IF Len(l) > Cardinality(Active) THEN Tail(l) ELSE l

\* clineListAccounts, from the window.
ListAccounts ==
    /\ LiftAll /\ cUnsaved' = {}
    /\ UNCHANGED <<cOrder, cIdx, cLogin, cValid, cReq, cPicks, cOrphans>>

\* The time of a cooldown runs out; an access token does (at once, if
\* clineParseExpiry could not read its time).
CooldownOver(a) ==
    /\ cAcct[a].status = "cooldown"
    /\ cAcct' = [cAcct EXCEPT ![a].status = "due"]
    /\ UNCHANGED <<cOrder, cIdx, cUnsaved, cLogin, cValid, cReq, cPicks, cOrphans>>

AccessExpires(a) ==
    /\ cAcct[a].access
    /\ cAcct' = [cAcct EXCEPT ![a].access = FALSE]
    /\ UNCHANGED <<cOrder, cIdx, cUnsaved, cLogin, cValid, cReq, cPicks, cOrphans>>

-----------------------------------------------------------------------------
\* Login by device code: authorise, poll until granted, register, append, and
\* save in a critical section of its own.

LoginStart ==
    /\ cLogin = "idle" /\ ClineAccts \ Known # {}
    /\ cLogin' = "polling"
    /\ UNCHANGED <<poolVars, cValid, cReq, cPicks, cOrphans>>

\* An answer other than pending and slow_down, or the deadline, ends it.
LoginFails ==
    /\ cLogin = "polling" /\ cLogin' = "idle"
    /\ UNCHANGED <<poolVars, cValid, cReq, cPicks, cOrphans>>

LoginAppend(a) ==
    /\ cLogin = "polling" /\ a \notin Known
    /\ cLogin' = "idle"
    /\ cOrder' = Append(cOrder, a)
    /\ cAcct' = [cAcct EXCEPT ![a] = [NewAcct EXCEPT !.refresh = cValid[a]]]
    /\ cUnsaved' = cUnsaved \cup {a}
    /\ cOrphans' = cOrphans \ {a}
    /\ UNCHANGED <<cIdx, cValid, cReq, cPicks>>

LoginSave ==
    /\ cUnsaved # {} /\ cUnsaved' = {}
    /\ UNCHANGED <<cAcct, cOrder, cIdx, cLogin, cValid, cReq, cPicks, cOrphans>>

-----------------------------------------------------------------------------
\* A request.

At(r, place) == cReq[r].at = place
Move(r, place) == cReq' = [cReq EXCEPT ![r].at = place]

\* The client has its answer, whose status is noted beside the call.
End(r) == cReq' = [cReq EXCEPT ![r] = [FreshReq EXCEPT !.at = "done"]]

\* clinePickAccount.  Chats take the strategy of the environment, here round
\* robin; the list of models is asked for with the first account.
Pick(r) ==
    /\ At(r, "idle")
    /\ IF Active = {} THEN
           /\ End(r)  \* 503
           /\ UNCHANGED <<poolVars, cPicks>>
       ELSE
           /\ LiftAll /\ cUnsaved' = {}
           /\ \E plan \in ClinePlans, i \in Active :
                LET turn == Turn(Cardinality(Active)) IN
                /\ Rank(i) = (IF r \in ClineFetches THEN 0 ELSE turn[1])
                /\ cReq' = [cReq EXCEPT ![r] = [FreshReq EXCEPT !.at = "ensure", !.acct = cOrder[i],
                                                !.plan = plan, !.exit = 1]]
                /\ IF r \in ClineFetches THEN UNCHANGED <<cIdx, cPicks>>
                   ELSE cIdx' = turn[2] /\ Noted(cOrder[i])
           /\ UNCHANGED cOrder
    /\ UNCHANGED <<cLogin, cValid, cOrphans>>

\* clineEnsureAccountToken; the pointer is read without the mutex.
Ensure(r) ==
    /\ At(r, "ensure")
    /\ IF cAcct[cReq[r].acct].access THEN Move(r, "send")
       ELSE cReq' = [cReq EXCEPT ![r].at = "refresh", ![r].token = cAcct[cReq[r].acct].refresh]
    /\ UNCHANGED <<poolVars, cLogin, cValid, cPicks, cOrphans>>

\* External: Cline answers a refresh, or the answer is lost before or after
\* Cline has spent the token.
ClineAnswers(r) ==
    /\ At(r, "refresh")
    /\ LET a == cReq[r].acct
           known == cReq[r].token = cValid[a]
           Reply(answer) == cReq' = [cReq EXCEPT ![r].at = "answered", ![r].answer = answer]
       IN \/ Reply(Lost) /\ UNCHANGED <<cValid, cOrphans>>
          \/ known /\ Reply(cReq[r].token) /\ UNCHANGED <<cValid, cOrphans>>
          \/ /\ known /\ cValid[a] < MaxRefresh
             /\ cValid' = [cValid EXCEPT ![a] = @ + 1]
             /\ \/ Reply(cValid[a] + 1) /\ UNCHANGED cOrphans
                \/ Reply(Lost) /\ cOrphans' = cOrphans \cup {a}
    /\ UNCHANGED <<poolVars, cLogin, cPicks>>

\* Deviation: without a new token the one that was sent is written back.
KeptAsSent(r) == IF cReq[r].answer = cReq[r].token THEN cReq[r].token ELSE cReq[r].answer

\* The refresh token after the refresh: the new one, or the account's own.
Kept(r) == IF cReq[r].answer = cReq[r].token THEN cAcct[cReq[r].acct].refresh ELSE cReq[r].answer

\* clineRefreshAccountToken, once it has its answer.
Refreshed(r) ==
    /\ At(r, "answered")
    /\ LET a == cReq[r].acct IN
        IF cReq[r].answer = Lost THEN
            /\ cAcct' = [cAcct EXCEPT ![a].status = "expired"]
            /\ End(r)  \* 401 after a 401, else 502
        ELSE
            /\ cAcct' = [cAcct EXCEPT ![a] = [status |-> "active", access |-> TRUE, refresh |-> Kept(r)]]
            /\ cReq' = [cReq EXCEPT ![r].at = IF cReq[r].again THEN "resend" ELSE "send",
                                    ![r].token = Lost, ![r].answer = Lost]
    /\ cUnsaved' = {}
    /\ UNCHANGED <<cOrder, cIdx, cLogin, cValid, cPicks, cOrphans>>

-----------------------------------------------------------------------------
\* handleClineChat, with a token.

Chat(r) == r \in ClineChats

Cooled(r) == /\ cAcct' = [cAcct EXCEPT ![cReq[r].acct].status = "cooldown"]
             /\ cUnsaved' = {}

\* The exit fails or answers 5xx: on to the next one.  After the last one the
\* account is blamed only if there was no exit to blame.
ExitFails(r) ==
    /\ At(r, "send") /\ Chat(r)
    /\ IF cReq[r].exit < Len(cReq[r].plan) THEN
           cReq' = [cReq EXCEPT ![r].exit = @ + 1] /\ UNCHANGED <<cAcct, cUnsaved>>
       ELSE
           /\ End(r)  \* 502
           /\ IF cReq[r].plan = <<>> THEN Cooled(r) ELSE UNCHANGED <<cAcct, cUnsaved>>
    /\ UNCHANGED <<cOrder, cIdx, cLogin, cValid, cPicks, cOrphans>>

\* 401: one refresh and one more try, through the same exit.
Unauthorized(r) ==
    /\ Chat(r)
    /\ \/ At(r, "send") /\ cReq' = [cReq EXCEPT ![r].at = "refresh", ![r].again = TRUE,
                                                ![r].token = cAcct[cReq[r].acct].refresh]
       \/ At(r, "resend") /\ End(r)  \* 401
    /\ UNCHANGED <<poolVars, cLogin, cValid, cPicks, cOrphans>>

\* 429: the account cools.
Limited(r) ==
    /\ Chat(r) /\ (At(r, "send") \/ At(r, "resend"))
    /\ Cooled(r) /\ End(r)  \* 429
    /\ UNCHANGED <<cOrder, cIdx, cLogin, cValid, cPicks, cOrphans>>

\* Any other answer is passed on.  A stream is closed with a finish and a
\* [DONE] however its body ended.
Answered(r) ==
    /\ Chat(r) /\ (At(r, "send") \/ At(r, "resend"))
    /\ End(r)
    /\ cUnsaved' \in {{}, cUnsaved}  \* 200: clineBumpUsage saves
    /\ UNCHANGED <<cAcct, cOrder, cIdx, cLogin, cValid, cPicks, cOrphans>>

\* refreshClineModels, with a token: any failure keeps the old list.
ModelsFetched(r) ==
    /\ At(r, "send") /\ ~Chat(r)
    /\ End(r)
    /\ UNCHANGED <<poolVars, cLogin, cValid, cPicks, cOrphans>>

\* The caller makes another request.
Again(r) ==
    /\ At(r, "done")
    /\ cReq' = [cReq EXCEPT ![r] = FreshReq]
    /\ UNCHANGED <<poolVars, cLogin, cValid, cPicks, cOrphans>>

-----------------------------------------------------------------------------
\* The program ends and is started again.  os.WriteFile is not atomic: ended
\* in the midst of it, the file does not parse and the pool starts empty.  What
\* was appended and not written is the end of the pool (ClineTypeOK).
ClineRestart ==
    /\ cReq' = [r \in ClineReqs |-> FreshReq]
    /\ cOrphans' = cOrphans \cup {cReq[r].acct : r \in {q \in ClineReqs :
                        At(q, "answered") /\ cReq[q].answer # Lost /\ cReq[q].answer # cReq[q].token}}
    /\ cAcct' = [a \in ClineAccts |-> [cAcct[a] EXCEPT !.access = FALSE]]
    /\ cOrder' \in {<<>>, SubSeq(cOrder, 1, Len(cOrder) - Cardinality(cUnsaved))}
    /\ cUnsaved' = {} /\ cLogin' = "idle" /\ cPicks' = <<>>
    /\ UNCHANGED cValid
    /\ cIdx' = IF cOrder' = <<>> THEN 0 ELSE cIdx

ClineStep(r) ==
    \/ Pick(r) \/ Ensure(r) \/ ClineAnswers(r) \/ Refreshed(r)
    \/ ExitFails(r) \/ Unauthorized(r) \/ Limited(r) \/ Answered(r) \/ ModelsFetched(r)

ClineNext ==
    \/ \E r \in ClineReqs : ClineStep(r) \/ Again(r)
    \/ \E a \in ClineAccts : CooldownOver(a) \/ AccessExpires(a) \/ LoginAppend(a)
    \/ ListAccounts \/ LoginStart \/ LoginFails \/ LoginSave \/ ClineRestart

ClineSpec == ClineInit /\ [][ClineNext]_clineVars

-----------------------------------------------------------------------------
\* Accounts, index and requests are of their types; the index is a position
\* of some choice or the one after it, whatever the choice has become; a request
\* past its pick has an account of the pool.
ClineTypeOK ==
    /\ cAcct \in [ClineAccts -> [status : {"active", "cooldown", "due", "expired"}, access : BOOLEAN,
                                 refresh : 1 .. MaxRefresh]]
    /\ cOrder \in Seq(ClineAccts) /\ IsInjective(cOrder) /\ cUnsaved \subseteq Known
    /\ \A i \in DOMAIN cOrder : cOrder[i] \in cUnsaved <=> i > Len(cOrder) - Cardinality(cUnsaved)
    /\ cIdx \in 0 .. Cardinality(ClineAccts)
    /\ cValid \in [ClineAccts -> 1 .. MaxRefresh]
    /\ cReq \in [ClineReqs ->
         [at : {"idle", "ensure", "refresh", "answered", "send", "resend", "done"},
          acct : ClineAccts \cup {NoAcct}, plan : ClinePlans \cup {<<>>}, exit : Nat,
          token : 0 .. MaxRefresh, answer : 0 .. MaxRefresh, again : BOOLEAN]]
    /\ \A r \in ClineReqs : /\ cReq[r].exit \in 0 .. (Len(cReq[r].plan) + 1)
                            /\ cReq[r].at \in {"idle", "done"} \/ cReq[r].acct \in Known

\* Round robin is even: as long as the same accounts are active, no account
\* is picked again before all of them were, whatever else picks, lists and
\* cools accounts in between (clinePickAccount).
RotationEven == IsInjective([i \in DOMAIN cPicks |-> cPicks[i].acct])

\* The pool never forgets a refresh token that Cline accepts: whatever
\* refreshes of one account overlap, whichever of them fail and in whatever
\* order they write, the account keeps the valid token, unless its answer was
\* lost on the way (clineRefreshAccountToken).
KeepsRefreshToken ==
    \A a \in Known \ cOrphans :
        \/ cAcct[a].refresh = cValid[a]
        \/ \E r \in ClineReqs : At(r, "answered") /\ cReq[r].acct = a /\ cReq[r].answer = cValid[a]
=============================================================================
