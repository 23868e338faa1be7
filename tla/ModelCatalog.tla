----------------------------- MODULE ModelCatalog -----------------------------
(***************************************************************************)
(* The models: the list fetched from upstream (models.go), the health      *)
(* probes of its members (modelhealth.go), and the chain of models that a  *)
(* request tries (modelfallback.go, supplierroute.go).                     *)
(*                                                                         *)
(* A free model has two names, that of the upstream and the shorter one    *)
(* shown to clients.  The list is fetched until it has been got once and   *)
(* never again.  Health is kept under the name a probe used and read, in   *)
(* locks of its own, by the list, by the prober and by each request when   *)
(* it builds its chain.                                                    *)
(***************************************************************************)
EXTENDS Integers, Sequences

CONSTANTS
    ShortName,    \* upstream name -> shown name, for what the upstream lists
    ExtraModels,  \* project.extraModels
    Fallbacks,    \* config.modelFallbacks: a sequence
    AutoPool,     \* the members of the pool "auto", or <<>> if there is none
    Suppliers,    \* names that belong to a supplier of their own
    Askable,      \* names that clients know of, shown now or not
    MReqs         \* requests

ASSUME CatalogAssumption ==
    /\ ShortName \in [DOMAIN ShortName -> STRING] /\ DOMAIN ShortName \cup ExtraModels \cup Askable \subseteq STRING
    /\ Fallbacks \in Seq(STRING) /\ AutoPool \in Seq(STRING)

VARIABLES
    mCache,   \* modelCache: none, failed (holds for a moment), stale or committed
    mHealth,  \* modelHealthTracker.states: name -> status, fails, whether probed of late
    mPass,    \* runModelProbePass: the models still to be probed
    mReq      \* per request: where it is

catalogVars == <<mCache, mHealth, mPass, mReq>>

Verdicts == {"working", "rateLimited", "flaky", "dead"}
DeadFails == 2

\* sent: history of the dispatches, each with its model and what came of it
IdleReq == [at |-> "idle", asked |-> "none", chain |-> {}, sent |-> <<>>, best |-> "none", result |-> "none"]

CatalogInit ==
    /\ mCache = "none" /\ mHealth = <<>> /\ mPass = {}
    /\ mReq = [r \in MReqs |-> IdleReq]

-----------------------------------------------------------------------------
\* modelMaps, called by whoever needs the list: fetched, from one mirror after
\* another, unless it was got before or has just failed.  A failure after a
\* failure leaves the empty list.
NeedsList ==
    \/ mCache \in {"committed", "failed"} /\ UNCHANGED mCache
    \/ mCache \in {"none", "stale"} /\ mCache' \in {"committed", "failed"}

Rename == IF mCache' = "committed" THEN ShortName ELSE <<>>

\* The failure is remembered for five seconds.
FailureForgotten ==
    /\ mCache = "failed" /\ mCache' = "stale"
    /\ UNCHANGED <<mHealth, mPass, mReq>>

-----------------------------------------------------------------------------
\* modelHealthTracker.
DeadModels == {m \in DOMAIN mHealth : mHealth[m].status = "dead"}
Alive(m) == m \notin DeadModels

NoHealth == [status |-> "", fails |-> 0, recent |-> FALSE]
Health(m) == IF m \in DOMAIN mHealth THEN mHealth[m] ELSE NoHealth

\* record; more failures than make it dead are not told apart
Judged(h, verdict) ==
    LET fails == IF verdict \in {"working", "rateLimited"} THEN 0 ELSE h.fails + 1
    IN  [status |-> IF verdict = "flaky" /\ fails >= DeadFails THEN "dead" ELSE verdict,
         fails |-> IF fails > DeadFails THEN DeadFails ELSE fails, recent |-> TRUE]

\* Deviation: whatever is configured is listed.
ListedAll == DOMAIN Rename \cup ExtraModels

\* modelUpstreamIDs: what is listed and not dead
Listed == {m \in DOMAIN Rename \cup ExtraModels : Alive(m)}

\* A pass begins with what was not probed within modelHealthMinTTL.
StartProbing ==
    /\ mPass = {} /\ NeedsList
    /\ mPass' = {m \in Listed : ~Health(m).recent}
    /\ UNCHANGED <<mHealth, mReq>>

\* A mini request for one model ends, in any order.
ProbeModel(m) ==
    /\ m \in mPass /\ mPass' = mPass \ {m}
    /\ \E verdict \in Verdicts :
           mHealth' = [n \in DOMAIN mHealth \cup {m} |->
                          IF n = m THEN Judged(Health(m), verdict) ELSE mHealth[n]]
    /\ UNCHANGED <<mCache, mReq>>

ProbeAges(m) ==
    /\ m \in DOMAIN mHealth /\ mHealth[m].recent
    /\ mHealth' = [mHealth EXCEPT ![m].recent = FALSE]
    /\ UNCHANGED <<mCache, mPass, mReq>>

-----------------------------------------------------------------------------
\* The names shown to clients (modelIDs): health is asked by the shown name.
Names(rename) == {rename[m] : m \in DOMAIN rename} \cup ExtraModels
Shown == {n \in Names(IF mCache = "committed" THEN ShortName ELSE <<>>) : Alive(n)}

\* The upstream's name of a shown one (buildRedirect, rewriteModelPayload): of
\* two with one short name, the later.
Redirect(name) ==
    LET from == {m \in DOMAIN Rename : Rename[m] = name}
    IN  IF name \in Suppliers \/ from = {} THEN name ELSE CHOOSE m \in from : TRUE

MReqAt(r, place) == mReq[r].at = place

\* handlePost; a client names what it is shown, or what it knows of
AskModel(r) ==
    /\ MReqAt(r, "idle") /\ NeedsList
    /\ \E name \in Shown \cup Askable :
           mReq' = [mReq EXCEPT ![r] = [IdleReq EXCEPT !.at = "resolve", !.asked = Redirect(name)]]
    /\ UNCHANGED <<mHealth, mPass>>

\* resolveUnifiedChain, and dispatchModelChain for a model with no chain; a
\* supplier's model without one goes there alone.
Unified(model) == model = "auto" /\ AutoPool # <<>>
Candidates(model) == IF Unified(model) THEN AutoPool ELSE <<model>> \o Fallbacks

\* resolveModelChain: the places among the candidates of the model asked for and
\* of the fallbacks that are new to the chain and not dead; a pool is tried as it is.
ChainOf(model) ==
    {k \in DOMAIN Candidates(model) :
        \/ Unified(model) \/ k = 1
        \/ /\ Alive(Candidates(model)[k])
           /\ \A j \in DOMAIN Candidates(model) : j < k => Candidates(model)[j] # Candidates(model)[k]}

ResolveChain(r) ==
    /\ MReqAt(r, "resolve")
    /\ mReq' = [mReq EXCEPT ![r].at = "send", ![r].chain = ChainOf(mReq[r].asked)]
    /\ UNCHANGED <<mCache, mHealth, mPass>>

\* Deviation: the last model's failure is the answer.
LeftoverOfLast(q) == "error"

\* What is left when the chain is through: lastResp before lastErr.
Leftover(q) == IF q.best # "none" THEN q.best ELSE "error"

\* The record of a request whose model at place k was asked, and what came of it ...
Asked(q, k, came) ==
    [q EXCEPT !.sent = Append(q.sent, [model |-> Candidates(q.asked)[k], came |-> came]), !.chain = q.chain \ {k}]

\* ... and of one that has its answer.
Over(q, result) == [q EXCEPT !.at = "over", !.chain = {}, !.result = result]

\* One turn of dispatchUnified or dispatchModelChain.  A response that cannot be
\* tried again is the answer, and so is a retryable one of the last model.  fatal:
\* the request was cancelled or is out of time, before or in the dispatch.
\* Rewriting a body that is no JSON ends the chain.
SendToModel(r) ==
    /\ MReqAt(r, "send")
    /\ LET q == mReq[r] IN
       \E k \in q.chain :
          /\ \A j \in q.chain : k <= j
          /\ LET last == q.chain = {k}
                 rejected == Asked(q, k, "retryable")
                 failed == Asked(q, k, "failed")
             IN \/ \E came \in {"ok", "clientError", "fatal"} :
                      mReq' = [mReq EXCEPT ![r] = Over(Asked(q, k, came), came)]
                \/ mReq' = [mReq EXCEPT ![r] = IF last THEN Over(rejected, "retryable")
                                               ELSE [rejected EXCEPT !.best = "retryable"]]
                \/ mReq' = [mReq EXCEPT ![r] = IF last THEN Over(failed, Leftover(q)) ELSE failed]
                \/ mReq' = [mReq EXCEPT ![r] = Over(q, "fatal")]
                \/ Candidates(q.asked)[k] # q.asked /\ mReq' = [mReq EXCEPT ![r] = Over(q, Leftover(q))]
    /\ UNCHANGED <<mCache, mHealth, mPass>>

AskAgain(r) ==
    /\ MReqAt(r, "over")
    /\ mReq' = [mReq EXCEPT ![r] = IdleReq]
    /\ UNCHANGED <<mCache, mHealth, mPass>>

CatalogNext ==
    \/ FailureForgotten \/ StartProbing
    \/ \E m \in DOMAIN ShortName \cup ExtraModels : ProbeModel(m) \/ ProbeAges(m)
    \/ \E r \in MReqs : AskModel(r) \/ ResolveChain(r) \/ SendToModel(r) \/ AskAgain(r)

CatalogSpec == CatalogInit /\ [][CatalogNext]_catalogVars

-----------------------------------------------------------------------------
\* Health is kept under upstream names, and only what is listed is probed.
CatalogTypeOK ==
    /\ mCache \in {"none", "failed", "stale", "committed"}
    /\ mPass \subseteq DOMAIN ShortName \cup ExtraModels
    /\ \A m \in DOMAIN mHealth : mHealth[m].status \in Verdicts /\ mHealth[m].fails \in 0 .. DeadFails
    /\ \A r \in MReqs : MReqAt(r, "send") => mReq[r].chain # {}

\* A model that was judged dead stays so: it is no longer listed, passes are made
\* from the list, and no probe of a pass under way is of a model that died since
\* the pass began.  Two failures of a probe, whose cause may be the link, are
\* final until the program ends (runModelProbePass, modelUpstreamIDs, record).
DeadStaysDead == [][\A m \in DeadModels : m \in DeadModels']_catalogVars

\* What a request ends with fits what its dispatches brought, however many models
\* it went through: a final response is that of its last dispatch and the only
\* one; a retryable one is not lost to the failures after it; an error means that
\* no model gave a response; and no model is asked twice, but a pool's
\* (dispatchModelChain, dispatchUnified).
Came(q, outcome) == \E k \in DOMAIN q.sent : q.sent[k].came = outcome

ResultMatchesChain ==
    \A r \in MReqs : MReqAt(r, "over") =>
        LET q == mReq[r] IN
        /\ \A k \in DOMAIN q.sent : q.sent[k].came \in {"ok", "clientError"} => k = Len(q.sent) /\ q.result = q.sent[k].came
        /\ q.result \in {"ok", "clientError", "retryable"} => Came(q, q.result)
        /\ q.result = "error" => \A k \in DOMAIN q.sent : q.sent[k].came = "failed"
        /\ ~Unified(q.asked) => \A j, k \in DOMAIN q.sent : q.sent[j].model = q.sent[k].model => j = k
=============================================================================
