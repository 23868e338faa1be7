---------------------------- MODULE LayeredDispatch ----------------------------
(***************************************************************************)
(* Upstream dispatch without a race (gateway.go 398-527, 1056-1193,        *)
(* 1637-1870 and 2316-2524): a request goes to up to three upstreams,      *)
(* through the layers in order for each (public slots, the relay, the      *)
(* nodes of the pool), then directly; a Cloudflare worker is the anchor at *)
(* the end.  Several requests share the public slots, which are refilled   *)
(* from a list of candidates by whoever finds them wanting.                *)
(*                                                                         *)
(* An attempt brings good (a status that is handed over), bad (a status    *)
(* worth a retry), error, or over (the time of the request is up).  The    *)
(* nodes of the formal pool are those of NodePool, the race is that of     *)
(* DispatchRace: here each is one attempt after another with any outcome.  *)
(***************************************************************************)
EXTENDS Integers, Sequences, FiniteSets, SequencesExt

CONSTANTS
    LReqs,        \* requests
    LExits,       \* public exits
    Listings,     \* what the list of public exits may contain: sequences
    Configs,      \* records: mirrors, order (of layers), race, direct, force, pool, anchor
    SlotCount, SlotRetries, ZenRetries, CustomRetries,
    MaxDispatches \* bound: dispatches of one request

LayerNames == {"public", "zen", "custom"}

ASSUME LayeredAssumption ==
    /\ {SlotCount, SlotRetries, ZenRetries, CustomRetries, MaxDispatches} \subseteq Nat
    /\ LReqs \cap {"refill", "refresh"} = {}
    /\ Listings \subseteq Seq(LExits)
    /\ Configs \subseteq [mirrors : Nat, order : Seq(LayerNames), race : BOOLEAN, direct : BOOLEAN,
                         force : BOOLEAN, pool : BOOLEAN, anchor : BOOLEAN]

VARIABLES
    lCfg,      \* config: it does not change
    lCand,     \* gateway.candidates
    lSlots,    \* gateway.slots
    lFills,    \* fillSlots under way: by whom, what is still to be probed or added
    lReq,      \* per request: where it is
    lOver      \* requests that were cancelled or whose budget is spent

layeredVars == <<lCfg, lCand, lSlots, lFills, lReq, lOver>>

\* refill stands for scheduleFill, refresh for the ticker.
Fillers == LReqs \cup {"refill", "refresh"}
Retries == [public |-> SlotRetries, zen |-> ZenRetries, custom |-> CustomRetries]

\* dispatches and mirrors used; the layers left; in a layer, the attempts and
\* the slots tried; whether an attempt of this layer, mirror or dispatch
\* brought a bad status; the uses of the anchor and the result.
NewLReq == [at |-> "idle", dispatch |-> 0, mirror |-> 0, layers |-> <<>>, attempt |-> 0, tried |-> {},
             bad |-> {}, anchored |-> FALSE, anchors |-> 0, result |-> "none"]

LRoutes == Seq(LayerNames \cup {"direct", "race"})
LReqType ==
    [at : {"idle", "mirror", "enter", "filling", "layer", "done"}, dispatch : Nat, mirror : Nat,
     layers : LRoutes, attempt : Nat, tried : SUBSET LExits,
     bad : SUBSET {"layer", "mirror", "dispatch"}, anchored : BOOLEAN, anchors : Nat,
     result : {"none", "good", "bad", "error", "over"}]

LayeredInit ==
    /\ lCfg \in Configs
    /\ lCand = <<>> /\ lSlots = {} /\ lFills = {}
    /\ lReq = [r \in LReqs |-> NewLReq]
    /\ lOver = {}

ReqAt(r, place) == lReq[r].at = place

-----------------------------------------------------------------------------
\* fillSlots.

\* Deviation: several fill at once.
LockFreeAlways(f) == \A fill \in lFills : fill.by # f

\* fillMu.TryLock
LockFree(f) == lFills = {}

\* takeCandidates: from the head of the list, what is not a slot, up to limit.
Taken(n, list) == {list[i] : i \in 1 .. n} \ lSlots
TakeLengths(limit, list) ==
    {n \in 0 .. Len(list) : /\ \A k \in 0 .. (n - 1) : Cardinality(Taken(k, list)) < limit
                            /\ n = Len(list) \/ Cardinality(Taken(n, list)) = limit}

\* What is taken is probed at once; a list with nothing to take is loaded anew.
StartFill(f) ==
    LET needed == SlotCount - Cardinality(lSlots) IN
    /\ LockFree(f) /\ needed > 0
    /\ \E list \in (IF Taken(Len(lCand), lCand) = {} THEN Listings ELSE {lCand}) :
       \E n \in TakeLengths(needed + 3, list) :
           /\ Taken(n, list) # {}
           /\ lCand' = SubSeq(list, n + 1, Len(list))
           /\ lFills' = lFills \cup {[by |-> f, batch |-> Taken(n, list), add |-> {}]}

\* Another is at it, or the list cannot be loaded or has nothing new.
CannotFill(f) == ~LockFree(f) \/ Taken(Len(lCand), lCand) = {}

\* The probes end in any order.  A slot that answers is to be added while there
\* is room, ...
ProbeEnds(fill, a) ==
    /\ fill \in lFills /\ fill.add = {} /\ a \in fill.batch
    /\ \E add \in {{}, IF Cardinality(lSlots) < SlotCount THEN {a} ELSE {}} :
           lFills' = (lFills \ {fill}) \cup {[fill EXCEPT !.batch = @ \ {a}, !.add = add]}
    /\ UNCHANGED <<lCfg, lCand, lSlots, lReq, lOver>>

\* ... and is, in a lock of its own (addSlot).
AddSlot(fill) ==
    /\ fill \in lFills /\ fill.add # {}
    /\ lSlots' = lSlots \cup fill.add
    /\ lFills' = (lFills \ {fill}) \cup {[fill EXCEPT !.add = {}]}
    /\ UNCHANGED <<lCfg, lCand, lReq, lOver>>

\* Deviation: the request that waited is forgotten.
EndFillSilently(fill) ==
    /\ fill \in lFills /\ fill.batch = {} /\ fill.add = {}
    /\ lFills' = lFills \ {fill}
    /\ UNCHANGED <<lCfg, lCand, lSlots, lReq, lOver>>

\* unlocked; the request that waited for it goes on
EndFill(fill) ==
    /\ fill \in lFills /\ fill.batch = {} /\ fill.add = {}
    /\ lFills' = lFills \ {fill}
    /\ lReq' = IF fill.by \in LReqs THEN [lReq EXCEPT ![fill.by].at = "layer"] ELSE lReq
    /\ UNCHANGED <<lCfg, lCand, lSlots, lOver>>

UsesPublicPool == \E i \in DOMAIN lCfg.order : lCfg.order[i] = "public"

\* scheduleFill after a drop, unless one is at it (refillRunning), and the ticker
\* of start, which loads the list before.
Refresh ==
    /\ UsesPublicPool /\ lCand' \in Listings
    /\ UNCHANGED <<lCfg, lSlots, lFills, lReq, lOver>>

Refill(f) ==
    /\ UsesPublicPool /\ StartFill(f)
    /\ UNCHANGED <<lCfg, lSlots, lReq, lOver>>

-----------------------------------------------------------------------------
\* dispatch, the head of its loop over mirrors: the routes one may take;
\* there is a race when the formal pool is not empty
Routes ==
    LET layered == IF lCfg.direct THEN Append(lCfg.order, "direct") ELSE lCfg.order IN
    IF lCfg.force THEN {<<"zen">>}
    ELSE IF ~lCfg.pool THEN {IF lCfg.direct THEN <<"direct">> ELSE <<>>}
    ELSE {layered} \cup (IF lCfg.race THEN {<<"race">>} ELSE {})

\* A request is dispatched, and once more by its absorb loop (after any failure) or
\* with another model, for which what was tried is forgotten (clearTried).
Dispatch(r) ==
    /\ ReqAt(r, "idle") \/ (ReqAt(r, "done") /\ lReq[r].result # "good" /\ r \notin lOver)
    /\ lReq[r].dispatch < MaxDispatches
    /\ LET next == [lReq EXCEPT ![r].at = "mirror", ![r].dispatch = @ + 1, ![r].result = "none"]
       IN  \/ lReq' = next
           \/ ReqAt(r, "done") /\ lReq' = [next EXCEPT ![r].anchored = FALSE, ![r].anchors = 0]
    /\ UNCHANGED <<lCfg, lCand, lSlots, lFills, lOver>>

NextMirror(r) ==
    /\ ReqAt(r, "mirror") /\ lReq[r].mirror < lCfg.mirrors
    /\ \E route \in Routes :
           lReq' = [lReq EXCEPT ![r].at = "enter", ![r].mirror = @ + 1, ![r].layers = route]
    /\ UNCHANGED <<lCfg, lCand, lSlots, lFills, lOver>>

Layer(r) == Head(lReq[r].layers)

\* The dispatch of r ends: nothing but its result and its marks remain.
Ended(r, record, result) ==
    [record EXCEPT ![r].at = "done", ![r].result = result, ![r].mirror = 0, ![r].layers = <<>>,
                   ![r].attempt = 0, ![r].tried = {}, ![r].bad = {}]

\* The next layer.  The public one is filled first if it is empty; when none is
\* left, the mirror has failed, by a status or not at all.
EnterLayer(r) ==
    LET entered == [lReq EXCEPT ![r].at = "layer"]
        fill == lReq[r].layers # <<>> /\ Layer(r) = "public" /\ lSlots = {}
    IN
    /\ ReqAt(r, "enter")
    /\ \/ /\ lReq[r].layers = <<>>
          /\ lReq' = [lReq EXCEPT ![r].at = "mirror", ![r].bad = IF "mirror" \in @ THEN {"dispatch"} ELSE @]
          /\ UNCHANGED <<lCand, lFills>>
       \/ /\ fill /\ StartFill(r)
          /\ lReq' = [entered EXCEPT ![r].at = "filling"]
       \/ /\ lReq[r].layers # <<>> /\ (fill => CannotFill(r))
          /\ lReq' = entered
          /\ UNCHANGED <<lCand, lFills>>
    /\ UNCHANGED <<lCfg, lSlots, lOver>>

\* The layer is through: a bad status of its own is that of the mirror.
Leave(r) ==
    [lReq EXCEPT ![r].at = "enter", ![r].layers = Tail(@), ![r].attempt = 0, ![r].tried = {},
                 ![r].bad = IF "layer" \in @ THEN {"mirror"} \cup (@ \ {"layer"}) ELSE @]

\* requestBudgetError
OutOfTime(r) ==
    /\ ReqAt(r, "layer") /\ r \in lOver
    /\ lReq' = Ended(r, lReq, "over")
    /\ UNCHANGED <<lCfg, lCand, lSlots, lFills, lOver>>

-----------------------------------------------------------------------------
\* dispatchPublicLayer.

\* nextSlot: which of them depends on the session, or on whose turn it is
SlotsLeft(r) == lSlots \ lReq[r].tried

\* An attempt through a slot; one that does not deliver is dropped, whoever
\* else uses it.
TryPublic(r) ==
    /\ ReqAt(r, "layer") /\ Layer(r) = "public" /\ r \notin lOver
    /\ \/ /\ lReq[r].attempt = SlotRetries \/ SlotsLeft(r) = {}
          /\ lReq' = Leave(r) /\ UNCHANGED lSlots
       \/ /\ lReq[r].attempt < SlotRetries
          /\ \E s \in SlotsLeft(r) :
                LET sent == [lReq EXCEPT ![r].attempt = @ + 1, ![r].tried = @ \cup {s}]
                IN  \/ lReq' = Ended(r, sent, "good") /\ UNCHANGED lSlots
                    \/ lReq' \in {sent, [sent EXCEPT ![r].bad = @ \cup {"layer"}]} /\ lSlots' = lSlots \ {s}
    /\ UNCHANGED <<lCfg, lCand, lFills, lOver>>

\* dispatchZen and dispatchCustomLayer; the pool of the latter may be empty.
TryOther(r) ==
    /\ ReqAt(r, "layer") /\ Layer(r) \in {"zen", "custom"} /\ r \notin lOver
    /\ \/ lReq[r].attempt = Retries[Layer(r)] /\ lReq' = Leave(r)
       \/ Layer(r) = "custom" /\ lReq' = Leave(r)
       \/ /\ lReq[r].attempt < Retries[Layer(r)]
          /\ LET sent == [lReq EXCEPT ![r].attempt = @ + 1] IN
             \/ lReq' = Ended(r, sent, "good")
             \/ lReq' \in {sent, [sent EXCEPT ![r].bad = @ \cup {"layer"}]}
    /\ UNCHANGED <<lCfg, lCand, lSlots, lFills, lOver>>

-----------------------------------------------------------------------------
\* The anchor, once for a request and model.

\* Deviation: an attempt that fails is not marked.
AnchorMarkedIfUsed(r, record, ok) == [record EXCEPT ![r].anchors = @ + 1, ![r].anchored = ok]

\* markTried, then cfFallbackAttempt
AnchorMarked(r, record, ok) == [record EXCEPT ![r].anchors = @ + 1, ![r].anchored = TRUE]

AnchorFree(r) == lCfg.anchor /\ r \notin lOver /\ ~lReq[r].anchored

\* dispatchDirect has the last word on a mirror.  dispatchRace, as a whole, has
\* it too.
TryLast(r) ==
    /\ ReqAt(r, "layer") /\ Layer(r) \in {"direct", "race"} /\ r \notin lOver
    /\ \/ lReq' = Ended(r, lReq, "good")
       \/ \E bad \in {{}, {"mirror"}} :
             LET failed == [lReq EXCEPT ![r].at = "enter", ![r].layers = <<>>,
                                        ![r].bad = (@ \cap {"dispatch"}) \cup bad]
             IN  IF Layer(r) = "direct" /\ AnchorFree(r)
                 THEN lReq' \in {Ended(r, AnchorMarked(r, lReq, TRUE), "good"), AnchorMarked(r, failed, FALSE)}
                 ELSE lReq' = failed
    /\ UNCHANGED <<lCfg, lCand, lSlots, lFills, lOver>>

\* The mirrors are used up: the anchor, then what there is.
EndDispatch(r) ==
    LET rest == IF "dispatch" \in lReq[r].bad THEN "bad" ELSE "error"
        given == Ended(r, lReq, rest)
    IN
    /\ ReqAt(r, "mirror") /\ lReq[r].mirror = lCfg.mirrors
    /\ IF AnchorFree(r)
       THEN lReq' \in {Ended(r, AnchorMarked(r, lReq, TRUE), "good"), AnchorMarked(r, given, FALSE)}
       ELSE lReq' = given
    /\ UNCHANGED <<lCfg, lCand, lSlots, lFills, lOver>>

\* The client goes, or the budget is spent.
TimeIsUp(r) ==
    /\ r \notin lOver /\ ~ReqAt(r, "idle") /\ ~ReqAt(r, "done")
    /\ lOver' = lOver \cup {r}
    /\ UNCHANGED <<lCfg, lCand, lSlots, lFills, lReq>>

\* The next request of that name.
LeaveDispatch(r) ==
    /\ ReqAt(r, "done")
    /\ lReq' = [lReq EXCEPT ![r] = NewLReq] /\ lOver' = lOver \ {r}
    /\ UNCHANGED <<lCfg, lCand, lSlots, lFills>>

LayeredNext ==
    \/ Refresh \/ Refill("refill") \/ Refill("refresh")
    \/ \E fill \in lFills : EndFill(fill) \/ AddSlot(fill) \/ \E a \in LExits : ProbeEnds(fill, a)
    \/ \E r \in LReqs : \/ Dispatch(r) \/ NextMirror(r) \/ EnterLayer(r) \/ OutOfTime(r) \/ TryPublic(r)
                        \/ TryOther(r) \/ TryLast(r) \/ EndDispatch(r) \/ TimeIsUp(r) \/ LeaveDispatch(r)

LayeredSpec == LayeredInit /\ [][LayeredNext]_layeredVars

-----------------------------------------------------------------------------
\* Every request is somewhere: one that waits for a fill has one, and no layer
\* gets more attempts than its retries, whatever failed before it.
LayeredTypeOK ==
    /\ lCfg \in Configs /\ lOver \subseteq LReqs
    /\ lSlots \subseteq LExits /\ lCand \in Seq(LExits)
    /\ \A fill \in lFills : fill \in [by : Fillers, batch : SUBSET LExits, add : SUBSET LExits]
    /\ lReq \in [LReqs -> LReqType]
    /\ \A r \in LReqs :
          /\ lReq[r].mirror <= lCfg.mirrors /\ lReq[r].dispatch <= MaxDispatches
          /\ lReq[r].attempt > 0 =>
                ReqAt(r, "layer") /\ Layer(r) \in LayerNames /\ lReq[r].attempt <= Retries[Layer(r)]
          /\ ReqAt(r, "filling") <=> \E fill \in lFills : fill.by = r

\* However many requests and tickers find slots wanting at once, and however
\* late their probes end, no more slots are filled than SlotCount (fillSlots).
SlotsBounded == Cardinality(lSlots) <= SlotCount

\* The anchor is asked once for a request and model, over all its mirrors and all
\* the dispatches of its absorb loop (dispatch, dispatchDirect).
AnchorOnce == \A r \in LReqs : lReq[r].anchors <= 1
=============================================================================
