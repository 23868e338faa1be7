------------------------------- MODULE NodePool -------------------------------
(***************************************************************************)
(* The nodes of the pool: where they come from, how they are checked and   *)
(* when they may serve (proxypool.go, deepprobe.go and gateway.go 300-660, *)
(* 856-1035).  The local ports of advanced links are nodes like any other  *)
(* here; AdvancedBridge shows how they change.                             *)
(*                                                                         *)
(* A node of a source passes a first check into the inner pool (fresh) and *)
(* a deep check out of it into the formal pool (custom), whose nodes serve *)
(* requests.  The deep check runs twice over: workers that drain a bounded *)
(* queue fed by the first check, and a pass over both pools now and then.  *)
(* Every pool has a lock of its own, and what reads one and writes another *)
(* does so in steps.  A deep check brings ok, soft (quota, model refused)  *)
(* or hard (unreachable); one of the first two is shared for a while with  *)
(* every node of the exit IP instead of checking it (deepProbeDedup).      *)
(***************************************************************************)
EXTENDS Integers, Sequences, FiniteSets, SequencesExt

CONSTANTS
    Plain,        \* addresses of nodes
    Sourced,      \* those that sources may list
    ManualPlain,  \* addresses the configuration lists
    ExitIp,       \* per address: its exit IP
    QueueCap,     \* the length of deepQueue
    Nobody        \* no node

ASSUME NodeAssumption ==
    /\ ManualPlain \cup Sourced \subseteq Plain
    /\ DOMAIN ExitIp = Plain
    /\ QueueCap \in Nat /\ Nobody \notin Plain

VARIABLES
    custom,    \* gateway.custom, the formal pool
    fresh,     \* gateway.freshPassed, the inner pool
    queue,     \* gateway.deepQueue
    quota,     \* exits benched by the word of the upstream
    shared,    \* gateway.deepDedup: per exit IP, the verdict that may be shared, or "none"
    round,     \* refreshPool: the candidates whose first check is still to end
    config,    \* initCustomSlots: the nodes whose probe is under way
    deep,      \* per deep checker: where it is
    todo,      \* the candidates that a pass has still to check
    dead       \* environment: nodes that answer no more

nodePools == <<custom, fresh, queue, quota, shared>>
nodeVars == <<nodePools, round, config, deep, todo, dead>>

Checkers == {"worker", "pass"}

\* gateway.manualPlains
manual == ManualPlain \ config

NodeInit ==
    /\ custom = {} /\ fresh = {} /\ queue = <<>> /\ quota = {}
    /\ shared = [ip \in Range(ExitIp) |-> "none"]
    /\ round = {} /\ config = ManualPlain
    /\ deep = [d \in Checkers |-> [at |-> "idle", node |-> Nobody]]
    /\ todo = {} /\ dead = {}

-----------------------------------------------------------------------------
\* initCustomSlots: a configured node is marked and added when its probe has
\* ended, come what may.
InitAdd(a) ==
    /\ a \in config /\ config' = config \ {a}
    /\ custom' = custom \cup {a}
    /\ UNCHANGED <<fresh, queue, quota, shared, round, deep, todo, dead>>

-----------------------------------------------------------------------------
\* startPoolWatcher and refreshPool.

\* The sources are fetched; what is known is left out, and so is what failed
\* of late (recentlyFailed): of what is new, any part is checked.  The next
\* round begins after probeRoundGap.
Fetch ==
    /\ round = {}
    /\ \E found \in SUBSET Sourced : round' = found \ (custom \cup fresh)
    /\ UNCHANGED <<nodePools, config, deep, todo, dead>>

\* Deviation: the queue of the deep check takes whatever comes.
PassFirstAppending(a) == fresh' = fresh \cup {a} /\ queue' = Append(queue, a)

\* addFresh, then the queue of the deep check unless it is full.
PassFirst(a) ==
    /\ fresh' = fresh \cup {a}
    /\ queue' = IF Len(queue) < QueueCap THEN Append(queue, a) ELSE queue

\* One candidate's first check ends, in any order.  One that fails is put off
\* for poolRetryBackoff.
FirstCheck(a) ==
    /\ a \in round /\ round' = round \ {a}
    /\ (a \notin dead /\ PassFirst(a)) \/ UNCHANGED <<fresh, queue>>
    /\ UNCHANGED <<custom, quota, shared, config, deep, todo, dead>>

-----------------------------------------------------------------------------
\* The deep check.

DeepAt(d, place) == deep[d].at = place
Become(d, place) == deep' = [deep EXCEPT ![d] = [at |-> place, node |-> IF place = "idle" THEN Nobody ELSE @.node]]

\* A worker takes the head of the queue.
TakeQueued ==
    /\ DeepAt("worker", "idle") /\ queue # <<>>
    /\ deep' = [deep EXCEPT !["worker"] = [at |-> "probe", node |-> Head(queue)]]
    /\ queue' = Tail(queue)
    /\ UNCHANGED <<custom, fresh, quota, shared, round, config, todo, dead>>

\* Deviation: the pass covers the formal pool only.
CandidatesFormal == custom \ quota

\* runDeepProbePass covers both pools, but for benches the upstream declared.
Candidates == (custom \cup fresh) \ quota

PassStart ==
    /\ DeepAt("pass", "idle") /\ todo = {} /\ Candidates # {}
    /\ todo' = Candidates
    /\ UNCHANGED <<nodePools, round, config, deep, dead>>

PassTake(a) ==
    /\ DeepAt("pass", "idle") /\ a \in todo
    /\ todo' = todo \ {a}
    /\ deep' = [deep EXCEPT !["pass"] = [at |-> "probe", node |-> a]]
    /\ UNCHANGED <<nodePools, round, config, dead>>

\* settleDeep, ok: out of the inner pool, ...
SettleOk(d, a) ==
    /\ fresh' = fresh \ {a}
    /\ Become(d, IF a \in fresh THEN "promote" ELSE "idle")

\* soft: the pools stay;
SettleSoft(d) == Become(d, "idle") /\ UNCHANGED fresh

\* Deviation: a dead node is not looked for in the formal pool.
DeepHardFresh(d, a) == fresh' = fresh \ {a} /\ Become(d, "idle")

\* hard: it leaves the pool it is found in first.
DeepHard(d, a) == fresh' = fresh \ {a} /\ Become(d, IF a \in fresh THEN "idle" ELSE "ask")

Keep(a, verdict) == shared' = [shared EXCEPT ![ExitIp[a]] = verdict]

\* deepProbeOne: only a node that is alive passes; the upstream may name a time.
Probe(d) ==
    /\ DeepAt(d, "probe")
    /\ LET a == deep[d].node IN
        /\ shared[ExitIp[a]] = "none"
        /\ \/ a \notin dead /\ SettleOk(d, a) /\ quota' = quota \ {a} /\ Keep(a, "ok")
           \/ a \notin dead /\ SettleSoft(d) /\ quota' \in {quota, quota \cup {a}} /\ Keep(a, "soft")
           \/ DeepHard(d, a) /\ UNCHANGED <<quota, shared>>
    /\ UNCHANGED <<custom, queue, round, config, todo, dead>>

\* deepProbeDedup: the verdict on its exit IP stands for the node.
TakeVerdict(d) ==
    /\ DeepAt(d, "probe")
    /\ LET a == deep[d].node IN
        CASE shared[ExitIp[a]] = "ok" -> SettleOk(d, a)
          [] shared[ExitIp[a]] = "soft" -> SettleSoft(d)
          [] OTHER -> FALSE
    /\ UNCHANGED <<custom, queue, quota, shared, round, config, todo, dead>>

\* ... and into the formal one.
Promote(d) ==
    /\ DeepAt(d, "promote")
    /\ custom' = custom \cup {deep[d].node}
    /\ Become(d, "idle")
    /\ UNCHANGED <<fresh, queue, quota, shared, round, config, todo, dead>>

\* isManual, and then dropCustom.
AskManual(d) ==
    /\ DeepAt(d, "ask")
    /\ Become(d, IF deep[d].node \in manual THEN "idle" ELSE "remove")
    /\ UNCHANGED <<nodePools, round, config, todo, dead>>

DropDead(d) ==
    /\ DeepAt(d, "remove")
    /\ custom' = custom \ {deep[d].node}
    /\ Become(d, "idle")
    /\ UNCHANGED <<fresh, queue, quota, shared, round, config, todo, dead>>

-----------------------------------------------------------------------------
\* noteCustomResult: three requests in a row have failed through a node that is
\* not manual.
GiveUpNode(a) ==
    /\ a \in custom \ manual /\ custom' = custom \ {a}
    /\ UNCHANGED <<fresh, queue, quota, shared, round, config, deep, todo, dead>>

\* Environment: a node of a source dies, for good (any node may fail a check at
\* any time); the time the upstream named has passed.
Die(a) ==
    /\ a \in Plain \ (ManualPlain \cup dead) /\ dead' = dead \cup {a}
    /\ UNCHANGED <<nodePools, round, config, deep, todo>>

QuotaOver(a) ==
    /\ a \in quota /\ quota' = quota \ {a}
    /\ UNCHANGED <<custom, fresh, queue, shared, round, config, deep, todo, dead>>

\* deepProbeDedupTTL has passed.
VerdictOld(ip) ==
    /\ shared[ip] # "none" /\ shared' = [shared EXCEPT ![ip] = "none"]
    /\ UNCHANGED <<custom, fresh, queue, quota, round, config, deep, todo, dead>>

Check(d) == Probe(d) \/ TakeVerdict(d) \/ Promote(d) \/ AskManual(d) \/ DropDead(d)

NodeNext ==
    \/ Fetch \/ TakeQueued \/ PassStart
    \/ \E d \in Checkers : Check(d)
    \/ \E a \in Plain : \/ InitAdd(a) \/ FirstCheck(a) \/ PassTake(a)
                       \/ GiveUpNode(a) \/ Die(a) \/ QuotaOver(a)
    \/ \E ip \in Range(ExitIp) : VerdictOld(ip)

NodeSpec == NodeInit /\ [][NodeNext]_nodeVars

-----------------------------------------------------------------------------
\* The loops run as long as the program does, each call of theirs has a time
\* limit, and what the upstream declares is a time that passes.
NodeFairness ==
    /\ WF_nodeVars(TakeQueued) /\ WF_nodeVars(PassStart) /\ WF_nodeVars(\E a \in Plain : PassTake(a))
    /\ \A d \in Checkers : WF_nodeVars(Check(d))
    /\ \A a \in Plain : WF_nodeVars(QuotaOver(a))
    /\ \A ip \in Range(ExitIp) : WF_nodeVars(VerdictOld(ip))

NodeFairSpec == NodeSpec /\ NodeFairness

\* Every pool holds addresses and the queue keeps its length.
NodeTypeOK ==
    /\ custom \cup fresh \cup quota \cup todo \cup dead \subseteq Plain
    /\ queue \in BoundedSeq(Plain, QueueCap)
    /\ round \subseteq Plain /\ config \subseteq ManualPlain
    /\ shared \in [Range(ExitIp) -> {"none", "ok", "soft"}]
    /\ \A d \in Checkers : deep[d].node \in Plain <=> ~DeepAt(d, "idle")

\* A node that passed its first check gets its deep check, though the queue
\* was full or its exit benched (refreshPool, runDeepProbePass).
FreshChecked ==
    \A a \in Plain : a \in fresh ~> (a \notin fresh \/ \E d \in Checkers : deep[d].node = a)

\* A node of a source that has died leaves the formal pool for good, whatever
\* checks were under way and wherever else it was listed (settleDeep).
DeadLeaves == \A a \in Plain \ ManualPlain : a \in dead ~> [](a \notin custom)
=============================================================================
