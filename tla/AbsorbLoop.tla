----------------------------- MODULE AbsorbLoop -----------------------------
(***************************************************************************)
(* The absorb retry loop of a streaming request (absorb.go) on top of the  *)
(* outage breaker, and the background recovery probe (recoveryprobe.go).   *)
(*                                                                         *)
(* Several requests share one breaker.  A request dispatches; the race     *)
(* underneath fails on exits and mirrors, and each failure is recorded,    *)
(* judged and perhaps charged; the dispatch ends in an error, a retryable  *)
(* response, a final response or a stream that is read to its end.  What   *)
(* the dispatch underneath does is left open: any failures, any outcome.   *)
(*                                                                         *)
(* punishExit reads the breaker after recording, and its caller charges    *)
(* after that: three steps.  pauseAbsorb reads the breaker again, twice.    *)
(***************************************************************************)
EXTENDS OutageBreaker

CONSTANTS
    Requests,     \* the streaming requests; the other reporters are requests
                  \* without a stream, which fail and report but do not loop
    MaxAttempts,  \* cfg.absorbAttempts
    Models,       \* models in the request's chain: dispatchUnified
    RaceMode      \* exits are raced, and marked as tried; the layers do not mark

ASSUME AbsorbAssumption ==
    /\ Requests \subseteq Reporters
    /\ IsFiniteSet(Exits)
    /\ MaxAttempts \in Nat \ {0}
    /\ Models \in Nat \ {0}
    /\ RaceMode \in BOOLEAN

Labels == {"loop", "dispatch", "record", "judge", "charge", "failed", "reading",
           "pause", "ask", "sleep", "exhausted", "done"}
Replies == {"none", "stream", "ok", "final", "retryable"}
Results == {"none", "complete", "answer", "fallback", "truncated", "cancelled"}

VARIABLES
    pc,        \* per request: where it is
    then,      \* per request: where it goes on once a failure is dealt with
    attempt,   \* per request: attempts begun
    model,     \* per request: the model of its chain it is at
    tried,     \* per request: trace.triedExits
    before,    \* per request: triedBefore, how many were tried as the attempt began
    fallback,  \* per request: the attempt whose response is kept, or 0
    fresh,     \* history: the present attempt sent the request to some exit
    reply,     \* per request: the last response of the present attempt
    late,      \* history: charges the request made inside the present hold
    result,    \* per request: how it ended
    recovery   \* the recovery probe: "asleep", or probing the "upstream"

\* What a request keeps of its attempts, and what one attempt keeps.
attempts == <<attempt, before, fallback>>
within == <<model, tried, fresh, reply>>
control == <<then, attempts, within, late, result>>
absorbVars == <<vars, pc, control, recovery>>

-----------------------------------------------------------------------------

AbsorbInit ==
    /\ Init
    /\ pc = [r \in Requests |-> "loop"]
    /\ then = [r \in Requests |-> "loop"]
    /\ attempt = [r \in Requests |-> 0]
    /\ model = [r \in Requests |-> 1]
    /\ tried = [r \in Requests |-> {}]
    /\ before = [r \in Requests |-> 0]
    /\ fallback = [r \in Requests |-> 0]
    /\ fresh = [r \in Requests |-> FALSE]
    /\ reply = [r \in Requests |-> "none"]
    /\ late = [r \in Requests |-> 0]
    /\ result = [r \in Requests |-> "none"]
    /\ recovery = "asleep"

Goto(r, l) == pc' = [pc EXCEPT ![r] = l]

\* A step of r alone, that only moves it from one label to another.
Move(r, l, m) ==
    /\ pc[r] = l
    /\ Goto(r, m)
    /\ UNCHANGED <<vars, control, recovery>>

End(r, how) ==
    /\ Goto(r, "done")
    /\ result' = [result EXCEPT ![r] = how]

\* Deviation: one attempt too many.
AttemptsLeftInclusive(r) == attempt[r] <= MaxAttempts

AttemptsLeft(r) == attempt[r] < MaxAttempts

\* The head of the loop: another attempt, or the way out.
NextAttempt(r) ==
    /\ pc[r] = "loop"
    /\ AttemptsLeft(r)
    /\ Goto(r, "dispatch")
    /\ attempt' = [attempt EXCEPT ![r] = @ + 1]
    /\ model' = [model EXCEPT ![r] = 1]
    /\ before' = [before EXCEPT ![r] = Cardinality(tried[r])]
    /\ fresh' = [fresh EXCEPT ![r] = FALSE]
    /\ reply' = [reply EXCEPT ![r] = "none"]
    /\ UNCHANGED <<vars, then, tried, fallback, late, result, recovery>>

\* Deviation: only the budget ends the loop, the attempts never do.
LeaveLoopInBudget(r) == AttemptsLeft(r) /\ attempt[r] > 0 /\ Move(r, "loop", "exhausted")

\* No attempt is left, or less than two seconds of the total budget.
LeaveLoop(r) == attempt[r] > 0 /\ Move(r, "loop", "exhausted")

\* The client is gone: noticed at the head of the loop, when a dispatch
\* fails, and as an interrupted backoff.
Cancelled(r) ==
    /\ pc[r] \in {"loop", "failed", "sleep"}
    /\ End(r, "cancelled")
    /\ UNCHANGED <<vars, then, attempts, within, late, recovery>>

\* After the loop: the kept response, or errStreamTruncated.
HandOver(r) ==
    /\ pc[r] = "exhausted"
    /\ End(r, IF fallback[r] > 0 THEN "fallback" ELSE "truncated")
    /\ UNCHANGED <<vars, then, attempts, within, late, recovery>>

-----------------------------------------------------------------------------
(* A failure: of an exit, of a mirror, of the stream returned.             *)

\* The request is sent through an exit.  A race takes only exits this
\* request has not tried, and marks them (trace.markTried).
SendThrough(r, e) ==
    /\ RaceMode => e \notin tried[r]
    /\ tried' = IF RaceMode THEN [tried EXCEPT ![r] = @ \cup {e}] ELSE tried
    /\ fresh' = [fresh EXCEPT ![r] = TRUE]
    /\ UNCHANGED model

\* punishExit, first half: record stamps the failure.  The caller goes on
\* at l once it is dealt with.
Report(r, e, m, l) ==
    /\ Stamp(r, e, m)
    /\ Goto(r, "record")
    /\ then' = [then EXCEPT ![r] = l]
    /\ UNCHANGED <<attempts, reply, late, result, recovery>>

ExitFails(r, e, m) ==
    /\ pc[r] = "dispatch"
    /\ SendThrough(r, e)
    /\ Report(r, e, m, "dispatch")

\* A lane that leaves no evidence behind: the direct connection, whose
\* failures are not reported, or an attempt that a winner cancels.
LaneFails(r, e) ==
    /\ pc[r] = "dispatch"
    /\ SendThrough(r, e)
    /\ UNCHANGED <<vars, pc, then, attempts, reply, late, result, recovery>>

\* dispatch reports a mirror once dispatchOnce has failed as a whole, and
\* goes on with another mirror or gives up.
MirrorFails(r, m) ==
    /\ pc[r] = "dispatch"
    /\ \E l \in {"dispatch", "failed"} : Report(r, NoExit, m, l)
    /\ UNCHANGED <<model, tried, fresh>>

\* A record outside a hold may begin a new one.
RecordIt(p) ==
    /\ Record(p)
    /\ late' = IF Tripped THEN late ELSE [q \in Requests |-> 0]

RecordFailure(r) ==
    /\ pc[r] = "record"
    /\ RecordIt(r)
    /\ Goto(r, "judge")
    /\ UNCHANGED <<then, attempts, within, result, recovery>>

\* Deviation: the breaker is not asked.
JudgeFailureAlways(r) == Move(r, "judge", "charge")

\* punishExit, second half: the verdict is read in a lock of its own.
JudgeFailure(r) == Move(r, "judge", IF Tripped THEN then[r] ELSE "charge")

\* observeFail, observeTruncation, noteCustomResult, noteUpstreamResult: the
\* accounts they write belong to the exits and the mirrors.
ChargeFailure(r) ==
    /\ pc[r] = "charge"
    /\ Goto(r, then[r])
    /\ late' = IF Tripped THEN [late EXCEPT ![r] = @ + 1] ELSE late
    /\ UNCHANGED <<vars, then, attempts, within, result, recovery>>

\* dispatchUnified: the chain's next model, with no exit tried.  The one
\* before it failed, or had a retryable response; or it is an auto pool's
\* first, which already is another than the client asked for.
SwitchModel(r) ==
    /\ \/ pc[r] = "failed"
       \/ pc[r] = "dispatch" /\ (reply[r] = "retryable" \/ ~fresh[r])
    /\ model[r] < Models
    /\ model' = [model EXCEPT ![r] = @ + 1]
    /\ tried' = [tried EXCEPT ![r] = {}]
    /\ Goto(r, "dispatch")
    /\ UNCHANGED <<vars, then, attempts, fresh, reply, late, result, recovery>>

-----------------------------------------------------------------------------
(* How a dispatch ends.                                                    *)

\* len(trace.triedExits) == triedBefore.
NothingNew(r, exits) == Cardinality(exits) = before[r]

\* An error, after the mirrors were tried without any response, or because
\* the deadline passed.  errAllExitsFailed with nothing new ends the loop.
DispatchFailed(r) ==
    /\ reply[r] # "retryable"
    /\ \/ Move(r, "failed", "pause")
       \/ NothingNew(r, tried[r]) /\ Move(r, "failed", "exhausted")

AttemptExpires(r) == Move(r, "dispatch", "pause")

\* A response comes from an exit the request was sent through.
Respond(r, kind) ==
    /\ pc[r] = "dispatch"
    /\ \E e \in Exits : SendThrough(r, e)
    /\ reply' = [reply EXCEPT ![r] = kind]
    /\ UNCHANGED <<vars, then, attempt, before, late, recovery>>

\* A retryable response: dispatch charges its mirror, without asking the
\* breaker, and goes on with the next mirror or model.
RetryableResponse(r) ==
    /\ Respond(r, "retryable")
    /\ UNCHANGED <<pc, fallback, result>>

\* With none left, the last retryable response is what dispatch returns.
ReturnsLast(r) ==
    /\ pc[r] \in {"dispatch", "failed"}
    /\ reply[r] = "retryable"
    /\ UNCHANGED <<vars, then, attempt, before, within, late, recovery>>

\* Deviation: the response that ends the loop early is dropped.
KeepNone(r) == UNCHANGED fallback

Keep(r) == fallback' = [fallback EXCEPT ![r] = IF @ = 0 THEN attempt[r] ELSE @]

\* A buffered response other than 200 that brought nothing new, and not at
\* the first attempt, ends the loop.  It is kept, unless one is kept already.
StaleResponse(r) ==
    /\ Respond(r, "final") \/ ReturnsLast(r)
    /\ NothingNew(r, tried'[r]) /\ attempt[r] > 1
    /\ Keep(r)
    /\ Goto(r, "exhausted")
    /\ UNCHANGED result

\* Otherwise a retryable one is kept likewise.
KeepResponse(r) ==
    /\ ReturnsLast(r)
    /\ ~NothingNew(r, tried[r]) \/ attempt[r] = 1
    /\ Keep(r)
    /\ Goto(r, "pause")
    /\ UNCHANGED result

\* And any other is the answer.
Answer(r, kind) ==
    /\ Respond(r, kind)
    /\ kind = "ok" \/ ~NothingNew(r, tried'[r]) \/ attempt[r] = 1
    /\ End(r, "answer")
    /\ UNCHANGED fallback

\* A stream, to be read to its end.
StreamWinner(r) ==
    /\ Respond(r, "stream")
    /\ Goto(r, "reading")
    /\ UNCHANGED <<fallback, result>>

\* A read error is followed by a backoff; a stream that ended without a
\* terminal marker by the next attempt at once.
StreamFails(r, e, m, l) ==
    /\ pc[r] = "reading"
    /\ Report(r, e, m, l)
    /\ UNCHANGED <<model, tried, fresh>>

ReadFails(r, e, m) == StreamFails(r, e, m, "pause")
StreamTruncated(r, e, m) == StreamFails(r, e, m, "loop")

StreamComplete(r) ==
    /\ pc[r] = "reading"
    /\ NoteSuccess \/ (~MayRelease /\ UNCHANGED vars)
    /\ End(r, "complete")
    /\ UNCHANGED <<then, attempts, within, late, recovery>>

-----------------------------------------------------------------------------
(* pauseAbsorb.  The delay itself, which absorbBackoff picks by a reading  *)
(* of its own, is not modelled: a sleep takes any time.                    *)

CheckStorm(r) == Move(r, "pause", IF Tripped THEN "ask" ELSE "sleep")

\* TryProbe: granted, or the hold is over, and the delay is skipped.
AskProbe(r) ==
    /\ pc[r] = "ask"
    /\ \/ MayProbe /\ TryProbe /\ Goto(r, "loop")
       \/ ~Tripped /\ Goto(r, "loop") /\ UNCHANGED vars
       \/ Tripped /\ ~MayProbe /\ Goto(r, "sleep") /\ UNCHANGED vars
    /\ UNCHANGED <<control, recovery>>

Wake(r) == Move(r, "sleep", "loop")

-----------------------------------------------------------------------------
(* The requests without a stream.                                          *)

FailsElsewhere(p, e, m) ==
    /\ p \notin Requests
    /\ Stamp(p, e, m)
    /\ UNCHANGED <<pc, control, recovery>>

RecordElsewhere(p) ==
    /\ p \notin Requests
    /\ RecordIt(p)
    /\ UNCHANGED <<pc, then, attempts, within, result, recovery>>

-----------------------------------------------------------------------------
(* startOutageRecoveryProbe.                                               *)

RecoveryWakes ==
    /\ recovery = "asleep"
    /\ Tripped
    /\ recovery' = "upstream"
    /\ UNCHANGED <<vars, pc, control>>

RecoveryFails ==
    /\ recovery = "upstream"
    /\ recovery' = "asleep"
    /\ UNCHANGED <<vars, pc, control>>

RecoverySucceeds ==
    /\ recovery = "upstream"
    /\ NoteSuccess \/ (~MayRelease /\ UNCHANGED vars)
    /\ recovery' = "asleep"
    /\ UNCHANGED <<pc, control>>

-----------------------------------------------------------------------------

InDispatch(r) ==
    \/ \E e \in Exits, m \in Mirrors : ExitFails(r, e, m)
    \/ \E m \in Mirrors : MirrorFails(r, m)
    \/ \E e \in Exits : LaneFails(r, e)
    \/ AttemptExpires(r)
    \/ SwitchModel(r)
    \/ StaleResponse(r)
    \/ RetryableResponse(r)
    \/ KeepResponse(r)
    \/ \E kind \in {"ok", "final"} : Answer(r, kind)
    \/ StreamWinner(r)

InStream(r) ==
    \/ \E e \in Exits, m \in Mirrors : ReadFails(r, e, m) \/ StreamTruncated(r, e, m)
    \/ StreamComplete(r)

Local(r) ==
    \/ NextAttempt(r)
    \/ LeaveLoop(r)
    \/ HandOver(r)
    \/ RecordFailure(r)
    \/ JudgeFailure(r)
    \/ ChargeFailure(r)
    \/ DispatchFailed(r)
    \/ CheckStorm(r)
    \/ AskProbe(r)
    \/ Wake(r)

Clock == Tick /\ UNCHANGED <<pc, control, recovery>>

AbsorbNext ==
    \/ \E r \in Requests : InDispatch(r) \/ InStream(r) \/ Local(r) \/ Cancelled(r)
    \/ \E p \in Reporters, e \in Exits, m \in Mirrors : FailsElsewhere(p, e, m)
    \/ \E p \in Reporters : RecordElsewhere(p)
    \/ RecoveryWakes \/ RecoveryFails \/ RecoverySucceeds
    \/ Clock

AbsorbSpec == AbsorbInit /\ [][AbsorbNext]_absorbVars

\* A request's own steps are taken; a dispatch and a stream end, because
\* both run under the deadline of the total budget.
AbsorbFairness ==
    /\ WF_absorbVars(Clock)
    /\ \A p \in Reporters : WF_absorbVars(RecordElsewhere(p))
    /\ \A r \in Requests :
        /\ WF_absorbVars(Local(r))
        /\ WF_absorbVars(InDispatch(r))
        /\ WF_absorbVars(InStream(r))

AbsorbFairSpec == AbsorbSpec /\ AbsorbFairness

-----------------------------------------------------------------------------

\* Every variable has its type; in particular the attempts keep to their limit.
AbsorbTypeOK ==
    /\ TypeOK
    /\ pc \in [Requests -> Labels]
    /\ then \in [Requests -> Labels]
    /\ attempt \in [Requests -> 0 .. MaxAttempts]
    /\ model \in [Requests -> 1 .. Models]
    /\ tried \in [Requests -> SUBSET Exits]
    /\ before \in [Requests -> 0 .. Cardinality(Exits)]
    /\ fallback \in [Requests -> 0 .. MaxAttempts]
    /\ fresh \in [Requests -> BOOLEAN]
    /\ reply \in [Requests -> Replies]
    /\ late \in [Requests -> Nat]
    /\ result \in [Requests -> Results]
    /\ recovery \in {"asleep", "upstream"}

\* punishExit reads its verdict in one lock and the caller charges in
\* another, so a charge may fall into a hold that began in between.  No
\* more of those that ask escape the freeze: one of each request in one hold.
LateChargeOnce ==
    Tripped => \A r \in Requests : late[r] + (IF pc[r] = "charge" THEN 1 ELSE 0) <= 1

\* Every request is answered in the end, however its attempts fail and
\* whoever holds the breaker: no backoff, probe or early end is a trap.
AbsorbTerminates == \A r \in Requests : <>(pc[r] = "done")

\* A complete reply is what the client gets, however many retryable
\* responses, truncations and holds came before it; and the truncation
\* error only when no attempt left a response to hand over.
ResultMatchesAttempts ==
    \A r \in Requests :
        /\ result[r] = "truncated" => fallback[r] = 0 /\ reply[r] # "final"
        /\ result[r] = "complete" => reply[r] = "stream"
        /\ result[r] = "fallback" => fallback[r] \in 1 .. attempt[r]

\* recoveryprobe.go: a recovery probe that succeeds ends the hold.
RecoveryReleases == [][RecoverySucceeds => ~Tripped']_absorbVars
=============================================================================
