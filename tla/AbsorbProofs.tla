---------------------------- MODULE AbsorbProofs ----------------------------
(***************************************************************************)
(* Proofs about the absorb loop, for any exits, mirrors, requests,         *)
(* attempts, models and thresholds: it uses the breaker as the breaker     *)
(* specifies, a request charges at most once in a hold, and its result is  *)
(* that of its attempts.                                                   *)
(***************************************************************************)
EXTENDS AbsorbLoop, OutageBreakerProofs, FiniteSetTheorems

-----------------------------------------------------------------------------
(* The loop and the breaker.                                               *)

\* Every step of the loop is one of the breaker or leaves the breaker alone.
LEMMA LoopUsesBreaker == [AbsorbNext]_absorbVars => [Next]_vars
<1> SUFFICES ASSUME [AbsorbNext]_absorbVars PROVE [Next]_vars
    OBVIOUS
<1>1. ASSUME NEW p \in Reporters, NEW e \in Exits \cup {NoExit}, NEW m \in Mirrors, Stamp(p, e, m)
      PROVE  [Next]_vars
    BY <1>1 DEF Next
<1>2. ASSUME NEW p \in Reporters, Record(p) PROVE [Next]_vars
    BY <1>2 DEF Next
<1>3. TryProbe \/ NoteSuccess \/ Tick => [Next]_vars
    BY DEF Next
<1>4. Requests \subseteq Reporters
    BY AbsorbAssumption
<1>5. ASSUME NEW r \in Requests, InDispatch(r) PROVE [Next]_vars
    BY <1>1, <1>4, <1>5 DEF InDispatch, ExitFails, MirrorFails, Report, LaneFails, AttemptExpires, Move,
       SwitchModel, StaleResponse, ReturnsLast, Respond, RetryableResponse, KeepResponse, Answer, StreamWinner
<1>6. ASSUME NEW r \in Requests, InStream(r) PROVE [Next]_vars
    BY <1>1, <1>3, <1>4, <1>6 DEF InStream, ReadFails, StreamTruncated, StreamFails, Report, StreamComplete
<1>7. ASSUME NEW r \in Requests, Local(r) PROVE [Next]_vars
    BY <1>2, <1>3, <1>4, <1>7 DEF Local, NextAttempt, LeaveLoop, Move, HandOver, RecordFailure, RecordIt,
       JudgeFailure, ChargeFailure, DispatchFailed, CheckStorm, AskProbe, Wake
<1>8. ASSUME NEW r \in Requests, Cancelled(r) PROVE [Next]_vars
    BY <1>8 DEF Cancelled
<1>9. ASSUME NEW p \in Reporters, RecordElsewhere(p) PROVE [Next]_vars
    BY <1>2, <1>9 DEF RecordElsewhere, RecordIt
<1>10. ASSUME NEW p \in Reporters, NEW e \in Exits, NEW m \in Mirrors, FailsElsewhere(p, e, m) PROVE [Next]_vars
    BY <1>1, <1>10 DEF FailsElsewhere
<1>11. CASE RecoveryWakes \/ RecoveryFails \/ RecoverySucceeds \/ Clock
    BY <1>3, <1>11 DEF RecoveryWakes, RecoveryFails, RecoverySucceeds, Clock
<1>12. CASE UNCHANGED absorbVars
    BY <1>12 DEF absorbVars
<1> QED
    BY <1>5, <1>6, <1>7, <1>8, <1>9, <1>10, <1>11, <1>12 DEF AbsorbNext

\* The absorb loop and the recovery probe use the breaker as it specifies, so
\* what is proved of the breaker holds of them (one probe in a hold, the hold
\* is bounded).
THEOREM LoopImplementsBreaker == AbsorbSpec => Spec
<1>1. AbsorbInit => Init
    BY DEF AbsorbInit
<1> QED
    BY <1>1, LoopUsesBreaker, PTL DEF AbsorbSpec, Spec

\* So requests that record, judge and charge in steps of their own, back off, ask for
\* the probe and report successes keep the promise of OutagePromise together: a hold
\* is bounded, lets one probe through and is cut short by a success after it only.
THEOREM LoopKeepsPromise == AbsorbSpec => ImplementsPromise
BY LoopImplementsBreaker, Refinement, PTL

LEMMA BreakerAlways == AbsorbSpec => []Inv
BY LoopImplementsBreaker, Invariance, PTL

-----------------------------------------------------------------------------
(* Charges inside a hold.                                                  *)

\* Where a request goes on once a failure is dealt with.
Returns == {"loop", "dispatch", "failed", "pause"}

LateShape == DOMAIN pc = Requests /\ then \in [Requests -> Returns] /\ late \in [Requests -> Nat]

LateInv == LateShape /\ LateChargeOnce

LEMMA LateInit == AbsorbInit => LateInv
BY DEF AbsorbInit, LateInv, LateShape, Returns, LateChargeOnce

\* A step that charges nothing, leads to no charge and begins no hold.
Calm ==
    /\ LateShape' /\ late' = late
    /\ \A r \in Requests : pc'[r] = "charge" => pc[r] = "charge"
    /\ Tripped' => Tripped

LEMMA CalmLate == LateInv /\ Calm => LateInv'
BY DEF LateInv, Calm, LateShape, LateChargeOnce

\* Of what does not record, nothing begins a hold.
LEMMA NoHoldBegins ==
    ASSUME TypeOK
    PROVE  /\ UNCHANGED vars => (Tripped' <=> Tripped)
           /\ \A p \in Reporters : \A e, m : Stamp(p, e, m) => (Tripped' <=> Tripped)
           /\ TryProbe => (Tripped' <=> Tripped)
           /\ NoteSuccess => ~Tripped'
           /\ Tick => (Tripped' => Tripped)
<1>1. now \in Int /\ trippedUntil \in Int
    BY BreakerAssumption DEF TypeOK, Time
<1> QED
    BY <1>1 DEF vars, breakerVars, Stamp, TryProbe, NoteSuccess, Tick, Tripped

\* A recorded failure begins a hold only where the charges are forgotten.
LEMMA RecordLate ==
    ASSUME LateInv, NEW p \in Reporters, RecordIt(p), LateShape',
           \A r \in Requests : pc'[r] = "charge" => pc[r] = "charge"
    PROVE  LateInv'
<1>1. CASE Tripped
    BY <1>1 DEF RecordIt, LateInv, LateShape, LateChargeOnce
<1>2. CASE ~Tripped
    BY <1>2 DEF RecordIt, LateInv, LateChargeOnce
<1> QED
    BY <1>1, <1>2

LEMMA DispatchCalm == ASSUME TypeOK, LateInv, NEW r \in Requests, InDispatch(r) PROVE Calm
<1> USE DEF LateInv, LateShape, Calm, Goto
<1>0. r \in Reporters
    BY AbsorbAssumption
<1>1. ASSUME NEW e \in Exits, NEW m \in Mirrors, ExitFails(r, e, m) PROVE Calm
    BY <1>0, <1>1, NoHoldBegins DEF ExitFails, Report, Returns
<1>2. ASSUME NEW m \in Mirrors, MirrorFails(r, m) PROVE Calm
    BY <1>0, <1>2, NoHoldBegins DEF MirrorFails, Report, Returns
<1>3. ASSUME NEW e \in Exits, LaneFails(r, e) PROVE Calm
    BY <1>3, NoHoldBegins DEF LaneFails
<1>4. CASE AttemptExpires(r)
    BY <1>4, NoHoldBegins DEF AttemptExpires, Move, control
<1>5. CASE SwitchModel(r)
    BY <1>5, NoHoldBegins DEF SwitchModel
<1>6. CASE StaleResponse(r)
    BY <1>6, NoHoldBegins DEF StaleResponse, Respond, ReturnsLast
<1>7. CASE RetryableResponse(r)
    BY <1>7, NoHoldBegins DEF RetryableResponse, Respond
<1>8. CASE KeepResponse(r)
    BY <1>8, NoHoldBegins DEF KeepResponse, ReturnsLast
<1>9. ASSUME NEW kind, Answer(r, kind) PROVE Calm
    BY <1>9, NoHoldBegins DEF Answer, Respond, End
<1>10. CASE StreamWinner(r)
    BY <1>10, NoHoldBegins DEF StreamWinner, Respond
<1> QED
    BY <1>1, <1>2, <1>3, <1>4, <1>5, <1>6, <1>7, <1>8, <1>9, <1>10 DEF InDispatch

LEMMA StreamCalm == ASSUME TypeOK, LateInv, NEW r \in Requests, InStream(r) PROVE Calm
<1> USE DEF LateInv, LateShape, Calm, Goto
<1>0. r \in Reporters
    BY AbsorbAssumption
<1>1. ASSUME NEW e \in Exits, NEW m \in Mirrors, ReadFails(r, e, m) \/ StreamTruncated(r, e, m) PROVE Calm
    BY <1>0, <1>1, NoHoldBegins DEF ReadFails, StreamTruncated, StreamFails, Report, Returns
<1>2. CASE StreamComplete(r)
    BY <1>2, NoHoldBegins DEF StreamComplete, End, attempts, within
<1> QED
    BY <1>1, <1>2 DEF InStream

\* The breaker is asked before a charge and not again: the charge may fall into
\* a hold that began in between, and is the first in it.
LEMMA LocalLate == ASSUME TypeOK, LateInv, NEW r \in Requests, Local(r) PROVE LateInv'
<1> USE DEF LateInv, LateShape, Goto
<1>0. r \in Reporters
    BY AbsorbAssumption
<1>1. CASE RecordFailure(r)
    <2>1. LateShape' /\ \A q \in Requests : pc'[q] = "charge" => pc[q] = "charge"
        BY <1>1 DEF RecordFailure, RecordIt
    <2> QED
        BY <1>0, <1>1, <2>1, RecordLate DEF RecordFailure
<1>2. CASE JudgeFailure(r)
    <2>1. UNCHANGED vars /\ late' = late /\ LateShape'
        BY <1>2 DEF JudgeFailure, Move, control, Returns
    <2>2. Tripped => \A q \in Requests : pc'[q] = "charge" => pc[q] = "charge"
        BY <1>2 DEF JudgeFailure, Move, Returns
    <2> QED
        BY <2>1, <2>2, NoHoldBegins DEF LateChargeOnce
<1>3. CASE ChargeFailure(r)
    <2>1. UNCHANGED vars /\ then' = then /\ pc' = [pc EXCEPT ![r] = then[r]]
          /\ late' = IF Tripped THEN [late EXCEPT ![r] = @ + 1] ELSE late
        BY <1>3 DEF ChargeFailure
    <2>2. LateShape' /\ pc[r] = "charge" /\ pc'[r] # "charge"
        BY <1>3, <2>1 DEF ChargeFailure, Returns
    <2> QED
        BY <2>1, <2>2, NoHoldBegins DEF LateChargeOnce
<1>4. CASE NextAttempt(r) \/ LeaveLoop(r) \/ HandOver(r) \/ DispatchFailed(r) \/ CheckStorm(r) \/ Wake(r)
    <2>1. Calm
        BY <1>4, NoHoldBegins DEF Calm, NextAttempt, LeaveLoop, Move, HandOver, End, DispatchFailed, CheckStorm,
           Wake, control, attempts, within
    <2> QED
        BY <2>1, CalmLate
<1>5. CASE AskProbe(r)
    <2>1. Calm
        BY <1>5, NoHoldBegins DEF Calm, AskProbe, control
    <2> QED
        BY <2>1, CalmLate
<1> QED
    BY <1>1, <1>2, <1>3, <1>4, <1>5 DEF Local

LEMMA LateNext == TypeOK /\ LateInv /\ [AbsorbNext]_absorbVars => LateInv'
<1> SUFFICES ASSUME TypeOK, LateInv, [AbsorbNext]_absorbVars PROVE LateInv'
    OBVIOUS
<1>1. ASSUME NEW r \in Requests, InDispatch(r) \/ InStream(r) \/ Local(r) PROVE LateInv'
    BY <1>1, DispatchCalm, StreamCalm, LocalLate, CalmLate
<1>2. ASSUME NEW r \in Requests, Cancelled(r) PROVE LateInv'
    <2>1. Calm
        BY <1>2, NoHoldBegins DEF Calm, Cancelled, End, Goto, LateInv, LateShape
    <2> QED
        BY <2>1, CalmLate
<1>3. ASSUME NEW p \in Reporters, RecordElsewhere(p) PROVE LateInv'
    <2>1. LateShape' /\ pc' = pc
        BY <1>3 DEF RecordElsewhere, RecordIt, LateInv, LateShape
    <2> QED
        BY <1>3, <2>1, RecordLate DEF RecordElsewhere
<1>4. ASSUME NEW p \in Reporters, NEW e \in Exits, NEW m \in Mirrors, FailsElsewhere(p, e, m) PROVE LateInv'
    <2>1. Calm
        BY <1>4, NoHoldBegins DEF FailsElsewhere, Calm, LateInv, LateShape, control
    <2> QED
        BY <2>1, CalmLate
<1>5. CASE RecoveryWakes \/ RecoveryFails \/ RecoverySucceeds \/ Clock \/ UNCHANGED absorbVars
    <2>1. UNCHANGED <<pc, control>> /\ (Tripped' => Tripped)
        BY <1>5, NoHoldBegins DEF RecoveryWakes, RecoveryFails, RecoverySucceeds, Clock, absorbVars
    <2>2. Calm
        BY <2>1 DEF Calm, LateInv, LateShape, control
    <2> QED
        BY <2>2, CalmLate
<1> QED
    BY <1>1, <1>2, <1>3, <1>4, <1>5 DEF AbsorbNext

\* punishExit and its callers: however a request's failures, the charges and the
\* reports of others interleave, at most one charge of it falls into a hold.
THEOREM OneLateCharge == AbsorbSpec => []LateChargeOnce
<1>1. LateInv => LateChargeOnce
    BY DEF LateInv
<1>2. Inv => TypeOK
    BY DEF Inv
<1> QED
    BY <1>1, <1>2, LateInit, LateNext, BreakerAlways, PTL DEF AbsorbSpec

-----------------------------------------------------------------------------
(* The result of a request.                                                *)

ResultShape ==
    /\ DOMAIN pc = Requests /\ DOMAIN then = Requests /\ DOMAIN result = Requests
    /\ attempt \in [Requests -> Nat] /\ fallback \in [Requests -> Nat] /\ DOMAIN reply = Requests

\* The kept response is of an attempt that was made.  A final response that is
\* no answer ends the loop, and is kept; a stream is read from the response.
Faithful(r) ==
    /\ then[r] \in Returns
    /\ fallback[r] <= attempt[r]
    /\ pc[r] = "reading" => reply[r] = "stream"
    /\ reply[r] = "final" => pc[r] \in {"exhausted", "done"} /\ (fallback[r] > 0 \/ result[r] = "answer")
    /\ result[r] # "none" => pc[r] = "done"
    /\ result[r] = "truncated" => fallback[r] = 0
    /\ result[r] = "complete" => reply[r] = "stream"
    /\ result[r] = "fallback" => fallback[r] > 0

ResultInv == ResultShape /\ \A r \in Requests : Faithful(r)

LEMMA ResultInit == AbsorbInit => ResultInv
BY AbsorbAssumption DEF AbsorbInit, ResultInv, ResultShape, Faithful, Returns

LEMMA SendResult ==
    ASSUME ResultInv, NEW r \in Requests, InDispatch(r)
    PROVE  ResultInv'
<1> USE DEF ResultInv, ResultShape, Faithful, Goto, Returns
<1>1. ASSUME NEW e \in Exits, NEW m \in Mirrors, ExitFails(r, e, m) PROVE ResultInv'
    BY <1>1 DEF ExitFails, Report, attempts
<1>2. ASSUME NEW m \in Mirrors, MirrorFails(r, m) PROVE ResultInv'
    BY <1>2 DEF MirrorFails, Report, attempts
<1>3. ASSUME NEW e \in Exits, LaneFails(r, e) PROVE ResultInv'
    BY <1>3 DEF LaneFails, attempts
<1>4. CASE AttemptExpires(r)
    BY <1>4 DEF AttemptExpires, Move, control, attempts, within
<1>5. CASE SwitchModel(r)
    BY <1>5 DEF SwitchModel, attempts
<1>6. CASE StaleResponse(r)
    BY <1>6 DEF StaleResponse, Respond, ReturnsLast, Keep, within
<1>7. CASE RetryableResponse(r)
    BY <1>7 DEF RetryableResponse, Respond
<1>8. CASE KeepResponse(r)
    BY <1>8 DEF KeepResponse, ReturnsLast, Keep, within
<1>9. ASSUME NEW kind, Answer(r, kind) PROVE ResultInv'
    BY <1>9 DEF Answer, Respond, End
<1>10. CASE StreamWinner(r)
    BY <1>10 DEF StreamWinner, Respond
<1> QED
    BY <1>1, <1>2, <1>3, <1>4, <1>5, <1>6, <1>7, <1>8, <1>9, <1>10 DEF InDispatch

LEMMA LocalResult ==
    ASSUME ResultInv, NEW r \in Requests, Local(r)
    PROVE  ResultInv'
<1> USE DEF ResultInv, ResultShape, Faithful, Goto, Returns
<1>1. CASE NextAttempt(r)
    BY <1>1 DEF NextAttempt
<1>2. CASE HandOver(r)
    BY <1>2 DEF HandOver, End, attempts, within
<1>3. CASE RecordFailure(r)
    BY <1>3 DEF RecordFailure, attempts, within
<1>4. CASE JudgeFailure(r)
    BY <1>4 DEF JudgeFailure, Move, control, attempts, within
<1>5. CASE ChargeFailure(r)
    BY <1>5 DEF ChargeFailure, attempts, within
<1>6. CASE LeaveLoop(r) \/ DispatchFailed(r) \/ CheckStorm(r) \/ Wake(r)
    BY <1>6 DEF LeaveLoop, DispatchFailed, CheckStorm, Wake, Move, control, attempts, within
<1>7. CASE AskProbe(r)
    BY <1>7 DEF AskProbe, control, attempts, within
<1> QED
    BY <1>1, <1>2, <1>3, <1>4, <1>5, <1>6, <1>7 DEF Local

LEMMA ResultNext == ResultInv /\ [AbsorbNext]_absorbVars => ResultInv'
<1> SUFFICES ASSUME ResultInv, [AbsorbNext]_absorbVars PROVE ResultInv'
    OBVIOUS
<1>1. ASSUME NEW r \in Requests, InDispatch(r) \/ Local(r) PROVE ResultInv'
    BY <1>1, SendResult, LocalResult
<1>2. ASSUME NEW r \in Requests, NEW e \in Exits, NEW m \in Mirrors, ReadFails(r, e, m) \/ StreamTruncated(r, e, m)
      PROVE  ResultInv'
    BY <1>2 DEF ReadFails, StreamTruncated, StreamFails, Report, Goto, attempts, ResultInv, ResultShape,
       Faithful, Returns
<1>3. ASSUME NEW r \in Requests, StreamComplete(r) PROVE ResultInv'
    BY <1>3 DEF StreamComplete, End, Goto, attempts, within, ResultInv, ResultShape, Faithful
<1>4. ASSUME NEW r \in Requests, Cancelled(r) PROVE ResultInv'
    BY <1>4 DEF Cancelled, End, Goto, attempts, within, ResultInv, ResultShape, Faithful
<1>5. ASSUME UNCHANGED <<pc, then, attempts, reply, result>> PROVE ResultInv'
    BY <1>5 DEF attempts, ResultInv, ResultShape, Faithful
<1> QED
    BY <1>1, <1>2, <1>3, <1>4, <1>5 DEF AbsorbNext, InStream, FailsElsewhere, RecordElsewhere, RecoveryWakes,
       RecoveryFails, RecoverySucceeds, Clock, absorbVars, control, within

\* dispatchAbsorbWith: for any number of attempts, models and retryable responses, what
\* the client gets is the complete reply if one was read, the kept response if an
\* attempt left one, and the truncation error only if none did.  Complete is what
\* streamComplete takes for it, which a reply that was cut may pass (IntactMeansEnd
\* in StreamDelivery).
THEOREM ResultOfAttempts == AbsorbSpec => []ResultMatchesAttempts
<1>1. ResultInv => ResultMatchesAttempts
    BY DEF ResultInv, ResultShape, Faithful, ResultMatchesAttempts
<1> QED
    BY <1>1, ResultInit, ResultNext, PTL DEF AbsorbSpec

-----------------------------------------------------------------------------
(* Types.                                                                  *)

\* The types of the loop, the breaker's left out; what is dealt with as a failure
\* goes on at one of the places that report one.
LoopTyped ==
    /\ pc \in [Requests -> Labels] /\ then \in [Requests -> Returns]
    /\ attempt \in [Requests -> 0 .. MaxAttempts] /\ fallback \in [Requests -> 0 .. MaxAttempts]
    /\ model \in [Requests -> 1 .. Models]
    /\ tried \in [Requests -> SUBSET Exits] /\ before \in [Requests -> 0 .. Cardinality(Exits)]
    /\ fresh \in [Requests -> BOOLEAN]
    /\ reply \in [Requests -> Replies]
    /\ late \in [Requests -> Nat]
    /\ result \in [Requests -> Results]
    /\ recovery \in {"asleep", "upstream"}

LEMMA LoopTypedInit == AbsorbInit => LoopTyped
<1>1. IsFiniteSet(Exits) /\ MaxAttempts \in Nat \ {0} /\ Models \in Nat \ {0}
    BY AbsorbAssumption
<1>2. Cardinality(Exits) \in Nat
    BY <1>1, FS_CardinalityType
<1> QED
    BY <1>1, <1>2 DEF AbsorbInit, LoopTyped, Labels, Returns, Replies, Results

\* No more exits were tried than there are.
LEMMA TriedFew == ASSUME LoopTyped, NEW r \in Requests PROVE Cardinality(tried[r]) \in 0 .. Cardinality(Exits)
<1>1. tried[r] \subseteq Exits /\ IsFiniteSet(Exits)
    BY AbsorbAssumption DEF LoopTyped
<1>2. Cardinality(tried[r]) <= Cardinality(Exits) /\ IsFiniteSet(tried[r])
    BY <1>1, FS_Subset
<1> QED
    BY <1>1, <1>2, FS_CardinalityType

LEMMA DispatchTyped == ASSUME LoopTyped, NEW r \in Requests, InDispatch(r) PROVE LoopTyped'
<1> USE DEF LoopTyped, Goto, Labels, Returns, attempts
<1>1. ASSUME NEW e \in Exits, NEW m \in Mirrors, ExitFails(r, e, m) PROVE LoopTyped'
    BY <1>1 DEF ExitFails, Report, SendThrough
<1>2. ASSUME NEW m \in Mirrors, MirrorFails(r, m) PROVE LoopTyped'
    BY <1>2 DEF MirrorFails, Report
<1>3. ASSUME NEW e \in Exits, LaneFails(r, e) PROVE LoopTyped'
    BY <1>3 DEF LaneFails, SendThrough
<1>4. CASE AttemptExpires(r)
    BY <1>4 DEF AttemptExpires, Move, control, within
<1>5. CASE SwitchModel(r)
    BY <1>5, AbsorbAssumption DEF SwitchModel
<1>6. CASE StaleResponse(r)
    <2>1. attempt[r] \in 0 .. MaxAttempts /\ fallback[r] \in 0 .. MaxAttempts
        OBVIOUS
    <2>2. fallback' \in [Requests -> 0 .. MaxAttempts] /\ pc' \in [Requests -> Labels]
          /\ UNCHANGED <<then, attempt, before, late, result, recovery>>
        BY <1>6, <2>1 DEF StaleResponse, Respond, ReturnsLast, Keep
    <2>3. tried' \in [Requests -> SUBSET Exits] /\ fresh' \in [Requests -> BOOLEAN]
          /\ reply' \in [Requests -> Replies] /\ model' = model
        <3>1. CASE Respond(r, "final")
            BY <3>1 DEF Respond, SendThrough, Replies
        <3>2. CASE ReturnsLast(r)
            BY <3>2 DEF ReturnsLast, within
        <3> QED
            BY <1>6, <3>1, <3>2 DEF StaleResponse
    <2> QED
        BY <2>2, <2>3
<1>7. CASE RetryableResponse(r)
    BY <1>7 DEF RetryableResponse, Respond, SendThrough, Replies
<1>8. CASE KeepResponse(r)
    BY <1>8 DEF KeepResponse, ReturnsLast, Keep, within
<1>9. ASSUME NEW kind \in {"ok", "final"}, Answer(r, kind) PROVE LoopTyped'
    BY <1>9 DEF Answer, Respond, End, SendThrough, Replies, Results
<1>10. CASE StreamWinner(r)
    BY <1>10 DEF StreamWinner, Respond, SendThrough, Replies
<1> QED
    BY <1>1, <1>2, <1>3, <1>4, <1>5, <1>6, <1>7, <1>8, <1>9, <1>10 DEF InDispatch

LEMMA StreamTyped == ASSUME LoopTyped, NEW r \in Requests, InStream(r) PROVE LoopTyped'
<1> USE DEF LoopTyped, Goto, Labels, Returns, attempts
<1>1. ASSUME NEW e \in Exits, NEW m \in Mirrors, ReadFails(r, e, m) \/ StreamTruncated(r, e, m) PROVE LoopTyped'
    BY <1>1 DEF ReadFails, StreamTruncated, StreamFails, Report
<1>2. CASE StreamComplete(r)
    BY <1>2 DEF StreamComplete, End, within, Results
<1> QED
    BY <1>1, <1>2 DEF InStream

LEMMA LocalTyped == ASSUME LoopTyped, NEW r \in Requests, Local(r) PROVE LoopTyped'
<1> USE DEF LoopTyped, Goto, Labels, Returns, attempts, within, control
<1>1. CASE NextAttempt(r)
    <2>1. attempt[r] + 1 \in 0 .. MaxAttempts
        BY <1>1, AbsorbAssumption DEF NextAttempt, AttemptsLeft
    <2>2. 1 \in 1 .. Models
        BY AbsorbAssumption
    <2> QED
        BY <1>1, <2>1, <2>2, TriedFew DEF NextAttempt, Replies
<1>2. CASE HandOver(r)
    BY <1>2 DEF HandOver, End, Results
<1>3. CASE RecordFailure(r)
    BY <1>3 DEF RecordFailure, RecordIt
<1>4. CASE JudgeFailure(r)
    BY <1>4 DEF JudgeFailure, Move
<1>5. CASE ChargeFailure(r)
    BY <1>5 DEF ChargeFailure
<1>6. CASE LeaveLoop(r) \/ DispatchFailed(r) \/ CheckStorm(r) \/ Wake(r)
    BY <1>6 DEF LeaveLoop, DispatchFailed, CheckStorm, Wake, Move
<1>7. CASE AskProbe(r)
    BY <1>7 DEF AskProbe
<1> QED
    BY <1>1, <1>2, <1>3, <1>4, <1>5, <1>6, <1>7 DEF Local

LEMMA LoopTypedNext == LoopTyped /\ [AbsorbNext]_absorbVars => LoopTyped'
<1> SUFFICES ASSUME LoopTyped, [AbsorbNext]_absorbVars PROVE LoopTyped'
    OBVIOUS
<1> USE DEF LoopTyped, attempts, within, control
<1>1. ASSUME NEW r \in Requests, InDispatch(r) \/ InStream(r) \/ Local(r) PROVE LoopTyped'
    BY <1>1, DispatchTyped, StreamTyped, LocalTyped
<1>2. ASSUME NEW r \in Requests, Cancelled(r) PROVE LoopTyped'
    BY <1>2 DEF Cancelled, End, Goto, Labels, Results
<1>3. ASSUME NEW p \in Reporters, RecordElsewhere(p) PROVE LoopTyped'
    BY <1>3 DEF RecordElsewhere, RecordIt
<1>4. ASSUME NEW p \in Reporters, NEW e \in Exits, NEW m \in Mirrors, FailsElsewhere(p, e, m) PROVE LoopTyped'
    BY <1>4 DEF FailsElsewhere
<1>5. CASE RecoveryWakes \/ RecoveryFails \/ RecoverySucceeds \/ Clock \/ UNCHANGED absorbVars
    BY <1>5 DEF RecoveryWakes, RecoveryFails, RecoverySucceeds, Clock, absorbVars
<1> QED
    BY <1>1, <1>2, <1>3, <1>4, <1>5 DEF AbsorbNext

\* The loop keeps its types: no order of failures, charges and probes makes a
\* request count more attempts than it has, or leave its chain of models.
THEOREM AbsorbTyped == AbsorbSpec => []AbsorbTypeOK
<1>1. Inv /\ LoopTyped => AbsorbTypeOK
    BY DEF Inv, LoopTyped, AbsorbTypeOK, Labels, Returns
<1> QED
    BY <1>1, LoopTypedInit, LoopTypedNext, BreakerAlways, PTL DEF AbsorbSpec
=============================================================================
