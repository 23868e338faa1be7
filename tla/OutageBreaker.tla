--------------------------- MODULE OutageBreaker ---------------------------
(***************************************************************************)
(* The global outage breaker (outage.go).  It separates a failure of the   *)
(* upstream or of the whole link from the failure of one exit: when enough *)
(* failures, of enough exits and mirrors, fall into one window, it is      *)
(* held for HoldQuiet, and every caller stops charging exits and mirrors.  *)
(*                                                                         *)
(* Time is counted in ticks.  Each method of outageBreaker runs under its  *)
(* mutex and is one action, with one exception: record reads the clock     *)
(* before recordAt takes the mutex, so a report is stamped in one step and *)
(* recorded in a later one, with other reports, probes and successes in    *)
(* between.                                                                *)
(***************************************************************************)
EXTENDS Integers, FiniteSets

CONSTANTS
    Exits, Mirrors,   \* proxy exits and upstream mirrors
    NoExit,           \* the empty exit of a mirror-level failure
    Reporters,        \* goroutines that report failures
    Idle,             \* a reporter with no report under way
    Window,           \* outageWindow: how long a failure counts as evidence
    HoldQuiet,        \* outageHoldQuiet: how long a judgement holds
    ProbeDelay,       \* outageProbeDelay: how far into a hold a probe may go
    TripEvents, TripExits, TripMirrors,  \* the three thresholds
    MaxLag,           \* bound: ticks between a report's stamp and its record
    MaxEvents,        \* bound: failures that can fall into one window
    StormEnd,         \* bound: no failure happens after this tick
    MaxTime           \* bound: the clock stops here

ASSUME BreakerAssumption ==
    /\ Window \in Nat \ {0}
    /\ HoldQuiet \in Nat \ {0}
    /\ ProbeDelay \in Nat
    /\ {TripEvents, TripExits, TripMirrors} \subseteq Nat \ {0}
    /\ MaxLag \in Nat
    /\ MaxEvents \in Nat
    /\ StormEnd \in Nat
    /\ MaxTime \in Nat
    /\ StormEnd <= MaxTime
    /\ NoExit \notin Exits

Time == 0 .. MaxTime
Failures == [at : Time, exit : Exits \cup {NoExit}, mirror : Mirrors]

ASSUME IdleAssumption == Idle \notin Failures

VARIABLES
    now,           \* outageNow()
    events,        \* outageBreaker.events, as a bag: how many of each failure
    trippedUntil,  \* end of the hold
    probeAt,       \* earliest moment for this hold's probe
    probed,        \* this hold's probe has been let through
    report,        \* per reporter: the stamped failure it is about to record
    grants         \* history: probes let through since the hold began

breakerVars == <<events, trippedUntil, probeAt, probed>>
vars == <<now, events, trippedUntil, probeAt, probed, report, grants>>

-----------------------------------------------------------------------------

\* Deviation: a hold whose probe is out waits for the probe's outcome.
TrippedUntilOutcome == now < trippedUntil \/ probed

Tripped == now < trippedUntil

\* The evidence as qualifiesLocked weighs it: how many failures, and the
\* distinct non-empty values of their two fields.
CountEvents(evs) == Cardinality(UNION {{f} \X (1 .. evs[f]) : f \in DOMAIN evs})
CountExits(evs) == Cardinality({f.exit : f \in DOMAIN evs} \ {NoExit})
CountMirrors(evs) == Cardinality({f.mirror : f \in DOMAIN evs})

Qualifies(evs) ==
    /\ CountEvents(evs) >= TripEvents
    /\ CountExits(evs) >= TripExits
    /\ CountMirrors(evs) >= TripMirrors

\* Deviation: the window is closed at its far end.
WithFailureClosed(f) ==
    [e \in {g \in DOMAIN events \cup {f} : f.at - g.at <= Window} |->
        (IF e \in DOMAIN events THEN events[e] ELSE 0) + (IF e = f THEN 1 ELSE 0)]

\* recordAt first appends the failure, then drops what has left the window
\* as seen from that failure's own stamp.
WithFailure(f) ==
    [e \in {g \in DOMAIN events \cup {f} : f.at - g.at < Window} |->
        (IF e \in DOMAIN events THEN events[e] ELSE 0) + (IF e = f THEN 1 ELSE 0)]

\* Deviations: every judgement re-arms the probe; a judgement inside a hold
\* prolongs it from its end.
JudgeAnew(t) ==
    /\ trippedUntil' = t + HoldQuiet
    /\ probeAt' = t + ProbeDelay
    /\ probed' = FALSE

JudgeProlonging(t) ==
    /\ trippedUntil' = (IF t < trippedUntil THEN trippedUntil ELSE t) + HoldQuiet
    /\ IF t > trippedUntil
       THEN probeAt' = t + ProbeDelay /\ probed' = FALSE
       ELSE UNCHANGED <<probeAt, probed>>

\* A judgement made at time t.  Only a judgement later than the last hold
\* opens a new round, with a probe of its own; any other one moves the end
\* of the hold and leaves the probe as it is.
Judge(t) ==
    /\ trippedUntil' = t + HoldQuiet
    /\ IF t > trippedUntil
       THEN probeAt' = t + ProbeDelay /\ probed' = FALSE
       ELSE UNCHANGED <<probeAt, probed>>

-----------------------------------------------------------------------------

Init ==
    /\ now = 0
    /\ events = [f \in {} |-> 0]
    /\ trippedUntil = -1   \* the zero time.Time lies before any clock reading
    /\ probeAt = -1
    /\ probed = FALSE
    /\ report = [p \in Reporters |-> Idle]
    /\ grants = 0

\* What of the evidence is still inside the window.
Recent == [f \in {g \in DOMAIN events : now - g.at < Window} |-> events[f]]

\* record: the clock is read, the mutex not yet taken.
Stamp(p, e, m) ==
    /\ report[p] = Idle
    /\ now <= StormEnd
    /\ CountEvents(Recent) < MaxEvents
    /\ report' = [report EXCEPT ![p] = [at |-> now, exit |-> e, mirror |-> m]]
    /\ UNCHANGED <<now, breakerVars, grants>>

\* recordAt.
Record(p) ==
    /\ report[p] # Idle
    /\ events' = WithFailure(report[p])
    /\ IF Qualifies(events')
       THEN Judge(report[p].at)
       ELSE UNCHANGED <<trippedUntil, probeAt, probed>>
    /\ grants' = IF Tripped THEN grants ELSE 0
    /\ report' = [report EXCEPT ![p] = Idle]
    /\ UNCHANGED now

\* TryProbe, when it answers true inside a hold.  Its other answers leave
\* the breaker as it is.
MayProbe == Tripped /\ ~probed /\ now >= probeAt

TryProbe ==
    /\ MayProbe
    /\ probed' = TRUE
    /\ grants' = grants + 1
    /\ UNCHANGED <<now, events, trippedUntil, probeAt, report>>

\* NoteSuccess, where it changes anything: a complete reply, of any request
\* or of the background recovery probe.
MayRelease == Tripped /\ probed

NoteSuccess ==
    /\ MayRelease
    /\ trippedUntil' = now
    /\ probed' = FALSE
    /\ UNCHANGED <<now, events, probeAt, report, grants>>

Tick ==
    /\ now < MaxTime
    /\ \A p \in Reporters : report[p] # Idle => now - report[p].at < MaxLag
    /\ now' = now + 1
    /\ UNCHANGED <<breakerVars, report, grants>>

Next ==
    \/ Tick
    \/ \E p \in Reporters, e \in Exits \cup {NoExit}, m \in Mirrors : Stamp(p, e, m)
    \/ \E p \in Reporters : Record(p)
    \/ TryProbe
    \/ NoteSuccess

Spec == Init /\ [][Next]_vars

\* A goroutine inside record gets its mutex, and time goes on.
Fairness ==
    /\ WF_vars(Tick)
    /\ \A p \in Reporters : WF_vars(Record(p))

FairSpec == Spec /\ Fairness

-----------------------------------------------------------------------------

TypeOK ==
    /\ now \in Time
    /\ DOMAIN events \subseteq Failures
    /\ events \in [DOMAIN events -> Nat \ {0}]
    /\ trippedUntil \in -1 .. MaxTime + HoldQuiet
    /\ probeAt \in -1 .. MaxTime + ProbeDelay
    /\ probed \in BOOLEAN
    /\ report \in [Reporters -> Failures \cup {Idle}]
    /\ grants \in Nat

\* However many goroutines ask for it, and however reports, successes and
\* asks interleave, one hold lets one probe through (TryProbe: once per
\* round).
SingleProbePerHold == Tripped => grants <= 1

\* Penalties are never frozen further ahead than HoldQuiet: a report that
\* was stamped long before it is recorded cannot stretch the hold.
HoldBounded == trippedUntil <= now + HoldQuiet

\* The failures a judgement weighs belong to one storm: no two of them are a
\* window apart, in whatever order reports reach the mutex.  record drops
\* what is a window older than the report it makes; a report that comes late
\* finds younger failures there, which stay, and those are near it only
\* while nobody waits a whole window for the mutex (MaxLag < Window).
EvidenceInOneWindow == \A f, g \in DOMAIN events : f.at - g.at < Window

\* Once failures stop, the breaker lets go by itself and stays closed: it
\* needs no request and no probe for that (outage.go: lifted after 60 s of
\* silence, without intervention).
HoldExpires == <>[]~Tripped

\* The breaker keeps its promise to its callers.
Promise == INSTANCE OutagePromise WITH until <- trippedUntil
ImplementsPromise == Promise!Spec
=============================================================================
