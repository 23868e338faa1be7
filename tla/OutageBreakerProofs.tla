------------------------ MODULE OutageBreakerProofs ------------------------
(***************************************************************************)
(* Proofs about OutageBreaker, for any exits, mirrors, reporters, times    *)
(* and thresholds.                                                         *)
(***************************************************************************)
EXTENDS OutageBreaker, TLAPS

\* No report carries a stamp of the future.
StampInv == \A p \in Reporters : report[p] # Idle => report[p].at <= now

\* A hold whose probe is still to be granted has granted none.
ProbeInv == Tripped => grants <= 1 /\ (~probed => grants = 0)

Inv == TypeOK /\ StampInv /\ HoldBounded /\ ProbeInv

-----------------------------------------------------------------------------

\* The bag stays a bag of failures when one is added and old ones are dropped.
LEMMA WithFailureType ==
    ASSUME TypeOK, NEW f \in Failures
    PROVE  /\ DOMAIN WithFailure(f) \subseteq Failures
           /\ WithFailure(f) \in [DOMAIN WithFailure(f) -> Nat \ {0}]
<1> DEFINE kept == {g \in DOMAIN events \cup {f} : f.at - g.at < Window}
<1>1. DOMAIN WithFailure(f) = kept
    BY DEF WithFailure
<1>2. kept \subseteq Failures
    BY DEF TypeOK
<1>3. ASSUME NEW e \in kept
      PROVE  WithFailure(f)[e] \in Nat \ {0}
    <2>1. e \in DOMAIN events \/ e = f
        OBVIOUS
    <2>2. WithFailure(f)[e] =
            (IF e \in DOMAIN events THEN events[e] ELSE 0) + (IF e = f THEN 1 ELSE 0)
        BY DEF WithFailure
    <2>3. e \in DOMAIN events => events[e] \in Nat \ {0}
        BY DEF TypeOK
    <2> QED
        BY <2>1, <2>2, <2>3
<1>4. WithFailure(f) \in [kept -> Nat \ {0}]
    BY <1>3 DEF WithFailure
<1> QED
    BY <1>1, <1>2, <1>4

\* What record stores for a reporter under way.
LEMMA ReportType ==
    ASSUME TypeOK, StampInv, NEW p \in Reporters, report[p] # Idle
    PROVE  report[p] \in Failures /\ report[p].at \in Time /\ report[p].at <= now
<1>1. report[p] \in Failures
    BY DEF TypeOK
<1> QED
    BY <1>1 DEF Failures, StampInv

LEMMA InitInv == Init => Inv
<1> SUFFICES ASSUME Init PROVE Inv
    OBVIOUS
<1>1. TypeOK
    <2>1. 0 \in Time /\ -1 \in -1 .. MaxTime + HoldQuiet /\ -1 \in -1 .. MaxTime + ProbeDelay
        BY BreakerAssumption DEF Time
    <2>2. events = [f \in {} |-> 0] /\ DOMAIN events = {}
        BY DEF Init
    <2> QED
        BY <2>1, <2>2 DEF Init, TypeOK
<1>2. StampInv /\ HoldBounded /\ ProbeInv
    BY BreakerAssumption DEF Init, StampInv, HoldBounded, ProbeInv, Tripped
<1> QED
    BY <1>1, <1>2 DEF Inv

-----------------------------------------------------------------------------

\* What a report does to the hold: nothing, or a judgement by its stamp.
LEMMA RecordHold ==
    ASSUME Inv, NEW p \in Reporters, Record(p)
    PROVE  /\ \/ UNCHANGED <<trippedUntil, probeAt, probed>>
              \/ Judge(report[p].at)
           /\ report[p] \in Failures
           /\ report[p].at \in Time
           /\ report[p].at <= now
           /\ now \in Time
<1>1. report[p] # Idle
    BY DEF Record
<1>2. report[p] \in Failures /\ report[p].at \in Time /\ report[p].at <= now
    BY <1>1, ReportType DEF Inv
<1> QED
    BY <1>2 DEF Record, Inv, TypeOK

LEMMA RecordInv == ASSUME Inv, NEW p \in Reporters, Record(p) PROVE Inv'
<1> DEFINE t == report[p].at
<1>1. /\ \/ UNCHANGED <<trippedUntil, probeAt, probed>>
         \/ Judge(t)
      /\ report[p] \in Failures
      /\ t \in Time
      /\ t <= now
      /\ now \in Time
    BY RecordHold
<1>2. /\ now' = now
      /\ events' = WithFailure(report[p])
      /\ report' = [report EXCEPT ![p] = Idle]
      /\ grants' = IF Tripped THEN grants ELSE 0
    BY DEF Record
<1>3. /\ trippedUntil \in -1 .. MaxTime + HoldQuiet
      /\ probeAt \in -1 .. MaxTime + ProbeDelay
      /\ probed \in BOOLEAN
      /\ grants \in Nat
      /\ report \in [Reporters -> Failures \cup {Idle}]
    BY DEF Inv, TypeOK
<1>4. TypeOK'
    <2>1. DOMAIN events' \subseteq Failures /\ events' \in [DOMAIN events' -> Nat \ {0}]
        BY <1>1, <1>2, WithFailureType DEF Inv
    <2>2. /\ trippedUntil' \in -1 .. MaxTime + HoldQuiet
          /\ probeAt' \in -1 .. MaxTime + ProbeDelay
          /\ probed' \in BOOLEAN
        <3>1. CASE UNCHANGED <<trippedUntil, probeAt, probed>>
            BY <1>3, <3>1
        <3>2. CASE Judge(t)
            <4>1. t + HoldQuiet \in -1 .. MaxTime + HoldQuiet
                BY <1>1, BreakerAssumption DEF Time
            <4>2. t + ProbeDelay \in -1 .. MaxTime + ProbeDelay
                BY <1>1, BreakerAssumption DEF Time
            <4> QED
                BY <1>3, <3>2, <4>1, <4>2 DEF Judge
        <3> QED
            BY <1>1, <3>1, <3>2
    <2>3. report' \in [Reporters -> Failures \cup {Idle}] /\ grants' \in Nat
        BY <1>2, <1>3
    <2> QED
        BY <1>1, <1>2, <2>1, <2>2, <2>3 DEF TypeOK
<1>5. StampInv'
    BY <1>2, <1>3 DEF Inv, StampInv
<1>6. HoldBounded'
    <2>1. CASE UNCHANGED <<trippedUntil, probeAt, probed>>
        BY <1>2, <2>1 DEF Inv, HoldBounded
    <2>2. CASE Judge(t)
        BY <1>1, <1>2, <2>2, BreakerAssumption DEF Judge, HoldBounded, Time
    <2> QED
        BY <1>1, <2>1, <2>2
<1>7. ProbeInv'
    <2>1. CASE ~Tripped
        BY <1>2, <2>1 DEF ProbeInv
    <2>2. CASE Tripped
        <3>1. probed' = probed
            BY <1>1, <1>3, <2>2 DEF Judge, Tripped, Time
        <3> QED
            BY <1>2, <2>2, <3>1 DEF Inv, ProbeInv
    <2> QED
        BY <2>1, <2>2
<1> QED
    BY <1>4, <1>5, <1>6, <1>7 DEF Inv

LEMMA StampPreservesInv ==
    ASSUME Inv, NEW p \in Reporters, NEW e \in Exits \cup {NoExit}, NEW m \in Mirrors,
           Stamp(p, e, m)
    PROVE  Inv'
<1> DEFINE f == [at |-> now, exit |-> e, mirror |-> m]
<1>1. f \in Failures /\ f.at = now
    BY DEF Failures, Inv, TypeOK
<1>2. report' = [report EXCEPT ![p] = f] /\ UNCHANGED <<now, breakerVars, grants>>
    BY DEF Stamp
<1>3. TypeOK'
    BY <1>1, <1>2 DEF Inv, TypeOK, breakerVars
<1>4. StampInv'
    <2> SUFFICES ASSUME NEW q \in Reporters, report'[q] # Idle
                 PROVE  report'[q].at <= now'
        BY DEF StampInv
    <2>1. now \in Int /\ now' = now
        BY <1>2 DEF Inv, TypeOK, Time
    <2>2. CASE q = p
        <3>1. report'[q] = f
            BY <1>2, <2>2 DEF Inv, TypeOK
        <3> QED
            BY <1>1, <2>1, <3>1
    <2>3. CASE q # p
        <3>1. report'[q] = report[q]
            BY <1>2, <2>3 DEF Inv, TypeOK
        <3> QED
            BY <2>1, <3>1 DEF Inv, StampInv
    <2> QED
        BY <2>2, <2>3
<1>5. HoldBounded' /\ ProbeInv'
    BY <1>2 DEF Inv, HoldBounded, ProbeInv, Tripped, breakerVars
<1> QED
    BY <1>3, <1>4, <1>5 DEF Inv

LEMMA NextInv == Inv /\ [Next]_vars => Inv'
<1> SUFFICES ASSUME Inv, [Next]_vars PROVE Inv'
    OBVIOUS
<1>1. CASE Tick
    <2>1. now' = now + 1 /\ now' \in Time /\ UNCHANGED <<breakerVars, report, grants>>
        BY <1>1, BreakerAssumption DEF Tick, Inv, TypeOK, Time
    <2>2. TypeOK'
        BY <2>1 DEF Inv, TypeOK, breakerVars
    <2>3. StampInv'
        <3> SUFFICES ASSUME NEW p \in Reporters, report[p] # Idle
                     PROVE  report[p].at <= now + 1
            BY <2>1 DEF StampInv
        <3>1. report[p].at \in Time /\ report[p].at <= now /\ now \in Time
            BY ReportType DEF Inv, TypeOK
        <3> QED
            BY <3>1 DEF Time
    <2>4. HoldBounded' /\ ProbeInv'
        BY <2>1, BreakerAssumption
           DEF Inv, TypeOK, HoldBounded, ProbeInv, Tripped, breakerVars, Time
    <2> QED
        BY <2>2, <2>3, <2>4 DEF Inv
<1>2. ASSUME NEW p \in Reporters, NEW e \in Exits \cup {NoExit}, NEW m \in Mirrors,
             Stamp(p, e, m)
      PROVE  Inv'
    BY <1>2, StampPreservesInv
<1>3. ASSUME NEW p \in Reporters, Record(p)
      PROVE  Inv'
    BY <1>3, RecordInv
<1>4. CASE TryProbe
    <2>1. TypeOK' /\ StampInv'
        BY <1>4 DEF TryProbe, Inv, TypeOK, StampInv
    <2>2. HoldBounded'
        BY <1>4 DEF TryProbe, Inv, HoldBounded
    <2>3. ProbeInv'
        BY <1>4 DEF TryProbe, MayProbe, Tripped, Inv, TypeOK, ProbeInv
    <2> QED
        BY <2>1, <2>2, <2>3 DEF Inv
<1>5. CASE NoteSuccess
    <2>1. now \in Time /\ trippedUntil' = now /\ now' = now
        BY <1>5 DEF NoteSuccess, Inv, TypeOK
    <2>2. TypeOK' /\ StampInv'
        <3>1. now \in -1 .. MaxTime + HoldQuiet
            BY <2>1, BreakerAssumption DEF Time
        <3> QED
            BY <1>5, <3>1 DEF NoteSuccess, Inv, TypeOK, StampInv
    <2>3. HoldBounded' /\ ProbeInv'
        BY <2>1, BreakerAssumption DEF HoldBounded, ProbeInv, Tripped, Time
    <2> QED
        BY <2>2, <2>3 DEF Inv
<1>6. CASE UNCHANGED vars
    BY <1>6 DEF vars, breakerVars, Inv, TypeOK, StampInv, HoldBounded, ProbeInv, Tripped
<1> QED
    BY <1>1, <1>2, <1>3, <1>4, <1>5, <1>6 DEF Next

LEMMA Invariance == Spec => []Inv
BY InitInv, NextInv, PTL DEF Spec

-----------------------------------------------------------------------------

\* The breaker's state stays well-typed, whatever the thresholds and however
\* long a report takes to be recorded.
THEOREM TypeCorrect == Spec => []TypeOK
BY Invariance, PTL DEF Inv

\* TryProbe lets one probe through per hold, for any number of goroutines
\* that report, ask and succeed in any order.
THEOREM OneProbe == Spec => []SingleProbePerHold
<1>1. Inv => SingleProbePerHold
    BY DEF Inv, ProbeInv, SingleProbePerHold
<1> QED
    BY <1>1, Invariance, PTL

\* recordAt never freezes penalties further ahead than HoldQuiet, although
\* it judges by a stamp taken outside the mutex.
THEOREM BoundedHold == Spec => []HoldBounded
BY Invariance, PTL DEF Inv

-----------------------------------------------------------------------------

\* A report under way is at most MaxLag old, and nothing recorded is of the
\* future.
LagInv ==
    /\ \A p \in Reporters : report[p] # Idle => now - report[p].at <= MaxLag
    /\ \A f \in DOMAIN events : f.at <= now

EvidenceInv == Inv /\ LagInv /\ EvidenceInOneWindow

\* The one step that adds evidence: what it drops bounds one side of the
\* window, the age of the report the other.
LEMMA RecordEvidence ==
    ASSUME MaxLag < Window, EvidenceInv, NEW p \in Reporters, Record(p)
    PROVE  LagInv' /\ EvidenceInOneWindow'
<1> DEFINE r == report[p]
<1>1. /\ r \in Failures /\ r.at \in Time /\ r.at <= now /\ now \in Time
      /\ r # Idle
    BY RecordHold DEF EvidenceInv, Record
<1>2. now' = now /\ report' = [report EXCEPT ![p] = Idle] /\ events' = WithFailure(r)
    BY DEF Record
<1>3. \A f \in DOMAIN events' :
          (f \in DOMAIN events \/ f = r) /\ r.at - f.at < Window
    BY <1>2 DEF WithFailure
<1>4. \A f \in DOMAIN events : f.at \in Time /\ f.at <= now
    BY DEF EvidenceInv, LagInv, Inv, TypeOK, Failures
<1>5. now - r.at <= MaxLag
    BY <1>1 DEF EvidenceInv, LagInv
<1>6. LagInv'
    <2>1. \A q \in Reporters : report'[q] # Idle => report'[q] = report[q]
        BY <1>2 DEF EvidenceInv, Inv, TypeOK
    <2>2. \A q \in Reporters : report'[q] # Idle => now' - report'[q].at <= MaxLag
        BY <1>2, <2>1 DEF EvidenceInv, LagInv
    <2>3. \A f \in DOMAIN events' : f.at <= now'
        BY <1>1, <1>2, <1>3, <1>4
    <2> QED
        BY <2>2, <2>3 DEF LagInv
<1>7. ASSUME NEW f \in DOMAIN events', NEW g \in DOMAIN events'
      PROVE  f.at - g.at < Window
    <2>1. f.at \in Time /\ g.at \in Time /\ f.at <= now /\ r.at - g.at < Window
        BY <1>1, <1>3, <1>4
    <2>2. CASE f \in DOMAIN events /\ g \in DOMAIN events
        BY <2>2 DEF EvidenceInv, EvidenceInOneWindow
    <2>3. CASE f = r
        BY <2>1, <2>3
    <2>4. CASE g = r
        BY <1>1, <1>5, <2>1, <2>4, BreakerAssumption DEF Time
    <2> QED
        BY <1>3, <2>2, <2>3, <2>4
<1> QED
    BY <1>6, <1>7 DEF EvidenceInOneWindow

LEMMA EvidenceStep ==
    ASSUME MaxLag < Window, EvidenceInv, [Next]_vars
    PROVE  EvidenceInv'
<1>1. Inv'
    BY NextInv DEF EvidenceInv
<1>2. CASE Tick
    <2>1. now' = now + 1 /\ now \in Time /\ UNCHANGED <<events, report>>
        BY <1>2 DEF Tick, breakerVars, EvidenceInv, Inv, TypeOK
    <2>2. \A p \in Reporters : report[p] # Idle => now' - report[p].at <= MaxLag
        <3> SUFFICES ASSUME NEW p \in Reporters, report[p] # Idle
                     PROVE  now' - report[p].at <= MaxLag
            OBVIOUS
        <3>1. report[p].at \in Time /\ now - report[p].at < MaxLag
            BY <1>2, ReportType DEF Tick, EvidenceInv, Inv
        <3> QED
            BY <2>1, <3>1, BreakerAssumption DEF Time
    <2>3. \A f \in DOMAIN events : f.at \in Time /\ f.at <= now
        BY DEF EvidenceInv, LagInv, Inv, TypeOK, Failures
    <2>4. LagInv'
        BY <2>1, <2>2, <2>3 DEF LagInv, Time
    <2> QED
        BY <1>1, <2>1, <2>4 DEF EvidenceInv, EvidenceInOneWindow
<1>3. ASSUME NEW p \in Reporters, NEW e \in Exits \cup {NoExit}, NEW m \in Mirrors,
             Stamp(p, e, m)
      PROVE  EvidenceInv'
    <2> DEFINE f == [at |-> now, exit |-> e, mirror |-> m]
    <2>1. report' = [report EXCEPT ![p] = f] /\ UNCHANGED <<now, events>> /\ f.at = now
        BY <1>3 DEF Stamp, breakerVars
    <2>2. now \in Time /\ report \in [Reporters -> Failures \cup {Idle}]
        BY DEF EvidenceInv, Inv, TypeOK
    <2>3. ASSUME NEW q \in Reporters, report'[q] # Idle
          PROVE  now' - report'[q].at <= MaxLag
        <3>1. CASE q = p
            <4>1. report'[q] = f
                BY <2>1, <2>2, <3>1
            <4>2. report'[q].at = now
                BY <2>1, <4>1
            <4> QED
                BY <2>1, <2>2, <4>2, BreakerAssumption DEF Time
        <3>2. CASE q # p
            BY <2>1, <2>2, <2>3, <3>2 DEF EvidenceInv, LagInv
        <3> QED
            BY <3>1, <3>2
    <2> QED
        BY <1>1, <2>1, <2>3 DEF EvidenceInv, LagInv, EvidenceInOneWindow
<1>4. ASSUME NEW p \in Reporters, Record(p)
      PROVE  EvidenceInv'
    BY <1>1, <1>4, RecordEvidence DEF EvidenceInv
<1>5. CASE TryProbe \/ NoteSuccess \/ UNCHANGED vars
    BY <1>1, <1>5 DEF TryProbe, NoteSuccess, vars, breakerVars, EvidenceInv, LagInv,
                      EvidenceInOneWindow
<1> QED
    BY <1>2, <1>3, <1>4, <1>5 DEF Next

\* All the evidence recordAt judges by at any time lies within one window,
\* for any number of reporters and whatever order they reach the mutex in,
\* if none of them waits a window for it.
THEOREM EvidenceTogether ==
    ASSUME MaxLag < Window
    PROVE  Spec => []EvidenceInOneWindow
<1>1. Init => EvidenceInv
    BY InitInv DEF Init, EvidenceInv, LagInv, EvidenceInOneWindow
<1>2. EvidenceInv /\ [Next]_vars => EvidenceInv'
    BY EvidenceStep
<1>3. EvidenceInv => EvidenceInOneWindow
    BY DEF EvidenceInv
<1> QED
    BY <1>1, <1>2, <1>3, PTL DEF Spec

-----------------------------------------------------------------------------

\* The breaker implements its promise.
THEOREM Refinement == Spec => ImplementsPromise
<1>1. Init => Promise!Init
    BY DEF Init, Promise!Init
<1>2. Inv /\ [Next]_vars => [Promise!Next]_(Promise!vars)
    <2> SUFFICES ASSUME Inv, [Next]_vars PROVE [Promise!Next]_(Promise!vars)
        OBVIOUS
    <2> USE DEF Promise!vars
    <2>1. CASE Tick
        <3>1. now' > now
            BY <2>1 DEF Tick, Inv, TypeOK, Time
        <3> QED
            BY <2>1, <3>1 DEF Tick, breakerVars, Promise!Next, Promise!TimePasses
    <2>2. ASSUME NEW p \in Reporters, NEW e \in Exits \cup {NoExit}, NEW m \in Mirrors,
                 Stamp(p, e, m)
          PROVE  UNCHANGED Promise!vars
        BY <2>2 DEF Stamp, breakerVars
    <2>3. ASSUME NEW p \in Reporters, Record(p)
          PROVE  Promise!Next
        <3> DEFINE t == report[p].at
        <3>1. /\ \/ UNCHANGED <<trippedUntil, probeAt, probed>>
                 \/ Judge(t)
              /\ t \in Time /\ t <= now /\ now \in Time
            BY <2>3, RecordHold
        <3>2. now' = now
            BY <2>3 DEF Record
        <3>3. trippedUntil' <= now + HoldQuiet
            BY <2>3, <3>2, RecordInv DEF Inv, HoldBounded
        <3>4. probed' = probed \/ (~Tripped /\ probed' = FALSE)
            BY <3>1 DEF Judge, Tripped, Inv, TypeOK, Time
        <3> QED
            BY <3>2, <3>3, <3>4 DEF Promise!Next, Promise!Evidence, Promise!Held, Tripped
    <2>4. CASE TryProbe
        BY <2>4 DEF TryProbe, MayProbe, Tripped, Promise!Next, Promise!Probe, Promise!Held
    <2>5. CASE NoteSuccess
        BY <2>5 DEF NoteSuccess, MayRelease, Tripped, Promise!Next, Promise!Release,
                    Promise!Held
    <2>6. CASE UNCHANGED vars
        BY <2>6 DEF vars, breakerVars
    <2> QED
        BY <2>1, <2>2, <2>3, <2>4, <2>5, <2>6 DEF Next
<1> QED
    BY <1>1, <1>2, Invariance, PTL DEF Spec, ImplementsPromise, Promise!Spec
=============================================================================
