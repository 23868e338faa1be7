---------------------------- MODULE ExitTracker ----------------------------
(***************************************************************************)
(* What the gateway remembers of each proxy exit (exitTracker in           *)
(* scoring.go): its failure streak, the bench it sits on and on whose      *)
(* word, the probation that follows a bench, and its leases.               *)
(*                                                                         *)
(* Every method runs under the tracker's mutex and is one action here.     *)
(* Their callers and the order of the calls are left open: any request,    *)
(* probe or stream may report any exit at any time.  Latency and IP        *)
(* reputation only order the exits and are left out; an exit without a     *)
(* record is one whose record is Unknown.                                  *)
(***************************************************************************)
EXTENDS Integers, Sequences, FiniteSets

CONSTANTS
    Exits,            \* trackable exits
    BenchFailLimit,   \* benchFailLimit: failures in a row that bench an exit
    BenchDurations,   \* benchDurations: the ladder of heuristic benches
    QuotaDurations,   \* what classifyUpstreamFailure may answer
    ProbationWindow,  \* probationWindow
    TruncSkip,        \* stickyTruncSkip
    MaxLeases,        \* bound: leases of one exit
    MaxTruncations,   \* bound: truncations counted for one exit
    MaxTime           \* bound: the clock stops here

ASSUME TrackerAssumption ==
    /\ BenchFailLimit \in Nat \ {0}
    /\ BenchDurations \in Seq(Nat \ {0})
    /\ Len(BenchDurations) > 0
    /\ QuotaDurations \subseteq Nat \ {0}
    /\ ProbationWindow \in Nat
    /\ TruncSkip \in Nat
    /\ MaxLeases \in Nat
    /\ MaxTruncations \in Nat
    /\ MaxTime \in Nat

Never == -1  \* the zero time
Sources == {"heuristic", "authoritative"}

VARIABLES
    now,    \* time.Now()
    stats,  \* exitTracker.stats
    leases  \* history: requests that are really under way through each exit

trackerVars == <<now, stats, leases>>

Unknown == [streak |-> 0, level |-> 0, until |-> Never, source |-> "none",
            soft |-> Never, inFlight |-> 0, truncations |-> 0, truncAt |-> Never]

-----------------------------------------------------------------------------
(* What the tracker answers.                                               *)

Benched(e) == now < stats[e].until
AuthoritativelyBenched(e) == Benched(e) /\ stats[e].source = "authoritative"
SoftLimited(e) == now < stats[e].soft
RecentlyTruncated(e) == stats[e].truncAt # Never /\ now - stats[e].truncAt < TruncSkip

-----------------------------------------------------------------------------
(* Its operations.                                                         *)

Note(e, s) == stats' = [stats EXCEPT ![e] = s]

\* failLocked.  The limit reached, the exit climbs the ladder and sits on a
\* bench of its own rung, whatever bench it sat on before.
Failed(s) ==
    IF s.streak + 1 < BenchFailLimit
    THEN [s EXCEPT !.streak = @ + 1]
    ELSE LET rung == IF s.level < Len(BenchDurations) THEN s.level + 1 ELSE s.level
         IN  [s EXCEPT !.level = rung,
                       !.until = now + BenchDurations[rung],
                       !.source = "heuristic",
                       !.streak = 0]

ObserveWin(e) ==
    /\ Note(e, [stats[e] EXCEPT !.streak = 0, !.until = Never, !.source = "none", !.level = 0])
    /\ UNCHANGED <<now, leases>>

ObserveSuccess(e) ==
    /\ Note(e, [stats[e] EXCEPT !.streak = 0])
    /\ UNCHANGED <<now, leases>>

ObserveFail(e) ==
    /\ Note(e, Failed(stats[e]))
    /\ UNCHANGED <<now, leases>>

ObserveTruncation(e) ==
    /\ stats[e].truncations < MaxTruncations
    /\ Note(e, Failed([stats[e] EXCEPT !.truncations = @ + 1, !.truncAt = now]))
    /\ UNCHANGED <<now, leases>>

\* A bench for a spent quota only ever reaches further than the present one.
ObserveQuotaBurn(e, d, src) ==
    /\ Note(e, IF now + d > stats[e].until
               THEN [stats[e] EXCEPT !.until = now + d, !.source = src, !.streak = 0]
               ELSE [stats[e] EXCEPT !.streak = 0])
    /\ UNCHANGED <<now, leases>>

EnterExit(e) ==
    /\ leases[e] < MaxLeases
    /\ Note(e, [stats[e] EXCEPT !.inFlight = @ + 1])
    /\ leases' = [leases EXCEPT ![e] = @ + 1]
    /\ UNCHANGED now

ExitExit(e) ==
    /\ leases[e] > 0
    /\ Note(e, [stats[e] EXCEPT !.inFlight = IF @ > 0 THEN @ - 1 ELSE 0])
    /\ leases' = [leases EXCEPT ![e] = @ - 1]
    /\ UNCHANGED now

\* Deviation: the source of the bench that is over stays.
ReturnedWithSource(e) ==
    IF stats[e].until # Never /\ ~Benched(e)
    THEN [stats[e] EXCEPT !.soft = IF @ = Never THEN now + ProbationWindow ELSE @,
                          !.until = Never]
    ELSE stats[e]

\* filterBenched: an exit whose bench is over is cleared, and goes on
\* probation if it never was before.
Returned(e) ==
    IF stats[e].until # Never /\ ~Benched(e)
    THEN [stats[e] EXCEPT !.soft = IF @ = Never THEN now + ProbationWindow ELSE @,
                          !.until = Never,
                          !.source = "none"]
    ELSE stats[e]

FilterBenched(E) ==
    /\ stats' = [e \in Exits |-> IF e \in E THEN Returned(e) ELSE stats[e]]
    /\ UNCHANGED <<now, leases>>

\* And what it leaves: all of them if every one sits.
Fielded(E) ==
    LET up == {e \in E : ~Benched(e)} IN IF up = {} THEN E ELSE up

\* rank, when there are more records than statsHardCap: only those of the
\* exits at hand are kept.
Prune(E) ==
    /\ stats' = [e \in Exits |-> IF e \in E THEN stats[e] ELSE Unknown]
    /\ UNCHANGED <<now, leases>>

Tick ==
    /\ now < MaxTime
    /\ now' = now + 1
    /\ UNCHANGED <<stats, leases>>

-----------------------------------------------------------------------------

Init ==
    /\ now = 0
    /\ stats = [e \in Exits |-> Unknown]
    /\ leases = [e \in Exits |-> 0]

Observe(e) ==
    \/ ObserveWin(e)
    \/ ObserveSuccess(e)
    \/ ObserveFail(e)
    \/ ObserveTruncation(e)
    \/ \E d \in QuotaDurations, src \in Sources : ObserveQuotaBurn(e, d, src)

Next ==
    \/ \E e \in Exits : Observe(e) \/ EnterExit(e) \/ ExitExit(e)
    \/ \E E \in SUBSET Exits : FilterBenched(E) \/ Prune(E)
    \/ Tick

Spec == Init /\ [][Next]_trackerVars

-----------------------------------------------------------------------------

TypeOK ==
    /\ now \in 0 .. MaxTime
    /\ stats \in [Exits -> [streak : 0 .. BenchFailLimit - 1,
                            level : 0 .. Len(BenchDurations),
                            until : Nat \cup {Never},
                            source : Sources \cup {"none"},
                            soft : Nat \cup {Never},
                            inFlight : Nat,
                            truncations : Nat,
                            truncAt : Nat \cup {Never}]]
    /\ leases \in [Exits -> Nat]

\* A bench always names its source, and a source always has its bench,
\* though failures, quotas, wins and expiries write the two in any order.
BenchHasSource ==
    \A e \in Exits : stats[e].source = "none" <=> stats[e].until = Never

\* Pruned records lose leases that are still held.  The count may then be too
\* low, never too high: an exit on probation is never barred by a lease that
\* nobody holds.
LeasesNotOvercounted ==
    \A e \in Exits : stats[e].inFlight <= leases[e]
=============================================================================
