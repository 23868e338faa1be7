---------------------------- MODULE DispatchRace ----------------------------
(***************************************************************************)
(* The hedged race of a request through the exits (dispatchRace in         *)
(* gateway.go), several requests at a time, on one exit tracker.           *)
(*                                                                         *)
(* A race goes in waves.  Its own loop launches a wave, one exit after     *)
(* another, and then takes results from the attempts it launched; each     *)
(* attempt is a goroutine that releases its lease and sends its result.    *)
(* The reading of an exit's probation and leases, and the lease taken      *)
(* because of it, are under different locks and so different steps.        *)
(*                                                                         *)
(* The order of the exits within a race is left open (rank), and so is     *)
(* the breaker's verdict on a failure (punishExit).                        *)
(***************************************************************************)
EXTENDS ExitTracker

CONSTANTS
    Requests,
    Direct,         \* "直连": the connection that goes through no exit
    RaceWidth,      \* cfg.raceWidth: exits of one wave
    HedgeBatch,     \* hedgeBatch: exits of one hedged wave
    MayPrune,       \* the tracker may be at statsHardCap
    MaxRaces,       \* bound: races of all requests together
    ProbesEnd       \* bound: no probe reports after this tick

ASSUME RaceAssumption ==
    /\ Direct \notin Exits
    /\ RaceWidth \in Nat \ {0}
    /\ HedgeBatch \in Nat \ {0}
    /\ MayPrune \in BOOLEAN
    /\ MaxRaces \in Nat
    /\ ProbesEnd \in Nat

Lanes == Exits \cup {Direct}
Flying == {"flying", "cancelled"}
Outcomes == {"error", "truncated", "limited", "ok"}

VARIABLES
    at,          \* per request: where its loop is
    wave,        \* per request: the "first" wave, one "more", or a "hedge"
    todo,        \* per request: exits of this race not launched yet
    seen,        \* per request: exits this wave has looked at
    count,       \* per request: exits this wave may still launch
    cand,        \* per request: the exit it is about to launch
    pin,         \* per request: the exit stickiness put first, or Direct
    hedged,      \* per request: hedgeCh is armed
    last,        \* per request: a retryable response is kept
    tried,       \* per request: trace.triedExits
    flight,      \* per request and lane: the attempt there, or its result
    races,       \* races begun, by whichever request
    sends        \* history: how often a request went out through a lane

loop == <<wave, todo, seen, count, cand, pin, hedged>>
raceVars == <<trackerVars, at, loop, last, tried, flight, races, sends>>

-----------------------------------------------------------------------------

RaceInit ==
    /\ Init
    /\ at = [r \in Requests |-> "idle"]
    /\ wave = [r \in Requests |-> "first"]
    /\ todo = [r \in Requests |-> {}]
    /\ seen = [r \in Requests |-> {}]
    /\ count = [r \in Requests |-> 0]
    /\ cand = [r \in Requests |-> Direct]
    /\ pin = [r \in Requests |-> Direct]
    /\ hedged = [r \in Requests |-> FALSE]
    /\ last = [r \in Requests |-> FALSE]
    /\ tried = [r \in Requests |-> {}]
    /\ flight = [r \in Requests |-> [x \in Lanes |-> "none"]]
    /\ races = 0
    /\ sends = [r \in Requests |-> [x \in Lanes |-> 0]]

Goto(r, l) == at' = [at EXCEPT ![r] = l]

\* dispatchRace returns, and its locals are gone.
Return(r, l) ==
    /\ Goto(r, l)
    /\ wave' = [wave EXCEPT ![r] = "first"]
    /\ todo' = [todo EXCEPT ![r] = {}]
    /\ hedged' = [hedged EXCEPT ![r] = FALSE]
    /\ last' = [last EXCEPT ![r] = FALSE]
    /\ UNCHANGED <<seen, count, cand, pin>>

\* raceExits, and what this request has tried already taken out.  The pool
\* is whatever nodes are in it now.  rank may forget every exit that is not
\* fielded, those on a bench included.  A sticky exit goes first and alone, if
\* its last stream was not cut off recently.
Fields(r, pool) == Fielded(pool) \ tried[r]

Snapshot(pool) ==
    /\ \E prune \in {FALSE, MayPrune} :
        stats' = [e \in Exits |-> IF prune /\ e \notin Fielded(pool) THEN Unknown
                                  ELSE IF e \in pool THEN Returned(e) ELSE stats[e]]
    /\ UNCHANGED <<now, leases>>

StartRace(r, pool) ==
    /\ at[r] = "idle"
    /\ races < MaxRaces
    /\ races' = races + 1
    /\ Snapshot(pool)
    /\ Fields(r, pool) # {} \/ Direct \notin tried[r]
    /\ todo' = [todo EXCEPT ![r] = Fields(r, pool)]
    /\ \E p \in {Direct} \cup {e \in Fields(r, pool) : ~RecentlyTruncated(e)} :
        /\ pin' = [pin EXCEPT ![r] = p]
        /\ count' = [count EXCEPT ![r] = IF p = Direct THEN RaceWidth ELSE 1]
        /\ hedged' = [hedged EXCEPT ![r] = p # Direct]
    /\ wave' = [wave EXCEPT ![r] = "first"]
    /\ Goto(r, "wave")
    /\ UNCHANGED <<seen, cand, last, tried, flight, sends>>

\* Every exit of the pool and the direct connection were tried already.
NothingLeft(r, pool) ==
    /\ at[r] = "idle"
    /\ races < MaxRaces
    /\ races' = races + 1
    /\ Snapshot(pool)
    /\ Fields(r, pool) = {} /\ Direct \in tried[r]
    /\ UNCHANGED <<at, loop, last, tried, flight, sends>>

-----------------------------------------------------------------------------
(* launchWave.                                                             *)

Unseen(r) == todo[r] \ seen[r]

\* The wave looks at its next exit: an exit on probation with a request
\* under way is passed over.
Examine(r, e) ==
    /\ at[r] = "wave"
    /\ count[r] > 0
    /\ e \in Unseen(r)
    /\ wave[r] = "first" /\ pin[r] \in Unseen(r) => e = pin[r]
    /\ seen' = [seen EXCEPT ![r] = @ \cup {e}]
    /\ IF SoftLimited(e) /\ stats[e].inFlight > 0
       THEN UNCHANGED <<at, cand>>
       ELSE Goto(r, "launch") /\ cand' = [cand EXCEPT ![r] = e]
    /\ UNCHANGED <<trackerVars, wave, todo, count, pin, hedged, last, tried, flight,
                   races, sends>>

\* Deviation: only the direct connection is marked as tried.
SendOutUnmarked(r, x) ==
    /\ tried' = [tried EXCEPT ![r] = @ \cup ({x} \cap {Direct})]
    /\ flight' = [flight EXCEPT ![r][x] = "flying"]
    /\ sends' = [sends EXCEPT ![r][x] = @ + 1]

SendOut(r, x) ==
    /\ tried' = [tried EXCEPT ![r] = @ \cup {x}]
    /\ flight' = [flight EXCEPT ![r][x] = "flying"]
    /\ sends' = [sends EXCEPT ![r][x] = @ + 1]

Launch(r) ==
    /\ at[r] = "launch"
    /\ EnterExit(cand[r])
    /\ SendOut(r, cand[r])
    /\ todo' = [todo EXCEPT ![r] = @ \ {cand[r]}]
    /\ count' = [count EXCEPT ![r] = @ - 1]
    /\ cand' = [cand EXCEPT ![r] = Direct]
    /\ Goto(r, "wave")
    /\ UNCHANGED <<wave, seen, pin, hedged, last, races>>

HedgeArmed(r) == hedged[r] /\ (wave[r] = "more" \/ todo[r] # {})

\* The wave is out.  The first one is followed by the direct connection; a
\* sticky or a hedged one arms the hedge timer while exits are left.
WaveOut(r) ==
    /\ at[r] = "wave"
    /\ count[r] = 0 \/ Unseen(r) = {}
    /\ IF wave[r] = "first" /\ Direct \notin tried[r]
       THEN SendOut(r, Direct)
       ELSE UNCHANGED <<tried, flight, sends>>
    /\ hedged' = [hedged EXCEPT ![r] = HedgeArmed(r)]
    /\ seen' = [seen EXCEPT ![r] = {}]
    /\ count' = [count EXCEPT ![r] = 0]
    /\ pin' = [pin EXCEPT ![r] = Direct]
    /\ Goto(r, "race")
    /\ UNCHANGED <<trackerVars, wave, todo, cand, last, races>>

NewWave(r, kind, n) ==
    /\ Goto(r, "wave")
    /\ wave' = [wave EXCEPT ![r] = kind]
    /\ count' = [count EXCEPT ![r] = n]
    /\ UNCHANGED <<todo, seen, cand, pin, hedged>>

HedgeFires(r) ==
    /\ at[r] = "race"
    /\ hedged[r]
    /\ NewWave(r, "hedge", HedgeBatch)
    /\ UNCHANGED <<trackerVars, last, tried, flight, races, sends>>

-----------------------------------------------------------------------------
(* An attempt ends: its lease is released, then its result is sent.  Once  *)
(* the race is over nobody but the reaper takes it.                        *)

Racing(r) == at[r] \in {"wave", "launch", "race"}

\* Deviation: an attempt whose result nobody takes keeps its lease.
LandLeased(r, x) ==
    /\ flight[r][x] \in Flying
    /\ \E how \in Outcomes :
        flight' = [flight EXCEPT ![r][x] = IF Racing(r) THEN how ELSE "none"]
    /\ IF x = Direct \/ ~Racing(r) THEN UNCHANGED trackerVars ELSE ExitExit(x)
    /\ UNCHANGED <<at, loop, last, tried, races, sends>>

Land(r, x) ==
    /\ flight[r][x] \in Flying
    /\ \E how \in Outcomes :
        flight' = [flight EXCEPT ![r][x] = IF Racing(r) THEN how ELSE "none"]
    /\ IF x = Direct THEN UNCHANGED trackerVars ELSE ExitExit(x)
    /\ UNCHANGED <<at, loop, last, tried, races, sends>>

-----------------------------------------------------------------------------
(* The loop takes a result.                                                *)

Outstanding(r, f) == {x \in Lanes : f[r][x] # "none"}

\* A result that does not end the race.  If it was the last one out, the
\* next wave follows as long as exits are left (advanceIfSettled).
Settle(r, x) ==
    /\ flight' = [flight EXCEPT ![r][x] = "none"]
    /\ IF Outstanding(r, flight') = {} /\ todo[r] # {}
       THEN NewWave(r, "more", RaceWidth)
       ELSE UNCHANGED <<at, loop>>
    /\ UNCHANGED <<tried, races, sends>>

\* A failure, charged to the exit unless the breaker is held.
TakeFailure(r, x) ==
    /\ at[r] = "race"
    /\ flight[r][x] \in {"error", "truncated"}
    /\ Settle(r, x)
    /\ \/ UNCHANGED trackerVars
       \/ x \in Exits /\ flight[r][x] = "error" /\ ObserveFail(x)
       \/ x \in Exits /\ flight[r][x] = "truncated" /\ ObserveTruncation(x)
    /\ UNCHANGED last

\* A 429 or 5xx: the first is kept, and benches its exit if it says that a
\* quota is spent.
TakeLimited(r, x) ==
    /\ at[r] = "race"
    /\ flight[r][x] = "limited"
    /\ Settle(r, x)
    /\ last' = [last EXCEPT ![r] = TRUE]
    /\ \/ UNCHANGED trackerVars
       \/ x \in Exits /\ \E d \in QuotaDurations, src \in Sources : ObserveQuotaBurn(x, d, src)

\* The attempts still out are cancelled, and the results that wait discarded.
Abandon(r) ==
    flight' = [flight EXCEPT ![r] =
                  [x \in Lanes |-> IF @[x] \in Flying THEN "cancelled" ELSE "none"]]

TakeWinner(r, x) ==
    /\ at[r] = "race"
    /\ flight[r][x] = "ok"
    /\ Abandon(r)
    /\ IF x = Direct THEN UNCHANGED trackerVars ELSE ObserveWin(x)
    /\ Return(r, "won")
    /\ UNCHANGED <<tried, races, sends>>

\* Deviation: the race waits for exits that its waves have passed over.
EndRaceAllTried(r) ==
    /\ at[r] = "race"
    /\ Outstanding(r, flight) = {} /\ todo[r] = {}
    /\ ~hedged[r]
    /\ Return(r, "idle")
    /\ UNCHANGED <<trackerVars, tried, flight, races, sends>>

\* Nothing is out and no hedge is armed: the kept response or an error goes
\* back, and the request may be dispatched again.
EndRace(r) ==
    /\ at[r] = "race"
    /\ Outstanding(r, flight) = {}
    /\ ~hedged[r]
    /\ Return(r, "idle")
    /\ UNCHANGED <<trackerVars, tried, flight, races, sends>>

\* The client is gone, or the deadline has passed.
ContextDone(r) ==
    /\ at[r] = "race"
    /\ Abandon(r)
    /\ Return(r, "gone")
    /\ UNCHANGED <<trackerVars, tried, races, sends>>

-----------------------------------------------------------------------------

\* probe and deepProbeOne report an exit, beside all races.
ProbeReports(e) ==
    /\ now <= ProbesEnd
    /\ ObserveWin(e) \/ ObserveFail(e)
    /\ UNCHANGED <<at, loop, last, tried, flight, races, sends>>

Clock == Tick /\ UNCHANGED <<at, loop, last, tried, flight, races, sends>>

Loop(r) ==
    \/ \E pool \in SUBSET Exits \ {{}} : StartRace(r, pool) \/ NothingLeft(r, pool)
    \/ \E e \in Exits : Examine(r, e)
    \/ Launch(r) \/ WaveOut(r) \/ HedgeFires(r)
    \/ \E x \in Lanes : TakeFailure(r, x) \/ TakeLimited(r, x) \/ TakeWinner(r, x)
    \/ EndRace(r)

RaceNext ==
    \/ \E r \in Requests : Loop(r) \/ ContextDone(r) \/ \E x \in Lanes : Land(r, x)
    \/ \E e \in Exits : ProbeReports(e)
    \/ Clock

RaceSpec == RaceInit /\ [][RaceNext]_raceVars

\* A request's loop runs on, and every attempt ends: it has a deadline.
RaceFairness ==
    /\ WF_raceVars(Clock)
    /\ \A r \in Requests :
        /\ WF_raceVars(Loop(r))
        /\ \A x \in Lanes : WF_raceVars(Land(r, x))

RaceFairSpec == RaceSpec /\ RaceFairness

-----------------------------------------------------------------------------

\* However often a request is dispatched, and through however many waves and
\* hedges, it goes out once at most through one exit (markTried).
OncePerExit == \A r \in Requests, x \in Lanes : sends[r][x] <= 1

\* The tracker's leases are those of the attempts under way, cancelled ones
\* included, whichever races they belong to.
LeasesExact ==
    \A e \in Exits :
        stats[e].inFlight = Cardinality({r \in Requests : flight[r][e] \in Flying})

\* A race ends: with a winner, or with every wave settled, though exits on
\* probation are passed over and hedges fire meanwhile.
RaceEnds == \A r \in Requests : at[r] = "wave" ~> ~Racing(r)

\* No lease outlives its attempt: when all is over none is left, whether the
\* attempts won, lost or were cancelled.
LeasesReturned == <>[](\A e \in Exits : stats[e].inFlight = 0)
=============================================================================
