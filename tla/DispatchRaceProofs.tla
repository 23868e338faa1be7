------------------------ MODULE DispatchRaceProofs ------------------------
(***************************************************************************)
(* Proofs about ExitTracker and about DispatchRace, which uses it.         *)
(*                                                                         *)
(* Of the tracker, for every pool of exits, ladder of benches, window and  *)
(* bound: type correctness, that a bench and its source go together, and   *)
(* that leases are never overcounted.  All three are one invariant, kept   *)
(* record by record.  Every operation but a prune rewrites single records  *)
(* (Note), so the argument is about one record: the one an operation       *)
(* leaves is sound if the one it found was.  The clock and the leases do   *)
(* not depend on it.                                                       *)
(*                                                                         *)
(* Of the race, for any exits, requests, widths of waves and numbers of    *)
(* races: no request goes out twice through one exit, a bench names its    *)
(* source, and while no record is pruned the tracker's leases are those of *)
(* the attempts under way.  The first rests on the marks: what a request   *)
(* has used is tried, what it has tried is in none of its waves.  The      *)
(* others add what each step does to the tracker, by its lemmas.           *)
(***************************************************************************)
EXTENDS DispatchRace, FiniteSetTheorems, TLAPS

-----------------------------------------------------------------------------
(* ExitTracker                                                             *)

\* A record of the tracker: well typed, with a source exactly if a bench.
Stat == [streak : 0 .. BenchFailLimit - 1,
         level : 0 .. Len(BenchDurations),
         until : Nat \cup {Never},
         source : Sources \cup {"none"},
         soft : Nat \cup {Never},
         inFlight : Nat,
         truncations : Nat,
         truncAt : Nat \cup {Never}]

Sound(s) == s \in Stat /\ (s.source = "none" <=> s.until = Never)

Inv ==
    /\ now \in 0 .. MaxTime
    /\ leases \in [Exits -> Nat]
    /\ DOMAIN stats = Exits
    /\ stats = [e \in Exits |-> stats[e]]
    /\ \A e \in Exits : Sound(stats[e]) /\ stats[e].inFlight <= leases[e]

-----------------------------------------------------------------------------

\* The empty record is sound, whatever the ladder and the limit are.
LEMMA UnknownSound == Sound(Unknown) /\ Unknown.inFlight = 0
BY TrackerAssumption DEF Sound, Stat, Unknown, Never, Sources, TrackerAssumption

\* failLocked keeps a record sound: the streak stays below the limit, the
\* ladder is not climbed beyond its last rung, and a bench names its source.
LEMMA FailedSound ==
    ASSUME NEW s, Sound(s), now \in Nat
    PROVE  Sound(Failed(s)) /\ Failed(s).inFlight = s.inFlight
<1> DEFINE rung == IF s.level < Len(BenchDurations) THEN s.level + 1 ELSE s.level
<1>1. s \in Stat /\ (s.source = "none" <=> s.until = Never)
  BY DEF Sound
<1>2. CASE s.streak + 1 < BenchFailLimit
  <2> DEFINE r == [s EXCEPT !.streak = s.streak + 1]
  <2>1. s.streak + 1 \in 0 .. BenchFailLimit - 1
    BY <1>1, <1>2, TrackerAssumption DEF Stat, TrackerAssumption
  <2>2. r \in Stat
    BY <1>1, <2>1 DEF Stat
  <2>3. r.source = s.source /\ r.until = s.until /\ r.inFlight = s.inFlight
    BY <1>1 DEF Stat
  <2>4. Failed(s) = r
    BY <1>2 DEF Failed
  <2> QED
    BY <1>1, <2>2, <2>3, <2>4 DEF Sound
<1>3. CASE ~(s.streak + 1 < BenchFailLimit)
  <2>1. rung \in 1 .. Len(BenchDurations)
    BY <1>1, TrackerAssumption DEF Stat, TrackerAssumption
  <2>2. BenchDurations[rung] \in Nat
    BY <2>1, TrackerAssumption DEF TrackerAssumption
  <2>3. now + BenchDurations[rung] \in Nat
    BY <2>2
  <2>4. 0 \in 0 .. BenchFailLimit - 1
    BY TrackerAssumption DEF TrackerAssumption
  <2> DEFINE u == now + BenchDurations[rung]
             r == [s EXCEPT !.level = rung, !.until = u, !.source = "heuristic", !.streak = 0]
  <2>5. Failed(s) = r
    BY <1>3 DEF Failed
  <2>6. u \in Nat /\ u # Never /\ rung \in 0 .. Len(BenchDurations)
    BY <2>1, <2>3 DEF Never
  <2> HIDE DEF u, rung
  <2>7. r \in Stat
    BY <1>1, <2>4, <2>6 DEF Stat, Sources
  <2>8. r.source = "heuristic" /\ r.until = u /\ r.inFlight = s.inFlight
    BY <1>1 DEF Stat
  <2> QED
    BY <2>5, <2>6, <2>7, <2>8 DEF Sound
<1> QED
  BY <1>2, <1>3

\* filterBenched keeps a record sound: it clears the bench and its source.
LEMMA ReturnedSound ==
    ASSUME NEW e \in Exits, Sound(stats[e]), now \in Nat
    PROVE  Sound(Returned(e)) /\ Returned(e).inFlight = stats[e].inFlight
<1> DEFINE soft == IF stats[e].soft = Never THEN now + ProbationWindow ELSE stats[e].soft
           r == [stats[e] EXCEPT !.soft = soft, !.until = Never, !.source = "none"]
<1>1. stats[e] \in Stat
  BY DEF Sound
<1>2. soft \in Nat \cup {Never}
  BY <1>1, TrackerAssumption DEF Stat, TrackerAssumption
<1>3. Returned(e) = r \/ Returned(e) = stats[e]
  BY DEF Returned
<1> HIDE DEF soft
<1>4. r \in Stat
  BY <1>1, <1>2 DEF Stat
<1>5. r.source = "none" /\ r.until = Never /\ r.inFlight = stats[e].inFlight
  BY <1>1 DEF Stat
<1> QED
  BY <1>3, <1>4, <1>5 DEF Sound

\* An operation that rewrites one record, and keeps it sound and its leases
\* counted, keeps them all.
LEMMA NoteKeeps ==
    ASSUME Inv, NEW e \in Exits, NEW s, Note(e, s), Sound(s),
           UNCHANGED now, leases' \in [Exits -> Nat],
           s.inFlight <= leases'[e],
           \A d \in Exits \ {e} : leases'[d] = leases[d]
    PROVE  Inv'
BY DEF Inv, Note, Sound

-----------------------------------------------------------------------------

LEMMA InitInv == Init => Inv
BY UnknownSound, TrackerAssumption DEF Init, Inv, TrackerAssumption

LEMMA NextInv == Inv /\ [Next]_trackerVars => Inv'
<1> SUFFICES ASSUME Inv, [Next]_trackerVars PROVE Inv'
  OBVIOUS
<1>n. now \in Nat
  BY DEF Inv
<1>s. \A e \in Exits : Sound(stats[e]) /\ stats[e].inFlight <= leases[e]
                       /\ leases[e] \in Nat /\ stats[e].inFlight \in Nat
  BY DEF Inv, Sound, Stat
<1>z. 0 \in 0 .. BenchFailLimit - 1 /\ 0 \in 0 .. Len(BenchDurations)
  BY TrackerAssumption DEF TrackerAssumption
<1>1. ASSUME NEW e \in Exits, ObserveWin(e) PROVE Inv'
  <2> DEFINE s == [stats[e] EXCEPT !.streak = 0, !.until = Never, !.source = "none", !.level = 0]
  <2>a. s \in Stat
    BY <1>s, <1>z DEF Sound, Stat
  <2>b. s.until = Never /\ s.source = "none" /\ s.inFlight = stats[e].inFlight
    BY <1>s DEF Sound, Stat
  <2>1. Sound(s) /\ s.inFlight = stats[e].inFlight
    BY <2>a, <2>b DEF Sound
  <2> QED
    BY <1>1, <1>s, <2>1, NoteKeeps DEF ObserveWin, Inv
<1>2. ASSUME NEW e \in Exits, ObserveSuccess(e) PROVE Inv'
  <2> DEFINE s == [stats[e] EXCEPT !.streak = 0]
  <2>a. s \in Stat
    BY <1>s, <1>z DEF Sound, Stat
  <2>b. s.until = stats[e].until /\ s.source = stats[e].source /\ s.inFlight = stats[e].inFlight
    BY <1>s DEF Sound, Stat
  <2>1. Sound(s) /\ s.inFlight = stats[e].inFlight
    BY <1>s, <2>a, <2>b DEF Sound
  <2> QED
    BY <1>2, <1>s, <2>1, NoteKeeps DEF ObserveSuccess, Inv
<1>3. ASSUME NEW e \in Exits, ObserveFail(e) PROVE Inv'
  <2>1. Sound(Failed(stats[e])) /\ Failed(stats[e]).inFlight = stats[e].inFlight
    BY <1>n, <1>s, FailedSound
  <2> QED
    BY <1>3, <1>s, <2>1, NoteKeeps DEF ObserveFail, Inv
<1>4. ASSUME NEW e \in Exits, ObserveTruncation(e) PROVE Inv'
  <2> DEFINE s == [stats[e] EXCEPT !.truncations = @ + 1, !.truncAt = now]
  <2>n. stats[e] \in Stat /\ stats[e].truncations + 1 \in Nat
    BY <1>s DEF Sound, Stat
  <2>a. s \in Stat
    BY <1>n, <2>n DEF Stat
  <2>b. s.until = stats[e].until /\ s.source = stats[e].source /\ s.inFlight = stats[e].inFlight
    BY <1>s DEF Sound, Stat
  <2>1. Sound(s) /\ s.inFlight = stats[e].inFlight
    BY <1>s, <2>a, <2>b DEF Sound
  <2>2. Sound(Failed(s)) /\ Failed(s).inFlight = stats[e].inFlight
    BY <1>n, <2>1, FailedSound
  <2> QED
    BY <1>4, <1>s, <2>2, NoteKeeps DEF ObserveTruncation, Inv
<1>5. ASSUME NEW e \in Exits, NEW d \in QuotaDurations, NEW src \in Sources,
             ObserveQuotaBurn(e, d, src)
      PROVE  Inv'
  <2> DEFINE u == now + d
             longer == [stats[e] EXCEPT !.until = u, !.source = src, !.streak = 0]
             same == [stats[e] EXCEPT !.streak = 0]
             s == IF u > stats[e].until THEN longer ELSE same
  <2>1. u \in Nat /\ u # Never /\ src # "none"
    BY <1>n, TrackerAssumption DEF TrackerAssumption, Never, Sources
  <2> HIDE DEF u
  <2>a. longer \in Stat /\ same \in Stat
    BY <1>s, <1>z, <2>1 DEF Sound, Stat
  <2>b. /\ longer.until = u /\ longer.source = src /\ longer.inFlight = stats[e].inFlight
        /\ same.until = stats[e].until /\ same.source = stats[e].source
        /\ same.inFlight = stats[e].inFlight
    BY <1>s DEF Sound, Stat
  <2>c. Sound(longer) /\ Sound(same)
    BY <1>s, <2>1, <2>a, <2>b DEF Sound
  <2>2. Sound(s) /\ s.inFlight = stats[e].inFlight
    BY <2>b, <2>c
  <2> USE DEF u
  <2> QED
    BY <1>5, <1>s, <2>2, NoteKeeps DEF ObserveQuotaBurn, Inv
<1>6. ASSUME NEW e \in Exits, EnterExit(e) PROVE Inv'
  <2> DEFINE s == [stats[e] EXCEPT !.inFlight = @ + 1]
  <2>n. stats[e] \in Stat /\ stats[e].inFlight + 1 \in Nat
    BY <1>s DEF Sound, Stat
  <2>a. s \in Stat
    BY <2>n DEF Stat
  <2>b. s.until = stats[e].until /\ s.source = stats[e].source /\ s.inFlight = stats[e].inFlight + 1
    BY <1>s DEF Sound, Stat
  <2>1. Sound(s) /\ s.inFlight = stats[e].inFlight + 1
    BY <1>s, <2>a, <2>b DEF Sound
  <2>2. leases' \in [Exits -> Nat] /\ leases'[e] = leases[e] + 1
    BY <1>6, <1>s DEF EnterExit, Inv
  <2>3. \A d \in Exits \ {e} : leases'[d] = leases[d]
    BY <1>6 DEF EnterExit, Inv
  <2>4. s.inFlight <= leases'[e]
    BY <1>s, <2>1, <2>2
  <2>5. Note(e, s) /\ UNCHANGED now
    BY <1>6 DEF EnterExit
  <2> HIDE DEF s
  <2> QED
    BY <2>1, <2>2, <2>3, <2>4, <2>5, NoteKeeps
<1>7. ASSUME NEW e \in Exits, ExitExit(e) PROVE Inv'
  <2> DEFINE s == [stats[e] EXCEPT !.inFlight = IF @ > 0 THEN @ - 1 ELSE 0]
  <2> DEFINE n == IF stats[e].inFlight > 0 THEN stats[e].inFlight - 1 ELSE 0
  <2>n. n \in Nat
    BY <1>s
  <2>a. s = [stats[e] EXCEPT !.inFlight = n]
    OBVIOUS
  <2>b. s \in Stat /\ s.until = stats[e].until /\ s.source = stats[e].source /\ s.inFlight = n
    BY <1>s, <2>n, <2>a DEF Sound, Stat
  <2>1. Sound(s) /\ s.inFlight = n
    BY <1>s, <2>b DEF Sound
  <2>2. leases' \in [Exits -> Nat] /\ leases'[e] = leases[e] - 1
    BY <1>7, <1>s DEF ExitExit, Inv
  <2>3. \A d \in Exits \ {e} : leases'[d] = leases[d]
    BY <1>7 DEF ExitExit, Inv
  <2>4. leases'[e] >= s.inFlight
    BY <1>7, <1>s, <2>1, <2>2 DEF ExitExit
  <2> QED
    BY <1>7, <2>1, <2>2, <2>3, <2>4, NoteKeeps DEF ExitExit
<1>8. ASSUME NEW E \in SUBSET Exits, FilterBenched(E) PROVE Inv'
  <2>1. \A e \in Exits : Sound(Returned(e)) /\ Returned(e).inFlight = stats[e].inFlight
    BY <1>n, <1>s, ReturnedSound
  <2>2. \A e \in Exits : stats'[e] = Returned(e) \/ stats'[e] = stats[e]
    BY <1>8 DEF FilterBenched
  <2>3. \A e \in Exits : Sound(stats'[e]) /\ stats'[e].inFlight <= leases[e]
    BY <1>s, <2>1, <2>2
  <2> QED
    BY <1>8, <2>3 DEF FilterBenched, Inv, Sound
<1>9. ASSUME NEW E \in SUBSET Exits, Prune(E) PROVE Inv'
  <2>1. \A e \in Exits : stats'[e] = stats[e] \/ stats'[e] = Unknown
    BY <1>9 DEF Prune
  <2>2. \A e \in Exits : Sound(stats'[e]) /\ stats'[e].inFlight <= leases[e]
    BY <1>s, <2>1, UnknownSound
  <2> QED
    BY <1>9, <2>2 DEF Prune, Inv, Sound
<1>10. CASE Tick
  BY <1>10, TrackerAssumption DEF Tick, Inv, Sound, TrackerAssumption
<1>11. CASE UNCHANGED trackerVars
  BY <1>11 DEF trackerVars, Inv, Sound
<1> QED
  BY <1>1, <1>2, <1>3, <1>4, <1>5, <1>6, <1>7, <1>8, <1>9, <1>10, <1>11 DEF Next, Observe

LEMMA Invariance == Spec => []Inv
BY InitInv, NextInv, PTL DEF Spec

-----------------------------------------------------------------------------

\* exitTracker keeps its types: the streak below the limit, the ladder's rung
\* within the ladder, the times and counters never negative.
THEOREM TypeCorrect == Spec => []TypeOK
<1>1. Inv => TypeOK
  BY DEF Inv, TypeOK, Sound, Stat
<1> QED
  BY <1>1, Invariance, PTL

\* benchSource and benchUntil go together, through every order of failures,
\* quotas, wins, expiries and prunes.
THEOREM SourcedBench == Spec => []BenchHasSource
<1>1. Inv => BenchHasSource
  BY DEF Inv, BenchHasSource, Sound
<1> QED
  BY <1>1, Invariance, PTL

\* inFlight never counts a lease that nobody holds, also after the tracker has
\* forgotten exits that leases were held on.
THEOREM LeaseBound == Spec => []LeasesNotOvercounted
<1>1. Inv => LeasesNotOvercounted
  BY DEF Inv, LeasesNotOvercounted
<1> QED
  BY <1>1, Invariance, PTL

-----------------------------------------------------------------------------
(* DispatchRace                                                            *)

\* Places, marks and results are of their types.
Shape ==
    /\ at \in [Requests -> {"idle", "wave", "launch", "race", "won", "gone"}]
    /\ todo \in [Requests -> SUBSET Exits]
    /\ cand \in [Requests -> Lanes]
    /\ tried \in [Requests -> SUBSET Lanes]
    /\ flight \in [Requests -> [Lanes -> Flying \cup Outcomes \cup {"none"}]]
    /\ sends \in [Requests -> [Lanes -> Nat]]

\* What was sent or is out is marked, once; what is still to be launched is not.
Marked ==
    \A r \in Requests :
        /\ \A x \in Lanes : /\ sends[r][x] <= 1
                            /\ x \notin tried[r] => sends[r][x] = 0 /\ flight[r][x] = "none"
        /\ todo[r] \cap tried[r] = {}
        /\ at[r] = "launch" => cand[r] \in todo[r]

MarksInv == Shape /\ Marked

-----------------------------------------------------------------------------

LEMMA MarksInit == RaceInit => MarksInv
BY RaceAssumption DEF RaceInit, MarksInv, Shape, Marked, Lanes, Flying, Outcomes, RaceAssumption

\* Going out through a lane that was not tried keeps what the marks say of all
\* requests and lanes.
LEMMA SendOutMarks ==
    ASSUME MarksInv, NEW r \in Requests, NEW x \in Lanes, x \notin tried[r], SendOut(r, x)
    PROVE  /\ tried' \in [Requests -> SUBSET Lanes]
           /\ flight' \in [Requests -> [Lanes -> Flying \cup Outcomes \cup {"none"}]]
           /\ sends' \in [Requests -> [Lanes -> Nat]]
           /\ tried'[r] = tried[r] \cup {x}
           /\ \A q \in Requests \ {r} : tried'[q] = tried[q]
           /\ \A q \in Requests : \A y \in Lanes :
                 /\ sends'[q][y] <= 1
                 /\ y \notin tried'[q] => sends'[q][y] = 0 /\ flight'[q][y] = "none"
<1>1. /\ tried' = [tried EXCEPT ![r] = @ \cup {x}]
      /\ flight' = [flight EXCEPT ![r] = [flight[r] EXCEPT ![x] = "flying"]]
      /\ sends' = [sends EXCEPT ![r] = [sends[r] EXCEPT ![x] = sends[r][x] + 1]]
  BY DEF SendOut
<1>2. sends[r][x] = 0
  BY DEF MarksInv, Marked
<1>3. [sends[r] EXCEPT ![x] = sends[r][x] + 1] \in [Lanes -> Nat]
  BY <1>2 DEF MarksInv, Shape
<1>4. [flight[r] EXCEPT ![x] = "flying"] \in [Lanes -> Flying \cup Outcomes \cup {"none"}]
  BY DEF MarksInv, Shape, Flying
<1>5. /\ tried' \in [Requests -> SUBSET Lanes] /\ tried'[r] = tried[r] \cup {x}
      /\ \A q \in Requests \ {r} : tried'[q] = tried[q]
  BY <1>1 DEF MarksInv, Shape
<1>6. /\ sends' \in [Requests -> [Lanes -> Nat]]
      /\ sends'[r] = [sends[r] EXCEPT ![x] = sends[r][x] + 1]
      /\ \A q \in Requests \ {r} : sends'[q] = sends[q]
  BY <1>1, <1>3 DEF MarksInv, Shape
<1>7. /\ flight' \in [Requests -> [Lanes -> Flying \cup Outcomes \cup {"none"}]]
      /\ flight'[r] = [flight[r] EXCEPT ![x] = "flying"]
      /\ \A q \in Requests \ {r} : flight'[q] = flight[q]
  BY <1>1, <1>4 DEF MarksInv, Shape
<1>8. \A q \in Requests : \A y \in Lanes :
          /\ sends[q][y] <= 1
          /\ y \notin tried[q] => sends[q][y] = 0 /\ flight[q][y] = "none"
  BY DEF MarksInv, Marked
<1>9. \A y \in Lanes : /\ sends'[r][y] = IF y = x THEN 1 ELSE sends[r][y]
                       /\ y # x => flight'[r][y] = flight[r][y]
  BY <1>2, <1>6, <1>7 DEF MarksInv, Shape
<1> QED
  BY <1>5, <1>6, <1>7, <1>8, <1>9

\* A step that only takes attempts from the air, and exits from what is to be
\* launched, keeps the marks.
LEMMA Clearing ==
    ASSUME MarksInv, UNCHANGED <<tried, sends>>,
           at' \in [Requests -> {"idle", "wave", "launch", "race", "won", "gone"}],
           flight' \in [Requests -> [Lanes -> Flying \cup Outcomes \cup {"none"}]],
           \A r \in Requests, x \in Lanes : flight[r][x] = "none" => flight'[r][x] = "none",
           todo' \in [Requests -> SUBSET Exits], cand' \in [Requests -> Lanes],
           \A r \in Requests : todo'[r] \cap tried[r] = {},
           \A r \in Requests : at'[r] = "launch" => cand'[r] \in todo'[r]
    PROVE  MarksInv'
BY DEF MarksInv, Shape, Marked

\* The loop goes on with a wave, or the race returns.
LEMMA LoopMarks ==
    ASSUME MarksInv, NEW r \in Requests,
           UNCHANGED <<tried, sends>>,
           flight' \in [Requests -> [Lanes -> Flying \cup Outcomes \cup {"none"}]],
           \A q \in Requests, x \in Lanes : flight[q][x] = "none" => flight'[q][x] = "none",
           \/ \E kind, n : NewWave(r, kind, n)
           \/ \E l \in {"idle", "won", "gone"} : Return(r, l)
           \/ UNCHANGED <<at, loop>>
    PROVE  MarksInv'
<1>1. CASE \E kind, n : NewWave(r, kind, n)
  <2>1. at' = [at EXCEPT ![r] = "wave"] /\ UNCHANGED <<todo, cand>>
    BY <1>1 DEF NewWave, Goto
  <2>2. /\ at' \in [Requests -> {"idle", "wave", "launch", "race", "won", "gone"}]
        /\ \A q \in Requests : at'[q] = "launch" => at[q] = "launch"
    BY <2>1 DEF MarksInv, Shape
  <2> QED
    BY <2>1, <2>2, Clearing DEF MarksInv, Shape, Marked
<1>2. ASSUME NEW l \in {"idle", "won", "gone"}, Return(r, l) PROVE MarksInv'
  <2>1. at' = [at EXCEPT ![r] = l] /\ todo' = [todo EXCEPT ![r] = {}] /\ UNCHANGED cand
    BY <1>2 DEF Return, Goto
  <2>2. /\ at' \in [Requests -> {"idle", "wave", "launch", "race", "won", "gone"}]
        /\ \A q \in Requests : at'[q] = "launch" => at[q] = "launch" /\ q # r
    BY <2>1 DEF MarksInv, Shape
  <2>3. /\ todo' \in [Requests -> SUBSET Exits]
        /\ \A q \in Requests : todo'[q] \subseteq todo[q] /\ (q # r => todo'[q] = todo[q])
    BY <2>1 DEF MarksInv, Shape
  <2> QED
    BY <2>1, <2>2, <2>3, Clearing DEF MarksInv, Shape, Marked
<1>3. CASE UNCHANGED <<at, loop>>
  BY <1>3, Clearing DEF loop, MarksInv, Shape, Marked
<1> QED
  BY <1>1, <1>2, <1>3

LEMMA MarksNext == MarksInv /\ [RaceNext]_raceVars => MarksInv'
<1> SUFFICES ASSUME MarksInv, [RaceNext]_raceVars PROVE MarksInv'
  OBVIOUS
<1> DEFINE Results == Flying \cup Outcomes \cup {"none"}
<1>s. Shape /\ Marked
  BY DEF MarksInv
<1>1. ASSUME NEW r \in Requests, NEW pool \in SUBSET Exits, StartRace(r, pool) PROVE MarksInv'
  <2>1. Fields(r, pool) \subseteq Exits /\ Fields(r, pool) \cap tried[r] = {}
    BY DEF Fields, Fielded
  <2>2. /\ at' = [at EXCEPT ![r] = "wave"] /\ todo' = [todo EXCEPT ![r] = Fields(r, pool)]
        /\ UNCHANGED <<cand, tried, flight, sends>>
    BY <1>1 DEF StartRace, Goto
  <2>3. /\ at' \in [Requests -> {"idle", "wave", "launch", "race", "won", "gone"}]
        /\ todo' \in [Requests -> SUBSET Exits]
        /\ \A q \in Requests : at'[q] = "launch" => at[q] = "launch" /\ q # r
        /\ todo'[r] = Fields(r, pool) /\ \A q \in Requests \ {r} : todo'[q] = todo[q]
    BY <1>s, <2>1, <2>2 DEF Shape
  <2> HIDE DEF Results
  <2>4. \A q \in Requests : todo'[q] \cap tried[q] = {}
    BY <1>s, <2>1, <2>3 DEF Marked
  <2>5. \A q \in Requests : at'[q] = "launch" => cand'[q] \in todo'[q]
    BY <1>s, <2>2, <2>3 DEF Marked
  <2> QED
    BY <1>s, <2>2, <2>3, <2>4, <2>5, Clearing DEF Shape
<1>2. ASSUME NEW r \in Requests, NEW pool \in SUBSET Exits, NothingLeft(r, pool) PROVE MarksInv'
  BY <1>s, <1>2 DEF NothingLeft, loop, MarksInv, Shape, Marked
<1>3. ASSUME NEW r \in Requests, NEW e \in Exits, Examine(r, e) PROVE MarksInv'
  <2>1. e \in todo[r] /\ UNCHANGED <<todo, tried, flight, sends>>
    BY <1>3 DEF Examine, Unseen
  <2>2. \/ UNCHANGED <<at, cand>>
        \/ at' = [at EXCEPT ![r] = "launch"] /\ cand' = [cand EXCEPT ![r] = e]
    BY <1>3 DEF Examine, Goto
  <2>3. /\ at' \in [Requests -> {"idle", "wave", "launch", "race", "won", "gone"}]
        /\ cand' \in [Requests -> Lanes]
    BY <1>s, <2>2 DEF Shape, Lanes
  <2>4. ASSUME NEW q \in Requests, at'[q] = "launch" PROVE cand'[q] \in todo[q]
    <3>1. CASE UNCHANGED <<at, cand>>
      BY <1>s, <2>4, <3>1 DEF Marked
    <3>2. CASE at' = [at EXCEPT ![r] = "launch"] /\ cand' = [cand EXCEPT ![r] = e]
      <4>1. CASE q = r
        BY <1>s, <2>1, <3>2, <4>1 DEF Shape
      <4>2. CASE q # r
        BY <1>s, <2>4, <3>2, <4>2 DEF Shape, Marked
      <4> QED
        BY <4>1, <4>2
    <3> QED
      BY <2>2, <3>1, <3>2
  <2> QED
    BY <1>s, <2>1, <2>3, <2>4, Clearing DEF Shape, Marked
<1>4. ASSUME NEW r \in Requests, Launch(r) PROVE MarksInv'
  <2> DEFINE x == cand[r]
  <2>1. x \in todo[r] /\ x \in Lanes /\ x \notin tried[r]
    BY <1>4, <1>s DEF Launch, Shape, Marked
  <2>2. /\ SendOut(r, x) /\ at' = [at EXCEPT ![r] = "wave"] /\ todo' = [todo EXCEPT ![r] = todo[r] \ {x}]
        /\ cand' = [cand EXCEPT ![r] = Direct]
    BY <1>4 DEF Launch, Goto
  <2> HIDE DEF x
  <2>3. /\ at' \in [Requests -> {"idle", "wave", "launch", "race", "won", "gone"}]
        /\ todo' \in [Requests -> SUBSET Exits] /\ cand' \in [Requests -> Lanes]
        /\ todo'[r] = todo[r] \ {x} /\ at'[r] = "wave"
        /\ \A q \in Requests \ {r} : todo'[q] = todo[q] /\ at'[q] = at[q] /\ cand'[q] = cand[q]
    BY <1>s, <2>2 DEF Shape, Lanes
  <2>4. /\ tried' \in [Requests -> SUBSET Lanes] /\ flight' \in [Requests -> [Lanes -> Results]]
        /\ sends' \in [Requests -> [Lanes -> Nat]] /\ tried'[r] = tried[r] \cup {x}
        /\ \A q \in Requests \ {r} : tried'[q] = tried[q]
        /\ \A q \in Requests : \A y \in Lanes :
              /\ sends'[q][y] <= 1
              /\ y \notin tried'[q] => sends'[q][y] = 0 /\ flight'[q][y] = "none"
    BY <2>1, <2>2, SendOutMarks
  <2>5. \A q \in Requests : /\ todo'[q] \cap tried'[q] = {}
                            /\ at'[q] = "launch" => cand'[q] \in todo'[q]
    BY <1>s, <2>3, <2>4 DEF Marked
  <2> QED
    BY <2>3, <2>4, <2>5 DEF MarksInv, Shape, Marked
<1>5. ASSUME NEW r \in Requests, WaveOut(r) PROVE MarksInv'
  <2>1. at' = [at EXCEPT ![r] = "race"] /\ UNCHANGED <<todo, cand>>
    BY <1>5 DEF WaveOut, Goto
  <2>2. /\ at' \in [Requests -> {"idle", "wave", "launch", "race", "won", "gone"}]
        /\ \A q \in Requests : at'[q] = "launch" => at[q] = "launch"
    BY <1>s, <2>1 DEF Shape
  <2>3. CASE SendOut(r, Direct) /\ Direct \notin tried[r]
    <3>1. /\ tried' \in [Requests -> SUBSET Lanes] /\ flight' \in [Requests -> [Lanes -> Results]]
          /\ sends' \in [Requests -> [Lanes -> Nat]] /\ tried'[r] = tried[r] \cup {Direct}
          /\ \A q \in Requests \ {r} : tried'[q] = tried[q]
          /\ \A q \in Requests : \A y \in Lanes :
                /\ sends'[q][y] <= 1
                /\ y \notin tried'[q] => sends'[q][y] = 0 /\ flight'[q][y] = "none"
      BY <2>3, SendOutMarks DEF Lanes
    <3>2. \A q \in Requests : Direct \notin todo[q]
      BY <1>s, RaceAssumption DEF Shape, RaceAssumption
    <3>3. \A q \in Requests : todo'[q] \cap tried'[q] = {}
      BY <1>s, <2>1, <3>1, <3>2 DEF Marked
    <3> QED
      BY <1>s, <2>1, <2>2, <3>1, <3>3 DEF MarksInv, Shape, Marked
  <2>4. CASE UNCHANGED <<tried, flight, sends>>
    BY <1>s, <2>1, <2>2, <2>4 DEF MarksInv, Shape, Marked
  <2> QED
    BY <1>5, <2>3, <2>4 DEF WaveOut
<1>6. ASSUME NEW r \in Requests, HedgeFires(r) PROVE MarksInv'
  <2>1. UNCHANGED <<tried, flight, sends>> /\ NewWave(r, "hedge", HedgeBatch)
    BY <1>6 DEF HedgeFires
  <2> QED
    BY <1>s, <2>1, LoopMarks DEF Shape
<1>7. ASSUME NEW r \in Requests, NEW x \in Lanes, Land(r, x) PROVE MarksInv'
  <2>1. PICK how \in Outcomes \cup {"none"} : flight' = [flight EXCEPT ![r] = [flight[r] EXCEPT ![x] = how]]
    BY <1>7 DEF Land
  <2>2. [flight[r] EXCEPT ![x] = how] \in [Lanes -> Results]
    BY <1>s DEF Shape
  <2>3. flight' \in [Requests -> [Lanes -> Results]]
    BY <1>s, <2>1, <2>2 DEF Shape
  <2>4. flight[r][x] # "none"
    BY <1>7 DEF Land, Flying
  <2>5. \A q \in Requests, y \in Lanes : flight[q][y] = "none" => flight'[q][y] = "none"
    BY <1>s, <2>1, <2>4 DEF Shape
  <2>6. UNCHANGED <<tried, sends, at, loop>>
    BY <1>7 DEF Land
  <2> QED
    BY <2>3, <2>5, <2>6, LoopMarks
<1>8. ASSUME NEW r \in Requests, NEW x \in Lanes, Settle(r, x) PROVE MarksInv'
  <2>1. flight' = [flight EXCEPT ![r] = [flight[r] EXCEPT ![x] = "none"]] /\ UNCHANGED <<tried, sends>>
    BY <1>8 DEF Settle
  <2>2. [flight[r] EXCEPT ![x] = "none"] \in [Lanes -> Results]
    BY <1>s DEF Shape
  <2>3. flight' \in [Requests -> [Lanes -> Results]]
    BY <1>s, <2>1, <2>2 DEF Shape
  <2>4. \A q \in Requests, y \in Lanes : flight[q][y] = "none" => flight'[q][y] = "none"
    BY <1>s, <2>1 DEF Shape
  <2>5. NewWave(r, "more", RaceWidth) \/ UNCHANGED <<at, loop>>
    BY <1>8 DEF Settle
  <2> QED
    BY <2>1, <2>3, <2>4, <2>5, LoopMarks
<1>9. ASSUME NEW r \in Requests, NEW l \in {"idle", "won", "gone"}, Return(r, l),
             UNCHANGED <<tried, sends>>, Abandon(r) \/ UNCHANGED flight
      PROVE  MarksInv'
  <2>1. CASE Abandon(r)
    <3> DEFINE left == [x \in Lanes |-> IF flight[r][x] \in Flying THEN "cancelled" ELSE "none"]
    <3>1. flight' = [flight EXCEPT ![r] = left]
      BY <2>1 DEF Abandon
    <3>2. left \in [Lanes -> Results]
      BY DEF Flying
    <3>3. flight' \in [Requests -> [Lanes -> Results]]
      BY <1>s, <3>1, <3>2 DEF Shape
    <3>4. \A q \in Requests, y \in Lanes : flight[q][y] = "none" => flight'[q][y] = "none"
      BY <1>s, <3>1 DEF Shape, Flying
    <3> QED
      BY <1>9, <3>3, <3>4, LoopMarks
  <2>2. CASE UNCHANGED flight
    BY <1>s, <1>9, <2>2, LoopMarks DEF Shape
  <2> QED
    BY <1>9, <2>1, <2>2
<1>10. ASSUME UNCHANGED <<at, loop, tried, flight, sends>> PROVE MarksInv'
  BY <1>s, <1>10 DEF loop, MarksInv, Shape, Marked
<1>11. ASSUME NEW r \in Requests, Loop(r) PROVE MarksInv'
  <2>1. ASSUME NEW x \in Lanes, TakeWinner(r, x) PROVE MarksInv'
    BY <1>9, <2>1 DEF TakeWinner
  <2>2. CASE EndRace(r)
    BY <1>9, <2>2 DEF EndRace
  <2> QED
    BY <1>1, <1>2, <1>3, <1>4, <1>5, <1>6, <1>8, <1>11, <2>1, <2>2 DEF Loop, TakeFailure, TakeLimited
<1>12. ASSUME NEW r \in Requests, ContextDone(r) PROVE MarksInv'
  BY <1>9, <1>12 DEF ContextDone
<1>13. ASSUME NEW e \in Exits, ProbeReports(e) PROVE MarksInv'
  BY <1>10, <1>13 DEF ProbeReports
<1>14. CASE Clock
  BY <1>10, <1>14 DEF Clock
<1>15. CASE UNCHANGED raceVars
  BY <1>10, <1>15 DEF raceVars
<1> QED
  BY <1>7, <1>11, <1>12, <1>13, <1>14, <1>15 DEF RaceNext

LEMMA MarksAlways == RaceSpec => []MarksInv
BY MarksInit, MarksNext, PTL DEF RaceSpec

-----------------------------------------------------------------------------
\* However often a request is dispatched, and through whatever waves and hedges,
\* it goes out once at most through each exit (markTried).
THEOREM UsedOnce == RaceSpec => []OncePerExit
<1>1. MarksInv => OncePerExit
  BY DEF MarksInv, Marked, OncePerExit
<1> QED
  BY <1>1, MarksAlways, PTL

-----------------------------------------------------------------------------
\* Every step does to the tracker what one of its operations does, or takes a
\* snapshot (rank).
LEMMA RaceUsesTracker ==
    ASSUME MarksInv, [RaceNext]_raceVars
    PROVE  [Next]_trackerVars \/ \E pool \in SUBSET Exits : Snapshot(pool)
<1>1. ASSUME NEW r \in Requests, Launch(r) PROVE Next
  <2>1. cand[r] \in Exits
    BY <1>1 DEF Launch, MarksInv, Shape, Marked
  <2> QED
    BY <1>1, <2>1 DEF Launch, Next
<1>2. ASSUME NEW r \in Requests, Loop(r)
      PROVE  [Next]_trackerVars \/ \E pool \in SUBSET Exits : Snapshot(pool)
  <2>1. ASSUME NEW pool \in SUBSET Exits, StartRace(r, pool) \/ NothingLeft(r, pool) PROVE Snapshot(pool)
    BY <2>1 DEF StartRace, NothingLeft
  <2>2. ASSUME NEW e \in Exits, Examine(r, e) PROVE UNCHANGED trackerVars
    BY <2>2 DEF Examine
  <2>3. WaveOut(r) \/ HedgeFires(r) \/ EndRace(r) => UNCHANGED trackerVars
    BY DEF WaveOut, HedgeFires, EndRace
  <2>4. ASSUME NEW x \in Lanes, TakeFailure(r, x) \/ TakeLimited(r, x) PROVE [Next]_trackerVars
    BY <2>4 DEF TakeFailure, TakeLimited, Next, Observe
  <2>5. ASSUME NEW x \in Lanes, TakeWinner(r, x) PROVE [Next]_trackerVars
    BY <2>5 DEF TakeWinner, Next, Observe, Lanes
  <2> QED
    BY <1>1, <1>2, <2>1, <2>2, <2>3, <2>4, <2>5 DEF Loop
<1>3. ASSUME NEW r \in Requests, NEW x \in Lanes, Land(r, x) PROVE [Next]_trackerVars
  BY <1>3 DEF Land, Next, Lanes
<1>4. ASSUME NEW r \in Requests, ContextDone(r) PROVE UNCHANGED trackerVars
  BY <1>4 DEF ContextDone
<1>5. ASSUME NEW e \in Exits, ProbeReports(e) PROVE Next
  BY <1>5 DEF ProbeReports, Next, Observe
<1>6. Clock => Next
  BY DEF Clock, Next
<1>7. UNCHANGED raceVars => UNCHANGED trackerVars
  BY DEF raceVars
<1> QED
  BY <1>2, <1>3, <1>4, <1>5, <1>6, <1>7 DEF RaceNext

\* A snapshot returns exits from the bench and may forget others.
LEMMA SnapshotKeeps ==
    ASSUME Inv, NEW pool \in SUBSET Exits, Snapshot(pool)
    PROVE  /\ Inv'
           /\ ~MayPrune => \A e \in Exits : stats'[e].inFlight = stats[e].inFlight
<1>1. now \in Nat /\ \A e \in Exits : Sound(stats[e]) /\ stats[e].inFlight <= leases[e] /\ leases[e] \in Nat
  BY DEF Inv
<1>2. \A e \in Exits : Sound(Returned(e)) /\ Returned(e).inFlight = stats[e].inFlight
  BY <1>1, ReturnedSound
<1>3. PICK prune \in {FALSE, MayPrune} :
        stats' = [e \in Exits |-> IF prune /\ e \notin Fielded(pool) THEN Unknown
                                  ELSE IF e \in pool THEN Returned(e) ELSE stats[e]]
  BY DEF Snapshot
<1>4. \A e \in Exits : Sound(stats'[e]) /\ stats'[e].inFlight <= leases[e]
  BY <1>1, <1>2, <1>3, UnknownSound
<1>5. UNCHANGED <<now, leases>>
  BY DEF Snapshot
<1>6. Inv'
  BY <1>3, <1>4, <1>5 DEF Inv, Sound
<1>7. ASSUME ~MayPrune PROVE \A e \in Exits : stats'[e].inFlight = stats[e].inFlight
  <2>1. prune = FALSE
    BY <1>3, <1>7, RaceAssumption DEF RaceAssumption
  <2> QED
    BY <1>2, <1>3, <2>1
<1> QED
  BY <1>6, <1>7

LEMMA TrackerNext == MarksInv /\ Inv /\ [RaceNext]_raceVars => Inv'
BY RaceUsesTracker, SnapshotKeeps, NextInv

LEMMA TrackerInit == RaceInit => Inv
BY InitInv DEF RaceInit

LEMMA TrackerAlways == RaceSpec => []Inv
BY MarksAlways, TrackerInit, TrackerNext, PTL DEF RaceSpec

\* A bench and its source go together whatever races report at once, with rank's
\* snapshots among them.
THEOREM RacesSourceBenches == RaceSpec => []BenchHasSource
<1>1. Inv => BenchHasSource
  BY DEF Inv, BenchHasSource, Sound
<1> QED
  BY <1>1, TrackerAlways, PTL

-----------------------------------------------------------------------------
\* The attempts under way through an exit.
Out(e) == {r \in Requests : flight[r][e] \in Flying}

\* What is observed of an exit leaves the leases alone.
LEMMA ObservingKeepsLeases ==
    ASSUME Inv, NEW e \in Exits,
           \/ ObserveWin(e) \/ ObserveFail(e) \/ ObserveTruncation(e)
           \/ \E d \in QuotaDurations, src \in Sources : ObserveQuotaBurn(e, d, src)
    PROVE  \A d \in Exits : stats'[d].inFlight = stats[d].inFlight
<1>1. /\ now \in Nat /\ DOMAIN stats = Exits /\ Sound(stats[e]) /\ stats[e] \in Stat
  BY DEF Inv, Sound
<1>2. ASSUME NEW s, Note(e, s), s.inFlight = stats[e].inFlight
      PROVE  \A d \in Exits : stats'[d].inFlight = stats[d].inFlight
  BY <1>1, <1>2 DEF Note
<1>3. Failed(stats[e]).inFlight = stats[e].inFlight
  BY <1>1, FailedSound
<1>4. LET t == [stats[e] EXCEPT !.truncations = stats[e].truncations + 1, !.truncAt = now]
      IN  Failed(t).inFlight = stats[e].inFlight
  <2> DEFINE t == [stats[e] EXCEPT !.truncations = stats[e].truncations + 1, !.truncAt = now]
  <2>1. stats[e].truncations + 1 \in Nat
    BY <1>1 DEF Stat
  <2>2. t \in Stat
    BY <1>1, <2>1 DEF Stat
  <2>3. t.until = stats[e].until /\ t.source = stats[e].source /\ t.inFlight = stats[e].inFlight
    BY <1>1 DEF Stat
  <2>4. Sound(t)
    BY <1>1, <2>2, <2>3 DEF Sound
  <2> QED
    BY <1>1, <2>3, <2>4, FailedSound
<1>5. CASE ObserveWin(e)
  <2>1. [stats[e] EXCEPT !.streak = 0, !.until = Never, !.source = "none", !.level = 0].inFlight = stats[e].inFlight
    BY <1>1 DEF Stat
  <2> QED
    BY <1>2, <1>5, <2>1 DEF ObserveWin
<1>6. CASE ObserveFail(e)
  BY <1>2, <1>3, <1>6 DEF ObserveFail
<1>7. CASE ObserveTruncation(e)
  BY <1>2, <1>4, <1>7 DEF ObserveTruncation
<1>8. ASSUME NEW d \in QuotaDurations, NEW src \in Sources, ObserveQuotaBurn(e, d, src)
      PROVE  \A f \in Exits : stats'[f].inFlight = stats[f].inFlight
  <2> DEFINE longer == [stats[e] EXCEPT !.until = now + d, !.source = src, !.streak = 0]
             same == [stats[e] EXCEPT !.streak = 0]
  <2>1. longer.inFlight = stats[e].inFlight /\ same.inFlight = stats[e].inFlight
    BY <1>1 DEF Stat
  <2>2. Note(e, longer) \/ Note(e, same)
    BY <1>8 DEF ObserveQuotaBurn
  <2> HIDE DEF longer, same
  <2> QED
    BY <1>2, <2>1, <2>2
<1> QED
  BY <1>5, <1>6, <1>7, <1>8

LeasesInv == MarksInv /\ Inv /\ \A e \in Exits : stats[e].inFlight = Cardinality(Out(e))

LEMMA LeasesInit == ASSUME IsFiniteSet(Requests) PROVE RaceInit => LeasesInv
<1> SUFFICES ASSUME RaceInit PROVE LeasesInv
  OBVIOUS
<1>1. \A e \in Exits : stats[e].inFlight = 0
  BY UnknownSound DEF RaceInit, Init
<1>2. \A e \in Exits : Out(e) = {}
  BY DEF RaceInit, Out, Flying, Lanes
<1> QED
  BY <1>1, <1>2, MarksInit, TrackerInit, FS_EmptySet DEF LeasesInv

\* A step that keeps the attempts under way and the counts keeps their match.
LEMMA SameLeases ==
    ASSUME LeasesInv, MarksInv', Inv',
           \A e \in Exits : stats'[e].inFlight = stats[e].inFlight,
           \A r \in Requests, e \in Exits : flight'[r][e] \in Flying <=> flight[r][e] \in Flying
    PROVE  LeasesInv'
<1>1. \A e \in Exits : Out(e)' = Out(e)
  BY DEF Out
<1> QED
  BY <1>1 DEF LeasesInv

LEMMA LeasesNext ==
    ASSUME IsFiniteSet(Requests), ~MayPrune
    PROVE  LeasesInv /\ [RaceNext]_raceVars => LeasesInv'
<1> SUFFICES ASSUME LeasesInv, [RaceNext]_raceVars PROVE LeasesInv'
  OBVIOUS
<1>i. MarksInv /\ Shape /\ Inv /\ MarksInv' /\ Inv'
  BY MarksNext, TrackerNext DEF LeasesInv, MarksInv
<1>d. Direct \notin Exits /\ Exits \subseteq Lanes
  BY RaceAssumption DEF RaceAssumption, Lanes
<1>f. \A e \in Exits : IsFiniteSet(Out(e))
  BY FS_Subset DEF Out
<1>1. ASSUME UNCHANGED <<stats, flight>> PROVE LeasesInv'
  BY <1>i, <1>1, SameLeases
<1>2. ASSUME NEW r \in Requests, NEW pool \in SUBSET Exits, Snapshot(pool), UNCHANGED flight PROVE LeasesInv'
  BY <1>i, <1>2, SnapshotKeeps, SameLeases
<1>3. ASSUME NEW r \in Requests, Launch(r) PROVE LeasesInv'
  <2>1. PICK x \in Exits : x = cand[r] /\ x \in Lanes /\ flight[r][x] = "none"
    BY <1>i, <1>3, <1>d DEF Launch, MarksInv, Shape, Marked
  <2>2. flight' = [flight EXCEPT ![r] = [flight[r] EXCEPT ![x] = "flying"]]
    BY <1>3, <2>1 DEF Launch, SendOut
  <2>3. stats' = [stats EXCEPT ![x] = [stats[x] EXCEPT !.inFlight = stats[x].inFlight + 1]]
    BY <1>3, <2>1 DEF Launch, EnterExit, Note
  <2>4. stats'[x].inFlight = stats[x].inFlight + 1 /\ \A e \in Exits \ {x} : stats'[e] = stats[e]
    BY <1>i, <2>1, <2>3 DEF Inv, Sound, Stat
  <2>5. Out(x)' = Out(x) \cup {r} /\ r \notin Out(x)
    BY <1>i, <2>1, <2>2 DEF Out, Flying, Shape
  <2>6. \A e \in Exits \ {x} : Out(e)' = Out(e)
    BY <1>i, <1>d, <2>1, <2>2 DEF Out, Shape
  <2>7. Cardinality(Out(x)') = Cardinality(Out(x)) + 1
    BY <1>f, <2>1, <2>5, FS_AddElement
  <2> QED
    BY <1>i, <2>1, <2>4, <2>6, <2>7 DEF LeasesInv
<1>4. ASSUME NEW r \in Requests, NEW x \in Lanes, Land(r, x) PROVE LeasesInv'
  <2>1. PICK how \in Outcomes \cup {"none"} : flight' = [flight EXCEPT ![r] = [flight[r] EXCEPT ![x] = how]]
    BY <1>4 DEF Land
  <2>2. how \notin Flying /\ flight[r][x] \in Flying
    BY <1>4 DEF Land, Outcomes, Flying
  <2>3. CASE x = Direct
    <3>1. UNCHANGED stats
      BY <1>4, <2>3 DEF Land, trackerVars
    <3>2. \A q \in Requests, e \in Exits : flight'[q][e] = flight[q][e]
      BY <1>i, <1>d, <2>1, <2>3 DEF Shape
    <3> QED
      BY <1>i, <3>1, <3>2, SameLeases
  <2>4. CASE x # Direct
    <3>1. x \in Exits
      BY <2>4 DEF Lanes
    <3>2. stats' = [stats EXCEPT ![x] = [stats[x] EXCEPT !.inFlight = IF stats[x].inFlight > 0 THEN stats[x].inFlight - 1 ELSE 0]]
      BY <1>4, <2>4 DEF Land, ExitExit, Note
    <3>3. Out(x)' = Out(x) \ {r} /\ r \in Out(x)
      BY <1>i, <2>1, <2>2 DEF Out, Shape
    <3>4. \A e \in Exits \ {x} : Out(e)' = Out(e)
      BY <1>i, <1>d, <2>1 DEF Out, Shape
    <3>5. Cardinality(Out(x)') = Cardinality(Out(x)) - 1 /\ Cardinality(Out(x)) \in Nat /\ Cardinality(Out(x)') \in Nat
      BY <1>f, <3>1, <3>3, FS_RemoveElement, FS_CardinalityType
    <3>6. stats[x].inFlight = Cardinality(Out(x))
      BY <3>1 DEF LeasesInv
    <3>7. stats[x].inFlight > 0
      BY <3>5, <3>6
    <3>8. stats'[x].inFlight = stats[x].inFlight - 1 /\ \A e \in Exits \ {x} : stats'[e] = stats[e]
      BY <1>i, <3>1, <3>2, <3>7 DEF Inv, Sound, Stat
    <3> QED
      BY <1>i, <3>1, <3>4, <3>5, <3>6, <3>8 DEF LeasesInv
  <2> QED
    BY <2>3, <2>4
<1>5. ASSUME NEW r \in Requests, NEW x \in Lanes, TakeFailure(r, x) \/ TakeLimited(r, x) PROVE LeasesInv'
  <2>1. flight' = [flight EXCEPT ![r] = [flight[r] EXCEPT ![x] = "none"]] /\ flight[r][x] \notin Flying
    BY <1>5 DEF TakeFailure, TakeLimited, Settle, Flying
  <2>2. \A q \in Requests, e \in Exits : flight'[q][e] \in Flying <=> flight[q][e] \in Flying
    BY <1>i, <1>d, <2>1 DEF Shape, Flying
  <2>3. \A e \in Exits : stats'[e].inFlight = stats[e].inFlight
    BY <1>i, <1>5, ObservingKeepsLeases DEF TakeFailure, TakeLimited, trackerVars
  <2> QED
    BY <1>i, <2>2, <2>3, SameLeases
<1>6. ASSUME NEW r \in Requests, Abandon(r), \A e \in Exits : stats'[e].inFlight = stats[e].inFlight PROVE LeasesInv'
  <2>1. \A q \in Requests, e \in Exits : flight'[q][e] \in Flying <=> flight[q][e] \in Flying
    BY <1>i, <1>d, <1>6 DEF Abandon, Shape, Flying
  <2> QED
    BY <1>i, <1>6, <2>1, SameLeases
<1>7. ASSUME NEW r \in Requests, NEW x \in Lanes, TakeWinner(r, x) PROVE LeasesInv'
  <2>1. \A e \in Exits : stats'[e].inFlight = stats[e].inFlight
    BY <1>i, <1>7, ObservingKeepsLeases DEF TakeWinner, trackerVars, Lanes
  <2> QED
    BY <1>6, <1>7, <2>1 DEF TakeWinner
<1>8. ASSUME NEW r \in Requests, ContextDone(r) PROVE LeasesInv'
  BY <1>6, <1>8 DEF ContextDone, trackerVars
<1>9. ASSUME NEW r \in Requests, WaveOut(r) PROVE LeasesInv'
  <2>1. CASE SendOut(r, Direct)
    <3>1. \A q \in Requests, e \in Exits : flight'[q][e] = flight[q][e]
      BY <1>i, <1>d, <2>1 DEF SendOut, Shape
    <3> QED
      BY <1>i, <1>9, <3>1, SameLeases DEF WaveOut, trackerVars
  <2>2. CASE UNCHANGED flight
    BY <1>1, <1>9, <2>2 DEF WaveOut, trackerVars
  <2> QED
    BY <1>9, <2>1, <2>2 DEF WaveOut
<1>10. ASSUME NEW r \in Requests, Loop(r) PROVE LeasesInv'
  <2>1. ASSUME NEW pool \in SUBSET Exits, StartRace(r, pool) \/ NothingLeft(r, pool) PROVE LeasesInv'
    BY <1>2, <2>1 DEF StartRace, NothingLeft
  <2>2. ASSUME NEW e \in Exits, Examine(r, e) PROVE LeasesInv'
    BY <1>1, <2>2 DEF Examine, trackerVars
  <2>3. HedgeFires(r) \/ EndRace(r) => LeasesInv'
    BY <1>1 DEF HedgeFires, EndRace, trackerVars
  <2> QED
    BY <1>3, <1>5, <1>7, <1>9, <1>10, <2>1, <2>2, <2>3 DEF Loop
<1>11. ASSUME NEW e \in Exits, ProbeReports(e) PROVE LeasesInv'
  <2>1. \A d \in Exits : stats'[d].inFlight = stats[d].inFlight
    BY <1>i, <1>11, ObservingKeepsLeases DEF ProbeReports
  <2> QED
    BY <1>i, <1>11, <2>1, SameLeases DEF ProbeReports
<1>12. CASE Clock
  BY <1>1, <1>12 DEF Clock, Tick
<1>13. CASE UNCHANGED raceVars
  BY <1>1, <1>13 DEF raceVars, trackerVars
<1> QED
  BY <1>4, <1>8, <1>10, <1>11, <1>12, <1>13 DEF RaceNext

\* As long as the tracker has not reached statsHardCap, inFlight of an exit is the
\* number of requests whose attempt through it has not ended, those that a won
\* or cancelled race has left behind included.
THEOREM LeasesAreAttempts ==
    ASSUME IsFiniteSet(Requests), ~MayPrune
    PROVE  RaceSpec => []LeasesExact
<1>1. LeasesInv => LeasesExact
  BY DEF LeasesInv, LeasesExact, Out
<1> QED
  BY <1>1, LeasesInit, LeasesNext, PTL DEF RaceSpec
=============================================================================
