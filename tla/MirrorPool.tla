----------------------------- MODULE MirrorPool -----------------------------
(***************************************************************************)
(* The upstream and its mirrors: how one is picked (pickUpstream), how its *)
(* health is noted (noteUpstreamResult), and how requests come to note it  *)
(* (dispatch, dispatchRace and noteStreamTruncation).                      *)
(*                                                                         *)
(* A dispatch tries a few mirrors in turn.  For each it races through the  *)
(* exits; the lanes of one race are spread over the mirrors, from the      *)
(* picked one on.  The lanes a request has not used yet are shared by its  *)
(* races: it goes out once through each.  Whether a failure is charged is  *)
(* the breaker's word and left open here.                                  *)
(***************************************************************************)
EXTENDS Integers, FiniteSetsExt

CONSTANTS
    Pool,        \* upstreamPool(): the upstream and its mirrors, in order
    Threshold,   \* mirrorFailThreshold
    Cooldown,    \* mirrorCooldown, in ticks
    Requests,
    MaxLanes     \* exits, and the direct connection, a request may use

N == Cardinality(DOMAIN Pool)
Mirrors == {Pool[i] : i \in DOMAIN Pool}

ASSUME PoolAssumption ==
    /\ N \in Nat /\ DOMAIN Pool = 1 .. N /\ N >= 2 /\ Cardinality(Mirrors) = N
    /\ Threshold \in Nat \ {0}
    /\ Cooldown \in Nat
    /\ MaxLanes \in Nat

\* dispatch picks that many mirrors before it gives up.
MaxTries == Min({N, 3})

\* A mirror with no record.  Only the time a mirror still has to cool matters,
\* so this is what is kept of blockedUntil.
Well == [fails |-> 0, cooling |-> 0]

VARIABLES
    cursor,  \* mirrorCursor, as a place in Pool
    health,  \* mirrorState
    at,      \* per request: where its dispatch is
    tries,   \* per request: mirrors this dispatch has picked
    mirror,  \* per request: current.upstream, then the mirror that answered
    left,    \* per request: lanes it has not used
    lanes,   \* per request: lanes of this race still out
    sentTo,  \* per request: mirrors this race sent to
    since    \* history, per mirror: picks since it was last picked or cooling

mirrorVars == <<cursor, health, at, tries, mirror, left, lanes, sentTo, since>>
requestVars == <<tries, mirror, left, lanes, sentTo>>

-----------------------------------------------------------------------------

MirrorAt(i) == Pool[(i % N) + 1]
Ready(m) == health[m].cooling = 0

\* The first that is ready, from the cursor on; if none is, the one that
\* cools down first.
Picked ==
    LET ready == {i \in 0 .. N - 1 : Ready(MirrorAt(cursor + i))}
        soonest == {i \in 0 .. N - 1 : \A m \in Mirrors :
                        health[MirrorAt(cursor + i)].cooling <= health[m].cooling}
    IN  MirrorAt(cursor + Min(IF ready # {} THEN ready ELSE soonest))

\* Deviation: the cursor stays with a mirror as long as it is ready.
AdvancedUnlessReady == IF Ready(MirrorAt(cursor)) THEN cursor ELSE (cursor + 1) % N

Advanced == (cursor + 1) % N

\* Deviation: the count goes on while the mirror cools.
NotedOn(m, ok) ==
    [health EXCEPT ![m] =
        IF ok THEN Well
        ELSE [fails |-> @.fails + 1,
              cooling |-> IF @.fails + 1 < Threshold THEN @.cooling ELSE Cooldown]]

\* noteUpstreamResult.
MirrorNoted(m, ok) ==
    [health EXCEPT ![m] =
        IF ok THEN Well
        ELSE IF @.fails + 1 < Threshold THEN [fails |-> @.fails + 1, cooling |-> @.cooling]
        ELSE [fails |-> 0, cooling |-> Cooldown]]

Note(m, ok) == health' = MirrorNoted(m, ok)

-----------------------------------------------------------------------------

MirrorInit ==
    /\ cursor = 0
    /\ health = [m \in Mirrors |-> Well]
    /\ at = [r \in Requests |-> "idle"]
    /\ tries = [r \in Requests |-> 0]
    /\ mirror = [r \in Requests |-> MirrorAt(0)]
    /\ left = [r \in Requests |-> 0]
    /\ lanes = [r \in Requests |-> 0]
    /\ sentTo = [r \in Requests |-> {}]
    /\ since = [m \in Mirrors |-> 0]

Goto(r, l) == at' = [at EXCEPT ![r] = l]

\* The dispatch goes on at l with nothing under way.
LeaveMirror(r, l) ==
    /\ Goto(r, l)
    /\ mirror' = [mirror EXCEPT ![r] = MirrorAt(0)]
    /\ sentTo' = [sentTo EXCEPT ![r] = {}]
    /\ lanes' = [lanes EXCEPT ![r] = 0]
    /\ UNCHANGED <<cursor, tries, left, since>>

\* A request, or the next attempt of one: what it has tried stays tried.
MirrorDispatch(r) ==
    /\ at[r] = "idle"
    /\ Goto(r, "pick")
    /\ tries' = [tries EXCEPT ![r] = 0]
    /\ \E n \in {left[r], MaxLanes} : left' = [left EXCEPT ![r] = n]
    /\ UNCHANGED <<cursor, health, mirror, lanes, sentTo, since>>

PickMirror(r) ==
    /\ at[r] = "pick"
    /\ tries[r] < MaxTries
    /\ Goto(r, "race")
    /\ tries' = [tries EXCEPT ![r] = @ + 1]
    /\ mirror' = [mirror EXCEPT ![r] = Picked]
    /\ cursor' = Advanced
    /\ since' = [m \in Mirrors |-> IF m = Picked \/ ~Ready(m) THEN 0 ELSE since[m] + 1]
    /\ UNCHANGED <<health, left, lanes, sentTo>>

GiveUp(r) ==
    /\ at[r] = "pick"
    /\ tries[r] = MaxTries
    /\ Goto(r, "idle")
    /\ UNCHANGED <<cursor, health, requestVars, since>>

\* dispatchRace: k lanes go out, each to the next mirror after the picked one.
Race(r, k) ==
    /\ at[r] = "race"
    /\ k <= left[r]
    /\ LET start == CHOOSE i \in 0 .. N - 1 : MirrorAt(i) = mirror[r]
       IN  sentTo' = [sentTo EXCEPT ![r] = {MirrorAt(start + j) : j \in 0 .. k - 1}]
    /\ left' = [left EXCEPT ![r] = @ - k]
    /\ lanes' = [lanes EXCEPT ![r] = k]
    /\ Goto(r, "racing")
    /\ UNCHANGED <<cursor, health, tries, mirror, since>>

\* Every exit and the direct connection were tried: nothing is sent.
NothingLeft(r) ==
    /\ at[r] = "race"
    /\ left[r] = 0
    /\ sentTo' = [sentTo EXCEPT ![r] = {}]
    /\ Goto(r, "failed")
    /\ UNCHANGED <<cursor, health, tries, mirror, left, lanes, since>>

\* A lane brings an empty stream: its own mirror is charged.
LaneEmpty(r, m) ==
    /\ at[r] = "racing"
    /\ lanes[r] > 0
    /\ m \in sentTo[r]
    /\ Note(m, FALSE)
    /\ lanes' = [lanes EXCEPT ![r] = @ - 1]
    /\ UNCHANGED <<cursor, at, tries, mirror, left, sentTo, since>>

RaceEnds(r, l, m) ==
    /\ at[r] = "racing"
    /\ Goto(r, l)
    /\ mirror' = [mirror EXCEPT ![r] = m]
    /\ lanes' = [lanes EXCEPT ![r] = 0]
    /\ UNCHANGED <<cursor, health, tries, left, sentTo, since>>

RaceLost(r) == RaceEnds(r, "failed", mirror[r])
RaceLimited(r) == lanes[r] > 0 /\ RaceEnds(r, "limited", mirror[r])
RaceWon(r, m) ==
    /\ lanes[r] > 0
    /\ m \in sentTo[r]
    /\ RaceEnds(r, "won", m)

\* The client is gone or the deadline has passed: no mirror's fault.
Cancelled(r) ==
    /\ at[r] \in {"race", "racing"}
    /\ LeaveMirror(r, "idle")
    /\ UNCHANGED health

\* dispatch charges the mirror it picked: for an error if the breaker is not
\* held, for a retryable response always.
ChargePicked(r) ==
    /\ at[r] \in {"failed", "limited"}
    /\ Note(mirror[r], FALSE)
    /\ LeaveMirror(r, "pick")

SparePicked(r) ==
    /\ at[r] = "failed"
    /\ LeaveMirror(r, "pick")
    /\ UNCHANGED health

\* And credits the one that answered.
CreditWinner(r) ==
    /\ at[r] = "won"
    /\ Note(mirror[r], TRUE)
    /\ Goto(r, "stream")
    /\ UNCHANGED <<cursor, requestVars, since>>

\* Complete or cut off: noteStreamTruncation books a cut under the upstream as
\* the trace names it, by its host (shortUpstream), which pickUpstream never
\* looks up.
StreamEnds(r) ==
    /\ at[r] = "stream"
    /\ LeaveMirror(r, "idle")
    /\ UNCHANGED health

\* The model list is fetched from the pool beside all requests.
FetchModels(m, ok) ==
    /\ Note(m, ok)
    /\ UNCHANGED <<cursor, at, requestVars, since>>

Tick ==
    /\ health' = [m \in Mirrors |-> [health[m] EXCEPT !.cooling = Max({0, @ - 1})]]
    /\ UNCHANGED <<cursor, at, requestVars, since>>

MirrorNext ==
    \/ \E r \in Requests :
        \/ MirrorDispatch(r) \/ PickMirror(r) \/ GiveUp(r)
        \/ NothingLeft(r) \/ RaceLost(r) \/ RaceLimited(r) \/ Cancelled(r)
        \/ \E k \in 1 .. MaxLanes : Race(r, k)
        \/ \E m \in Mirrors : LaneEmpty(r, m) \/ RaceWon(r, m)
        \/ ChargePicked(r) \/ SparePicked(r) \/ CreditWinner(r)
        \/ StreamEnds(r)
    \/ \E m \in Mirrors, ok \in BOOLEAN : FetchModels(m, ok)
    \/ Tick

MirrorSpec == MirrorInit /\ [][MirrorNext]_mirrorVars

-----------------------------------------------------------------------------

MirrorTypeOK ==
    /\ cursor \in 0 .. N - 1
    /\ health \in [Mirrors -> [fails : 0 .. Threshold - 1, cooling : 0 .. Cooldown]]
    /\ at \in [Requests -> {"idle", "pick", "race", "racing", "failed", "limited",
                            "won", "stream"}]
    /\ tries \in [Requests -> 0 .. MaxTries]
    /\ mirror \in [Requests -> Mirrors]
    /\ left \in [Requests -> 0 .. MaxLanes]
    /\ lanes \in [Requests -> 0 .. MaxLanes]
    /\ sentTo \in [Requests -> SUBSET Mirrors]
    /\ since \in [Mirrors -> Nat]

\* pickUpstream rotates: whatever the other mirrors go through, and however
\* requests share the cursor, a mirror that is ready is picked before every
\* other has been picked twice.
NoMirrorStarves == \A m \in Mirrors : since[m] < N
=============================================================================
