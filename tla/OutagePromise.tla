--------------------------- MODULE OutagePromise ---------------------------
(***************************************************************************)
(* What the global outage breaker promises to its callers, without saying  *)
(* how the evidence is weighed.  While the breaker is held, penalties are  *)
(* frozen; the hold                                                        *)
(*   - never reaches further than HoldQuiet beyond the present,            *)
(*   - lets one probe through at most, and                                 *)
(*   - is cut short by a success only once that probe is out.              *)
(***************************************************************************)
EXTENDS Integers

CONSTANT HoldQuiet  \* how long one piece of evidence can hold the breaker

VARIABLES now, until, probed

vars == <<now, until, probed>>

Held == now < until

Init ==
    /\ now = 0
    /\ until = -1      \* the zero time: long past
    /\ probed = FALSE

\* Evidence arrives.  It moves the end of the hold, never beyond
\* now + HoldQuiet; only outside a hold may it re-arm the probe.
Evidence ==
    /\ until' <= now + HoldQuiet
    /\ \/ probed' = probed
       \/ ~Held /\ probed' = FALSE
    /\ UNCHANGED now

\* The single probe of a hold leaves.
Probe ==
    /\ Held
    /\ ~probed
    /\ probed' = TRUE
    /\ UNCHANGED <<now, until>>

\* A success ends the hold early, and spends the probe that earned it.
Release ==
    /\ Held
    /\ probed
    /\ until' = now
    /\ probed' = FALSE
    /\ UNCHANGED now

TimePasses ==
    /\ now' > now
    /\ UNCHANGED <<until, probed>>

Next == Evidence \/ Probe \/ Release \/ TimePasses

Spec == Init /\ [][Next]_vars
=============================================================================
