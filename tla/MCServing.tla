----------------------------- MODULE MCServing -----------------------------
(***************************************************************************)
(* Small instances of what runs side by side while a request is served:    *)
(* the keep-alive guard beside the handler that writes to the client, and  *)
(* the race of attempts through the exits.  They share no state; each      *)
(* behaviour is one of one of them, the other rests, and is fair to the    *)
(* one that runs: what they do side by side is what each does alone.       *)
(*                                                                         *)
(* Benches and probations are of one tick, with a bench for every failure. *)
(***************************************************************************)
EXTENDS SseGuard, DispatchRace

VARIABLE serving  \* the component that runs

Ladder == <<1>>

-----------------------------------------------------------------------------
ServingInit ==
    /\ serving \in {"guard", "race"}
    /\ GuardInit /\ RaceInit

ServingNext ==
    /\ UNCHANGED serving
    /\ IF serving = "guard" THEN GuardNext ELSE UNCHANGED guardVars
    /\ IF serving = "race" THEN RaceNext ELSE UNCHANGED raceVars

\* GuardFairness and RaceFairness, each for the part that runs.
Runs(part, A) == serving = part /\ A

ServingFairness ==
    /\ WF_guardVars(Runs("guard", Run)) /\ WF_guardVars(Runs("guard", Handler))
    /\ SF_guardVars(Runs("guard", SetDone))
    /\ WF_raceVars(Runs("race", Clock))
    /\ \A r \in Requests : /\ WF_raceVars(Runs("race", Loop(r)))
                           /\ \A x \in Lanes : WF_raceVars(Runs("race", Land(r, x)))

ServingSpec == ServingInit /\ [][ServingNext]_<<serving, guardVars, raceVars>> /\ ServingFairness
=============================================================================
