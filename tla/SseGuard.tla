------------------------------ MODULE SseGuard ------------------------------
(***************************************************************************)
(* The keep-alive of a streaming request (sseGuard in main.go) and the     *)
(* handler that takes its ResponseWriter over.                             *)
(*                                                                         *)
(* run is a goroutine: after a grace period it commits the response head,  *)
(* then writes heartbeats.  The handler dispatches, calls Finish (once in  *)
(* handlePost and again in finish), asks whether the head is out and       *)
(* writes the answer.  A write of run happens under the mutex and may      *)
(* take long, so taking the mutex, writing and releasing it are steps of   *)
(* their own; the other critical sections are one step each.               *)
(***************************************************************************)
EXTENDS Naturals

CONSTANTS
    FinishCalls,  \* how often the handler calls Finish
    MaxBeats,     \* bound: the ticker falls silent after so many heartbeats
    MaxChunks     \* bound: an answer has no more pieces than this

ASSUME GuardAssumption ==
    /\ FinishCalls \in Nat \ {0}
    /\ MaxBeats \in Nat
    /\ MaxChunks \in Nat

VARIABLES
    runAt,      \* where run is
    handlerAt,  \* where the handler is
    finished,   \* calls of Finish that have returned
    mu,         \* sseGuard.mu: "free" or held by "run"
    done,       \* sseGuard.done
    committed,  \* sseGuard.committed
    quit,       \* sseGuard.quit is closed
    stopped,    \* sseGuard.stopped is closed
    head, beats, chunks, open  \* the response, as in ClientPromise

response == <<head, beats, chunks, open>>
guardVars == <<runAt, handlerAt, finished, mu, done, committed, quit, stopped, response>>

GuardInit ==
    /\ runAt = "grace"
    /\ handlerAt = "dispatch"
    /\ finished = 0
    /\ mu = "free"
    /\ done = FALSE
    /\ committed = FALSE
    /\ quit = FALSE
    /\ stopped = FALSE
    /\ head = "none"
    /\ beats = 0
    /\ chunks = 0
    /\ open = TRUE

-----------------------------------------------------------------------------
(* run.                                                                    *)

\* Deviation: run leaves without closing stopped.
StopSilently ==
    /\ runAt' = "stopped"
    /\ UNCHANGED <<mu, committed, stopped>>

\* The deferred close(stopped).
Stop ==
    /\ runAt' = "stopped"
    /\ stopped' = TRUE
    /\ UNCHANGED <<mu, committed>>

TimerFires ==
    /\ runAt = "grace"
    /\ runAt' = "wantHead"
    /\ UNCHANGED <<handlerAt, finished, mu, done, committed, quit, stopped, response>>

TickerFires ==
    /\ runAt = "beating"
    /\ beats < MaxBeats
    /\ runAt' = "wantBeat"
    /\ UNCHANGED <<handlerAt, finished, mu, done, committed, quit, stopped, response>>

SeesQuit ==
    /\ runAt \in {"grace", "beating"}
    /\ quit
    /\ Stop
    /\ UNCHANGED <<handlerAt, finished, done, quit, response>>

\* The mutex is taken, and done looked at before anything is written.
LockHead ==
    /\ runAt = "wantHead"
    /\ mu = "free"
    /\ \/ done /\ Stop
       \/ /\ ~done
          /\ runAt' = "head"
          /\ mu' = "run"
          /\ committed' = TRUE
          /\ UNCHANGED stopped
    /\ UNCHANGED <<handlerAt, finished, done, quit, response>>

LockBeat ==
    /\ runAt = "wantBeat"
    /\ mu = "free"
    /\ \/ done /\ Stop
       \/ /\ ~done
          /\ runAt' = "beat"
          /\ mu' = "run"
          /\ UNCHANGED <<committed, stopped>>
    /\ UNCHANGED <<handlerAt, finished, done, quit, response>>

WriteHead ==
    /\ runAt = "head"
    /\ runAt' = "beat"
    /\ head' = "early"
    /\ UNCHANGED <<handlerAt, finished, mu, done, committed, quit, stopped,
                   beats, chunks, open>>

\* beatLocked, and the unlock.
WriteBeat ==
    /\ runAt = "beat"
    /\ runAt' = "beating"
    /\ beats' = beats + 1
    /\ mu' = "free"
    /\ UNCHANGED <<handlerAt, finished, done, committed, quit, stopped,
                   head, chunks, open>>

Run == TimerFires \/ TickerFires \/ SeesQuit \/ LockHead \/ LockBeat \/ WriteHead \/ WriteBeat

-----------------------------------------------------------------------------
(* The handler.                                                            *)

HandlerGoes(l, m) == handlerAt = l /\ handlerAt' = m

DispatchReturns ==
    /\ HandlerGoes("dispatch", "finish")
    /\ UNCHANGED <<runAt, finished, mu, done, committed, quit, stopped, response>>

\* Deviation: as long as no heartbeat is out, Finish returns at once.
SetDoneIfCommitted ==
    /\ HandlerGoes("finish", IF committed THEN "closing" ELSE "takeover")
    /\ mu = "free"
    /\ done' = committed
    /\ UNCHANGED <<runAt, finished, mu, committed, quit, stopped, response>>

\* Finish: done is set under the mutex,
SetDone ==
    /\ HandlerGoes("finish", "closing")
    /\ mu = "free"
    /\ done' = TRUE
    /\ UNCHANGED <<runAt, finished, mu, committed, quit, stopped, response>>

\* quit is closed, once,
CloseQuit ==
    /\ HandlerGoes("closing", "waiting")
    /\ quit' = TRUE
    /\ UNCHANGED <<runAt, finished, mu, done, committed, stopped, response>>

\* and run is waited for.
FinishReturns ==
    /\ stopped
    /\ finished' = finished + 1
    /\ HandlerGoes("waiting", IF finished + 1 < FinishCalls THEN "finish" ELSE "takeover")
    /\ UNCHANGED <<runAt, mu, done, committed, quit, stopped, response>>

\* finish writes nothing for a client that is gone.
ClientGone ==
    /\ HandlerGoes("takeover", "returning")
    /\ UNCHANGED <<runAt, finished, mu, done, committed, quit, stopped, response>>

\* Committed.
AskCommitted ==
    /\ HandlerGoes("takeover", IF committed THEN "answering" ELSE "heading")
    /\ mu = "free"
    /\ UNCHANGED <<runAt, finished, mu, done, committed, quit, stopped, response>>

\* writeGatewayResponse: the head is still the handler's to write.
WriteFinalHead ==
    /\ HandlerGoes("heading", "answering")
    /\ head' = "final"
    /\ UNCHANGED <<runAt, finished, mu, done, committed, quit, stopped,
                   beats, chunks, open>>

\* A piece of the body, of either writer of the answer.
WriteChunk ==
    /\ handlerAt = "answering"
    /\ chunks < MaxChunks
    /\ chunks' = chunks + 1
    /\ UNCHANGED <<runAt, handlerAt, finished, mu, done, committed, quit, stopped,
                   head, beats, open>>

AnswerEnds ==
    /\ HandlerGoes("answering", "returning")
    /\ UNCHANGED <<runAt, finished, mu, done, committed, quit, stopped, response>>

LeaveHandler ==
    /\ HandlerGoes("returning", "gone")
    /\ open' = FALSE
    /\ UNCHANGED <<runAt, finished, mu, done, committed, quit, stopped,
                   head, beats, chunks>>

Handler ==
    \/ DispatchReturns \/ SetDone \/ CloseQuit \/ FinishReturns
    \/ ClientGone \/ AskCommitted \/ WriteFinalHead \/ WriteChunk
    \/ AnswerEnds \/ LeaveHandler

GuardNext == Run \/ Handler

GuardSpec == GuardInit /\ [][GuardNext]_guardVars

\* Both goroutines run.  The mutex of Go is not fair step by step, but hands
\* over to a waiter it has starved for a millisecond: strong fairness.
GuardFairness ==
    /\ WF_guardVars(Run)
    /\ WF_guardVars(Handler)
    /\ SF_guardVars(SetDone)

GuardFairSpec == GuardSpec /\ GuardFairness

-----------------------------------------------------------------------------

GuardTypeOK ==
    /\ runAt \in {"grace", "wantHead", "head", "beat", "beating", "wantBeat", "stopped"}
    /\ handlerAt \in {"dispatch", "finish", "closing", "waiting", "takeover", "heading",
                      "answering", "returning", "gone"}
    /\ finished \in 0 .. FinishCalls
    /\ mu \in {"free", "run"}
    /\ done \in BOOLEAN
    /\ committed \in BOOLEAN
    /\ quit \in BOOLEAN
    /\ stopped \in BOOLEAN
    /\ open \in BOOLEAN
    /\ head \in {"none", "early", "final"}
    /\ beats \in Nat
    /\ chunks \in Nat

\* Finish: once it has returned, run writes no more.  So the two goroutines
\* never hold the ResponseWriter at the same time.
OneWriter ==
    runAt \in {"head", "beat"} => handlerAt \in {"dispatch", "finish"}

\* The handler's answer to "is the head out?" is still right when it acts on
\* it: it never writes a second head, nor a body without one.
TakeoverMatchesHead ==
    /\ handlerAt = "heading" => head = "none"
    /\ handlerAt = "answering" => head # "none"

\* However late it is called, and though it is called twice, Finish returns,
\* and the handler with it.
HandlerReturns == handlerAt = "finish" ~> handlerAt = "gone"

\* The response keeps what the client is promised.
Promise == INSTANCE ClientPromise
KeepsPromise == Promise!Spec
=============================================================================
