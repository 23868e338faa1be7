--------------------------- MODULE SseGuardProofs ---------------------------
(***************************************************************************)
(* Proofs about SseGuard, for any number of Finish calls, heartbeats and   *)
(* pieces of the answer.                                                   *)
(***************************************************************************)
EXTENDS SseGuard, TLAPS

Writing == {"head", "beat"}
BeforeTakeover == {"dispatch", "finish", "closing", "waiting"}

\* The mutex is run's exactly while it writes, and once done is set run
\* neither holds it nor takes it again.
MutexInv ==
    /\ mu = "run" <=> runAt \in Writing
    /\ done => mu = "free"
    /\ handlerAt \notin {"dispatch", "finish"} => done
    /\ finished > 0 => done

\* Which head is out, by where the two goroutines are.
HeadInv ==
    /\ runAt \in {"grace", "wantHead"} => ~committed
    /\ runAt \in {"head", "beat", "beating", "wantBeat"} => committed
    /\ ~committed => head # "early"
    /\ committed /\ runAt # "head" => head = "early"
    /\ committed /\ runAt = "head" => head = "none"
    /\ handlerAt \in BeforeTakeover \cup {"takeover"} => head # "final"
    /\ handlerAt = "heading" => ~committed /\ head = "none"
    /\ handlerAt = "answering" => head # "none"

\* The answer begins after the last call of Finish; then the handler goes.
AnswerInv ==
    /\ handlerAt \in BeforeTakeover => chunks = 0 /\ finished < FinishCalls
    /\ open <=> handlerAt # "gone"

Inv == GuardTypeOK /\ MutexInv /\ HeadInv /\ AnswerInv

LEMMA InitInv == GuardInit => Inv
<1> SUFFICES ASSUME GuardInit PROVE Inv
    OBVIOUS
<1> USE DEF GuardInit
<1>1. GuardTypeOK
    <2>1. 0 \in 0 .. FinishCalls
        BY GuardAssumption
    <2> QED
        BY <2>1 DEF GuardTypeOK
<1>2. MutexInv
    BY DEF MutexInv, Writing
<1>3. HeadInv
    BY DEF HeadInv
<1>4. AnswerInv
    BY GuardAssumption DEF AnswerInv
<1> QED
    BY <1>1, <1>2, <1>3, <1>4 DEF Inv

LEMMA NextInv == Inv /\ [GuardNext]_guardVars => Inv'
<1> SUFFICES ASSUME Inv, [GuardNext]_guardVars PROVE Inv'
    OBVIOUS
<1> USE GuardAssumption DEF Inv, GuardTypeOK, MutexInv, HeadInv, AnswerInv, Writing, BeforeTakeover,
        response
<1>1. CASE TimerFires
    BY <1>1 DEF TimerFires
<1>2. CASE TickerFires
    BY <1>2 DEF TickerFires
<1>3. CASE SeesQuit
    BY <1>3 DEF SeesQuit, Stop
<1>4. CASE LockHead
    <2>1. CASE done
        BY <1>4, <2>1 DEF LockHead, Stop
    <2>2. CASE ~done
        <3>1. handlerAt \in {"dispatch", "finish"} /\ head = "none"
            BY <1>4, <2>2 DEF LockHead
        <3>2. runAt' = "head" /\ mu' = "run" /\ committed' = TRUE
            BY <1>4, <2>2 DEF LockHead
        <3>3. UNCHANGED <<handlerAt, finished, done, quit, stopped, response>>
            BY <1>4, <2>2 DEF LockHead
        <3> QED
            BY <2>2, <3>1, <3>2, <3>3
    <2> QED
        BY <2>1, <2>2
<1>5. CASE LockBeat
    BY <1>5 DEF LockBeat, Stop
<1>6. CASE WriteHead
    BY <1>6 DEF WriteHead
<1>7. CASE WriteBeat
    BY <1>7 DEF WriteBeat
<1>8. CASE DispatchReturns
    BY <1>8 DEF DispatchReturns, HandlerGoes
<1>9. CASE SetDone
    BY <1>9 DEF SetDone, HandlerGoes
<1>10. CASE CloseQuit
    BY <1>10 DEF CloseQuit, HandlerGoes
<1>11. CASE FinishReturns
    BY <1>11 DEF FinishReturns, HandlerGoes
<1>12. CASE ClientGone
    BY <1>12 DEF ClientGone, HandlerGoes
<1>13. CASE AskCommitted
    BY <1>13 DEF AskCommitted, HandlerGoes
<1>14. CASE WriteFinalHead
    BY <1>14 DEF WriteFinalHead, HandlerGoes
<1>15. CASE WriteChunk
    BY <1>15 DEF WriteChunk
<1>16. CASE AnswerEnds
    BY <1>16 DEF AnswerEnds, HandlerGoes
<1>17. CASE LeaveHandler
    BY <1>17 DEF LeaveHandler, HandlerGoes
<1>18. CASE UNCHANGED guardVars
    BY <1>18 DEF guardVars
<1> QED
    BY <1>1, <1>2, <1>3, <1>4, <1>5, <1>6, <1>7, <1>8, <1>9, <1>10, <1>11, <1>12, <1>13,
       <1>14, <1>15, <1>16, <1>17, <1>18 DEF GuardNext, Run, Handler

LEMMA Invariance == GuardSpec => []Inv
BY InitInv, NextInv, PTL DEF GuardSpec

\* The guard's state stays well-typed, for any bounds.
THEOREM TypeCorrect == GuardSpec => []GuardTypeOK
BY Invariance, PTL DEF Inv

\* Finish's promise: after it returns, and even before, from the moment done
\* is set, run never writes.  The two goroutines exclude each other.
THEOREM WritersExclude == GuardSpec => []OneWriter
<1>1. Inv => OneWriter
    BY DEF Inv, GuardTypeOK, MutexInv, Writing, OneWriter
<1> QED
    BY <1>1, Invariance, PTL

\* The handler's reading of Committed cannot be stale when it is used.
THEOREM TakeoverSafe == GuardSpec => []TakeoverMatchesHead
<1>1. Inv => TakeoverMatchesHead
    BY DEF Inv, HeadInv, TakeoverMatchesHead
<1> QED
    BY <1>1, Invariance, PTL

\* The guard and the handler together keep what the client is promised: one
\* head, heartbeats only before the answer, nothing after the handler.
THEOREM Refinement == GuardSpec => KeepsPromise
<1>1. GuardInit => Promise!Init
    BY DEF GuardInit, Promise!Init
<1>2. Inv /\ [GuardNext]_guardVars => [Promise!Next]_(Promise!vars)
    <2> SUFFICES ASSUME Inv, [GuardNext]_guardVars PROVE [Promise!Next]_(Promise!vars)
        OBVIOUS
    <2> USE DEF response, Promise!vars
    <2>1. CASE WriteHead
        <3>1. head = "none" /\ open
            BY <2>1 DEF WriteHead, Inv, MutexInv, HeadInv, AnswerInv, Writing
        <3> QED
            BY <2>1, <3>1 DEF WriteHead, Promise!Next, Promise!Head
    <2>2. CASE WriteBeat
        <3>1. head = "early" /\ open /\ chunks = 0
            BY <2>2 DEF WriteBeat, Inv, MutexInv, HeadInv, AnswerInv, Writing, BeforeTakeover
        <3> QED
            BY <2>2, <3>1 DEF WriteBeat, Promise!Next, Promise!Beat
    <2>3. CASE WriteFinalHead
        <3>1. head = "none" /\ open
            BY <2>3 DEF WriteFinalHead, HandlerGoes, Inv, HeadInv, AnswerInv
        <3> QED
            BY <2>3, <3>1 DEF WriteFinalHead, Promise!Next, Promise!Head
    <2>4. CASE WriteChunk
        <3>1. head # "none" /\ open
            BY <2>4 DEF WriteChunk, Inv, HeadInv, AnswerInv
        <3> QED
            BY <2>4, <3>1 DEF WriteChunk, Promise!Next, Promise!Chunk
    <2>5. CASE LeaveHandler
        <3>1. open
            BY <2>5 DEF LeaveHandler, HandlerGoes, Inv, AnswerInv
        <3> QED
            BY <2>5, <3>1 DEF LeaveHandler, Promise!Next, Promise!Close
    <2>6. CASE TimerFires \/ TickerFires \/ SeesQuit \/ LockHead \/ LockBeat
        BY <2>6 DEF TimerFires, TickerFires, SeesQuit, LockHead, LockBeat
    <2>7. CASE DispatchReturns \/ SetDone \/ CloseQuit \/ FinishReturns \/ ClientGone
               \/ AskCommitted \/ AnswerEnds
        BY <2>7 DEF DispatchReturns, SetDone, CloseQuit, FinishReturns, ClientGone,
                    AskCommitted, AnswerEnds
    <2>8. CASE UNCHANGED guardVars
        BY <2>8 DEF guardVars
    <2> QED
        BY <2>1, <2>2, <2>3, <2>4, <2>5, <2>6, <2>7, <2>8 DEF GuardNext, Run, Handler
<1> QED
    BY <1>1, <1>2, Invariance, PTL DEF GuardSpec, KeepsPromise, Promise!Spec
=============================================================================
