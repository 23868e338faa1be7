----------------------------- MODULE M365Bridge -----------------------------
(***************************************************************************)
(* A request that goes to the built-in M365 supplier: dispatchM365 and     *)
(* m365StreamResponse of m365bridge.go, over Engine.Chat.                  *)
(*                                                                         *)
(* A whole answer is made inside the call.  A stream is made by a          *)
(* goroutine that writes to a pipe, of which the handler reads once        *)
(* dispatchM365 has returned; each write waits until it is read.  The      *)
(* deferred cancel of dispatchM365 runs when it returns.                   *)
(***************************************************************************)
EXTENDS M365Store

CONSTANTS Streams  \* the callers that ask for a stream

ASSUME StreamsAssumption == Streams \subseteq Callers

VARIABLES
    handler,  \* per caller: "idle", in "dispatch", "reading", at the "end", "gone"
    chat,     \* per caller: Engine.Chat is "off", "picking", "talking", or has "ended"
    ctx,      \* per caller: runCtx is "live", or was ended by "return" or "cause"
    pipe,     \* per caller: "open", or closed by the "writer" or the "reader"
    writing,  \* per caller: the piece that waits to be read
    last      \* per caller: the piece read last

bridgeVars == <<handler, chat, ctx, pipe, writing, last>>
allVars == <<m365Vars, bridgeVars>>

Nothing == "nothing"
Pieces == {"text", "finish", "error"}

Set(f, c, v) == [f EXCEPT ![c] = v]

BridgeInit ==
    /\ StoreInit
    /\ handler = [c \in Callers |-> "idle"]
    /\ chat = [c \in Callers |-> "off"]
    /\ ctx = [c \in Callers |-> "live"]
    /\ pipe = [c \in Callers |-> "open"]
    /\ writing = [c \in Callers |-> Nothing]
    /\ last = [c \in Callers |-> Nothing]

\* A request arrives; for a stream this is the start of the goroutine.
Dispatch(c) ==
    /\ handler[c] = "idle"
    /\ handler' = Set(handler, c, "dispatch")
    /\ chat' = Set(chat, c, "picking")
    /\ UNCHANGED <<m365Vars, ctx, pipe, writing, last>>

\* m365StreamResponse returns, and dispatchM365 with it: cancel() runs.
StreamReturned(c) ==
    /\ c \in Streams /\ handler[c] = "dispatch"
    /\ handler' = Set(handler, c, "reading")
    /\ ctx' = Set(ctx, c, IF ctx[c] = "live" THEN "return" ELSE ctx[c])
    /\ UNCHANGED <<m365Vars, chat, pipe, writing, last>>

\* The time limit is over, or the client has gone.
TimesOut(c) ==
    /\ handler[c] # "idle" /\ ctx[c] = "live"
    /\ ctx' = Set(ctx, c, "cause")
    /\ UNCHANGED <<m365Vars, handler, chat, pipe, writing, last>>

\* pickAccount, which does not look at the context.
PickAccount(c) ==
    /\ chat[c] = "picking"
    /\ Ask(c) \/ Pick(c) \/ Upstream(c)
    /\ UNCHANGED bridgeVars

\* Deviation: an error closes the stream without a word.
OverSilently(c, piece) ==
    /\ chat' = Set(chat, c, "ended")
    /\ writing' = IF c \in Streams /\ pipe[c] = "open" /\ piece = "finish"
                  THEN Set(writing, c, piece) ELSE writing
    /\ UNCHANGED <<m365Vars, handler, ctx, pipe, last>>

\* Chat is over: the stream ends with its last piece, an error or the finish.
Over(c, piece) ==
    /\ chat' = Set(chat, c, "ended")
    /\ writing' = IF c \in Streams /\ pipe[c] = "open" THEN Set(writing, c, piece) ELSE writing
    /\ UNCHANGED <<m365Vars, handler, ctx, pipe, last>>

Dialing(c) == chat[c] = "picking" /\ at[c] = "picked"
Talking(c) == chat[c] = "talking" /\ writing[c] = Nothing

Refused(c) == chat[c] = "picking" /\ at[c] = "refused" /\ Over(c, "error")

\* The dial, or the wait for the next frame, ends when the context does.
CutOff(c) ==
    /\ Dialing(c) \/ Talking(c)
    /\ ctx[c] # "live"
    /\ Over(c, "error")

Connect(c) ==
    /\ Dialing(c) /\ ctx[c] = "live"
    /\ chat' = Set(chat, c, "talking")
    /\ UNCHANGED <<m365Vars, handler, ctx, pipe, writing, last>>

\* emitDelta asks the context before it sends.
Delta(c) ==
    /\ c \in Streams /\ Talking(c) /\ ctx[c] = "live" /\ pipe[c] = "open"
    /\ writing' = Set(writing, c, "text")
    /\ UNCHANGED <<m365Vars, handler, chat, ctx, pipe, last>>

\* The upstream's error, or a write to a pipe nobody reads any more.
ChatFails(c) ==
    /\ Dialing(c) \/ Talking(c)
    /\ Over(c, "error")

ChatEnds(c) == Talking(c) /\ Over(c, "finish")

\* The handler of a stream.
Read(c) ==
    /\ handler[c] = "reading" /\ writing[c] # Nothing
    /\ last' = Set(last, c, writing[c])
    /\ writing' = Set(writing, c, Nothing)
    /\ UNCHANGED <<m365Vars, handler, chat, ctx, pipe>>

\* Deviation: after an error the pipe is left open.
ClosePipeAfterFinish(c) ==
    /\ c \in Streams /\ chat[c] = "ended" /\ writing[c] = Nothing /\ pipe[c] = "open"
    /\ last[c] = "finish"
    /\ pipe' = Set(pipe, c, "writer")
    /\ UNCHANGED <<m365Vars, handler, chat, ctx, writing, last>>

\* The deferred Close.
ClosePipe(c) ==
    /\ c \in Streams /\ chat[c] = "ended" /\ writing[c] = Nothing /\ pipe[c] = "open"
    /\ pipe' = Set(pipe, c, "writer")
    /\ UNCHANGED <<m365Vars, handler, chat, ctx, writing, last>>

ReadEnd(c) ==
    /\ handler[c] = "reading" /\ pipe[c] = "writer"
    /\ handler' = Set(handler, c, "end")
    /\ UNCHANGED <<m365Vars, chat, ctx, pipe, writing, last>>

\* The client has gone: live.cancel closes the pipe, which ends a write.
HangUp(c) ==
    /\ handler[c] = "reading"
    /\ handler' = Set(handler, c, "gone")
    /\ pipe' = IF pipe[c] = "open" THEN Set(pipe, c, "reader") ELSE pipe
    /\ writing' = Set(writing, c, Nothing)
    /\ UNCHANGED <<m365Vars, chat, ctx, last>>

\* Both are done with the request.
RequestEnds(c) ==
    /\ chat[c] = "ended"
    /\ IF c \in Streams THEN handler[c] \in {"end", "gone"} ELSE TRUE
    /\ Leave(c)
    /\ handler' = Set(handler, c, "idle")
    /\ chat' = Set(chat, c, "off")
    /\ ctx' = Set(ctx, c, "live")
    /\ pipe' = Set(pipe, c, "open")
    /\ writing' = Set(writing, c, Nothing)
    /\ last' = Set(last, c, Nothing)

\* What the goroutine, or the call, does by itself.
Produce(c) ==
    PickAccount(c) \/ Refused(c) \/ CutOff(c) \/ Connect(c) \/ ClosePipe(c) \/ RequestEnds(c)

Consume(c) == StreamReturned(c) \/ Read(c) \/ ReadEnd(c)

BridgeNext ==
    \/ \E c \in Callers :
        \/ Dispatch(c) \/ Produce(c) \/ Consume(c)
        \/ TimesOut(c) \/ HangUp(c)
        \/ Delta(c) \/ ChatFails(c) \/ ChatEnds(c)
    \/ Others /\ UNCHANGED bridgeVars

BridgeSpec == BridgeInit /\ [][BridgeNext]_allVars

\* Both goroutines go on, the time limit comes, and the client of the token
\* endpoint has a timeout of its own.  The upstream need never answer.
BridgeFairSpec ==
    /\ BridgeSpec
    /\ \A c \in Callers :
        WF_allVars(Produce(c)) /\ WF_allVars(Consume(c)) /\ WF_allVars(TimesOut(c))

-----------------------------------------------------------------------------
\* Properties.

\* Every variable has its type.
BridgeTypeOK ==
    /\ StoreTypeOK
    /\ handler \in [Callers -> {"idle", "dispatch", "reading", "end", "gone"}]
    /\ chat \in [Callers -> {"off", "picking", "talking", "ended"}]
    /\ ctx \in [Callers -> {"live", "return", "cause"}]
    /\ pipe \in [Callers -> {"open", "writer", "reader"}]
    /\ writing \in [Callers -> Pieces \cup {Nothing}]
    /\ last \in [Callers -> Pieces \cup {Nothing}]

\* A client that read to the end of its stream got a finish or an error as the
\* last piece: no answer just breaks off.  (m365bridge.go 214-215.)
StreamEndsMarked == \A c \in Callers : handler[c] = "end" => last[c] \in {"finish", "error"}

\* Every request ends, refreshes, waits and vanished clients notwithstanding:
\* no goroutine is left at the pipe or at a refresh.
EveryRequestEnds == \A c \in Callers : handler[c] = "dispatch" ~> handler[c] = "idle"

\* m365bridge.go 170-171 say the context is there to end a chat that takes too
\* long: no stream is cut off while its client listens and its time runs.
StreamOutlivesDispatch ==
    [][\A c \in Callers : CutOff(c) => ctx[c] = "cause" \/ handler[c] = "gone"]_allVars

=============================================================================
