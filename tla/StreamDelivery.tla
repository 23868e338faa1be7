---------------------------- MODULE StreamDelivery ----------------------------
(***************************************************************************)
(* How a response reaches the client (main.go finish, streamResponse and   *)
(* the writers, holdback.go, streamresume.go, the buffering of             *)
(* ssehygiene.go).  The head of a stream is held back until it is          *)
(* complete, or the window or the buffer is full: a stream that is cut     *)
(* before is silently asked for again.  Then it passes through, line by    *)
(* line; one that is cut there may get a tail from a second request.       *)
(*                                                                         *)
(* A stream is a sequence of events; it may be cut after any of them, or   *)
(* within the line of one.  The sanitizer keeps the head of a line until   *)
(* the rest of it comes.                                                   *)
(*                                                                         *)
(* What really ends a stream, its last event, is one thing; what the code  *)
(* takes for an end is another: a line with one of streamTerminals in it.  *)
(* "finish_reason":null is among them, which most upstreams send with      *)
(* every chunk of a chat, and so may be any word of a text.                *)
(***************************************************************************)
EXTENDS Integers, Sequences

CONSTANTS
    Scripts,      \* what an upstream may send: sequences of events
    HoldRetries,  \* holdbackRetries
    HoldMax       \* lines that fill the buffer of the holdback

EventKinds == {"text", "tool", "done"}
Sent == [kind : EventKinds, mark : BOOLEAN]  \* mark: one of streamTerminals is in its line

\* Only the last event is the end, and it carries a marker; any other may.
ASSUME DeliveryAssumption ==
    /\ HoldRetries \in Nat /\ HoldMax \in Nat
    /\ Scripts \subseteq Seq(Sent)
    /\ \A script \in Scripts : \A i \in DOMAIN script :
          script[i].kind = "done" => i = Len(script) /\ script[i].mark

VARIABLES
    dAt,       \* start, hold, pass, resume or done
    dTry,      \* streams asked for so far
    dBody,     \* what is still to be read of the current one
    dPend,     \* sseSanitizer.pending: the event whose line has begun, if any
    dHeld,     \* holdbackBuffer.buf
    dPrefix,   \* prefixedBody.prefix
    dOut,      \* the lines the client has got
    dReports,  \* the calls of observe: was it truncated?
    dGone      \* the client has hung up

deliveryVars == <<dAt, dTry, dBody, dPend, dHeld, dPrefix, dOut, dReports, dGone>>

\* the events of the n-th stream; the rest of a line; what is no event of one
Events(n, script) ==
    [i \in DOMAIN script |->
        [of |-> n, i |-> i, kind |-> script[i].kind, mark |-> script[i].mark, part |-> "whole"]]
Junk == [of |-> 0, i |-> 0, kind |-> "junk", mark |-> FALSE, part |-> "whole"]
RestOf(e) == [e EXCEPT !.part = "tail"]

\* a marker is among the bytes (streamComplete, terminalSeen)
Ends(lines) == \E k \in DOMAIN lines : lines[k].mark

DeliveryInit ==
    /\ dAt = "start" /\ dTry = 0 /\ dBody = <<>> /\ dPend = <<>>
    /\ dHeld = <<>> /\ dPrefix = <<>> /\ dOut = <<>> /\ dReports = <<>> /\ dGone = FALSE

-----------------------------------------------------------------------------
\* What is left of broken lines is no event, and may hold a marker that they held.
Garbled(marks) == {<<[Junk EXCEPT !.mark = m]>> : m \in {FALSE} \cup marks}

\* sseSanitizer.feed: what may be forwarded of the lines of a read.  A line that was
\* begun is put before the first one: together they are an event only if they
\* belong together, else they are dropped, or pass as what is no data line; and
\* the rest of a line whose head is gone passes as it is.
Joined(pend, line) ==
    IF pend = <<>>
    THEN IF line.part = "tail" THEN Garbled({line.mark}) ELSE {<<line>>}
    ELSE IF line = RestOf(pend[1]) THEN {pend} ELSE {<<>>} \cup Garbled({pend[1].mark, line.mark})

Fed(pend, lines) == {first \o Tail(lines) : first \in Joined(pend, Head(lines))}

\* sseSanitizer.flush: what was begun passes as it is.
Flushed(pend) == IF pend = <<>> THEN {<<>>} ELSE Garbled({pend[1].mark})

\* A read of the body brings its first event, and perhaps the head of the next,
\* which is kept; the rest is still to be read.
Begun == {<<>>} \cup (IF Len(dBody) > 1 THEN {<<dBody[2]>>} ELSE {})
Rest(begun) == IF begun = <<>> THEN Tail(dBody) ELSE [Tail(dBody) EXCEPT ![1] = RestOf(dBody[2])]

-----------------------------------------------------------------------------
\* finish: an error or a response that is no stream is written as a whole, in
\* the form the guard's head asks for; a stream is held back if that is on.
DeliverWhole ==
    /\ dAt = "start" /\ dAt' = "done"
    /\ \E kind \in {"body", "error"} : dOut' = <<[Junk EXCEPT !.kind = kind]>>
    /\ UNCHANGED <<dTry, dBody, dPend, dHeld, dPrefix, dReports, dGone>>

DeliverStream ==
    /\ dAt = "start" /\ dAt' \in {"hold", "pass"} /\ dTry' = 1
    /\ \E script \in Scripts : dBody' = Events(1, script)
    /\ UNCHANGED <<dPend, dHeld, dPrefix, dOut, dReports, dGone>>

\* The upstream breaks off, or is silent until the idle timer closes it.
Cut ==
    /\ dBody # <<>> /\ dAt \in {"hold", "pass"} /\ dBody' = <<>>
    /\ UNCHANGED <<dAt, dTry, dPend, dHeld, dPrefix, dOut, dReports, dGone>>

-----------------------------------------------------------------------------
\* writeWithHoldback.

\* Deviation: a full buffer counts as complete.
CompleteWhenFull(held, out) == Len(held \o out) >= HoldMax

\* streamComplete, of all that is held
Complete(held, out) == Ends(held \o out)

\* A read: complete, what is held is delivered and the rest is never read; full (or
\* the window is over), it is the prefix of what passes through; else it is held.
HoldRead ==
    /\ dAt = "hold" /\ dBody # <<>> /\ ~dGone
    /\ \E begun \in Begun : dPend' = begun /\ dBody' = Rest(begun)
    /\ \E out \in Fed(dPend, <<dBody[1]>>) : LET held == dHeld \o out IN
          \/ /\ Complete(dHeld, out)
             /\ dAt' = "done" /\ dOut' = held /\ dReports' = <<FALSE>> /\ dHeld' = <<>>
             /\ UNCHANGED dPrefix
          \/ /\ ~Complete(dHeld, out) /\ held # <<>>
             /\ dAt' = "pass" /\ dPrefix' = held /\ dHeld' = <<>>
             /\ UNCHANGED <<dOut, dReports>>
          \/ /\ ~Complete(dHeld, out) /\ Len(held) < HoldMax
             /\ dHeld' = held
             /\ UNCHANGED <<dAt, dPrefix, dOut, dReports>>
    /\ UNCHANGED <<dTry, dGone>>

\* Deviation: what was held of the stream that was cut is kept.
HeldAnew == dHeld

\* newHoldbackBuffer, for each stream
Held == <<>>

\* The stream ends before it is complete: another is asked for while there are
\* tries; if there is none, what is held passes through.
HoldCut ==
    /\ dAt = "hold" /\ dBody = <<>> /\ ~dGone
    /\ \/ /\ dTry <= HoldRetries
          /\ dTry' = dTry + 1 /\ dHeld' = Held
          /\ \E script \in Scripts : dBody' = Events(dTry + 1, script)
          /\ UNCHANGED <<dAt, dPrefix>>
       \/ /\ dAt' = "pass" /\ dPrefix' = dHeld /\ dHeld' = <<>>
          /\ UNCHANGED <<dTry, dBody>>
    /\ UNCHANGED <<dPend, dOut, dReports, dGone>>

-----------------------------------------------------------------------------
\* streamResponse.

\* The prefix is read, and sanitized, before the rest.
PassRead ==
    /\ dAt = "pass" /\ ~dGone
    /\ \/ /\ dPrefix # <<>> /\ dPrefix' = <<>>
          /\ \E out \in Fed(dPend, dPrefix) : dOut' = dOut \o out
          /\ dPend' = <<>>
          /\ UNCHANGED dBody
       \/ /\ dPrefix = <<>> /\ dBody # <<>>
          /\ \E out \in Fed(dPend, <<dBody[1]>>) : dOut' = dOut \o out
          /\ \E begun \in Begun : dPend' = begun /\ dBody' = Rest(begun)
          /\ UNCHANGED dPrefix
    /\ UNCHANGED <<dAt, dTry, dHeld, dReports, dGone>>

\* The watchdog closes a stream that dribbles: what it has just read is lost.
StallKill ==
    /\ dAt = "pass" /\ ~dGone /\ dPrefix = <<>> /\ dBody # <<>>
    /\ dBody' = <<>>
    /\ UNCHANGED <<dAt, dTry, dPend, dHeld, dPrefix, dOut, dReports, dGone>>

\* textCol.text, and whether resume may be tried: a chat stream without a marker
HasText(lines) == \E k \in DOMAIN lines : lines[k].kind = "text"

Eligible(lines) == HasText(lines) /\ ~Ends(lines)

\* finish: the rest of a line is flushed as it is, the outcome is reported (a
\* marker without text counts as truncated), and a tail may be asked for.  The
\* collector exists for chat streams only.
PassEnds ==
    /\ dAt = "pass" /\ ~dGone /\ dPrefix = <<>> /\ dBody = <<>>
    /\ \E rest \in Flushed(dPend) : LET lines == dOut \o rest IN
          /\ dOut' = lines
          /\ dReports' \in {Append(dReports, ~Ends(lines)), Append(dReports, ~Ends(lines) \/ ~HasText(lines))}
          /\ dAt' \in {"done"} \cup (IF Eligible(lines) THEN {"resume"} ELSE {})
    /\ dPend' = <<>>
    /\ UNCHANGED <<dTry, dBody, dHeld, dPrefix, dGone>>

\* resume: the tail is there as a whole, or nothing is.
Resume ==
    /\ dAt = "resume" /\ dAt' = "done"
    /\ dOut' \in {dOut, dOut \o <<[Junk EXCEPT !.kind = "tail"], [Junk EXCEPT !.kind = "done", !.mark = TRUE]>>}
    /\ UNCHANGED <<dTry, dBody, dPend, dHeld, dPrefix, dReports, dGone>>

\* The client hangs up: the next read fails, and nothing is reported.
HangUpClient ==
    /\ ~dGone /\ dAt \in {"hold", "pass"} /\ dGone' = TRUE
    /\ UNCHANGED <<dAt, dTry, dBody, dPend, dHeld, dPrefix, dOut, dReports>>

Abandon ==
    /\ dGone /\ dAt \in {"hold", "pass"} /\ dAt' = "done" /\ dHeld' = <<>>
    /\ UNCHANGED <<dTry, dBody, dPend, dPrefix, dOut, dReports, dGone>>

\* The next response.
DeliverNext ==
    /\ dAt = "done"
    /\ dAt' = "start" /\ dTry' = 0 /\ dBody' = <<>> /\ dPend' = <<>>
    /\ dHeld' = <<>> /\ dPrefix' = <<>> /\ dOut' = <<>> /\ dReports' = <<>> /\ dGone' = FALSE

DeliveryNext ==
    \/ DeliverWhole \/ DeliverStream \/ Cut \/ HoldRead \/ HoldCut \/ PassRead \/ StallKill
    \/ PassEnds \/ Resume \/ HangUpClient \/ Abandon \/ DeliverNext

DeliverySpec == DeliveryInit /\ [][DeliveryNext]_deliveryVars

-----------------------------------------------------------------------------
\* Nothing is held once it passes through, and a tail ends a delivery.
DeliveryTypeOK ==
    /\ dAt \in {"start", "hold", "pass", "resume", "done"}
    /\ dTry \in 0 .. (HoldRetries + 1)
    /\ Len(dPend) <= 1 /\ Len(dHeld) <= HoldMax
    /\ dAt # "hold" => dHeld = <<>>

\* What the client has got is of one stream and in its order, however many were
\* asked for and cut behind it and wherever their lines were broken: nothing of a
\* stream that was dropped, nothing twice, and one end (writeWithHoldback,
\* finish).
OneStream ==
    \A j, k \in DOMAIN dOut :
        /\ dOut[j].of # 0 /\ dOut[k].of # 0 => dOut[j].of = dOut[k].of /\ (j < k => dOut[j].i < dOut[k].i)
        /\ dOut[j].kind = "done" /\ dOut[k].kind = "done" => j = k

\* The outcome of a stream is reported once, unless the client left.  It is called
\* intact only if the client has got a marker, and never truncated if the client
\* has got the stream's own end and text (observe, writeWithHoldback).
ReportedOnce ==
    /\ Len(dReports) <= 1
    /\ dAt = "done" /\ dTry > 0 /\ ~dGone => dReports # <<>>
    /\ dReports = <<FALSE>> => Ends(dOut)
    /\ dReports = <<TRUE>> /\ HasText(dOut) => \A k \in DOMAIN dOut : dOut[k].kind = "done" => dOut[k].of = 0

\* What main.go says of streamTerminals, "seeing any one means that the upstream has
\* ended normally", and absorb.go of its null ("non-empty finish_reason"): a
\* stream that is reported intact has reached the client with its end.
IntactMeansEnd == dReports = <<FALSE>> => \E k \in DOMAIN dOut : dOut[k].kind = "done"
=============================================================================
