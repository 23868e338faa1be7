------------------------------ MODULE ChatFrames ------------------------------
(***************************************************************************)
(* One chat with the upstream of M365 (m365/chat_client.go,                *)
(* chatWithHandlers): a connection is dialled, attachments go up beside    *)
(* it, the payload is sent, and frames come back until the completion.     *)
(* M365Bridge has the chat as its client sees it; here is how its text is  *)
(* put together.                                                           *)
(*                                                                         *)
(* Upstream writes its answer in fragments, which append, and snapshots of *)
(* all it has so far, in any mixture; it may rewrite it.  A text is a      *)
(* sequence of tokens; "limit" and "policy" are those that make a notice   *)
(* of a text that begins with them.                                        *)
(***************************************************************************)
EXTENDS Integers, Sequences, FiniteSets, SequencesExt

CONSTANTS
    Pieces,    \* fragments upstream may write: non-empty texts
    TextLen    \* bound: tokens of an answer

ASSUME FramesAssumption == Pieces \subseteq Seq(STRING) \ {<<>>} /\ TextLen \in Nat

Texts == {t \in BoundedSeq(UNION {ToSet(p) : p \in Pieces}, TextLen) : t # <<>>}

VARIABLES
    fAt,        \* dial, upload, handshake, payload, read, or over
    fConn,      \* whether the connection is open
    fGone,      \* ctx is done
    fAnswer,    \* upstream: its answer so far
    fPlain,     \* history: upstream has never rewritten it
    fStreamed,  \* streamed: what onDelta was called with
    fFinal,     \* final: the message of the result frame
    fOffense,   \* offense
    fResult,    \* none, ok, or an error
    fText       \* Result.Text

frameVars == <<fAt, fConn, fGone, fAnswer, fPlain, fStreamed, fFinal, fOffense, fResult, fText>>

FramesInit ==
    /\ fAt = "dial" /\ fConn = FALSE /\ fGone = FALSE
    /\ fAnswer = <<>> /\ fPlain = TRUE
    /\ fStreamed = <<>> /\ fFinal = <<>> /\ fOffense = FALSE
    /\ fResult = "none" /\ fText = <<>>

\* The chat ends: the connection is closed, for it is not given back to the pool.
Fails(error) == fAt' = "over" /\ fConn' = FALSE /\ fResult' = error /\ UNCHANGED fText

-----------------------------------------------------------------------------
\* Up to the payload.  An error that is a cancellation has a name of its own.
Dial ==
    /\ fAt = "dial"
    /\ \/ fAt' = "upload" /\ fConn' = TRUE /\ UNCHANGED <<fResult, fText>>
       \/ Fails(IF fGone THEN "canceled" ELSE "dial")
    /\ UNCHANGED <<fGone, fAnswer, fPlain, fStreamed, fFinal, fOffense>>

\* The upload began before the dial; it is waited for, if there is one.
Upload ==
    /\ fAt = "upload"
    /\ (fAt' = "handshake" /\ UNCHANGED <<fConn, fResult, fText>>) \/ Fails("upload")
    /\ UNCHANGED <<fGone, fAnswer, fPlain, fStreamed, fFinal, fOffense>>

Handshake ==
    /\ fAt = "handshake"
    /\ (fAt' = "payload" /\ UNCHANGED <<fConn, fResult, fText>>) \/ Fails("handshake")
    /\ UNCHANGED <<fGone, fAnswer, fPlain, fStreamed, fFinal, fOffense>>

SendPayload ==
    /\ fAt = "payload"
    /\ (fAt' = "read" /\ UNCHANGED <<fConn, fResult, fText>>) \/ Fails("transport")
    /\ UNCHANGED <<fGone, fAnswer, fPlain, fStreamed, fFinal, fOffense>>

-----------------------------------------------------------------------------
\* rateLimited, imageLimitDetected and contentPolicyDetected look at what comes
\* before anything was streamed.
Begins(text, token) == text # <<>> /\ text[1] = token
Notice(streamed, text) ==
    IF streamed # <<>> THEN "none"
    ELSE IF Begins(text, "limit") THEN "limit" ELSE IF Begins(text, "policy") THEN "policy" ELSE "none"

CommonPrefix(a, b) == CHOOSE n \in 0 .. Len(a) : /\ n <= Len(b) /\ \A i \in 1 .. n : a[i] = b[i]
                                                 /\ n < Len(a) /\ n < Len(b) => a[n + 1] # b[n + 1]
Behind(n, text) == SubSeq(text, n + 1, Len(text))

\* Deviation: a snapshot is taken for a fragment.
UnseenWhole(streamed, snapshot) == snapshot

\* emitSnapshot: what of it is streamed.  One that is no continuation brings what
\* lies behind the common beginning if it is longer, and nothing if there is none.
Unseen(streamed, snapshot) ==
    LET n == CommonPrefix(streamed, snapshot) IN
    IF n = Len(streamed) THEN Behind(n, snapshot)
    ELSE IF Len(snapshot) <= Len(streamed) \/ n = 0 THEN <<>>
    ELSE Behind(n, snapshot)

\* The emits of a frame: each ends the chat if it is a notice or the caller
\* has gone.
Forwarded(notice, text) ==
    IF notice # "none" THEN Fails(notice) /\ UNCHANGED fStreamed
    ELSE IF fGone /\ text # <<>> THEN Fails("canceled") /\ UNCHANGED fStreamed
    ELSE fStreamed' = fStreamed \o text /\ UNCHANGED <<fAt, fConn, fResult, fText>>

\* Upstream goes on with its answer and sends the fragment, the snapshot, or both
\* in one frame.  The first fragment is treated as a snapshot.
AnswerGrows ==
    /\ fAt = "read" /\ fFinal = <<>>
    /\ \E w \in Pieces :
          /\ Len(fAnswer \o w) <= TextLen /\ fAnswer' = fAnswer \o w
          /\ \E sent \in {"fragment", "snapshot", "both"} :
                LET fragment == IF sent = "snapshot" THEN <<>> ELSE w
                    after == fStreamed \o fragment
                    more == IF sent = "fragment" THEN <<>> ELSE Unseen(after, fAnswer')
                    notice == Notice(fStreamed, IF fragment # <<>> THEN fragment ELSE more)
                IN  Forwarded(notice, fragment \o more)
    /\ UNCHANGED <<fGone, fPlain, fFinal, fOffense>>

\* It begins its answer anew (bound: once).
Rewrite ==
    /\ fAt = "read" /\ fFinal = <<>> /\ fAnswer # <<>> /\ fPlain
    /\ fAnswer' \in Texts \ {fAnswer} /\ fPlain' = FALSE
    /\ Forwarded(Notice(fStreamed, fAnswer'), Unseen(fStreamed, fAnswer'))
    /\ UNCHANGED <<fGone, fFinal, fOffense>>

\* Frames without text: tools, progress, reasoning, a ping, the verdict on the
\* answer.  Their handler fails if the caller has gone.
OtherFrame ==
    /\ fAt = "read"
    /\ \/ fOffense' = TRUE /\ UNCHANGED <<fAt, fConn, fResult, fText>>
       \/ fGone /\ Fails("canceled") /\ UNCHANGED fOffense
    /\ UNCHANGED <<fGone, fAnswer, fPlain, fStreamed, fFinal>>

-----------------------------------------------------------------------------
\* type 2: the result, with the whole answer, the end of which may not have come
\* before, or an error.
ResultFrame ==
    /\ fAt = "read" /\ fFinal = <<>>
    /\ \/ /\ \E w \in Pieces \cup {<<>>} :
                /\ Len(fAnswer \o w) \in 1 .. TextLen
                /\ fAnswer' = fAnswer \o w /\ fFinal' = fAnswer'
          /\ LET notice == IF Begins(fFinal', "policy") THEN "policy" ELSE Notice(fStreamed, fFinal')
             IN IF notice # "none" THEN Fails(notice) ELSE UNCHANGED <<fAt, fConn, fResult, fText>>
       \/ \E error \in {"limit", "upstream"} : Fails(error) /\ UNCHANGED <<fAnswer, fFinal>>
    /\ UNCHANGED <<fGone, fPlain, fStreamed, fOffense>>

\* finalizeText: a longer final message that goes on where the stream is brings
\* its tail; a longer one that does not is the result all the same.
MissingTail == IF IsPrefix(fStreamed, fFinal) THEN Behind(Len(fStreamed), fFinal) ELSE <<>>
Finalized == IF Len(fFinal) <= Len(fStreamed) THEN fStreamed ELSE fFinal

\* type 3: the completion, with an error, or with what makes the answer void.
Completion ==
    /\ fAt = "read"
    /\ \/ \E error \in {"limit", "upstream"} : Fails(error) /\ UNCHANGED fStreamed
       \/ IF fGone /\ MissingTail # <<>> THEN Fails("canceled") /\ UNCHANGED fStreamed
          ELSE /\ fStreamed' = fStreamed \o MissingTail
               /\ IF Finalized = <<>> THEN Fails("empty")
                  ELSE IF fOffense \/ Begins(Finalized, "policy") THEN Fails("policy")
                  ELSE fAt' = "over" /\ fConn' = FALSE /\ fResult' = "ok" /\ fText' = Finalized
    /\ UNCHANGED <<fGone, fAnswer, fPlain, fFinal, fOffense>>

\* The connection breaks or is silent for too long, or the whole takes too long.
ReadFails ==
    /\ fAt = "read" /\ Fails("read")
    /\ UNCHANGED <<fGone, fAnswer, fPlain, fStreamed, fFinal, fOffense>>

\* The caller cancels, or its time is up; the loop sees it between two frames.
CallerGone ==
    /\ ~fGone /\ fAt # "over" /\ fGone' = TRUE
    /\ UNCHANGED <<fAt, fConn, fAnswer, fPlain, fStreamed, fFinal, fOffense, fResult, fText>>

SeeGone ==
    /\ fAt = "read" /\ fGone /\ Fails("canceled")
    /\ UNCHANGED <<fGone, fAnswer, fPlain, fStreamed, fFinal, fOffense>>

FramesNext ==
    \/ Dial \/ Upload \/ Handshake \/ SendPayload
    \/ AnswerGrows \/ Rewrite \/ OtherFrame \/ ResultFrame \/ Completion
    \/ ReadFails \/ CallerGone \/ SeeGone

FramesSpec == FramesInit /\ [][FramesNext]_frameVars

-----------------------------------------------------------------------------
\* The connection is open while it is used, and closed however the chat ends.
FramesTypeOK ==
    /\ fAt \in {"dial", "upload", "handshake", "payload", "read", "over"}
    /\ fConn <=> fAt \in {"upload", "handshake", "payload", "read"}
    /\ fResult = "none" <=> fAt # "over"
    /\ fStreamed \in BoundedSeq(UNION {ToSet(p) : p \in Pieces}, 2 * TextLen)

\* As long as upstream only appends to its answer, what is streamed is its
\* beginning, nothing twice and nothing left out, in whatever mixture of fragments,
\* snapshots and the final message it comes; and what ends well is all of it, for
\* callers that stream and for those that wait (emitSnapshot, finalizeText).
StreamExact ==
    fPlain => /\ IsPrefix(fStreamed, fAnswer)
              /\ fResult = "ok" => fStreamed = fAnswer /\ fText = fAnswer
=============================================================================
