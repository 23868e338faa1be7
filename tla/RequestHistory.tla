---------------------------- MODULE RequestHistory ----------------------------
(***************************************************************************)
(* What handlePost (main.go) makes of the messages of a request before it  *)
(* is sent on: it adds what some models insist on and removes broken tools *)
(* (bodyhygiene.go), cuts a history that is too long from its oldest end   *)
(* (payloadguard.go) and, if that is on, brings the roles into the order   *)
(* strict upstreams want (messagenorm.go).                                 *)
(*                                                                         *)
(* A message has a role, parts (its text, and the text of its tool calls,  *)
(* named by the place of the client's message they come from), and may     *)
(* hold tool calls and a reasoning.  The size of a message is 1.           *)
(***************************************************************************)
EXTENDS Integers, Sequences, FiniteSets, SequencesExt

CONSTANTS
    Kinds,        \* the messages clients send: records of role, text and calls
    HistoryLen,   \* bound: messages of a request
    PayloadLimit, \* cfg.payloadLimit, or 0 if there is none
    Models        \* by what they insist on: "any", "kimi" and "deepseek"

ASSUME HistoryAssumption ==
    /\ Kinds \subseteq [role : {"system", "user", "assistant", "tool"}, text : BOOLEAN, calls : BOOLEAN]
    /\ PayloadLimit \in Nat

VARIABLES
    hModel,    \* payload["model"]: Models
    hTools,    \* payload["tools"]: none, sound, or broken
    hMsgs,     \* payload["messages"]; where a message was merged with others, by its place
    hAt,       \* arrived, enhanced, trimmed, or sent
    hChanged   \* whether normalizeMessages wrote the messages anew

historyVars == <<hModel, hTools, hMsgs, hAt, hChanged>>

Message(i, kind) ==
    [role |-> kind.role, calls |-> kind.calls, reasoning |-> FALSE,
     parts |-> IF kind.text THEN {[of |-> i, part |-> "text"]} ELSE {}, of |-> i]

HistoryInit ==
    /\ hModel \in Models /\ hTools \in {"none", "sound", "broken"}
    /\ \E kinds \in BoundedSeq(Kinds, HistoryLen) : hMsgs = [i \in DOMAIN kinds |-> Message(i, kinds[i])]
    /\ hAt = "arrived" /\ hChanged = FALSE

-----------------------------------------------------------------------------
\* enhanceRequestBodyPayload.

NeedsReasoning(m) ==
    m.role = "assistant" /\ (hModel = "deepseek" \/ (hModel = "kimi" /\ m.calls))

\* A missing reasoning is filled in; tools without a name are taken out.
Enhance ==
    /\ hAt = "arrived" /\ hAt' = "enhanced"
    /\ hMsgs' = [i \in DOMAIN hMsgs |-> IF NeedsReasoning(hMsgs[i]) THEN [hMsgs[i] EXCEPT !.reasoning = TRUE]
                                        ELSE hMsgs[i]]
    /\ hTools' = IF hTools = "broken" THEN "none" ELSE hTools
    /\ UNCHANGED <<hModel, hChanged>>

-----------------------------------------------------------------------------
\* trimPayloadToLimit.

\* The messages go in pairs from the front, the last one stays.
Cuts(msgs) == {k \in 0 .. Len(msgs) - 1 : k % 2 = 0 \/ k = Len(msgs) - 1}
CutAt(msgs) ==
    LET enough == {k \in Cuts(msgs) : Len(msgs) - k <= PayloadLimit}
    IN  IF enough = {} THEN Len(msgs) - 1 ELSE CHOOSE k \in enough : \A j \in enough : k <= j

\* repairOrphanedToolResults: a result at the front joins the first message of
\* the user behind it; if there is none it is dropped.
Repaired(msgs) ==
    LET users == {i \in DOMAIN msgs : msgs[i].role = "user"}
        first == CHOOSE i \in users : \A j \in users : i <= j
    IN  IF msgs[1].role # "tool" THEN msgs
        ELSE IF users = {} THEN Tail(msgs)
        ELSE Tail([msgs EXCEPT ![first].parts = @ \cup msgs[1].parts])

Trimmed(msgs) ==
    IF PayloadLimit = 0 \/ Len(msgs) <= 1 \/ Len(msgs) <= PayloadLimit THEN msgs
    ELSE Repaired(SubSeq(msgs, CutAt(msgs) + 1, Len(msgs)))

Trim ==
    /\ hAt = "enhanced" /\ hAt' = "trimmed" /\ hMsgs' = Trimmed(hMsgs)
    /\ UNCHANGED <<hModel, hTools, hChanged>>

-----------------------------------------------------------------------------
\* normalizeMessages.

\* Without tools, calls become the text of their message.
CallsAsText(m) ==
    IF hTools = "none" /\ m.role = "assistant" /\ m.calls
    THEN [m EXCEPT !.calls = FALSE, !.parts = {[of |-> m.of, part |-> "call"]}]
    ELSE m

KnownRole(m) == IF m.role \in {"user", "assistant", "tool"} THEN m ELSE [m EXCEPT !.role = "user"]

Placeholder == [role |-> "user", calls |-> FALSE, reasoning |-> FALSE, parts |-> {}, of |-> 0]

\* The user has the first word; so there is no result at the front for
\* normalizeOrphanToolResults.
UserFirst(msgs) == IF msgs[1].role = "user" THEN msgs ELSE <<Placeholder>> \o msgs

\* The first of those that follow each other with one role, and the others.
Leads(msgs, i) == i = 1 \/ msgs[i].role # msgs[i - 1].role
Led(msgs, i) == {j \in DOMAIN msgs : j > i /\ \A k \in i + 1 .. j : ~Leads(msgs, k)}
LedText(msgs, i) == msgs[i].parts \cup UNION {msgs[j].parts : j \in Led(msgs, i)}

\* Deviation: neighbours of one role become a new message.
MergedAnew(msgs) ==
    [i \in {j \in DOMAIN msgs : Leads(msgs, j)} |->
        IF Led(msgs, i) = {} THEN msgs[i]
        ELSE [Placeholder EXCEPT !.role = msgs[i].role, !.parts = LedText(msgs, i)]]

\* Of neighbours of one role the first stays, in its place, and takes on the text
\* of the others; their places are empty.  After that no two messages of the user
\* meet, and none needs a placeholder between them.
Merged(msgs) ==
    [i \in {j \in DOMAIN msgs : Leads(msgs, j)} |-> [msgs[i] EXCEPT !.parts = LedText(msgs, i)]]

\* A merge of a message without text is not counted as a change.
Normalize ==
    /\ hAt = "trimmed" /\ hAt' = "sent"
    /\ IF hMsgs = <<>> THEN UNCHANGED <<hMsgs, hChanged>>
       ELSE LET known == [i \in DOMAIN hMsgs |-> KnownRole(CallsAsText(hMsgs[i]))]
                begun == UserFirst(known)
                merges == \E i \in DOMAIN begun : ~Leads(begun, i) /\ begun[i].parts # {}
            IN  IF begun # hMsgs \/ merges
                THEN hMsgs' = Merged(begun) /\ hChanged' = TRUE
                ELSE UNCHANGED <<hMsgs, hChanged>>
    /\ UNCHANGED <<hModel, hTools>>

\* normalizeMessages is off.
SendAsIs ==
    /\ hAt = "trimmed" /\ hAt' = "sent"
    /\ UNCHANGED <<hModel, hTools, hMsgs, hChanged>>

HistoryNext == Enhance \/ Trim \/ Normalize \/ SendAsIs

HistorySpec == HistoryInit /\ [][HistoryNext]_historyVars

-----------------------------------------------------------------------------
\* Messages keep their shape, and what is trimmed is not longer than the limit.
HistoryTypeOK ==
    /\ hAt \in {"arrived", "enhanced", "trimmed", "sent"}
    /\ \A i \in DOMAIN hMsgs : hMsgs[i].role \in {"system", "user", "assistant", "tool"}
    /\ PayloadLimit > 0 /\ hAt = "trimmed" => Len(hMsgs) <= PayloadLimit

\* No message is between the two.
Follows(i, j) == i < j /\ \A k \in DOMAIN hMsgs : k <= i \/ j <= k

\* Whatever roles a client mixes and however much was cut off, a history that
\* normalizeMessages wrote anew begins with the user and changes roles at every
\* message, and its messages of the assistant still have the reasoning their model
\* insists on.  Of a history it left alone this says nothing, nor of results
\* without calls, which step 5 of messagenorm.go does not find.
RolesAlternate ==
    hChanged => /\ hMsgs[1].role = "user"
                /\ \A i, j \in DOMAIN hMsgs : Follows(i, j) => hMsgs[i].role # hMsgs[j].role
                /\ \A i \in DOMAIN hMsgs : NeedsReasoning(hMsgs[i]) => hMsgs[i].reasoning

\* The request itself is not lost: when a history is cut, a message of the user
\* stays in it (the comment of payloadguard.go).
HasUser(msgs) == \E i \in DOMAIN msgs : msgs[i].role = "user"
UserKept == [][Trim /\ HasUser(hMsgs) => HasUser(hMsgs')]_historyVars
=============================================================================
