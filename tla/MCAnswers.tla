---------------------------- MODULE MCAnswers ----------------------------
(***************************************************************************)
(* Small instances of the components between a client and its answer,      *)
(* which share no state: the history of a request, the models and the      *)
(* mirrors to ask, the delivery of a stream, the cache of answers, the     *)
(* frames of a chat, and the log.  Each behaviour is one of one of them,   *)
(* the others rest: what they do side by side is what each does alone.     *)
(***************************************************************************)
EXTENDS RequestHistory, ModelCatalog, MirrorPool, StreamDelivery, AbsorbCache, ChatFrames, LogKit

VARIABLE part  \* the component that runs

-----------------------------------------------------------------------------
\* Without or with text; a call has none; a result may be empty.
Kind(role, text, calls) == [role |-> role, text |-> text, calls |-> calls]
MCKinds == {Kind("system", TRUE, FALSE), Kind("user", TRUE, FALSE), Kind("assistant", TRUE, FALSE),
            Kind("assistant", FALSE, TRUE), Kind("tool", TRUE, FALSE), Kind("tool", FALSE, FALSE)}

\* a-free has a shorter name, big is one of project.extraModels, c is not listed.
MCShort == [m \in {"a-free"} |-> "a"]
MCFallbacks == <<"big", "c", "big">>
MCAuto == <<"m365/x", "a-free">>

MCPool == <<"upstream", "m1", "m2">>

\* An upstream may send "finish_reason":null with its chunks, or leave it out.
Chunk(kind, null) == [kind |-> kind, mark |-> null]
End == Chunk("done", TRUE)
MCScripts == {<<Chunk("text", FALSE), Chunk("text", FALSE), Chunk("text", FALSE), End>>,
              <<Chunk("tool", FALSE), End>>,
              <<Chunk("text", FALSE), Chunk("tool", TRUE), End>>,
              <<Chunk("text", TRUE), Chunk("text", TRUE), End>>}
MCCacheReqs == {[key |-> k, rest |-> ""] : k \in {"chat1", "chat2", "chat3"}}
MCPieces == {<<"a">>, <<"b">>, <<"limit">>}

-----------------------------------------------------------------------------
\* The history has many initial states; it has one of them while it rests.
AnswersInit ==
    /\ part \in {"history", "models", "mirrors", "delivery", "cache", "frames", "log"}
    /\ CatalogInit /\ MirrorInit /\ DeliveryInit /\ AbsorbCacheInit /\ FramesInit /\ LogInit
    /\ IF part = "history" THEN HistoryInit
       ELSE hModel = "any" /\ hTools = "none" /\ hMsgs = <<>> /\ hAt = "arrived" /\ hChanged = FALSE

AnswersNext ==
    /\ UNCHANGED part
    /\ IF part = "history" THEN HistoryNext ELSE UNCHANGED historyVars
    /\ IF part = "models" THEN CatalogNext ELSE UNCHANGED catalogVars
    /\ IF part = "mirrors" THEN MirrorNext ELSE UNCHANGED mirrorVars
    /\ IF part = "delivery" THEN DeliveryNext ELSE UNCHANGED deliveryVars
    /\ IF part = "cache" THEN AbsorbCacheNext ELSE UNCHANGED absorbCacheVars
    /\ IF part = "frames" THEN FramesNext ELSE UNCHANGED frameVars
    /\ IF part = "log" THEN LogNext ELSE UNCHANGED logVars

AnswersVars == <<part, historyVars, catalogVars, mirrorVars, deliveryVars, absorbCacheVars, frameVars, logVars>>
AnswersSpec == AnswersInit /\ [][AnswersNext]_AnswersVars

\* The state of each component keeps its type.
AnswersTypeOK ==
    /\ HistoryTypeOK /\ CatalogTypeOK /\ MirrorTypeOK /\ DeliveryTypeOK
    /\ AbsorbCacheTypeOK /\ FramesTypeOK /\ LogTypeOK
=============================================================================
