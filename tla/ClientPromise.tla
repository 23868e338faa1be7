--------------------------- MODULE ClientPromise ---------------------------
(***************************************************************************)
(* What the client of a streaming request is promised of its one HTTP      *)
(* response: a single head, heartbeats only between an early head and the  *)
(* first piece of the answer, and nothing at all once the handler is gone. *)
(***************************************************************************)
EXTENDS Naturals

VARIABLES
    head,    \* "none", "early" (200 and event-stream) or "final"
    beats,   \* heartbeats written
    chunks,  \* pieces of the answer written
    open     \* the handler has not returned

vars == <<head, beats, chunks, open>>

Init ==
    /\ head = "none"
    /\ beats = 0
    /\ chunks = 0
    /\ open = TRUE

Head ==
    /\ open
    /\ head = "none"
    /\ head' \in {"early", "final"}
    /\ UNCHANGED <<beats, chunks, open>>

Beat ==
    /\ open
    /\ head = "early"
    /\ chunks = 0
    /\ beats' = beats + 1
    /\ UNCHANGED <<head, chunks, open>>

Chunk ==
    /\ open
    /\ head # "none"
    /\ chunks' = chunks + 1
    /\ UNCHANGED <<head, beats, open>>

Close ==
    /\ open
    /\ open' = FALSE
    /\ UNCHANGED <<head, beats, chunks>>

Next == Head \/ Beat \/ Chunk \/ Close

Spec == Init /\ [][Next]_vars
=============================================================================
