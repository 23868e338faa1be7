--------------------------- MODULE MCAbsorbCache ---------------------------
(***************************************************************************)
(* A small instance of AbsorbCache: two requests of the Responses API that *)
(* differ in their input only, and a chat.                                 *)
(***************************************************************************)
EXTENDS AbsorbCache

MCCacheReqs == {[key |-> "responses", rest |-> "input1"], [key |-> "responses", rest |-> "input2"],
                [key |-> "chat", rest |-> ""]}
=============================================================================
