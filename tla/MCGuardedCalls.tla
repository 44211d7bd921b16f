---------------------------- MODULE MCGuardedCalls ----------------------------
(***************************************************************************)
(* One call, through any front end; its two requests race each other, a    *)
(* batch of the same agent with the same key, and a batch of another agent *)
(* with that key.                                                          *)
(***************************************************************************)
EXTENDS GuardedCalls, TLC

CONSTANTS c1, ann, bob, k1, b1, b2

MCAgentOf == (c1 :> ann) @@ (b1 :> ann) @@ (b2 :> bob)

MCKeyOf == c1 :> k1

MCStylesOf == c1 :> Styles

MCItems == (b1 :> <<k1, k1>>) @@ (b2 :> <<k1>>)
=============================================================================
