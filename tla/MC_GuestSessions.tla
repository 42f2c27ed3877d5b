--------------------------- MODULE MC_GuestSessions ---------------------------
(***************************************************************************)
(* Model-checking instance of GuestSessions: three requests, two with the *)
(* NAME "a" and one with "a-updated", three permits and one connection,  *)
(* so two calls can wait for the connection and NAMEs collide.           *)
(***************************************************************************)
EXTENDS GuestSessions

CONSTANTS g1, g2, g3

MCGuests == {g1, g2, g3}

MCGuestName == (g1 :> <<"a", 0>>) @@ (g2 :> <<"a", 0>>) @@ (g3 :> <<"a", 1>>)
=============================================================================
