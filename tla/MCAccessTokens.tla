--------------------------- MODULE MCAccessTokens ---------------------------
(***************************************************************************)
(* AccessTokens on a small instance: a life of two ticks, and one that is  *)
(* over at once, which the configuration takes as well.                    *)
(***************************************************************************)
EXTENDS AccessTokens

MCTTLs == {-1, 2}
=============================================================================
