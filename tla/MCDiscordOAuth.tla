---------------------------- MODULE MCDiscordOAuth ---------------------------
(* DiscordOAuth with two calls of getAccessToken and two of completeLogin. *)
EXTENDS DiscordOAuth, TLC

CONSTANTS h1, h2, l1, l2

OAuthSymmetry == Permutations({h1, h2}) \cup Permutations({l1, l2})
==============================================================================
