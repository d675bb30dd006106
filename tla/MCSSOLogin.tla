----------------------------- MODULE MCSSOLogin -----------------------------
(* MCSSOLogin.cfg      one login, a POST, two polls and a revocation at once *)
(* MCSSOLoginDone.cfg  done without a sign-in                                *)
(* Two logins at once are checked in MCServer.                               *)
EXTENDS SSOLogin, TLC

Symmetry == Permutations(Tokens)
=============================================================================
