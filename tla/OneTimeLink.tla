---------------------------- MODULE OneTimeLink -----------------------------
(***************************************************************************)
(* What a collect-direction hand-off promises about each one-time URL,     *)
(* whatever the interleaving of browsers and pollers: the link is opened   *)
(* once, it is taken by at most one submission, the work behind it runs at *)
(* most once and only after the link was taken, and a link that expired    *)
(* never runs anything (handoff.go: Claim's comment, "a concurrent or      *)
(* repeated call cannot re-resolve the same token").                       *)
(***************************************************************************)
CONSTANT Tokens

VARIABLE link   \* the life of every token

LinkStates == {"unminted", "open", "taken", "ran", "expired"}

TypeOK == link \in [Tokens -> LinkStates]

Init == link = [t \in Tokens |-> "unminted"]

Step(t, from, to) == link[t] = from /\ link' = [link EXCEPT ![t] = to]

Open(t) == Step(t, "unminted", "open")
Take(t) == Step(t, "open", "taken")
Run(t)  == Step(t, "taken", "ran")

(* One sweep may expire many links. *)
Expire(S) ==
  /\ \A t \in S : link[t] = "open"
  /\ link' = [t \in Tokens |-> IF t \in S THEN "expired" ELSE link[t]]

Next ==
  \/ \E t \in Tokens : Open(t) \/ Take(t) \/ Run(t)
  \/ \E S \in SUBSET Tokens : Expire(S)

Spec == Init /\ [][Next]_link
=============================================================================
