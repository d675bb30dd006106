-------------------------- MODULE VaultHandoffsProofs -----------------------
(***************************************************************************)
(* Theorems about the two hand-offs of a vault, for every number of links, *)
(* POSTs, confirmations and polls and every cap on the tombstones.         *)
(*                                                                         *)
(* The first part proves the create hand-off as VaultRestoreProofs does    *)
(* the restore: its create link is a Handoff, and the invariant adds the   *)
(* outcomes, the polls and the seed link.  The second part puts the two    *)
(* together.                                                               *)
(***************************************************************************)
EXTENDS MCVaultHandoffs, EndpointProofs

OneTime == INSTANCE HandoffProofs WITH pc <- [r \in Requests |-> GenericStage(pc[r])]

-----------------------------------------------------------------------------
(* The refinement mapping.                                                 *)
LEMMA StageOf ==
  /\ \A s \in {"idle", "resolved", "claimed", "running"} : GenericStage(s) = s
  /\ GenericStage("recorded") = "claimed"
  /\ \A s \in {"created", "failed", "delivered", "settled"} : GenericStage(s) = "running"
BY DEF GenericStage

(* A move of a request is one of Handoff's, between the stages they map to. *)
LEMMA MoveMaps ==
  ASSUME pc \in [Requests -> CreateStages], NEW r \in Requests,
         NEW from, NEW to \in CreateStages, Move(r, from, to)
  PROVE  OneTime!Goto(r, GenericStage(from), GenericStage(to))
BY DEF Move, OneTime!Goto

LEMMA InitImplements == Init => OneTime!Init
BY StageOf DEF Init, OneTime!Init, EmptyEndpoint, OneTime!EmptyEndpoint

(* The endpoint operators of the two modules are the same. *)
LEMMA SameEndpoint ==
  /\ EndpointState = OneTime!EndpointState
  /\ \A e : ConsistentEndpoint(e) <=> OneTime!ConsistentEndpoint(e)
  /\ \A e, t : Minted(e, t) = OneTime!Minted(e, t)
  /\ \A e, t : Removed(e, t) = OneTime!Removed(e, t)
  /\ \A e, l, t : Reason(e, l, t) = OneTime!Reason(e, l, t)
  /\ \A e, l, t : Resolved(e, l, t) = OneTime!Resolved(e, l, t)
<1>1. EndpointState = OneTime!EndpointState
  BY DEF EndpointState, OneTime!EndpointState
<1>2. ASSUME NEW e PROVE ConsistentEndpoint(e) <=> OneTime!ConsistentEndpoint(e)
  BY DEF ConsistentEndpoint, InSync, Apart, Bounded, IsInjective, Range,
         OneTime!ConsistentEndpoint, OneTime!InSync, OneTime!Apart, OneTime!Bounded,
         OneTime!IsInjective, OneTime!Range
<1>3. ASSUME NEW e, NEW t PROVE Minted(e, t) = OneTime!Minted(e, t)
  BY DEF Minted, OneTime!Minted
<1>4. ASSUME NEW e PROVE Pruned(e) = OneTime!Pruned(e)
  BY DEF Pruned, Overflow, Cardinality, OneTime!Pruned, OneTime!Overflow,
         OneTime!Cardinality
<1>5. ASSUME NEW e, NEW t PROVE Taken(e, t) = OneTime!Taken(e, t)
  BY DEF Taken, MarkSpent, OneTime!Taken, OneTime!MarkSpent
<1>6. ASSUME NEW e, NEW t PROVE Removed(e, t) = OneTime!Removed(e, t)
  BY <1>4, <1>5 DEF Removed, OneTime!Removed
<1>7. ASSUME NEW e, NEW l, NEW t PROVE Reason(e, l, t) = OneTime!Reason(e, l, t)
  BY <1>4 DEF Reason, OneTime!Reason
<1>8. ASSUME NEW e, NEW l, NEW t PROVE Resolved(e, l, t) = OneTime!Resolved(e, l, t)
  BY <1>4, <1>5, <1>7 DEF Resolved, OneTime!Resolved
<1> QED
  BY <1>1, <1>2, <1>3, <1>6, <1>7, <1>8

LEMMA StepImplements == TypeOK /\ [Next]_vars => [OneTime!Next]_(OneTime!vars)
<1> SUFFICES ASSUME TypeOK, [Next]_vars
             PROVE  [OneTime!Next]_(OneTime!vars)
  OBVIOUS
<1> USE DEF links, seeds, outcomes, reqs, seedPosts, history
<1>0. pc \in [Requests -> CreateStages]
  BY DEF TypeOK
<1>1. ASSUME NEW t \in Tokens, Start(t)
      PROVE  OneTime!Mint(t) \/ UNCHANGED OneTime!vars
  <2>1. UNCHANGED <<lapsed, pc, tok, runs>>
    BY <1>1 DEF Start
  <2>2. CASE ep' = Minted(ep, t) /\ minted' = minted \cup {t}
    BY <1>1, <2>1, <2>2, SameEndpoint DEF Start, Started, OneTime!Mint
  <2>3. CASE UNCHANGED <<ep, minted>>
    BY <2>1, <2>3 DEF OneTime!vars
  <2> QED
    BY <1>1, <2>2, <2>3 DEF Start
<1>2. ASSUME NEW t \in Tokens, Lapse(t)
      PROVE  OneTime!Lapse(t) \/ UNCHANGED OneTime!vars
  BY <1>2 DEF Lapse, OneTime!Lapse, OneTime!vars
<1>3. ASSUME NEW t \in Tokens, Age(t) \/ Forsake(t)
      PROVE  UNCHANGED OneTime!vars
  BY <1>3 DEF Age, Forsake, OneTime!vars
<1>4. ASSUME NEW t \in Tokens, View(t)
      PROVE  OneTime!Visit(t) \/ UNCHANGED OneTime!vars
  BY <1>4, SameEndpoint DEF View, OneTime!Visit, OneTime!vars
<1>5. ASSUME NEW r \in Requests, NEW t \in Tokens, Post(r, t)
      PROVE  OneTime!Post(r, t)
  <2>1. Move(r, "idle", "resolved") /\ "resolved" \in CreateStages
    BY <1>5 DEF Post, CreateStages
  <2>2. GenericStage("idle") = "idle" /\ GenericStage("resolved") = "resolved"
    BY StageOf
  <2>3. OneTime!Goto(r, "idle", "resolved")
    BY <1>0, <2>1, <2>2, MoveMaps
  <2> QED
    BY <1>5, <2>3, SameEndpoint DEF Post, OneTime!Post
<1>6. ASSUME NEW r \in Requests, Refuse(r)
      PROVE  OneTime!Reject(r)
  <2>1. Move(r, "resolved", "idle") /\ "idle" \in CreateStages
    BY <1>6 DEF Refuse, CreateStages
  <2>2. GenericStage("resolved") = "resolved" /\ GenericStage("idle") = "idle"
    BY StageOf
  <2>3. OneTime!Goto(r, "resolved", "idle")
    BY <1>0, <2>1, <2>2, MoveMaps
  <2> QED
    BY <1>6, <2>3 DEF Refuse, OneTime!Reject, OneTime!endpointVars
<1>7. ASSUME NEW r \in Requests, Claim(r)
      PROVE  OneTime!Claim(r)
  <2>1. Move(r, "resolved", "claimed") /\ "claimed" \in CreateStages
    BY <1>7 DEF Claim, CreateStages
  <2>2. GenericStage("resolved") = "resolved" /\ GenericStage("claimed") = "claimed"
    BY StageOf
  <2>3. OneTime!Goto(r, "resolved", "claimed")
    BY <1>0, <2>1, <2>2, MoveMaps
  <2> QED
    BY <1>7, <2>3, SameEndpoint DEF Claim, OneTime!Claim
<1>8. ASSUME NEW r \in Requests, ClaimLost(r)
      PROVE  OneTime!ClaimLost(r)
  <2>1. Move(r, "resolved", "idle") /\ "idle" \in CreateStages
    BY <1>8 DEF ClaimLost, CreateStages
  <2>2. GenericStage("resolved") = "resolved" /\ GenericStage("idle") = "idle"
    BY StageOf
  <2>3. OneTime!Goto(r, "resolved", "idle")
    BY <1>0, <2>1, <2>2, MoveMaps
  <2> QED
    BY <1>8, <2>3 DEF ClaimLost, OneTime!ClaimLost, OneTime!endpointVars
<1>9. ASSUME NEW r \in Requests, Record(r) \/ Finish(r) \/ Deliver(r) \/ Settle(r)
      PROVE  UNCHANGED OneTime!vars
  <2>1. UNCHANGED <<ep, minted, lapsed, tok, runs>>
    BY <1>9 DEF Record, Finish, Deliver, Settle
  <2>2. \A q \in Requests : GenericStage(pc'[q]) = GenericStage(pc[q])
    BY <1>0, <1>9, StageOf DEF Record, Finish, Deliver, Settle, Move
  <2> QED
    BY <2>1, <2>2 DEF OneTime!vars
<1>10. ASSUME NEW r \in Requests, StartCreate(r)
       PROVE  OneTime!Run(r)
  <2>1. Move(r, "recorded", "running") /\ "running" \in CreateStages
    BY <1>10 DEF StartCreate, CreateStages
  <2>2. GenericStage("recorded") = "claimed" /\ GenericStage("running") = "running"
    BY StageOf
  <2>3. OneTime!Goto(r, "claimed", "running")
    BY <1>0, <2>1, <2>2, MoveMaps
  <2> QED
    BY <1>10, <2>3 DEF StartCreate, OneTime!Run, OneTime!endpointVars
<1>11. ASSUME NEW r \in Requests, Return(r)
       PROVE  OneTime!Return(r)
  <2>1. Move(r, "settled", "idle") /\ "idle" \in CreateStages
    BY <1>11 DEF Return, CreateStages
  <2>2. GenericStage("settled") = "running" /\ GenericStage("idle") = "idle"
    BY StageOf
  <2>3. OneTime!Goto(r, "running", "idle")
    BY <1>0, <2>1, <2>2, MoveMaps
  <2> QED
    BY <1>11, <2>3, SameEndpoint DEF Return, OneTime!Return
<1>12. ASSUME NEW p \in Pollers, ReadToken(p)
       PROVE  OneTime!Visit(ask[p])
  BY <1>12, SameEndpoint DEF ReadToken, OneTime!Visit
<1>13. ASSUME NEW p \in Pollers, ReadToken(p)
       PROVE  ask[p] \in Tokens
  BY DEF TypeOK, ResumeTypeOK
<1>14. ASSUME NEW p \in Pollers, Continue(p), ~ReadToken(p)
       PROVE  UNCHANGED OneTime!vars
  BY <1>14 DEF Continue, NoToken, ReadOutcome, ReadSeed, PruneOutcomes, ForgetOutcome, OneTime!vars
<1>15. ASSUME NEW p \in Pollers, NEW t \in Tokens, CallResume(p, t)
       PROVE  UNCHANGED OneTime!vars
  BY <1>15 DEF CallResume, OneTime!vars
<1>16. ASSUME NEW c \in Confirmations, ServeSeed(c) \/ \E t \in Tokens : PostSeed(c, t)
       PROVE  UNCHANGED OneTime!vars
  BY <1>16 DEF ServeSeed, Confirm, RemovalFailed, ReturnSeed, PostSeed, OneTime!vars
<1>17. CASE UNCHANGED vars
  BY <1>17 DEF vars, OneTime!vars
<1> QED
  BY <1>1, <1>2, <1>3, <1>4, <1>5, <1>6, <1>7, <1>8, <1>9, <1>10, <1>11, <1>12, <1>13,
     <1>14, <1>15, <1>16, <1>17
  DEF Next, Serve, OneTime!Next, OneTime!Submit

-----------------------------------------------------------------------------
(* What the outcomes, the polls and the seed link add.  A create link is    *)
(* dead when its create never ran and never will; a seed link is closed     *)
(* when it is minted and no longer pending, and stays closed.               *)
Busy(r) == pc[r] \notin {"idle", "resolved"}

InFlight(t) ==
  \E r \in Requests : tok[r] = t /\ pc[r] \notin {"idle", "resolved", "settled"}

Dead(t) ==
  /\ t \in minted /\ runs[t] = 0 /\ t \notin ep.items
  /\ \A r \in Requests : tok[r] = t => ~Busy(r)

Says(t, v) ==
  /\ v = "done"    => result[t] = "active" /\ t \in linked \ sd.items
  /\ v = "failed"  => result[t] = "failed"
  /\ v = "expired" => Dead(t) \/ t \in seedLapsed \ sd.items

(* A create has a result from its end on, a request in flight has recorded  *)
(* it, and once it is settled its record, if there still is one, is its     *)
(* result.                                                                  *)
Recorded ==
  /\ \A t \in Tokens : outcome[t] # "none" => t \in minted \ ep.items
  /\ \A t \in Tokens : result[t] # "none" => t \in minted \ ep.items
  /\ \A t \in Tokens : outcome[t] \in Results => ~InFlight(t) /\ result[t] = outcome[t]
  /\ \A r \in Requests : pc[r] \in {"claimed", "recorded", "running"} => result[tok[r]] = "none"
  /\ \A r \in Requests : pc[r] \in {"created", "delivered"} => result[tok[r]] = "active"
  /\ \A r \in Requests : pc[r] = "failed" => result[tok[r]] = "failed"
  /\ \A r \in Requests :
       pc[r] \in {"recorded", "running", "created", "failed", "delivered"} =>
         outcome[tok[r]] = "creating"

(* A vault gets one seed link, once it is active; the link closes only      *)
(* after the human's confirmation or its own time to live.                  *)
SeedInv ==
  /\ ConsistentEndpoint(sd) /\ sd.items \cup sd.spent \subseteq seedMinted
  /\ \A t \in seedMinted : result[t] = "active"
  /\ \A t \in seedMinted : t \in sd.items \cup confirmed \cup seedLapsed
  /\ \A r \in Requests : pc[r] = "created" => tok[r] \notin seedMinted
  /\ \A c \in Confirmations : at[c] # "idle" => seed[c] \in linked
  /\ \A c \in Confirmations : at[c] = "confirmed" => seed[c] \in confirmed

(* A poll that asks for the seed or cleans up has read something that is so *)
(* and stays so.                                                            *)
PollRight(p) ==
  /\ stage[p] = "seed" => result[ask[p]] = "active"
  /\ stage[p] \in {"prune", "forget", "delete", "end"} =>
       verdict[p] # "pending" /\ Says(ask[p], verdict[p])
  /\ stage[p] = "forget" => verdict[p] \in {"done", "failed"}
  /\ stage[p] \in {"seed", "forget"} => ~InFlight(ask[p])

Polling == \A p \in Pollers : PollRight(p)

ToldRight == \A t \in Tokens : \A v \in told[t] : Says(t, v)

CreateInv == TypeOK /\ OneTime!HandoffInv /\ Recorded /\ SeedInv /\ Polling /\ ToldRight

(* What HandoffProofs gives, in the words of this flow.                     *)
LEMMA HandoffFacts ==
  ASSUME TypeOK, OneTime!HandoffInv
  PROVE  /\ ep \in EndpointState /\ ConsistentEndpoint(ep)
         /\ ep.items \cup ep.spent \subseteq minted
         /\ \A r \in Requests : pc[r] # "idle" => tok[r] \in minted
         /\ \A r \in Requests : Busy(r) => tok[r] \notin ep.items
         /\ \A r, q \in Requests : Busy(r) /\ Busy(q) /\ tok[r] = tok[q] => r = q
         /\ \A t \in Tokens : t \in ep.items \/ t \notin minted => runs[t] = 0
<1>1. /\ pc \in [Requests -> CreateStages] /\ tok \in [Requests -> Tokens]
      /\ ep \in EndpointState
  BY DEF TypeOK
<1>2. ConsistentEndpoint(ep)
  BY SameEndpoint DEF OneTime!HandoffInv, OneTime!EndpointConsistent
<1>3. \A r \in Requests : /\ GenericStage(pc[r]) = "idle" <=> pc[r] = "idle"
                          /\ Busy(r) => GenericStage(pc[r]) \in {"claimed", "running"}
  BY <1>1, StageOf DEF CreateStages, Busy
<1> DEFINE g == [r \in Requests |-> GenericStage(pc[r])]
<1>4. \A r \in Requests : g[r] = GenericStage(pc[r])
  OBVIOUS
<1>5. /\ ep.items \cup ep.spent \subseteq minted
      /\ \A r \in Requests : g[r] # "idle" => tok[r] \in minted
      /\ \A t \in Tokens : t \in ep.items \/ t \notin minted => runs[t] = 0
      /\ \A r, q \in Requests, t \in Tokens :
           g[r] \in {"claimed", "running"} /\ tok[r] = t =>
             t \notin ep.items /\ (g[q] \in {"claimed", "running"} /\ tok[q] = t => r = q)
  BY DEF OneTime!HandoffInv, OneTime!LinkInv, OneTime!ExclusiveClaim, OneTime!Holds
<1> HIDE DEF g
<1>6. \A r \in Requests : pc[r] # "idle" => tok[r] \in minted
  BY <1>3, <1>4, <1>5
<1>7. ASSUME NEW r \in Requests, Busy(r)
      PROVE  /\ tok[r] \notin ep.items
             /\ \A q \in Requests : Busy(q) /\ tok[r] = tok[q] => r = q
  <2>1. tok[r] \in Tokens /\ g[r] \in {"claimed", "running"}
    BY <1>1, <1>3, <1>4, <1>7
  <2>2. \A q \in Requests : Busy(q) => g[q] \in {"claimed", "running"}
    BY <1>3, <1>4
  <2> QED
    BY <1>5, <2>1, <2>2
<1> QED
  BY <1>1, <1>2, <1>5, <1>6, <1>7

(* What any step leaves alone: a link that is closed stays closed, only     *)
(* Claim makes a request busy, and with a link that was open, and a restore *)
(* is started and ended by the request that holds its link.                 *)
LEMMA StepFacts ==
  ASSUME TypeOK, OneTime!HandoffInv, [Next]_vars
  PROVE  /\ minted \subseteq minted'
         /\ \A t \in minted \ ep.items : t \notin ep'.items
         /\ \A r \in Requests : pc'[r] \notin {"idle", "resolved"} =>
              tok'[r] = tok[r] /\ (Busy(r) \/ tok[r] \in ep.items)
         /\ \A r \in Requests : pc'[r] \notin {"idle", "resolved", "settled"} => pc[r] # "settled"
         /\ \A t \in Tokens : runs'[t] # runs[t] => \E r \in Requests : pc[r] = "recorded" /\ tok[r] = t
         /\ \A t \in Tokens : result'[t] # result[t] => \E r \in Requests : pc[r] = "running" /\ tok[r] = t
<1> USE DEF links, outcomes, reqs, history, Busy
<1>0. /\ pc \in [Requests -> CreateStages] /\ tok \in [Requests -> Tokens]
      /\ ep \in EndpointState /\ ConsistentEndpoint(ep) /\ minted \subseteq Tokens
      /\ ep.items \cup ep.spent \subseteq minted
      /\ ask \in [Pollers -> Tokens]
  BY HandoffFacts DEF TypeOK, ResumeTypeOK
<1> DEFINE Calm  == UNCHANGED <<pc, tok, runs, result>>
           Close == minted' = minted /\ ep'.items \subseteq ep.items
<1>1. ASSUME NEW t \in Tokens, Start(t)
      PROVE  Calm /\ minted \subseteq minted' /\ \A u \in minted \ ep.items : u \notin ep'.items
  BY <1>0, <1>1 DEF Start, Started, Minted, EndpointState
<1>2. ASSUME NEW t \in Tokens, View(t)
      PROVE  Calm /\ Close
  BY <1>0, <1>2, ResolvedCorrect DEF View
<1>3. ASSUME NEW t \in Tokens, Lapse(t) \/ Age(t) \/ Forsake(t)
      PROVE  Calm /\ Close
  BY <1>3 DEF Lapse, Age, Forsake
<1>4. ASSUME NEW r \in Requests, NEW t \in Tokens, Post(r, t)
      PROVE  /\ Close /\ UNCHANGED <<runs, result>>
             /\ \A q \in Requests : pc'[q] # "resolved" => pc'[q] = pc[q] /\ tok'[q] = tok[q]
  <2>1. ep'.items \subseteq ep.items
    BY <1>0, <1>4, ResolvedCorrect DEF Post
  <2> QED
    BY <1>0, <1>4, <2>1 DEF Post, Move
<1>5. ASSUME NEW r \in Requests, Claim(r) \/ Return(r)
      PROVE  Close
  BY <1>0, <1>5, RemovedCorrect DEF Claim, Return
<1>6. ASSUME NEW r \in Requests, Serve(r)
      PROVE  /\ Close
             /\ tok' = tok
             /\ \A q \in Requests \ {r} : pc'[q] = pc[q]
             /\ pc'[r] \notin {"idle", "resolved"} => Busy(r) \/ tok[r] \in ep.items
             /\ pc'[r] \notin {"idle", "resolved", "settled"} => pc[r] # "settled"
             /\ \A t \in Tokens : runs'[t] # runs[t] => pc[r] = "recorded" /\ tok[r] = t
             /\ \A t \in Tokens : result'[t] # result[t] => pc[r] = "running" /\ tok[r] = t
  <2>1. Close
    BY <1>5, <1>6
    DEF Serve, Refuse, Claim, ClaimLost, Record, StartCreate, Finish, Deliver, Settle, Return
  <2> QED
    BY <1>0, <1>6, <2>1
    DEF Serve, Refuse, Claim, ClaimLost, Record, StartCreate, Finish, Deliver, Settle, Return, Move,
        TypeOK
<1>7. ASSUME NEW p \in Pollers, Continue(p)
      PROVE  Calm /\ Close
  <2>1. CASE ReadToken(p)
    BY <1>0, <2>1, ResolvedCorrect DEF ReadToken
  <2> QED
    BY <1>7, <2>1 DEF Continue, NoToken, ReadOutcome, ReadSeed, PruneOutcomes, ForgetOutcome
<1>8. ASSUME NEW p \in Pollers, NEW t \in Tokens, CallResume(p, t)
      PROVE  Calm /\ Close
  BY <1>8 DEF CallResume
<1>9. ASSUME NEW c \in Confirmations, ServeSeed(c) \/ \E t \in Tokens : PostSeed(c, t)
      PROVE  Calm /\ Close
  BY <1>9 DEF ServeSeed, Confirm, RemovalFailed, ReturnSeed, PostSeed
<1>10. CASE UNCHANGED vars
  BY <1>10 DEF vars
<1> HIDE DEF links, outcomes, reqs, history
<1>11. ASSUME Calm, minted \subseteq minted', \A u \in minted \ ep.items : u \notin ep'.items
      PROVE  /\ \A r \in Requests : pc'[r] \notin {"idle", "resolved"} =>
              tok'[r] = tok[r] /\ (Busy(r) \/ tok[r] \in ep.items)
             /\ \A r \in Requests : pc'[r] \notin {"idle", "resolved", "settled"} => pc[r] # "settled"
             /\ \A t \in Tokens : runs'[t] = runs[t] /\ result'[t] = result[t]
  BY <1>11
<1>12. CASE \E r \in Requests : Serve(r)
  BY <1>6, <1>12
<1>13. CASE \E r \in Requests, t \in Tokens : Post(r, t)
  BY <1>4, <1>13
<1> QED
  BY <1>1, <1>2, <1>3, <1>7, <1>8, <1>9, <1>10, <1>11, <1>12, <1>13 DEF Next

(* The seed link: what a step does to it, and that the rest only grows.    *)
LEMMA SeedFacts ==
  ASSUME CreateInv, [Next]_vars
  PROVE  /\ sd' \in EndpointState /\ ConsistentEndpoint(sd')
         /\ sd'.items \cup sd'.spent \subseteq seedMinted'
         /\ seedMinted \subseteq seedMinted' /\ linked \subseteq linked'
         /\ seedLapsed \subseteq seedLapsed' /\ confirmed \subseteq confirmed'
         /\ \A t \in seedMinted : t \in sd'.items => t \in sd.items
         /\ \A t \in sd.items \ sd'.items : t \in confirmed \cup seedLapsed
         /\ \A t \in seedMinted' \ seedMinted :
              t \in sd'.items /\ \E r \in Requests : tok[r] = t /\ pc[r] = "created" /\ pc'[r] = "delivered"
<1> USE DEF links, seeds, outcomes, reqs, seedPosts, history
<1>0. /\ sd \in EndpointState /\ ConsistentEndpoint(sd) /\ sd.items \cup sd.spent \subseteq seedMinted
      /\ linked \subseteq seedMinted /\ seedMinted \subseteq Tokens
      /\ ask \in [Pollers -> Tokens] /\ pc \in [Requests -> CreateStages]
  BY DEF CreateInv, TypeOK, SeedInv, ResumeTypeOK
<1> DEFINE Grown == linked \subseteq linked' /\ seedLapsed \subseteq seedLapsed' /\ confirmed \subseteq confirmed'
<1>1. ASSUME NEW r \in Requests, Deliver(r)
      PROVE  /\ sd' \in EndpointState /\ ConsistentEndpoint(sd')
             /\ sd'.items \cup sd'.spent \subseteq seedMinted'
             /\ seedMinted \subseteq seedMinted' /\ Grown
             /\ \A t \in seedMinted : t \in sd'.items => t \in sd.items
             /\ sd.items \subseteq sd'.items
             /\ \A t \in seedMinted' \ seedMinted :
                  t \in sd'.items /\ tok[r] = t /\ pc[r] = "created" /\ pc'[r] = "delivered"
  <2>1. tok[r] \notin seedMinted /\ tok[r] \in Tokens /\ pc[r] = "created" /\ pc'[r] = "delivered"
    BY <1>0, <1>1 DEF CreateInv, SeedInv, TypeOK, Deliver, Move
  <2>2. /\ Minted(sd, tok[r]) \in EndpointState /\ ConsistentEndpoint(Minted(sd, tok[r]))
        /\ Minted(sd, tok[r]).items = sd.items \cup {tok[r]}
        /\ Minted(sd, tok[r]).spent = sd.spent
    BY <1>0, <2>1, MintedCorrect
  <2> QED
    BY <1>0, <1>1, <2>1, <2>2 DEF Deliver
<1> DEFINE Closes == /\ sd' \in EndpointState /\ ConsistentEndpoint(sd')
                     /\ sd'.items \cup sd'.spent \subseteq seedMinted
                     /\ seedMinted' = seedMinted /\ Grown
                     /\ sd'.items \subseteq sd.items
                     /\ \A t \in sd.items \ sd'.items : t \in confirmed \cup seedLapsed
<1>2. ASSUME NEW t \in linked, sd' = Resolved(sd, seedLapsed, t),
             UNCHANGED <<seedMinted, seedLapsed, linked, confirmed>>
      PROVE  Closes
  <2>1. t \in Tokens
    BY <1>0
  <2>2. Reason(sd, seedLapsed, t) = "expired" => t \in seedLapsed
    BY DEF Reason
  <2> QED
    BY <1>0, <1>2, <2>1, <2>2, ResolvedCorrect
<1>3. ASSUME NEW c \in Confirmations, ReturnSeed(c)
      PROVE  Closes
  <2>1. seed[c] \in confirmed /\ seed[c] \in linked /\ seed[c] \in Tokens
    BY <1>0, <1>3 DEF ReturnSeed, Go, CreateInv, SeedInv
  <2> QED
    BY <1>0, <1>3, <2>1, RemovedCorrect DEF ReturnSeed
<1>4. ASSUME UNCHANGED <<sd, seedMinted>>, Grown
      PROVE  Closes
  BY <1>0, <1>4
<1>5. ASSUME NEW r \in Requests, Serve(r), ~Deliver(r)
      PROVE  Closes
  <2>1. UNCHANGED <<sd, seedMinted>> /\ Grown
    BY <1>5 DEF Serve, Refuse, Claim, ClaimLost, Record, StartCreate, Finish, Settle, Return
  <2> QED
    BY <1>4, <2>1
<1>6. ASSUME NEW t \in Tokens, Start(t) \/ Lapse(t) \/ Age(t) \/ Forsake(t) \/ View(t)
      PROVE  Closes
  <2>1. CASE View(t)
    BY <1>2, <1>4, <2>1 DEF View
  <2>2. CASE ~View(t)
    <3>1. UNCHANGED <<sd, seedMinted>> /\ Grown
      BY <1>6, <2>2 DEF Start, Lapse, Age, Forsake
    <3> QED
      BY <1>4, <3>1
  <2> QED
    BY <2>1, <2>2
<1>7. ASSUME NEW c \in Confirmations, ServeSeed(c) \/ \E t \in Tokens : PostSeed(c, t)
      PROVE  Closes
  BY <1>2, <1>3, <1>4, <1>7 DEF ServeSeed, PostSeed, Confirm, RemovalFailed
<1>8. ASSUME NEW p \in Pollers, Continue(p) \/ \E t \in Tokens : CallResume(p, t)
      PROVE  Closes
  <2>1. CASE ReadSeed(p)
    BY <1>2, <1>4, <2>1 DEF ReadSeed
  <2>2. CASE ~ReadSeed(p)
    <3>1. UNCHANGED <<sd, seedMinted>> /\ Grown
      BY <1>8, <2>2
      DEF Continue, NoToken, ReadToken, ReadOutcome, PruneOutcomes, ForgetOutcome, CallResume
    <3> QED
      BY <1>4, <3>1
  <2> QED
    BY <2>1, <2>2
<1>9. ASSUME NEW r \in Requests, \E t \in Tokens : Post(r, t)
      PROVE  Closes
  BY <1>4, <1>9 DEF Post
<1>10. ASSUME UNCHANGED vars
       PROVE  Closes
  BY <1>4, <1>10 DEF vars
<1> HIDE DEF Closes
<1>11. Closes \/ \E r \in Requests : Deliver(r)
  <2>1. CASE \E t \in Tokens : Start(t) \/ Lapse(t) \/ Age(t) \/ Forsake(t) \/ View(t)
    BY <1>6, <2>1
  <2>2. CASE \E r \in Requests : Serve(r) \/ \E t \in Tokens : Post(r, t)
    BY <1>5, <1>9, <2>2
  <2>3. CASE \E c \in Confirmations : ServeSeed(c) \/ \E t \in Tokens : PostSeed(c, t)
    BY <1>7, <2>3
  <2>4. CASE \E p \in Pollers : Continue(p) \/ \E t \in Tokens : CallResume(p, t)
    BY <1>8, <2>4
  <2> QED
    BY <1>10, <2>1, <2>2, <2>3, <2>4 DEF Next
<1> QED
  BY <1>1, <1>11 DEF Closes

LEMMA SaysStays ==
  ASSUME CreateInv, [Next]_vars, NEW t \in Tokens, NEW v, Says(t, v)
  PROVE  Says(t, v)'
<1>1. result[t] # "none" => result'[t] = result[t]
  BY StepFacts DEF CreateInv, Recorded
<1>2. Dead(t) => Dead(t)'
  BY StepFacts DEF CreateInv, Dead, Busy
<1>3. /\ t \in linked \ sd.items => t \in linked' /\ t \notin sd'.items
      /\ t \in seedLapsed \ sd.items => t \in seedLapsed' /\ t \notin sd'.items
  BY SeedFacts DEF CreateInv, TypeOK
<1> QED
  BY <1>1, <1>2, <1>3 DEF Says

LEMMA LandedStays ==
  ASSUME CreateInv, [Next]_vars, NEW t \in minted \ ep.items, ~InFlight(t)
  PROVE  ~InFlight(t)'
BY StepFacts DEF CreateInv, InFlight, Busy

-----------------------------------------------------------------------------
(* The initial state, and the seed's part of the invariant.                *)
LEMMA CreateInit == Init => CreateInv
<1> SUFFICES ASSUME Init
             PROVE  CreateInv
  OBVIOUS
<1>1. OneTime!HandoffInv
  BY InitImplements, OneTime!InitInv, TombstoneCap
<1>2. /\ EmptyEndpoint \in EndpointState /\ ConsistentEndpoint(EmptyEndpoint)
      /\ EmptyEndpoint.items = {} /\ EmptyEndpoint.spent = {}
  BY EndpointKept DEF EmptyEndpoint
<1>3. TypeOK
  BY <1>2
  DEF Init, ResumeInit, TypeOK, ResumeTypeOK, CreateStages, SeedStages, PollStages, Results,
      Answers
<1>4. Recorded /\ SeedInv
  BY <1>2 DEF Init, Recorded, Results, InFlight, SeedInv
<1>5. Polling /\ ToldRight
  BY DEF Init, ResumeInit, Polling, PollRight, ToldRight
<1> QED
  BY <1>1, <1>3, <1>4, <1>5 DEF CreateInv

LEMMA SeedKept == CreateInv /\ [Next]_vars => SeedInv'
<1> SUFFICES ASSUME CreateInv, [Next]_vars
             PROVE  SeedInv'
  OBVIOUS
<1> USE DEF links, seeds, outcomes, reqs, seedPosts, history
<1>0. /\ pc \in [Requests -> CreateStages] /\ tok \in [Requests -> Tokens]
      /\ at \in [Confirmations -> SeedStages] /\ seed \in [Confirmations -> Tokens]
      /\ seedMinted \subseteq Tokens /\ seedMinted \subseteq minted
  BY DEF CreateInv, TypeOK
<1>1. ConsistentEndpoint(sd') /\ sd'.items \cup sd'.spent \subseteq seedMinted'
  BY SeedFacts
<1>2. \A t \in seedMinted' : result'[t] = "active"
  <2>1. \A t \in seedMinted' : t \in Tokens /\ result[t] = "active"
    BY <1>0, SeedFacts DEF CreateInv, SeedInv, Recorded
  <2> QED
    BY <2>1, StepFacts DEF CreateInv, Recorded
<1>3. \A t \in seedMinted' : t \in sd'.items \cup confirmed' \cup seedLapsed'
  BY SeedFacts DEF CreateInv, SeedInv
<1>4. ASSUME NEW r \in Requests, pc'[r] = "created"
      PROVE  tok'[r] \notin seedMinted'
  <2>1. tok'[r] = tok[r] /\ pc[r] \in {"running", "created"}
    <3>1. CASE \E q \in Requests, t \in Tokens : Post(q, t)
      BY <1>0, <1>4, <3>1 DEF Post, Move
    <3>2. CASE \E q \in Requests : Serve(q)
      BY <1>0, <1>4, <3>2
      DEF Serve, Refuse, Claim, ClaimLost, Record, StartCreate, Finish, Deliver, Settle,
          Return, Move
    <3>3. CASE UNCHANGED <<pc, tok>>
      BY <1>4, <3>3 DEF CreateStages
    <3> QED
      BY <3>1, <3>2, <3>3
      DEF Next, vars, Start, Lapse, Age, Forsake, View, PostSeed, ServeSeed, Confirm,
          RemovalFailed, ReturnSeed, CallResume, Continue, NoToken, ReadToken, ReadOutcome,
          ReadSeed, PruneOutcomes, ForgetOutcome
  <2>2. tok[r] \notin seedMinted
    BY <1>0, <2>1 DEF CreateInv, SeedInv, Recorded
  <2>3. ASSUME NEW q \in Requests, tok[q] = tok[r], pc[q] = "created", pc'[q] = "delivered"
        PROVE  FALSE
    <3>1. q = r
      BY <2>1, <2>3, HandoffFacts DEF CreateInv, Busy
    <3> QED
      BY <1>4, <2>3, <3>1
  <2> QED
    BY <2>1, <2>2, <2>3, SeedFacts
<1>5. ASSUME NEW c \in Confirmations
      PROVE  /\ at'[c] # "idle" => seed'[c] \in linked'
             /\ at'[c] = "confirmed" => seed'[c] \in confirmed'
  <2>0. linked \subseteq linked' /\ confirmed \subseteq confirmed'
        /\ (at[c] # "idle" => seed[c] \in linked) /\ (at[c] = "confirmed" => seed[c] \in confirmed)
    BY SeedFacts DEF CreateInv, SeedInv
  <2>1. CASE \E d \in Confirmations, t \in Tokens : PostSeed(d, t)
    BY <1>0, <2>0, <2>1 DEF PostSeed, Go
  <2>2. CASE \E d \in Confirmations : ServeSeed(d)
    BY <1>0, <2>0, <2>2 DEF ServeSeed, Confirm, RemovalFailed, ReturnSeed, Go
  <2>3. CASE UNCHANGED <<at, seed>>
    BY <2>0, <2>3
  <2> QED
    BY <2>1, <2>2, <2>3
    DEF Next, vars, Start, Lapse, Age, Forsake, View, Post, Serve, Refuse, Claim, ClaimLost,
        Record, StartCreate, Finish, Deliver, Settle, Return, CallResume, Continue, NoToken,
        ReadToken, ReadOutcome, ReadSeed, PruneOutcomes, ForgetOutcome
<1> QED
  BY <1>1, <1>2, <1>3, <1>4, <1>5 DEF SeedInv

-----------------------------------------------------------------------------
(* Types: the seed's variables, then the others by group of actions.       *)
SeedTypes ==
  /\ sd \in EndpointState /\ seedMinted \subseteq minted
  /\ seedLapsed \subseteq seedMinted /\ linked \subseteq seedMinted
  /\ at \in [Confirmations -> SeedStages] /\ seed \in [Confirmations -> Tokens]
  /\ confirmed \subseteq linked

LEMMA SeedKeepsTypes == CreateInv /\ [Next]_vars => SeedTypes'
<1> SUFFICES ASSUME CreateInv, [Next]_vars
             PROVE  SeedTypes'
  OBVIOUS
<1> USE DEF links, seeds, outcomes, reqs, seedPosts, history
<1>0. /\ tok \in [Requests -> Tokens] /\ at \in [Confirmations -> SeedStages]
      /\ seed \in [Confirmations -> Tokens]
      /\ seedMinted \subseteq minted /\ seedLapsed \subseteq seedMinted
      /\ linked \subseteq seedMinted /\ confirmed \subseteq linked
  BY DEF CreateInv, TypeOK
<1>1. sd' \in EndpointState /\ seedMinted \subseteq seedMinted' /\ linked \subseteq linked'
  BY SeedFacts
<1>2. seedMinted' \subseteq minted'
  BY <1>0, SeedFacts, StepFacts, HandoffFacts DEF CreateInv
<1>3. CASE \E c \in Confirmations : ServeSeed(c) \/ \E t \in Tokens : PostSeed(c, t)
  <2>1. at' \in [Confirmations -> SeedStages] /\ seed' \in [Confirmations -> Tokens]
    BY <1>0, <1>3 DEF ServeSeed, Confirm, RemovalFailed, ReturnSeed, PostSeed, Go, SeedStages
  <2>2. UNCHANGED <<seedMinted, seedLapsed, linked>>
    BY <1>3 DEF ServeSeed, Confirm, RemovalFailed, ReturnSeed, PostSeed
  <2>3. confirmed' \subseteq linked
    BY <1>0, <1>3
    DEF ServeSeed, Confirm, RemovalFailed, ReturnSeed, PostSeed, Go, CreateInv, SeedInv
  <2> QED
    BY <1>0, <1>1, <1>2, <2>1, <2>2, <2>3 DEF SeedTypes
<1>4. CASE \E r \in Requests : Settle(r)
  BY <1>0, <1>1, <1>2, <1>4 DEF Settle, SeedTypes
<1>5. CASE \E t \in Tokens : Lapse(t)
  BY <1>0, <1>1, <1>2, <1>5 DEF Lapse, SeedTypes
<1>6. CASE UNCHANGED <<at, seed, seedLapsed, linked, confirmed>>
  BY <1>0, <1>1, <1>2, <1>6 DEF SeedTypes
<1> QED
  BY <1>3, <1>4, <1>5, <1>6
  DEF Next, vars, Start, Age, Forsake, View, Post, Serve, Refuse, Claim, ClaimLost, Record,
      StartCreate, Finish, Deliver, Return, CallResume, Continue, NoToken, ReadToken,
      ReadOutcome, ReadSeed, PruneOutcomes, ForgetOutcome

OtherTypes ==
  /\ ep \in EndpointState /\ minted \subseteq Tokens /\ lapsed \subseteq minted
  /\ unlinked \subseteq Tokens \ minted
  /\ outcome \in [Tokens -> Results \cup {"none", "creating"}]
  /\ aged \subseteq minted
  /\ pc \in [Requests -> CreateStages] /\ tok \in [Requests -> Tokens]
  /\ runs \in [Tokens -> Nat] /\ result \in [Tokens -> Results \cup {"none"}]
  /\ ResumeTypeOK

LEMMA TypesSplit == TypeOK <=> SeedTypes /\ OtherTypes
BY DEF TypeOK, SeedTypes, OtherTypes

LEMMA ServeKeepsTypes ==
  ASSUME CreateInv, NEW r \in Requests,
         Serve(r) \/ \E t \in Tokens : Post(r, t)
  PROVE  OtherTypes'
<1> USE DEF links, outcomes, history, resumeVars, Move
<1>0. /\ OtherTypes /\ ep \in EndpointState /\ ConsistentEndpoint(ep) /\ tok[r] \in Tokens
      /\ tok[r] \in minted \/ pc[r] = "idle"
  BY HandoffFacts, TypesSplit DEF CreateInv, OtherTypes
<1>1. pc' \in [Requests -> CreateStages] /\ tok' \in [Requests -> Tokens]
  BY <1>0
  DEF OtherTypes, CreateStages, Serve, Post, Refuse, Claim, ClaimLost, Record, StartCreate,
      Finish, Deliver, Settle, Return
<1>2. ep' \in EndpointState
  <2>1. CASE Claim(r) \/ Return(r)
    BY <1>0, <2>1, RemovedCorrect DEF Claim, Return
  <2>2. CASE \E t \in Tokens : Post(r, t)
    BY <1>0, <2>2, ResolvedCorrect DEF Post
  <2> QED
    BY <1>0, <2>1, <2>2
    DEF Serve, Refuse, ClaimLost, Record, StartCreate, Finish, Deliver, Settle
<1>3. outcome' \in [Tokens -> Results \cup {"none", "creating"}]
  <2>1. \A t \in Tokens : outcome[t] \in Results \cup {"none", "creating"}
    BY <1>0 DEF OtherTypes
  <2>2. CASE Record(r)
    BY <1>0, <2>1, <2>2 DEF Record, Surviving
  <2>3. CASE Settle(r)
    <3>1. outcome[tok[r]] # "none" => result[tok[r]] \in Results \cup {"none"}
      BY <1>0 DEF OtherTypes
    <3> QED
      BY <1>0, <2>1, <2>3, <3>1 DEF Settle, OtherTypes
  <2> QED
    BY <1>0, <2>2, <2>3
    DEF OtherTypes, Serve, Post, Refuse, Claim, ClaimLost, StartCreate, Finish, Deliver, Return
<1>4. runs' \in [Tokens -> Nat] /\ result' \in [Tokens -> Results \cup {"none"}]
  <2>1. runs' \in [Tokens -> Nat]
    BY <1>0
    DEF OtherTypes, Serve, Post, Refuse, Claim, ClaimLost, Record, StartCreate, Finish,
        Deliver, Settle, Return
  <2>2. result' \in [Tokens -> Results \cup {"none"}]
    BY <1>0
    DEF OtherTypes, Results, Serve, Post, Refuse, Claim, ClaimLost, Record, StartCreate,
        Finish, Deliver, Settle, Return
  <2> QED
    BY <2>1, <2>2
<1>5. UNCHANGED <<minted, lapsed, unlinked, aged, handles, reg, stage, ask, verdict, told>>
  BY DEF Serve, Post, Refuse, Claim, ClaimLost, Record, StartCreate, Finish, Deliver, Settle,
         Return
<1> QED
  BY <1>0, <1>1, <1>2, <1>3, <1>4, <1>5 DEF OtherTypes, ResumeTypeOK

LEMMA LinkKeepsTypes ==
  ASSUME CreateInv,
         \/ \E t \in Tokens : Start(t) \/ Lapse(t) \/ Age(t) \/ Forsake(t) \/ View(t)
         \/ \E c \in Confirmations : ServeSeed(c) \/ \E t \in Tokens : PostSeed(c, t)
  PROVE  OtherTypes'
<1> USE DEF links, outcomes, reqs, history, resumeVars
<1>0. /\ OtherTypes /\ ep \in EndpointState /\ ConsistentEndpoint(ep) /\ Recorded
  BY HandoffFacts, TypesSplit DEF CreateInv, OtherTypes
<1>1. CASE \E c \in Confirmations : ServeSeed(c) \/ \E t \in Tokens : PostSeed(c, t)
  <2>1. UNCHANGED <<ep, minted, lapsed, unlinked, outcome, aged, pc, tok, runs, result,
                    handles, reg, stage, ask, verdict, told>>
    BY <1>1 DEF ServeSeed, Confirm, RemovalFailed, ReturnSeed, PostSeed
  <2> QED
    BY <1>0, <2>1 DEF OtherTypes, ResumeTypeOK
<1>2. ASSUME NEW t \in Tokens, Start(t) \/ Lapse(t) \/ Age(t) \/ Forsake(t) \/ View(t)
      PROVE  OtherTypes'
  <2>1. ep' \in EndpointState
    <3>1. CASE View(t)
      BY <1>0, <3>1, ResolvedCorrect DEF View
    <3>2. Minted(ep, t) \in EndpointState
      BY <1>0 DEF Minted, EndpointState
    <3> QED
      BY <1>0, <1>2, <3>1, <3>2 DEF Start, Lapse, Age, Forsake
  <2>2. /\ minted' \subseteq Tokens /\ unlinked' \subseteq Tokens \ minted'
        /\ lapsed' \subseteq minted' /\ aged' \subseteq minted'
    BY <1>0, <1>2 DEF OtherTypes, Started, Recorded, Start, Lapse, Age, Forsake, View
  <2>3. handles' \subseteq Tokens /\ reg' \subseteq Tokens
    BY <1>0, <1>2
    DEF OtherTypes, ResumeTypeOK, Start, Lapse, Age, Forsake, View, BeginHandoff, Drop
  <2>4. UNCHANGED <<outcome, pc, tok, runs, result, stage, ask, verdict, told>>
    BY <1>2 DEF Start, Lapse, Age, Forsake, View, BeginHandoff, Drop
  <2> QED
    BY <1>0, <2>1, <2>2, <2>3, <2>4 DEF OtherTypes, ResumeTypeOK
<1> QED
  BY <1>1, <1>2

LEMMA PollKeepsTypes ==
  ASSUME CreateInv, NEW p \in Pollers,
         Continue(p) \/ \E t \in Tokens : CallResume(p, t)
  PROVE  OtherTypes'
<1> USE DEF links, outcomes, reqs, history
<1>0. /\ OtherTypes /\ ep \in EndpointState /\ ConsistentEndpoint(ep) /\ ask[p] \in Tokens
      /\ PollRight(p) /\ verdict[p] \in (Answers \ {"dead"}) \cup {"pending"}
  BY HandoffFacts, TypesSplit DEF CreateInv, OtherTypes, ResumeTypeOK, Polling
<1> USE DEF CallResume, Poll, FindHandle, HandleDead, Continue, NoToken, ReadToken,
            ReadOutcome, ReadSeed, PruneOutcomes, ForgetOutcome, Bookkeeping, Dispatch,
            DeleteHandle, EndContinuation, ReadOn, Answer, Step, Tell, Decide
<1>1. ep' \in EndpointState
  <2>1. CASE ReadToken(p)
    BY <1>0, <2>1, ResolvedCorrect
  <2> QED
    BY <1>0, <2>1
<1>2. outcome' \in [Tokens -> Results \cup {"none", "creating"}]
  BY <1>0 DEF OtherTypes, Surviving
<1>3. /\ stage' \in [Pollers -> PollStages]
      /\ verdict' \in [Pollers -> (Answers \ {"dead"}) \cup {"pending"}]
  <2> USE <1>0 DEF OtherTypes, ResumeTypeOK
  <2>1. stage' \in [Pollers -> PollStages]
    BY DEF PollStages
  <2>2. verdict' \in [Pollers -> (Answers \ {"dead"}) \cup {"pending"}]
    BY DEF Answers
  <2> QED
    BY <2>1, <2>2
<1>4. told' \in [Tokens -> SUBSET Answers]
  <2> USE <1>0 DEF OtherTypes, ResumeTypeOK
  <2>1. CASE EndContinuation(p)
    BY <2>1 DEF PollRight
  <2>2. CASE ~EndContinuation(p)
    BY <2>2 DEF Answers
  <2> QED
    BY <2>1, <2>2
<1>5. ask' \in [Pollers -> Tokens] /\ handles' \subseteq handles /\ reg' \subseteq reg
  BY <1>0 DEF OtherTypes, ResumeTypeOK
<1>6. UNCHANGED <<minted, lapsed, unlinked, aged, pc, tok, runs, result>>
  OBVIOUS
<1> QED
  BY <1>0, <1>1, <1>2, <1>3, <1>4, <1>5, <1>6 DEF OtherTypes, ResumeTypeOK

LEMMA StepKeepsTypes == CreateInv /\ [Next]_vars => TypeOK'
<1> SUFFICES ASSUME CreateInv, [Next]_vars
             PROVE  OtherTypes'
  BY SeedKeepsTypes DEF TypeOK, SeedTypes, OtherTypes
<1>1. CASE UNCHANGED vars
  <2>1. OtherTypes
    BY TypesSplit DEF CreateInv
  <2> QED
    BY <1>1, <2>1
    DEF vars, links, outcomes, reqs, history, resumeVars, OtherTypes, ResumeTypeOK
<1>2. CASE \E r \in Requests : Serve(r) \/ \E t \in Tokens : Post(r, t)
  BY <1>2, ServeKeepsTypes
<1>3. CASE \/ \E t \in Tokens : Start(t) \/ Lapse(t) \/ Age(t) \/ Forsake(t) \/ View(t)
           \/ \E c \in Confirmations : ServeSeed(c) \/ \E t \in Tokens : PostSeed(c, t)
  BY <1>3, LinkKeepsTypes
<1>4. CASE \E p \in Pollers : Continue(p) \/ \E t \in Tokens : CallResume(p, t)
  BY <1>4, PollKeepsTypes
<1> QED
  BY <1>1, <1>2, <1>3, <1>4 DEF Next

-----------------------------------------------------------------------------
(* The records.  Most steps leave them and the requests in flight alone.   *)
LEMMA QuietKeepsRecorded ==
  ASSUME CreateInv, [Next]_vars, UNCHANGED <<outcome, result>>,
         \A r \in Requests : pc'[r] \notin {"idle", "resolved", "settled"} =>
           /\ tok'[r] = tok[r]
           /\ \/ pc'[r] = pc[r]
              \/ pc[r] = "resolved" /\ pc'[r] = "claimed" /\ tok[r] \in ep.items
              \/ pc[r] = "recorded" /\ pc'[r] = "running"
              \/ pc[r] = "created" /\ pc'[r] = "delivered"
  PROVE  Recorded'
<1>1. /\ \A t \in Tokens : outcome'[t] # "none" => t \in minted' /\ t \notin ep'.items
      /\ \A t \in Tokens : result'[t] # "none" => t \in minted' /\ t \notin ep'.items
  BY StepFacts DEF CreateInv, Recorded
<1>2. \A t \in Tokens : outcome'[t] \in Results => ~InFlight(t)' /\ result'[t] = outcome'[t]
  BY LandedStays DEF CreateInv, Recorded, Results
<1>3. \A r \in Requests : pc'[r] \in {"claimed", "recorded", "running"} => result'[tok'[r]] = "none"
  BY DEF CreateInv, Recorded, TypeOK
<1>4. /\ \A r \in Requests : pc'[r] \in {"created", "delivered"} => result'[tok'[r]] = "active"
      /\ \A r \in Requests : pc'[r] = "failed" => result'[tok'[r]] = "failed"
  BY DEF CreateInv, Recorded
<1>5. \A r \in Requests :
        pc'[r] \in {"recorded", "running", "created", "failed", "delivered"} =>
          outcome'[tok'[r]] = "creating"
  BY DEF CreateInv, Recorded
<1> QED
  BY <1>1, <1>2, <1>3, <1>4, <1>5 DEF Recorded

LEMMA RecordKeepsRecorded ==
  ASSUME CreateInv, [Next]_vars, NEW r \in Requests,
         Record(r) \/ Finish(r) \/ Settle(r)
  PROVE  Recorded'
<1> USE DEF links, seeds, outcomes, history, Move
<1> DEFINE t == tok[r]
<1>0. /\ TypeOK /\ Recorded /\ t \in Tokens /\ t \in minted \ ep.items
      /\ \A q \in Requests \ {r} : pc[q] \notin {"idle", "resolved"} => tok[q] # t
      /\ pc \in [Requests -> CreateStages]
      /\ outcome \in [Tokens -> Results \cup {"none", "creating"}]
      /\ result \in [Tokens -> Results \cup {"none"}]
      /\ UNCHANGED <<ep, minted, tok, aged>>
  BY HandoffFacts DEF CreateInv, TypeOK, Busy, Record, Finish, Settle
<1>1. \A q \in Requests \ {r} : pc'[q] = pc[q]
  BY <1>0 DEF Record, Finish, Settle
<1>2. CASE Record(r)
  <2>1. /\ pc[r] = "claimed" /\ pc'[r] = "recorded" /\ result' = result
        /\ \A u \in Tokens :
             IF u = t THEN outcome'[u] = "creating"
             ELSE \/ outcome'[u] = outcome[u]
                  \/ outcome'[u] = "none" /\ outcome[u] \in Results
    BY <1>0, <1>2 DEF Record, Surviving
  <2>2. \A u \in Tokens : outcome'[u] \in Results => ~InFlight(u)' /\ result'[u] = outcome'[u]
    BY <1>0, <1>1, <2>1 DEF Recorded, InFlight, Results
  <2>3. \A q \in Requests :
          pc'[q] \in {"recorded", "running", "created", "failed", "delivered"} =>
            outcome'[tok'[q]] = "creating"
    BY <1>0, <1>1, <2>1 DEF Recorded, Results, TypeOK
  <2> QED
    BY <1>0, <1>1, <2>1, <2>2, <2>3 DEF Recorded, TypeOK
<1>3. CASE Finish(r)
  <2>1. /\ pc[r] = "running" /\ outcome' = outcome
        /\ \/ pc'[r] = "created" /\ result'[t] = "active"
           \/ pc'[r] = "failed" /\ result'[t] = "failed"
        /\ \A u \in Tokens : u # t => result'[u] = result[u]
    BY <1>0, <1>3 DEF Finish
  <2>2. outcome[t] = "creating"
    BY <1>0, <2>1 DEF Recorded
  <2>3. \A u \in Tokens : outcome'[u] \in Results => ~InFlight(u)' /\ result'[u] = outcome'[u]
    BY <1>0, <1>1, <2>1, <2>2 DEF Recorded, InFlight, Results
  <2>4. \A q \in Requests :
          pc'[q] \in {"recorded", "running", "created", "failed", "delivered"} =>
            outcome'[tok'[q]] = "creating"
    BY <1>0, <1>1, <2>1, <2>2 DEF Recorded
  <2>5. \A u \in Tokens : result'[u] # "none" => u \in minted' /\ u \notin ep'.items
    BY <1>0, <2>1 DEF Recorded
  <2>6. /\ \A q \in Requests : pc'[q] \in {"claimed", "recorded", "running"} => result'[tok'[q]] = "none"
        /\ \A q \in Requests : pc'[q] \in {"created", "delivered"} => result'[tok'[q]] = "active"
        /\ \A q \in Requests : pc'[q] = "failed" => result'[tok'[q]] = "failed"
    BY <1>0, <1>1, <2>1 DEF Recorded, TypeOK
  <2> QED
    BY <1>0, <2>1, <2>3, <2>4, <2>5, <2>6 DEF Recorded
<1>4. CASE Settle(r)
  <2>1. /\ pc[r] \in {"delivered", "failed"} /\ pc'[r] = "settled" /\ result' = result
    BY <1>0, <1>4 DEF Settle
  <2>2. outcome[t] = "creating" /\ result[t] \in Results
    BY <1>0, <2>1 DEF Recorded, Results
  <2>3. \A u \in Tokens : outcome'[u] = IF u = t THEN result[t] ELSE outcome[u]
    BY <1>0, <1>4, <2>2 DEF Settle
  <2>4. \A u \in Tokens : outcome'[u] \in Results => ~InFlight(u)' /\ result'[u] = outcome'[u]
    BY <1>0, <1>1, <2>1, <2>3 DEF Recorded, InFlight, Results
  <2>5. \A q \in Requests :
          pc'[q] \in {"recorded", "running", "created", "failed", "delivered"} =>
            outcome'[tok'[q]] = "creating"
    BY <1>0, <1>1, <2>1, <2>3 DEF Recorded, TypeOK
  <2> QED
    BY <1>0, <1>1, <2>1, <2>3, <2>4, <2>5 DEF Recorded, TypeOK
<1> QED
  BY <1>2, <1>3, <1>4

(* Pruning and forgetting drop only what no request in flight has recorded. *)
LEMMA DroppingKeepsRecorded ==
  ASSUME CreateInv, [Next]_vars, NEW p \in Pollers, PruneOutcomes(p) \/ ForgetOutcome(p)
  PROVE  Recorded'
<1> USE DEF links, reqs, history
<1>1. /\ UNCHANGED <<ep, minted, pc, tok, result>>
      /\ \A t \in Tokens : \/ outcome'[t] = outcome[t]
                           \/ outcome'[t] = "none" /\ outcome[t] \in Results
                           \/ outcome'[t] = "none" /\ ~InFlight(t)
  BY DEF PruneOutcomes, ForgetOutcome, Surviving, ReadOn, Step, CreateInv, TypeOK,
         ResumeTypeOK, Polling, PollRight
<1>2. \A q \in Requests :
        pc'[q] \in {"recorded", "running", "created", "failed", "delivered"} =>
          outcome'[tok'[q]] = "creating"
  BY <1>1 DEF CreateInv, TypeOK, Recorded, InFlight, Results
<1>3. \A t \in Tokens : outcome'[t] \in Results => ~InFlight(t)' /\ result'[t] = outcome'[t]
  BY <1>1 DEF CreateInv, Recorded, InFlight, Results
<1> QED
  BY <1>1, <1>2, <1>3 DEF CreateInv, Recorded

LEMMA StepKeepsRecorded == CreateInv /\ [Next]_vars => Recorded'
<1> SUFFICES ASSUME CreateInv, [Next]_vars
             PROVE  Recorded'
  OBVIOUS
<1> USE DEF links, seeds, outcomes, reqs, history
<1>0. pc \in [Requests -> CreateStages] /\ tok \in [Requests -> Tokens]
  BY DEF CreateInv, TypeOK
<1>1. ASSUME NEW t \in Tokens, Start(t) \/ Lapse(t) \/ Age(t) \/ Forsake(t) \/ View(t)
      PROVE  Recorded'
  BY <1>1, QuietKeepsRecorded DEF Start, Lapse, Age, Forsake, View
<1>2. ASSUME NEW r \in Requests, NEW t \in Tokens, Post(r, t)
      PROVE  Recorded'
  BY <1>0, <1>2, QuietKeepsRecorded DEF Post, Move
<1>3. ASSUME NEW r \in Requests,
             \/ Refuse(r) \/ Claim(r) \/ ClaimLost(r) \/ StartCreate(r) \/ Deliver(r) \/ Return(r)
      PROVE  Recorded'
  <2>1. UNCHANGED <<outcome, result, tok>>
    BY <1>3 DEF Refuse, Claim, ClaimLost, StartCreate, Deliver, Return
  <2>2. \A q \in Requests : pc'[q] \notin {"idle", "resolved", "settled"} =>
          \/ pc'[q] = pc[q]
          \/ pc[q] = "resolved" /\ pc'[q] = "claimed" /\ tok[q] \in ep.items
          \/ pc[q] = "recorded" /\ pc'[q] = "running"
          \/ pc[q] = "created" /\ pc'[q] = "delivered"
    BY <1>0, <1>3 DEF Refuse, Claim, ClaimLost, StartCreate, Deliver, Return, Move
  <2> QED
    BY <2>1, <2>2, QuietKeepsRecorded
<1>4. ASSUME NEW p \in Pollers,
             \/ NoToken(p) \/ ReadToken(p) \/ ReadOutcome(p) \/ ReadSeed(p)
             \/ Bookkeeping(p) /\ UNCHANGED <<links, seeds, outcomes, reqs, history>>
             \/ \E t \in Tokens : CallResume(p, t)
      PROVE  Recorded'
  BY <1>4, QuietKeepsRecorded DEF NoToken, ReadToken, ReadOutcome, ReadSeed, CallResume
<1>5. ASSUME NEW c \in Confirmations, ServeSeed(c) \/ \E t \in Tokens : PostSeed(c, t)
      PROVE  Recorded'
  BY <1>5, QuietKeepsRecorded DEF ServeSeed, Confirm, RemovalFailed, ReturnSeed, PostSeed
<1>6. CASE UNCHANGED vars
  BY <1>6, QuietKeepsRecorded DEF vars
<1> QED
  BY <1>1, <1>2, <1>3, <1>4, <1>5, <1>6, RecordKeepsRecorded, DroppingKeepsRecorded
  DEF Next, Serve, Continue

-----------------------------------------------------------------------------
(* The polls.  A decision, once made, stays right whatever the others do.  *)
LEMMA OthersKeepDecision ==
  ASSUME CreateInv, [Next]_vars, NEW p \in Pollers,
         stage'[p] = stage[p], ask'[p] = ask[p], verdict'[p] = verdict[p]
  PROVE  PollRight(p)'
<1> DEFINE t == ask[p]
           v == verdict[p]
<1>1. PollRight(p) /\ Recorded /\ t \in Tokens
  BY DEF CreateInv, TypeOK, ResumeTypeOK, Polling
<1>2. Says(t, v) => Says(t, v)'
  BY <1>1, SaysStays
<1>3. stage[p] = "forget" => result[t] # "none"
  BY <1>1 DEF PollRight, Says
<1>4. stage[p] \in {"seed", "forget"} => t \in minted \ ep.items /\ result[t] # "none"
  BY <1>1, <1>3 DEF PollRight, Recorded
<1>5. stage[p] \in {"seed", "forget"} => ~InFlight(t)'
  BY <1>1, <1>4, LandedStays DEF PollRight
<1>6. stage[p] = "seed" => result'[t] = "active"
  BY <1>1, StepFacts DEF CreateInv, PollRight, Recorded
<1> QED
  BY <1>1, <1>2, <1>5, <1>6 DEF PollRight, Says, Dead, InFlight

(* What one poll decides, and on what. *)
LEMMA DecisionIsRight ==
  ASSUME CreateInv, [Next]_vars, NEW p \in Pollers,
         NoToken(p) \/ ReadToken(p) \/ ReadOutcome(p) \/ ReadSeed(p)
  PROVE  PollRight(p)'
<1> DEFINE t == ask[p]
<1>0. /\ TypeOK /\ Recorded /\ PollRight(p) /\ t \in Tokens /\ stage \in [Pollers -> PollStages]
      /\ verdict \in [Pollers -> (Answers \ {"dead"}) \cup {"pending"}]
      /\ ep \in EndpointState /\ ConsistentEndpoint(ep)
  BY HandoffFacts DEF CreateInv, TypeOK, ResumeTypeOK, Polling
<1>1. UNCHANGED <<ask, pc, tok, runs, result, minted, linked, seedLapsed>>
  BY DEF NoToken, ReadToken, ReadOutcome, ReadSeed, links, seeds, outcomes, reqs, history,
         Answer, ReadOn
<1>2. CASE NoToken(p)
  BY <1>0, <1>1, <1>2 DEF NoToken, Answer, Step, Decide, Says, PollRight
<1>3. CASE ReadToken(p)
  <2>1. CASE Reason(ep, lapsed, t) = "expired"
    <3>1. t \in ep.items /\ t \in minted /\ t \notin ep'.items
      BY <1>0, <1>3, <2>1, ResolvedCorrect DEF ReadToken
    <3>2. runs[t] = 0 /\ \A r \in Requests : tok[r] = t => ~Busy(r)
      BY <1>0, <3>1, HandoffFacts DEF CreateInv
    <3>3. Dead(t)'
      BY <1>1, <3>1, <3>2 DEF Dead, Busy
    <3>4. stage'[p] = "delete" /\ verdict'[p] = "expired"
      BY <1>0, <1>3, <2>1 DEF ReadToken, Answer, Step, Decide, ReadOn
    <3> QED
      BY <1>1, <3>3, <3>4 DEF Says, PollRight
  <2>2. CASE Reason(ep, lapsed, t) # "expired"
    BY <1>0, <1>3, <2>2 DEF ReadToken, Answer, Step, Decide, ReadOn, PollRight
  <2> QED
    BY <2>1, <2>2
<1>4. CASE ReadOutcome(p)
  <2>1. outcome[t] \in Results => ~InFlight(t) /\ result[t] = outcome[t]
    BY <1>0 DEF Recorded
  <2>2. \/ stage'[p] = "idle"
        \/ stage'[p] = "prune" /\ verdict'[p] = "gone"
        \/ stage'[p] = "seed" /\ outcome[t] = "active"
        \/ stage'[p] = "forget" /\ verdict'[p] = "failed" /\ outcome[t] = "failed"
    BY <1>0, <1>4 DEF ReadOutcome, Answer, Step, Decide, ReadOn
  <2> QED
    BY <1>1, <2>1, <2>2 DEF Says, Results, InFlight, PollRight
<1>5. CASE ReadSeed(p)
  <2>1. stage[p] = "seed" /\ result[t] = "active" /\ ~InFlight(t)
    BY <1>0, <1>5 DEF ReadSeed, Answer, Step, PollRight
  <2>2. sd \in EndpointState /\ ConsistentEndpoint(sd)
    BY DEF CreateInv, TypeOK, SeedInv
  <2>3. \/ stage'[p] = "idle"
        \/ /\ stage'[p] = "forget" /\ verdict'[p] = "done"
           /\ t \in linked /\ Reason(sd, seedLapsed, t) = "used"
        \/ /\ stage'[p] = "delete" /\ verdict'[p] = "expired"
           /\ t \in linked /\ Reason(sd, seedLapsed, t) = "expired"
    BY <1>0, <1>5 DEF ReadSeed, Answer, Step, Decide
  <2>4. t \in linked => sd' = Resolved(sd, seedLapsed, t)
    BY <1>5 DEF ReadSeed
  <2>5. ASSUME t \in linked, Reason(sd, seedLapsed, t) = "used"
        PROVE  t \notin sd'.items
    <3>1. t \in sd.spent
      BY <2>2, <2>5, PrunedCorrect DEF Reason, ConsistentEndpoint
    <3>2. sd'.items = sd.items
      BY <1>0, <2>2, <2>4, <2>5, ResolvedCorrect
    <3> QED
      BY <2>2, <3>1, <3>2 DEF ConsistentEndpoint, Apart
  <2>6. ASSUME t \in linked, Reason(sd, seedLapsed, t) = "expired"
        PROVE  t \notin sd'.items /\ t \in seedLapsed
    BY <1>0, <2>2, <2>4, <2>6, ResolvedCorrect DEF Reason
  <2> QED
    BY <1>1, <2>1, <2>3, <2>5, <2>6 DEF Says, InFlight, PollRight
<1> QED
  BY <1>2, <1>3, <1>4, <1>5

LEMMA PollsKeepPolling ==
  ASSUME CreateInv, [Next]_vars, NEW p \in Pollers,
         Continue(p) \/ \E t \in Tokens : CallResume(p, t)
  PROVE  Polling' /\ ToldRight'
<1>0. /\ Polling /\ ToldRight /\ stage \in [Pollers -> PollStages] /\ ask \in [Pollers -> Tokens]
      /\ verdict \in [Pollers -> (Answers \ {"dead"}) \cup {"pending"}]
      /\ told \in [Tokens -> SUBSET Answers]
  BY DEF CreateInv, TypeOK, ResumeTypeOK
<1> USE DEF CallResume, Poll, FindHandle, HandleDead, Continue, NoToken, ReadToken,
            ReadOutcome, ReadSeed, PruneOutcomes, ForgetOutcome, Bookkeeping, Dispatch,
            DeleteHandle, EndContinuation, ReadOn, Answer, Step, Tell, Decide
<1>1. \A q \in Pollers \ {p} : stage'[q] = stage[q] /\ ask'[q] = ask[q] /\ verdict'[q] = verdict[q]
  BY <1>0
<1>2. \/ NoToken(p) \/ ReadToken(p) \/ ReadOutcome(p) \/ ReadSeed(p)
      \/ stage'[p] \in {"idle", "found", "dispatched"}
      \/ /\ stage[p] \in {"prune", "forget", "delete"} /\ stage'[p] \in {"delete", "end"}
         /\ ask'[p] = ask[p] /\ verdict'[p] = verdict[p]
  BY <1>0
<1>3. \A t \in Tokens : \A v : v \in told'[t] =>
        v \in told[t] \/ v = "dead" \/ (stage[p] = "end" /\ t = ask[p] /\ v = verdict[p])
  BY <1>0
<1> HIDE DEF CallResume, Poll, FindHandle, HandleDead, Continue, NoToken, ReadToken,
             ReadOutcome, ReadSeed, PruneOutcomes, ForgetOutcome, Bookkeeping, Dispatch,
             DeleteHandle, EndContinuation, ReadOn, Answer, Step, Tell, Decide
<1>4. \A t \in Tokens : \A v : Says(t, v) => Says(t, v)'
  BY SaysStays
<1>5. ToldRight'
  <2>1. \A t \in Tokens : \A v : v \in told'[t] => Says(t, v)
    BY <1>0, <1>3 DEF ToldRight, Polling, PollRight, Says
  <2> QED
    BY <1>4, <2>1 DEF ToldRight
<1>6. ASSUME NEW q \in Pollers
      PROVE  PollRight(q)'
  <2>1. CASE q # p
    BY <1>1, <2>1, OthersKeepDecision
  <2>2. CASE q = p /\ (NoToken(p) \/ ReadToken(p) \/ ReadOutcome(p) \/ ReadSeed(p))
    BY <2>2, DecisionIsRight
  <2>3. CASE q = p /\ stage'[p] \in {"idle", "found", "dispatched"}
    BY <2>3 DEF PollRight
  <2>4. CASE /\ q = p /\ stage[p] \in {"prune", "forget", "delete"}
             /\ stage'[p] \in {"delete", "end"} /\ ask'[p] = ask[p] /\ verdict'[p] = verdict[p]
    <3>1. verdict[p] # "pending" /\ Says(ask[p], verdict[p])
      BY <1>0, <2>4 DEF Polling, PollRight
    <3>2. ask[p] \in Tokens
      BY <1>0
    <3>3. Says(ask[p], verdict[p])'
      BY <1>4, <2>4, <3>1, <3>2 DEF Says, Dead
    <3> QED
      BY <2>4, <3>1, <3>3 DEF PollRight
  <2> QED
    BY <1>2, <2>1, <2>2, <2>3, <2>4
<1> QED
  BY <1>5, <1>6 DEF Polling

LEMMA CreateStep == CreateInv /\ [Next]_vars => CreateInv'
<1> SUFFICES ASSUME CreateInv, [Next]_vars
             PROVE  CreateInv'
  OBVIOUS
<1>1. OneTime!HandoffInv'
  BY StepImplements, OneTime!NextInv, TombstoneCap DEF CreateInv
<1>2. Polling' /\ ToldRight'
  <2>1. CASE \E p \in Pollers : Continue(p) \/ \E t \in Tokens : CallResume(p, t)
    BY <2>1, PollsKeepPolling
  <2>2. CASE UNCHANGED <<stage, ask, verdict, told>>
    <3>1. ToldRight'
      BY <2>2, SaysStays DEF CreateInv, ToldRight, TypeOK, ResumeTypeOK
    <3> QED
      BY <2>2, <3>1, OthersKeepDecision DEF Polling
  <2>3. UNCHANGED <<stage, ask, verdict, told>>
        \/ \E p \in Pollers : Continue(p) \/ \E t \in Tokens : CallResume(p, t)
    BY DEF Next, Start, Lapse, Age, Forsake, View, Post, Serve, Refuse, Claim, ClaimLost,
           Record, StartCreate, Finish, Deliver, Settle, Return, ServeSeed, Confirm,
           RemovalFailed, ReturnSeed, PostSeed, BeginHandoff, Drop, resumeVars, vars
  <2> QED
    BY <2>1, <2>2, <2>3
<1> QED
  BY <1>1, <1>2, SeedKept, StepKeepsTypes, StepKeepsRecorded DEF CreateInv

LEMMA CreateTruth == CreateInv => TypeOK /\ Truthful /\ NotStranded
<1> SUFFICES ASSUME CreateInv
             PROVE  TypeOK /\ Truthful /\ NotStranded
  OBVIOUS
<1>1. Truthful
  BY DEF CreateInv, ToldRight, Says, Dead, Truthful
<1>2. NotStranded
  BY DEF CreateInv, TypeOK, SeedInv, NotStranded
<1> QED
  BY <1>1, <1>2 DEF CreateInv

(* The two instances of Handoff, with and without its proofs, are the same. *)
LEMMA SameHandoff ==
  /\ OneTime!Init => Generic!Init
  /\ [OneTime!Next]_(OneTime!vars) => [Generic!Next]_(Generic!vars)
<1>1. OneTime!Init => Generic!Init
  BY DEF OneTime!Init, Generic!Init, OneTime!EmptyEndpoint, Generic!EmptyEndpoint
<1>2. /\ \A e, t : Generic!Minted(e, t) = OneTime!Minted(e, t)
      /\ \A e, t : Generic!Removed(e, t) = OneTime!Removed(e, t)
      /\ \A e, l, t : Generic!Reason(e, l, t) = OneTime!Reason(e, l, t)
      /\ \A e, l, t : Generic!Resolved(e, l, t) = OneTime!Resolved(e, l, t)
  <2>1. \A e : Generic!Pruned(e) = OneTime!Pruned(e)
    BY DEF Generic!Pruned, Generic!Overflow, Generic!Cardinality,
           OneTime!Pruned, OneTime!Overflow, OneTime!Cardinality
  <2>2. \A e, t : Generic!Taken(e, t) = OneTime!Taken(e, t)
    BY DEF Generic!Taken, Generic!MarkSpent, OneTime!Taken, OneTime!MarkSpent
  <2>3. \A e, t : Generic!Minted(e, t) = OneTime!Minted(e, t)
    BY DEF Generic!Minted, OneTime!Minted
  <2>4. \A e, t : Generic!Removed(e, t) = OneTime!Removed(e, t)
    BY <2>1, <2>2 DEF Generic!Removed, OneTime!Removed
  <2>5. \A e, l, t : Generic!Reason(e, l, t) = OneTime!Reason(e, l, t)
    BY <2>1 DEF Generic!Reason, OneTime!Reason
  <2>6. \A e, l, t : Generic!Resolved(e, l, t) = OneTime!Resolved(e, l, t)
    BY <2>1, <2>2, <2>5 DEF Generic!Resolved, OneTime!Resolved
  <2> QED
    BY <2>3, <2>4, <2>5, <2>6
<1>3. ASSUME NEW t PROVE /\ OneTime!Mint(t) => Generic!Mint(t)
                         /\ OneTime!Lapse(t) => Generic!Lapse(t)
                         /\ OneTime!Visit(t) => Generic!Visit(t)
  BY <1>2 DEF OneTime!Mint, OneTime!Lapse, OneTime!Visit, Generic!Mint, Generic!Lapse, Generic!Visit
<1>4. OneTime!Count => Generic!Count
  BY DEF OneTime!Count, OneTime!SweepOrders, OneTime!Lapsed, OneTime!Swept, OneTime!Pruned,
         OneTime!Overflow, OneTime!Cardinality, OneTime!Range,
         Generic!Count, Generic!SweepOrders, Generic!Lapsed, Generic!Swept, Generic!Pruned,
         Generic!Overflow, Generic!Cardinality, Generic!Range
<1>5. ASSUME NEW r, NEW t PROVE OneTime!Post(r, t) => Generic!Post(r, t)
  BY <1>2 DEF OneTime!Post, OneTime!Goto, Generic!Post, Generic!Goto
<1>6. ASSUME NEW r PROVE OneTime!Submit(r) => Generic!Submit(r)
  BY <1>2
  DEF OneTime!Submit, OneTime!Reject, OneTime!Claim, OneTime!ClaimLost, OneTime!Run,
      OneTime!Return, OneTime!Goto, OneTime!endpointVars,
      Generic!Submit, Generic!Reject, Generic!Claim, Generic!ClaimLost, Generic!Run,
      Generic!Return, Generic!Goto, Generic!endpointVars
<1>7. UNCHANGED OneTime!vars => UNCHANGED Generic!vars
  BY DEF OneTime!vars, Generic!vars
<1>8. OneTime!Next => Generic!Next
  <2>1. CASE \E t \in Tokens : OneTime!Mint(t) \/ OneTime!Lapse(t) \/ OneTime!Visit(t)
    BY <1>3, <2>1 DEF Generic!Next
  <2>2. CASE \E r \in Requests, t \in Tokens : OneTime!Post(r, t)
    BY <1>5, <2>2 DEF Generic!Next
  <2>3. CASE \E r \in Requests : OneTime!Submit(r)
    BY <1>6, <2>3 DEF Generic!Next
  <2>4. CASE OneTime!Count
    BY <1>4, <2>4 DEF Generic!Next
  <2> QED
    BY <2>1, <2>2, <2>3, <2>4 DEF OneTime!Next
<1> QED
  BY <1>1, <1>7, <1>8

-----------------------------------------------------------------------------
(***************************************************************************)
(* Both hand-offs.  What VaultRestoreProofs proves holds of the restore    *)
(* here: its instance and that of MCVaultHandoffs are the same.            *)
(***************************************************************************)
RestoreP == INSTANCE VaultRestoreProofs WITH
  Pollers <- RestorePollers, MaxSpentTombstones <- RestoreTombstones

LEMMA SameRestoreEndpoint ==
  /\ \A e, t : Restore!Minted(e, t) = RestoreP!Minted(e, t)
  /\ \A e, t : Restore!Removed(e, t) = RestoreP!Removed(e, t)
  /\ \A e, l, t : Restore!Reason(e, l, t) = RestoreP!Reason(e, l, t)
  /\ \A e, l, t : Restore!Resolved(e, l, t) = RestoreP!Resolved(e, l, t)
<1>1. \A e : Restore!Pruned(e) = RestoreP!Pruned(e)
  BY DEF Restore!Pruned, Restore!Overflow, Restore!Cardinality,
         RestoreP!Pruned, RestoreP!Overflow, RestoreP!Cardinality
<1>2. \A e, t : Restore!Taken(e, t) = RestoreP!Taken(e, t)
  BY DEF Restore!Taken, Restore!MarkSpent, RestoreP!Taken, RestoreP!MarkSpent
<1>3. \A e, t : Restore!Minted(e, t) = RestoreP!Minted(e, t)
  BY DEF Restore!Minted, RestoreP!Minted
<1>4. \A e, t : Restore!Removed(e, t) = RestoreP!Removed(e, t)
  BY <1>1, <1>2 DEF Restore!Removed, RestoreP!Removed
<1>5. \A e, l, t : Restore!Reason(e, l, t) = RestoreP!Reason(e, l, t)
  BY <1>1 DEF Restore!Reason, RestoreP!Reason
<1>6. \A e, l, t : Restore!Resolved(e, l, t) = RestoreP!Resolved(e, l, t)
  BY <1>1, <1>2, <1>5 DEF Restore!Resolved, RestoreP!Resolved
<1> QED
  BY <1>3, <1>4, <1>5, <1>6

LEMMA SameRestoreInit == Restore!Init => RestoreP!Init
BY DEF Restore!Init, Restore!ResumeInit, Restore!EmptyEndpoint,
       RestoreP!Init, RestoreP!ResumeInit, RestoreP!EmptyEndpoint

LEMMA SameRestoreNext == Restore!Next => RestoreP!Next
<1> USE DEF Restore!links, Restore!outcomes, Restore!posts, Restore!resumeVars, Restore!Move,
            RestoreP!links, RestoreP!outcomes, RestoreP!posts, RestoreP!resumeVars, RestoreP!Move
<1>1. ASSUME NEW t, Restore!Start(t) \/ Restore!Lapse(t) \/ Restore!Age(t) \/ Restore!Forsake(t)
             \/ Restore!View(t)
      PROVE  RestoreP!Start(t) \/ RestoreP!Lapse(t) \/ RestoreP!Age(t) \/ RestoreP!Forsake(t)
             \/ RestoreP!View(t)
  BY <1>1, SameRestoreEndpoint
  DEF Restore!Start, Restore!Started, Restore!BeginHandoff, Restore!Lapse, Restore!Age,
      Restore!Forsake, Restore!Drop, Restore!View,
      RestoreP!Start, RestoreP!Started, RestoreP!BeginHandoff, RestoreP!Lapse, RestoreP!Age,
      RestoreP!Forsake, RestoreP!Drop, RestoreP!View
<1>2. ASSUME NEW r, NEW t, Restore!Post(r, t)
      PROVE  RestoreP!Post(r, t)
  BY <1>2, SameRestoreEndpoint DEF Restore!Post, RestoreP!Post
<1>3. ASSUME NEW r, Restore!Serve(r)
      PROVE  RestoreP!Serve(r)
  <2>1. \A o : Restore!Surviving(o) = RestoreP!Surviving(o)
    BY DEF Restore!Surviving, Restore!Results, RestoreP!Surviving, RestoreP!Results
  <2>2. /\ Restore!Claim(r) => RestoreP!Claim(r)
        /\ Restore!Return(r) => RestoreP!Return(r)
    BY SameRestoreEndpoint DEF Restore!Claim, Restore!Return, RestoreP!Claim, RestoreP!Return
  <2>3. Restore!Record(r) => RestoreP!Record(r)
    BY <2>1 DEF Restore!Record, RestoreP!Record
  <2>4. /\ Restore!Refuse(r) => RestoreP!Refuse(r)
        /\ Restore!ClaimLost(r) => RestoreP!ClaimLost(r)
        /\ Restore!StartRestore(r) => RestoreP!StartRestore(r)
        /\ Restore!Finish(r) => RestoreP!Finish(r)
        /\ Restore!Settle(r) => RestoreP!Settle(r)
    BY DEF Restore!Refuse, Restore!ClaimLost, Restore!StartRestore, Restore!Finish,
           Restore!Settle, Restore!Results, RestoreP!Refuse, RestoreP!ClaimLost,
           RestoreP!StartRestore, RestoreP!Finish, RestoreP!Settle, RestoreP!Results
  <2> QED
    BY <1>3, <2>2, <2>3, <2>4 DEF Restore!Serve, RestoreP!Serve
<1>4. ASSUME NEW p, NEW t, Restore!CallResume(p, t)
      PROVE  RestoreP!CallResume(p, t)
  BY <1>4
  DEF Restore!CallResume, Restore!Started, Restore!Poll, Restore!FindHandle,
      Restore!HandleDead, Restore!Step, Restore!Tell,
      RestoreP!CallResume, RestoreP!Started, RestoreP!Poll, RestoreP!FindHandle,
      RestoreP!HandleDead, RestoreP!Step, RestoreP!Tell
<1>5. ASSUME NEW p, Restore!Continue(p)
      PROVE  RestoreP!Continue(p)
  <2> USE DEF Restore!Answer, Restore!ReadOn, Restore!Step, Restore!Decide, Restore!Tell,
              RestoreP!Answer, RestoreP!ReadOn, RestoreP!Step, RestoreP!Decide, RestoreP!Tell
  <2>1. Restore!ReadToken(p) => RestoreP!ReadToken(p)
    BY SameRestoreEndpoint DEF Restore!ReadToken, RestoreP!ReadToken
  <2>2. /\ Restore!NoToken(p) => RestoreP!NoToken(p)
        /\ Restore!ReadOutcome(p) => RestoreP!ReadOutcome(p)
        /\ Restore!ForgetOutcome(p) => RestoreP!ForgetOutcome(p)
    BY DEF Restore!NoToken, Restore!ReadOutcome, Restore!ForgetOutcome,
           RestoreP!NoToken, RestoreP!ReadOutcome, RestoreP!ForgetOutcome
  <2>3. Restore!PruneOutcomes(p) => RestoreP!PruneOutcomes(p)
    BY DEF Restore!PruneOutcomes, Restore!Surviving, Restore!Results,
           RestoreP!PruneOutcomes, RestoreP!Surviving, RestoreP!Results
  <2>4. Restore!Bookkeeping(p) => RestoreP!Bookkeeping(p)
    BY DEF Restore!Bookkeeping, Restore!Dispatch, Restore!DeleteHandle,
           Restore!EndContinuation, RestoreP!Bookkeeping, RestoreP!Dispatch,
           RestoreP!DeleteHandle, RestoreP!EndContinuation
  <2> QED
    BY <1>5, <2>1, <2>2, <2>3, <2>4 DEF Restore!Continue, RestoreP!Continue
<1> QED
  BY <1>1, <1>2, <1>3, <1>4, <1>5 DEF Restore!Next, RestoreP!Next

(* The step of the restore, seen from either instance.  Its Handoff is that *)
(* of VaultRestoreProofs.                                                   *)
LEMMA SameRestoreStep ==
  ASSUME [Restore!Next]_restoreVars
  PROVE  [RestoreP!Next]_(RestoreP!vars)
<1>1. CASE Restore!Next
  BY <1>1, SameRestoreNext
<1>2. CASE UNCHANGED restoreVars
  BY <1>2
  DEF restoreVars, RestoreP!vars, RestoreP!links, RestoreP!outcomes, RestoreP!posts,
      RestoreP!resumeVars
<1> QED
  BY <1>1, <1>2

LEMMA SameRestoreHandoff ==
  /\ RestoreP!OneTime!Init => Restore!Generic!Init
  /\ [RestoreP!OneTime!Next]_(RestoreP!OneTime!vars) => [Restore!Generic!Next]_(Restore!Generic!vars)
<1> USE DEF Restore!GenericStage, RestoreP!GenericStage
<1>1. RestoreP!OneTime!Init => Restore!Generic!Init
  BY DEF RestoreP!OneTime!Init, Restore!Generic!Init, RestoreP!OneTime!EmptyEndpoint,
         Restore!Generic!EmptyEndpoint
<1> HIDE DEF Restore!GenericStage, RestoreP!GenericStage
<1>2. \A s : Restore!GenericStage(s) = RestoreP!GenericStage(s)
  BY DEF Restore!GenericStage, RestoreP!GenericStage
<1>3. /\ \A e, t : Restore!Generic!Minted(e, t) = RestoreP!OneTime!Minted(e, t)
      /\ \A e, t : Restore!Generic!Removed(e, t) = RestoreP!OneTime!Removed(e, t)
      /\ \A e, l, t : Restore!Generic!Reason(e, l, t) = RestoreP!OneTime!Reason(e, l, t)
      /\ \A e, l, t : Restore!Generic!Resolved(e, l, t) = RestoreP!OneTime!Resolved(e, l, t)
  <2>1. \A e : Restore!Generic!Pruned(e) = RestoreP!OneTime!Pruned(e)
    BY DEF Restore!Generic!Pruned, Restore!Generic!Overflow, Restore!Generic!Cardinality,
           RestoreP!OneTime!Pruned, RestoreP!OneTime!Overflow, RestoreP!OneTime!Cardinality
  <2>2. \A e, t : Restore!Generic!Taken(e, t) = RestoreP!OneTime!Taken(e, t)
    BY DEF Restore!Generic!Taken, Restore!Generic!MarkSpent,
           RestoreP!OneTime!Taken, RestoreP!OneTime!MarkSpent
  <2>3. \A e, t : Restore!Generic!Minted(e, t) = RestoreP!OneTime!Minted(e, t)
    BY DEF Restore!Generic!Minted, RestoreP!OneTime!Minted
  <2>4. \A e, t : Restore!Generic!Removed(e, t) = RestoreP!OneTime!Removed(e, t)
    BY <2>1, <2>2 DEF Restore!Generic!Removed, RestoreP!OneTime!Removed
  <2>5. \A e, l, t : Restore!Generic!Reason(e, l, t) = RestoreP!OneTime!Reason(e, l, t)
    BY <2>1 DEF Restore!Generic!Reason, RestoreP!OneTime!Reason
  <2>6. \A e, l, t : Restore!Generic!Resolved(e, l, t) = RestoreP!OneTime!Resolved(e, l, t)
    BY <2>1, <2>2, <2>5 DEF Restore!Generic!Resolved, RestoreP!OneTime!Resolved
  <2> QED
    BY <2>3, <2>4, <2>5, <2>6
<1>4. ASSUME NEW t PROVE /\ RestoreP!OneTime!Mint(t) => Restore!Generic!Mint(t)
                         /\ RestoreP!OneTime!Lapse(t) => Restore!Generic!Lapse(t)
                         /\ RestoreP!OneTime!Visit(t) => Restore!Generic!Visit(t)
  BY <1>2, <1>3
  DEF RestoreP!OneTime!Mint, RestoreP!OneTime!Lapse, RestoreP!OneTime!Visit,
      Restore!Generic!Mint, Restore!Generic!Lapse, Restore!Generic!Visit
<1>5. RestoreP!OneTime!Count => Restore!Generic!Count
  BY <1>2
  DEF RestoreP!OneTime!Count, RestoreP!OneTime!SweepOrders, RestoreP!OneTime!Lapsed,
      RestoreP!OneTime!Swept, RestoreP!OneTime!Pruned, RestoreP!OneTime!Overflow,
      RestoreP!OneTime!Cardinality, RestoreP!OneTime!Range,
      Restore!Generic!Count, Restore!Generic!SweepOrders, Restore!Generic!Lapsed,
      Restore!Generic!Swept, Restore!Generic!Pruned, Restore!Generic!Overflow,
      Restore!Generic!Cardinality, Restore!Generic!Range
<1>6. ASSUME NEW r, NEW t PROVE RestoreP!OneTime!Post(r, t) => Restore!Generic!Post(r, t)
  BY <1>2, <1>3
  DEF RestoreP!OneTime!Post, RestoreP!OneTime!Goto, Restore!Generic!Post, Restore!Generic!Goto
<1>7. ASSUME NEW r PROVE RestoreP!OneTime!Submit(r) => Restore!Generic!Submit(r)
  BY <1>2, <1>3
  DEF RestoreP!OneTime!Submit, RestoreP!OneTime!Reject, RestoreP!OneTime!Claim,
      RestoreP!OneTime!ClaimLost, RestoreP!OneTime!Run, RestoreP!OneTime!Return,
      RestoreP!OneTime!Goto, RestoreP!OneTime!endpointVars,
      Restore!Generic!Submit, Restore!Generic!Reject, Restore!Generic!Claim,
      Restore!Generic!ClaimLost, Restore!Generic!Run, Restore!Generic!Return,
      Restore!Generic!Goto, Restore!Generic!endpointVars
<1>8. UNCHANGED RestoreP!OneTime!vars => UNCHANGED Restore!Generic!vars
  BY <1>2 DEF RestoreP!OneTime!vars, Restore!Generic!vars
<1>9. RestoreP!OneTime!Next => Restore!Generic!Next
  <2>1. CASE \E t \in Tokens :
               RestoreP!OneTime!Mint(t) \/ RestoreP!OneTime!Lapse(t) \/ RestoreP!OneTime!Visit(t)
    BY <1>4, <2>1 DEF Restore!Generic!Next
  <2>2. CASE \E r \in Requests, t \in Tokens : RestoreP!OneTime!Post(r, t)
    BY <1>6, <2>2 DEF Restore!Generic!Next
  <2>3. CASE \E r \in Requests : RestoreP!OneTime!Submit(r)
    BY <1>7, <2>3 DEF Restore!Generic!Next
  <2>4. CASE RestoreP!OneTime!Count
    BY <1>5, <2>4 DEF Restore!Generic!Next
  <2> QED
    BY <2>1, <2>2, <2>3, <2>4 DEF RestoreP!OneTime!Next
<1> QED
  BY <1>1, <1>8, <1>9

-----------------------------------------------------------------------------
BothInv == IF flow = "create" THEN CreateInv ELSE RestoreP!RestoreInv

LEMMA BothStarts == BothInit => BothInv
BY CreateInit, SameRestoreInit, RestoreP!RestoreInit, RestoreTombstoneCap
DEF BothInit, BothInv

LEMMA EitherStep ==
  ASSUME [BothNext]_bothVars
  PROVE  /\ flow' = flow
         /\ flow = "create" => [Next]_vars
         /\ flow # "create" => [Restore!Next]_restoreVars
<1>1. CASE BothNext
  BY <1>1 DEF BothNext
<1>2. CASE UNCHANGED bothVars
  <2>1. UNCHANGED restoreVars
    BY <1>2
    DEF bothVars, vars, links, seeds, outcomes, reqs, history, resumeVars, restoreVars
  <2> QED
    BY <1>2, <2>1 DEF bothVars
<1> QED
  BY <1>1, <1>2

LEMMA BothStep == BothInv /\ [BothNext]_bothVars => BothInv'
<1> SUFFICES ASSUME BothInv, [BothNext]_bothVars
             PROVE  BothInv'
  OBVIOUS
<1>1. CASE flow = "create"
  <2>1. CreateInv /\ [Next]_vars /\ flow' = "create"
    BY <1>1, EitherStep DEF BothInv
  <2> QED
    BY <2>1, CreateStep DEF BothInv
<1>2. CASE flow # "create"
  <2>1. RestoreP!RestoreInv /\ flow' # "create"
    BY <1>2, EitherStep DEF BothInv
  <2>2. [RestoreP!Next]_(RestoreP!vars)
    BY <1>2, EitherStep, SameRestoreStep
  <2>3. RestoreP!RestoreInv'
    BY <2>1, <2>2, RestoreP!RestoreStep, RestoreTombstoneCap
  <2> QED
    BY <2>1, <2>3 DEF BothInv
<1> QED
  BY <1>1, <1>2

(* What the invariant says in the words of MCVaultHandoffs. *)
LEMMA BothTruth ==
  BothInv => BothTypeOK /\ AgentToldTruth /\ RunningIsRecorded /\ SeedInReach
<1> SUFFICES ASSUME BothInv
             PROVE  BothTypeOK /\ AgentToldTruth /\ RunningIsRecorded /\ SeedInReach
  OBVIOUS
<1>1. CASE flow = "create"
  BY <1>1, CreateTruth DEF BothInv, BothTypeOK, AgentToldTruth, RunningIsRecorded, SeedInReach
<1>2. CASE flow # "create"
  <2>1. RestoreP!TypeOK /\ RestoreP!Truthful /\ RestoreP!InFlightRecorded
    BY <1>2, RestoreP!RestoreTruth, RestoreTombstoneCap DEF BothInv
  <2>2. Restore!TypeOK
    BY <2>1
    DEF Restore!TypeOK, Restore!ResumeTypeOK, Restore!EndpointState, Restore!Results,
        Restore!PostStages, Restore!PollStages, Restore!Answers, Restore!Started,
        RestoreP!TypeOK, RestoreP!ResumeTypeOK, RestoreP!EndpointState, RestoreP!Results,
        RestoreP!PostStages, RestoreP!PollStages, RestoreP!Answers, RestoreP!Started
  <2>3. Restore!Truthful /\ Restore!InFlightRecorded
    BY <2>1
    DEF Restore!Truthful, Restore!InFlightRecorded, RestoreP!Truthful, RestoreP!InFlightRecorded
  <2> QED
    BY <1>2, <2>2, <2>3 DEF BothTypeOK, AgentToldTruth, RunningIsRecorded, SeedInReach
<1> QED
  BY <1>1, <1>2

-----------------------------------------------------------------------------
(* The inductive invariant holds in every reachable state. *)
THEOREM BothInvHolds == BothSpec => []BothInv
BY BothStarts, BothStep, PTL DEF BothSpec

(* The stores, the requests and the polls of both flows keep their types.   *)
THEOREM BothTypesCorrect == BothSpec => []BothTypeOK
BY BothInvHolds, BothTruth, PTL

(* vault_handoff.go tokenDone: whatever an agent is told of a create or a   *)
(* restore, by any of its polls, is so and stays so.                        *)
THEOREM AgentIsToldTruth == BothSpec => []AgentToldTruth
BY BothInvHolds, BothTruth, PTL

(* A restore that runs stays on record, whoever prunes or forgets.          *)
THEOREM RunningStaysRecorded == BothSpec => []RunningIsRecorded
BY BothInvHolds, BothTruth, PTL

(* seed_drop.go: until it lapses, a shown seed link closes only once the    *)
(* copy at rest is destroyed on the human's word, however many              *)
(* confirmations race.                                                      *)
THEOREM SeedStaysInReach == BothSpec => []SeedInReach
BY BothInvHolds, BothTruth, PTL

(* vault_handoff.go: a settled outcome leaves the map past its TTL, or when *)
(* a poll that has read it cleans up.                                       *)
THEOREM OutcomeIsKept == BothSpec => OutcomeKept
<1>1. BothInv /\ [BothNext]_bothVars =>
        [flow = "restore" =>
           \A t \in Tokens :
             outcome[t] \in Restore!Results /\ outcome'[t] = "none" =>
               \/ t \in aged
               \/ \E p \in RestorePollers : ask[p] = t /\ verdict[p] \in {"done", "failed"}]_bothVars
  <2> SUFFICES ASSUME BothInv, [BothNext]_bothVars, flow = "restore", NEW t \in Tokens,
                      outcome[t] \in Restore!Results, outcome'[t] = "none"
               PROVE  \/ t \in aged
                      \/ \E p \in RestorePollers : ask[p] = t /\ verdict[p] \in {"done", "failed"}
    OBVIOUS
  <2>1. RestoreP!RestoreInv /\ [RestoreP!Next]_(RestoreP!vars)
    BY EitherStep, SameRestoreStep DEF BothInv
  <2>2. outcome[t] \in RestoreP!Results
    BY DEF Restore!Results, RestoreP!Results
  <2> QED
    BY <2>1, <2>2, RestoreP!OutcomeStep, RestoreTombstoneCap
<1> QED
  BY <1>1, BothInvHolds, PTL DEF BothSpec, OutcomeKept

(* create_oob.go and restore_oob.go claim the link before they work: either *)
(* flow uses its endpoint only as Handoff says, so that its one-time        *)
(* theorems hold of both.                                                   *)
THEOREM BothRefineHandoff == BothSpec => BothImplementHandoff
<1>1. BothInit => IF flow = "create" THEN Generic!Init ELSE Restore!Generic!Init
  <2>1. CASE flow = "create"
    BY <2>1, InitImplements, SameHandoff DEF BothInit
  <2>2. CASE flow # "create"
    BY <2>2, SameRestoreInit, RestoreP!InitImplements, SameRestoreHandoff, RestoreTombstoneCap
    DEF BothInit
  <2> QED
    BY <2>1, <2>2
<1>2. BothInv /\ [BothNext]_bothVars =>
        [IF flow = "create" THEN [Generic!Next]_(Generic!vars)
         ELSE [Restore!Generic!Next]_(Restore!Generic!vars)]_bothVars
  <2> SUFFICES ASSUME BothInv, [BothNext]_bothVars
               PROVE  IF flow = "create" THEN [Generic!Next]_(Generic!vars)
                      ELSE [Restore!Generic!Next]_(Restore!Generic!vars)
    OBVIOUS
  <2>1. CASE flow = "create"
    <3>1. TypeOK /\ [Next]_vars
      BY <2>1, EitherStep DEF BothInv, CreateInv
    <3> QED
      BY <2>1, <3>1, StepImplements, SameHandoff
  <2>2. CASE flow # "create"
    <3>1. RestoreP!TypeOK /\ [RestoreP!Next]_(RestoreP!vars)
      BY <2>2, EitherStep, SameRestoreStep, RestoreP!RestoreTruth, RestoreTombstoneCap
      DEF BothInv
    <3>2. [RestoreP!OneTime!Next]_(RestoreP!OneTime!vars)
      BY <3>1, RestoreP!StepImplements, RestoreTombstoneCap
    <3> QED
      BY <2>2, <3>2, SameRestoreHandoff
  <2> QED
    BY <2>1, <2>2
<1> QED
  BY <1>1, <1>2, BothInvHolds, PTL DEF BothSpec, BothImplementHandoff
=============================================================================
