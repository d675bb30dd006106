-------------------------- MODULE VaultRestoreProofs ------------------------
(***************************************************************************)
(* Theorems about the vault restore hand-off, for every number of links,   *)
(* POSTs and polls and every cap on the tombstones.                        *)
(*                                                                         *)
(* The flow implements Handoff; so what HandoffProofs says of an endpoint  *)
(* in use - one claim per link, its work once - holds of the restore, and  *)
(* the invariant of this module only adds the outcomes and the polls.      *)
(***************************************************************************)
EXTENDS VaultRestore, EndpointProofs

OneTime == INSTANCE HandoffProofs WITH pc <- [r \in Requests |-> GenericStage(pc[r])]

-----------------------------------------------------------------------------
(* The refinement mapping.                                                 *)
LEMMA StageOf ==
  /\ \A s \in {"idle", "resolved", "claimed", "running"} : GenericStage(s) = s
  /\ GenericStage("recorded") = "claimed"
  /\ GenericStage("finished") = "running" /\ GenericStage("settled") = "running"
BY DEF GenericStage

(* A move of a request is one of Handoff's, between the stages they map to. *)
LEMMA MoveMaps ==
  ASSUME pc \in [Requests -> PostStages], NEW r \in Requests,
         NEW from, NEW to \in PostStages, Move(r, from, to)
  PROVE  OneTime!Goto(r, GenericStage(from), GenericStage(to))
BY DEF Move, OneTime!Goto

LEMMA InitImplements == Init => OneTime!Init
BY StageOf DEF Init, OneTime!Init, EmptyEndpoint, OneTime!EmptyEndpoint

(* The endpoint operators of the two modules are the same. *)
LEMMA SameEndpoint ==
  /\ EndpointState = OneTime!EndpointState
  /\ \A e : ConsistentEndpoint(e) <=> OneTime!ConsistentEndpoint(e)
  /\ \A e, t : Minted(e, t) = OneTime!Minted(e, t)
  /\ \A e, t : Removed(e, t) = OneTime!Removed(e, t)
  /\ \A e, l, t : Reason(e, l, t) = OneTime!Reason(e, l, t)
  /\ \A e, l, t : Resolved(e, l, t) = OneTime!Resolved(e, l, t)
<1>1. EndpointState = OneTime!EndpointState
  BY DEF EndpointState, OneTime!EndpointState
<1>2. ASSUME NEW e PROVE ConsistentEndpoint(e) <=> OneTime!ConsistentEndpoint(e)
  BY DEF ConsistentEndpoint, InSync, Apart, Bounded, IsInjective, Range,
         OneTime!ConsistentEndpoint, OneTime!InSync, OneTime!Apart, OneTime!Bounded,
         OneTime!IsInjective, OneTime!Range
<1>3. ASSUME NEW e, NEW t PROVE Minted(e, t) = OneTime!Minted(e, t)
  BY DEF Minted, OneTime!Minted
<1>4. ASSUME NEW e PROVE Pruned(e) = OneTime!Pruned(e)
  BY DEF Pruned, Overflow, Cardinality, OneTime!Pruned, OneTime!Overflow,
         OneTime!Cardinality
<1>5. ASSUME NEW e, NEW t PROVE Taken(e, t) = OneTime!Taken(e, t)
  BY DEF Taken, MarkSpent, OneTime!Taken, OneTime!MarkSpent
<1>6. ASSUME NEW e, NEW t PROVE Removed(e, t) = OneTime!Removed(e, t)
  BY <1>4, <1>5 DEF Removed, OneTime!Removed
<1>7. ASSUME NEW e, NEW l, NEW t PROVE Reason(e, l, t) = OneTime!Reason(e, l, t)
  BY <1>4 DEF Reason, OneTime!Reason
<1>8. ASSUME NEW e, NEW l, NEW t PROVE Resolved(e, l, t) = OneTime!Resolved(e, l, t)
  BY <1>4, <1>5, <1>7 DEF Resolved, OneTime!Resolved
<1> QED
  BY <1>1, <1>2, <1>3, <1>6, <1>7, <1>8

LEMMA StepImplements == TypeOK /\ [Next]_vars => [OneTime!Next]_(OneTime!vars)
<1> SUFFICES ASSUME TypeOK, [Next]_vars
             PROVE  [OneTime!Next]_(OneTime!vars)
  OBVIOUS
<1> USE DEF links, outcomes, posts
<1>0. pc \in [Requests -> PostStages]
  BY DEF TypeOK
<1>1. ASSUME NEW t \in Tokens, Start(t)
      PROVE  OneTime!Mint(t) \/ UNCHANGED OneTime!vars
  <2>1. UNCHANGED <<lapsed, pc, tok, runs>>
    BY <1>1 DEF Start
  <2>2. CASE ep' = Minted(ep, t) /\ minted' = minted \cup {t}
    BY <1>1, <2>1, <2>2, SameEndpoint DEF Start, Started, OneTime!Mint
  <2>3. CASE UNCHANGED <<ep, minted>>
    BY <2>1, <2>3 DEF OneTime!vars
  <2> QED
    BY <1>1, <2>2, <2>3 DEF Start
<1>2. ASSUME NEW t \in Tokens, Lapse(t)
      PROVE  OneTime!Lapse(t)
  BY <1>2 DEF Lapse, OneTime!Lapse
<1>3. ASSUME NEW t \in Tokens, Age(t) \/ Forsake(t)
      PROVE  UNCHANGED OneTime!vars
  BY <1>3 DEF Age, Forsake, OneTime!vars
<1>4. ASSUME NEW t \in Tokens, View(t)
      PROVE  OneTime!Visit(t)
  BY <1>4, SameEndpoint DEF View, OneTime!Visit
<1>5. ASSUME NEW r \in Requests, NEW t \in Tokens, Post(r, t)
      PROVE  OneTime!Post(r, t)
  <2>1. Move(r, "idle", "resolved") /\ "resolved" \in PostStages
    BY <1>5 DEF Post, PostStages
  <2>2. GenericStage("idle") = "idle" /\ GenericStage("resolved") = "resolved"
    BY StageOf
  <2>3. OneTime!Goto(r, "idle", "resolved")
    BY <1>0, <2>1, <2>2, MoveMaps
  <2> QED
    BY <1>5, <2>3, SameEndpoint DEF Post, OneTime!Post
<1>6. ASSUME NEW r \in Requests, Refuse(r)
      PROVE  OneTime!Reject(r)
  <2>1. Move(r, "resolved", "idle") /\ "idle" \in PostStages
    BY <1>6 DEF Refuse, PostStages
  <2>2. GenericStage("resolved") = "resolved" /\ GenericStage("idle") = "idle"
    BY StageOf
  <2>3. OneTime!Goto(r, "resolved", "idle")
    BY <1>0, <2>1, <2>2, MoveMaps
  <2> QED
    BY <1>6, <2>3 DEF Refuse, OneTime!Reject, OneTime!endpointVars
<1>7. ASSUME NEW r \in Requests, Claim(r)
      PROVE  OneTime!Claim(r)
  <2>1. Move(r, "resolved", "claimed") /\ "claimed" \in PostStages
    BY <1>7 DEF Claim, PostStages
  <2>2. GenericStage("resolved") = "resolved" /\ GenericStage("claimed") = "claimed"
    BY StageOf
  <2>3. OneTime!Goto(r, "resolved", "claimed")
    BY <1>0, <2>1, <2>2, MoveMaps
  <2> QED
    BY <1>7, <2>3, SameEndpoint DEF Claim, OneTime!Claim
<1>8. ASSUME NEW r \in Requests, ClaimLost(r)
      PROVE  OneTime!ClaimLost(r)
  <2>1. Move(r, "resolved", "idle") /\ "idle" \in PostStages
    BY <1>8 DEF ClaimLost, PostStages
  <2>2. GenericStage("resolved") = "resolved" /\ GenericStage("idle") = "idle"
    BY StageOf
  <2>3. OneTime!Goto(r, "resolved", "idle")
    BY <1>0, <2>1, <2>2, MoveMaps
  <2> QED
    BY <1>8, <2>3 DEF ClaimLost, OneTime!ClaimLost, OneTime!endpointVars
<1>9. ASSUME NEW r \in Requests, Record(r) \/ Finish(r) \/ Settle(r)
      PROVE  UNCHANGED OneTime!vars
  <2>1. UNCHANGED <<ep, minted, lapsed, tok, runs>>
    BY <1>9 DEF Record, Finish, Settle
  <2>2. \A q \in Requests : GenericStage(pc'[q]) = GenericStage(pc[q])
    BY <1>0, <1>9, StageOf DEF Record, Finish, Settle, Move
  <2> QED
    BY <2>1, <2>2 DEF OneTime!vars
<1>10. ASSUME NEW r \in Requests, StartRestore(r)
       PROVE  OneTime!Run(r)
  <2>1. Move(r, "recorded", "running") /\ "running" \in PostStages
    BY <1>10 DEF StartRestore, PostStages
  <2>2. GenericStage("recorded") = "claimed" /\ GenericStage("running") = "running"
    BY StageOf
  <2>3. OneTime!Goto(r, "claimed", "running")
    BY <1>0, <2>1, <2>2, MoveMaps
  <2> QED
    BY <1>10, <2>3 DEF StartRestore, OneTime!Run, OneTime!endpointVars
<1>11. ASSUME NEW r \in Requests, Return(r)
       PROVE  OneTime!Return(r)
  <2>1. Move(r, "settled", "idle") /\ "idle" \in PostStages
    BY <1>11 DEF Return, PostStages
  <2>2. GenericStage("settled") = "running" /\ GenericStage("idle") = "idle"
    BY StageOf
  <2>3. OneTime!Goto(r, "running", "idle")
    BY <1>0, <2>1, <2>2, MoveMaps
  <2> QED
    BY <1>11, <2>3, SameEndpoint DEF Return, OneTime!Return
<1>12. ASSUME NEW p \in Pollers, ReadToken(p)
       PROVE  OneTime!Visit(ask[p])
  BY <1>12, SameEndpoint DEF ReadToken, OneTime!Visit
<1>13. ASSUME NEW p \in Pollers, ReadToken(p)
       PROVE  ask[p] \in Tokens
  BY DEF TypeOK, ResumeTypeOK
<1>14. ASSUME NEW p \in Pollers, Continue(p), ~ReadToken(p)
       PROVE  UNCHANGED OneTime!vars
  BY <1>14 DEF Continue, NoToken, ReadOutcome, PruneOutcomes, ForgetOutcome, OneTime!vars
<1>15. ASSUME NEW p \in Pollers, NEW t \in Tokens, CallResume(p, t)
       PROVE  UNCHANGED OneTime!vars
  BY <1>15 DEF CallResume, OneTime!vars
<1>16. CASE UNCHANGED vars
  BY <1>16 DEF vars, OneTime!vars
<1> QED
  BY <1>1, <1>2, <1>3, <1>4, <1>5, <1>6, <1>7, <1>8, <1>9, <1>10, <1>11, <1>12, <1>13,
     <1>14, <1>15, <1>16
  DEF Next, Serve, OneTime!Next, OneTime!Submit

-----------------------------------------------------------------------------
(* What the outcomes and the polls add.  A link is dead when its restore   *)
(* never ran and never will.                                               *)
Dead(t) ==
  /\ t \in minted /\ runs[t] = 0 /\ t \notin ep.items
  /\ \A r \in Requests : tok[r] = t => pc[r] \in {"idle", "resolved"}

Says(t, v) ==
  /\ v = "done"    => result[t] = "succeeded"
  /\ v = "failed"  => result[t] = "failed"
  /\ v = "expired" => Dead(t)

(* A restore has a result from its end on, and once it is settled its       *)
(* record, if there still is one, is that result.                           *)
Recorded ==
  /\ \A t \in Tokens : outcome[t] # "none" => t \in minted \ ep.items
  /\ \A t \in Tokens : result[t] # "none" => t \in minted \ ep.items
  /\ \A t \in Tokens : outcome[t] \in Results => ~InFlight(t) /\ result[t] = outcome[t]
  /\ \A r \in Requests : pc[r] \in {"claimed", "recorded", "running"} => result[tok[r]] = "none"
  /\ \A r \in Requests : pc[r] = "finished" => result[tok[r]] \in Results
  /\ InFlightRecorded

(* A poll that cleans up has decided on something that is so and stays so,  *)
(* and forgets only the outcome of a restore that is over.                  *)
PollRight(p) ==
  /\ stage[p] # "seed"
  /\ stage[p] \in {"prune", "forget", "delete", "end"} =>
       verdict[p] # "pending" /\ Says(ask[p], verdict[p])
  /\ stage[p] = "forget" => verdict[p] \in {"done", "failed"} /\ ~InFlight(ask[p])

Polling == \A p \in Pollers : PollRight(p)

ToldRight == \A t \in Tokens : \A v \in told[t] : Says(t, v)

RestoreInv == TypeOK /\ OneTime!HandoffInv /\ Recorded /\ Polling /\ ToldRight

(* What HandoffProofs gives, in the words of this flow.                     *)
Busy(r) == pc[r] \notin {"idle", "resolved"}

LEMMA HandoffFacts ==
  ASSUME TypeOK, OneTime!HandoffInv
  PROVE  /\ ep \in EndpointState /\ ConsistentEndpoint(ep)
         /\ ep.items \cup ep.spent \subseteq minted
         /\ \A r \in Requests : pc[r] # "idle" => tok[r] \in minted
         /\ \A r \in Requests : Busy(r) => tok[r] \notin ep.items
         /\ \A r, q \in Requests : Busy(r) /\ Busy(q) /\ tok[r] = tok[q] => r = q
         /\ \A t \in Tokens : t \in ep.items \/ t \notin minted => runs[t] = 0
<1>1. /\ pc \in [Requests -> PostStages] /\ tok \in [Requests -> Tokens]
      /\ ep \in EndpointState
  BY DEF TypeOK
<1>2. ConsistentEndpoint(ep)
  BY SameEndpoint DEF OneTime!HandoffInv, OneTime!EndpointConsistent
<1>3. \A r \in Requests : /\ GenericStage(pc[r]) = "idle" <=> pc[r] = "idle"
                          /\ Busy(r) => GenericStage(pc[r]) \in {"claimed", "running"}
  BY <1>1, StageOf DEF PostStages, Busy
<1> DEFINE g == [r \in Requests |-> GenericStage(pc[r])]
<1>4. \A r \in Requests : g[r] = GenericStage(pc[r])
  OBVIOUS
<1>5. /\ ep.items \cup ep.spent \subseteq minted
      /\ \A r \in Requests : g[r] # "idle" => tok[r] \in minted
      /\ \A t \in Tokens : t \in ep.items \/ t \notin minted => runs[t] = 0
      /\ \A r, q \in Requests, t \in Tokens :
           g[r] \in {"claimed", "running"} /\ tok[r] = t =>
             t \notin ep.items /\ (g[q] \in {"claimed", "running"} /\ tok[q] = t => r = q)
  BY DEF OneTime!HandoffInv, OneTime!LinkInv, OneTime!ExclusiveClaim, OneTime!Holds
<1> HIDE DEF g
<1>6. \A r \in Requests : pc[r] # "idle" => tok[r] \in minted
  BY <1>3, <1>4, <1>5
<1>7. ASSUME NEW r \in Requests, Busy(r)
      PROVE  /\ tok[r] \notin ep.items
             /\ \A q \in Requests : Busy(q) /\ tok[r] = tok[q] => r = q
  <2>1. tok[r] \in Tokens /\ g[r] \in {"claimed", "running"}
    BY <1>1, <1>3, <1>4, <1>7
  <2>2. \A q \in Requests : Busy(q) => g[q] \in {"claimed", "running"}
    BY <1>3, <1>4
  <2> QED
    BY <1>5, <2>1, <2>2
<1> QED
  BY <1>1, <1>2, <1>5, <1>6, <1>7

(* What any step leaves alone: a link that is closed stays closed, only     *)
(* Claim makes a request busy, and with a link that was open, and a restore *)
(* is started and ended by the request that holds its link.                 *)
LEMMA StepFacts ==
  ASSUME TypeOK, OneTime!HandoffInv, [Next]_vars
  PROVE  /\ minted \subseteq minted'
         /\ \A t \in minted \ ep.items : t \notin ep'.items
         /\ \A r \in Requests : pc'[r] \notin {"idle", "resolved"} =>
              tok'[r] = tok[r] /\ (Busy(r) \/ tok[r] \in ep.items)
         /\ \A r \in Requests :
              pc'[r] \in {"claimed", "recorded", "running", "finished"} =>
                pc[r] \in {"resolved", "claimed", "recorded", "running", "finished"}
         /\ \A t \in Tokens : runs'[t] # runs[t] => \E r \in Requests : pc[r] = "recorded" /\ tok[r] = t
         /\ \A t \in Tokens : result'[t] # result[t] => \E r \in Requests : pc[r] = "running" /\ tok[r] = t
<1> USE DEF links, outcomes, posts, Busy
<1>0. /\ pc \in [Requests -> PostStages] /\ tok \in [Requests -> Tokens]
      /\ ep \in EndpointState /\ ConsistentEndpoint(ep) /\ minted \subseteq Tokens
      /\ ep.items \cup ep.spent \subseteq minted
      /\ ask \in [Pollers -> Tokens]
  BY HandoffFacts DEF TypeOK, ResumeTypeOK
<1> DEFINE Calm  == UNCHANGED <<pc, tok, runs, result>>
           Close == minted' = minted /\ ep'.items \subseteq ep.items
<1>1. ASSUME NEW t \in Tokens, Start(t)
      PROVE  Calm /\ minted \subseteq minted' /\ \A u \in minted \ ep.items : u \notin ep'.items
  BY <1>0, <1>1 DEF Start, Started, Minted, EndpointState
<1>2. ASSUME NEW t \in Tokens, View(t)
      PROVE  Calm /\ Close
  BY <1>0, <1>2, ResolvedCorrect DEF View
<1>3. ASSUME NEW t \in Tokens, Lapse(t) \/ Age(t) \/ Forsake(t)
      PROVE  Calm /\ Close
  BY <1>3 DEF Lapse, Age, Forsake
<1>4. ASSUME NEW r \in Requests, NEW t \in Tokens, Post(r, t)
      PROVE  /\ Close /\ UNCHANGED <<runs, result>>
             /\ \A q \in Requests : pc'[q] # "resolved" => pc'[q] = pc[q] /\ tok'[q] = tok[q]
  <2>1. ep'.items \subseteq ep.items
    BY <1>0, <1>4, ResolvedCorrect DEF Post
  <2> QED
    BY <1>0, <1>4, <2>1 DEF Post, Move
<1>5. ASSUME NEW r \in Requests, Claim(r) \/ Return(r)
      PROVE  Close
  BY <1>0, <1>5, RemovedCorrect DEF Claim, Return
<1>6. ASSUME NEW r \in Requests, Serve(r)
      PROVE  /\ Close
             /\ tok' = tok
             /\ \A q \in Requests \ {r} : pc'[q] = pc[q]
             /\ pc'[r] \notin {"idle", "resolved"} => Busy(r) \/ tok[r] \in ep.items
             /\ pc'[r] \in {"claimed", "recorded", "running", "finished"} =>
                  pc[r] \in {"resolved", "claimed", "recorded", "running", "finished"}
             /\ \A t \in Tokens : runs'[t] # runs[t] => pc[r] = "recorded" /\ tok[r] = t
             /\ \A t \in Tokens : result'[t] # result[t] => pc[r] = "running" /\ tok[r] = t
  <2>1. Close
    BY <1>5, <1>6
    DEF Serve, Refuse, Claim, ClaimLost, Record, StartRestore, Finish, Settle, Return
  <2> QED
    BY <1>0, <1>6, <2>1
    DEF Serve, Refuse, Claim, ClaimLost, Record, StartRestore, Finish, Settle, Return, Move,
        TypeOK
<1>7. ASSUME NEW p \in Pollers, Continue(p)
      PROVE  Calm /\ Close
  <2>1. CASE ReadToken(p)
    BY <1>0, <2>1, ResolvedCorrect DEF ReadToken
  <2> QED
    BY <1>7, <2>1 DEF Continue, NoToken, ReadOutcome, PruneOutcomes, ForgetOutcome
<1>8. ASSUME NEW p \in Pollers, NEW t \in Tokens, CallResume(p, t)
      PROVE  Calm /\ Close
  BY <1>8 DEF CallResume
<1>9. CASE UNCHANGED vars
  BY <1>9 DEF vars
<1> HIDE DEF links, outcomes, posts
<1>10. ASSUME Calm, minted \subseteq minted', \A u \in minted \ ep.items : u \notin ep'.items
      PROVE  /\ \A r \in Requests : pc'[r] \notin {"idle", "resolved"} =>
              tok'[r] = tok[r] /\ (Busy(r) \/ tok[r] \in ep.items)
             /\ \A r \in Requests :
              pc'[r] \in {"claimed", "recorded", "running", "finished"} =>
                pc[r] \in {"resolved", "claimed", "recorded", "running", "finished"}
             /\ \A t \in Tokens : runs'[t] = runs[t] /\ result'[t] = result[t]
  BY <1>10
<1>11. CASE \E r \in Requests : Serve(r)
  BY <1>6, <1>11
<1>12. CASE \E r \in Requests, t \in Tokens : Post(r, t)
  BY <1>4, <1>12
<1> QED
  BY <1>1, <1>2, <1>3, <1>7, <1>8, <1>9, <1>10, <1>11, <1>12 DEF Next

LEMMA SaysStays ==
  ASSUME RestoreInv, [Next]_vars, NEW t \in Tokens, NEW v, Says(t, v)
  PROVE  Says(t, v)'
<1>1. result[t] # "none" => result'[t] = result[t]
  BY StepFacts DEF RestoreInv, Recorded
<1>2. Dead(t) => Dead(t)'
  BY StepFacts DEF RestoreInv, Dead, Busy
<1> QED
  BY <1>1, <1>2 DEF Says

LEMMA LandedStays ==
  ASSUME RestoreInv, [Next]_vars, NEW t \in minted \ ep.items, ~InFlight(t)
  PROVE  ~InFlight(t)'
BY StepFacts DEF RestoreInv, InFlight, Busy

-----------------------------------------------------------------------------
(* The initial state, and what each group of actions keeps.                *)
LEMMA RestoreInit == Init => RestoreInv
<1> SUFFICES ASSUME Init
             PROVE  RestoreInv
  OBVIOUS
<1>1. OneTime!HandoffInv
  BY InitImplements, OneTime!InitInv, TombstoneCap
<1>2. EmptyEndpoint \in EndpointState /\ EmptyEndpoint.items = {}
  BY DEF EmptyEndpoint, EndpointState
<1>3. TypeOK
  BY <1>2 DEF Init, ResumeInit, TypeOK, ResumeTypeOK, PostStages, PollStages, Results, Answers
<1>4. Recorded /\ Polling /\ ToldRight
  BY <1>2
  DEF Init, ResumeInit, Recorded, Polling, PollRight, ToldRight, Results, InFlight, InFlightRecorded
<1> QED
  BY <1>1, <1>3, <1>4 DEF RestoreInv

LEMMA ServeKeepsTypes ==
  ASSUME RestoreInv, NEW r \in Requests,
         Serve(r) \/ \E t \in Tokens : Post(r, t)
  PROVE  TypeOK'
<1> USE DEF links, outcomes, posts, resumeVars, Move
<1>0. /\ TypeOK /\ ep \in EndpointState /\ ConsistentEndpoint(ep) /\ tok[r] \in Tokens
      /\ tok[r] \in minted \/ pc[r] = "idle"
  BY HandoffFacts DEF RestoreInv, TypeOK
<1>1. pc' \in [Requests -> PostStages] /\ tok' \in [Requests -> Tokens]
  BY <1>0
  DEF TypeOK, PostStages, Serve, Post, Refuse, Claim, ClaimLost, Record, StartRestore, Finish,
      Settle, Return
<1>2. ep' \in EndpointState
  <2>1. CASE Claim(r) \/ Return(r)
    BY <1>0, <2>1, RemovedCorrect DEF Claim, Return
  <2>2. CASE \E t \in Tokens : Post(r, t)
    BY <1>0, <2>2, ResolvedCorrect DEF Post
  <2> QED
    BY <1>0, <2>1, <2>2
    DEF Serve, Refuse, ClaimLost, Record, StartRestore, Finish, Settle
<1>3. outcome' \in [Tokens -> Results \cup {"none", "running"}]
  <2>1. \A t \in Tokens : outcome[t] \in Results \cup {"none", "running"}
    BY <1>0 DEF TypeOK
  <2>2. CASE Record(r)
    BY <1>0, <2>1, <2>2 DEF Record, Surviving
  <2>3. CASE Settle(r)
    BY <1>0, <2>1, <2>3 DEF Settle, TypeOK, RestoreInv, Recorded
  <2> QED
    BY <1>0, <2>2, <2>3
    DEF TypeOK, Serve, Post, Refuse, Claim, ClaimLost, StartRestore, Finish, Return
<1>4. runs' \in [Tokens -> Nat]
  BY <1>0
  DEF TypeOK, Serve, Post, Refuse, Claim, ClaimLost, Record, StartRestore, Finish, Settle,
      Return
<1>5. result' \in [Tokens -> Results \cup {"none"}]
  BY <1>0
  DEF TypeOK, Serve, Post, Refuse, Claim, ClaimLost, Record, StartRestore, Finish, Settle,
      Return
<1>6. UNCHANGED <<minted, lapsed, unlinked, aged, handles, reg, stage, ask, verdict, told>>
  BY DEF Serve, Post, Refuse, Claim, ClaimLost, Record, StartRestore, Finish, Settle, Return
<1> QED
  BY <1>0, <1>1, <1>2, <1>3, <1>4, <1>5, <1>6 DEF TypeOK, ResumeTypeOK, Started

LEMMA LinkKeepsTypes ==
  ASSUME RestoreInv, NEW t \in Tokens,
         Start(t) \/ Lapse(t) \/ Age(t) \/ Forsake(t) \/ View(t)
  PROVE  TypeOK'
<1> USE DEF links, outcomes, posts, resumeVars
<1>0. TypeOK /\ ep \in EndpointState /\ ConsistentEndpoint(ep) /\ Recorded
  BY HandoffFacts DEF RestoreInv, TypeOK
<1>1. ep' \in EndpointState
  <2>1. CASE View(t)
    BY <1>0, <2>1, ResolvedCorrect DEF View
  <2>2. Minted(ep, t) \in EndpointState
    BY <1>0 DEF Minted, EndpointState
  <2> QED
    BY <1>0, <2>1, <2>2 DEF Start, Lapse, Age, Forsake
<1>2. /\ minted \subseteq minted' /\ minted' \subseteq Tokens /\ unlinked' \subseteq Tokens \ minted'
      /\ Started \subseteq Started' /\ lapsed' \subseteq minted' /\ aged' \subseteq minted'
  BY <1>0 DEF TypeOK, Started, Recorded, Start, Lapse, Age, Forsake, View
<1>3. handles' \cup reg' \subseteq Started'
  BY <1>0, <1>2 DEF TypeOK, Start, Lapse, Age, Forsake, View, BeginHandoff, Drop, Started
<1>4. UNCHANGED <<outcome, pc, tok, runs, result, stage, ask, verdict, told>>
  BY DEF Start, Lapse, Age, Forsake, View, BeginHandoff, Drop
<1> QED
  BY <1>0, <1>1, <1>2, <1>3, <1>4 DEF TypeOK, ResumeTypeOK, Started

LEMMA PollKeepsTypes ==
  ASSUME RestoreInv, NEW p \in Pollers,
         Continue(p) \/ \E t \in Tokens : CallResume(p, t)
  PROVE  TypeOK'
<1> USE DEF links, outcomes, posts
<1>0. /\ TypeOK /\ ep \in EndpointState /\ ConsistentEndpoint(ep) /\ ask[p] \in Tokens
      /\ Polling /\ verdict[p] \in (Answers \ {"dead"}) \cup {"pending"}
  BY HandoffFacts DEF RestoreInv, TypeOK, ResumeTypeOK
<1> USE DEF CallResume, Poll, FindHandle, HandleDead, Continue, NoToken, ReadToken,
            ReadOutcome, PruneOutcomes, ForgetOutcome, Bookkeeping, Dispatch, DeleteHandle,
            EndContinuation, ReadOn, Answer, Step, Tell, Decide
<1>1. ep' \in EndpointState
  <2>1. CASE ReadToken(p)
    BY <1>0, <2>1, ResolvedCorrect
  <2> QED
    BY <1>0, <2>1
<1>2. outcome' \in [Tokens -> Results \cup {"none", "running"}]
  BY <1>0 DEF TypeOK, Surviving
<1>3. /\ stage' \in [Pollers -> PollStages]
      /\ verdict' \in [Pollers -> (Answers \ {"dead"}) \cup {"pending"}]
  <2> USE <1>0 DEF TypeOK, ResumeTypeOK
  <2>1. stage' \in [Pollers -> PollStages]
    BY DEF PollStages
  <2>2. verdict' \in [Pollers -> (Answers \ {"dead"}) \cup {"pending"}]
    BY DEF Answers
  <2> QED
    BY <2>1, <2>2
<1>4. told' \in [Tokens -> SUBSET Answers]
  <2> USE <1>0 DEF TypeOK, ResumeTypeOK
  <2>1. CASE EndContinuation(p)
    BY <2>1 DEF Polling, PollRight
  <2>2. CASE ~EndContinuation(p)
    BY <2>2 DEF Answers
  <2> QED
    BY <2>1, <2>2
<1>5. ask' \in [Pollers -> Tokens] /\ handles' \subseteq handles /\ reg' \subseteq reg
  BY <1>0 DEF TypeOK, ResumeTypeOK
<1>6. UNCHANGED <<minted, lapsed, unlinked, aged, pc, tok, runs, result>>
  OBVIOUS
<1> QED
  BY <1>0, <1>1, <1>2, <1>3, <1>4, <1>5, <1>6 DEF TypeOK, ResumeTypeOK, Started

-----------------------------------------------------------------------------
(* The records.  Most steps leave them and the requests in flight alone.   *)
LEMMA QuietKeepsRecorded ==
  ASSUME RestoreInv, [Next]_vars, UNCHANGED <<outcome, result>>,
         \A r \in Requests : pc'[r] \in {"claimed", "recorded", "running", "finished"} =>
           /\ tok'[r] = tok[r]
           /\ \/ pc'[r] = pc[r]
              \/ pc[r] = "resolved" /\ pc'[r] = "claimed" /\ tok[r] \in ep.items
              \/ pc[r] = "recorded" /\ pc'[r] = "running"
  PROVE  Recorded'
<1>1. \A t \in Tokens : outcome'[t] # "none" => t \in minted' /\ t \notin ep'.items
  BY StepFacts DEF RestoreInv, Recorded
<1>2. \A t \in Tokens : result'[t] # "none" => t \in minted' /\ t \notin ep'.items
  BY StepFacts DEF RestoreInv, Recorded
<1>3. \A t \in Tokens : outcome'[t] \in Results => ~InFlight(t)' /\ result'[t] = outcome'[t]
  BY LandedStays DEF RestoreInv, Recorded, Results
<1>4. \A r \in Requests : pc'[r] \in {"claimed", "recorded", "running"} => result'[tok'[r]] = "none"
  BY DEF RestoreInv, Recorded, TypeOK
<1>5. \A r \in Requests : pc'[r] = "finished" => result'[tok'[r]] \in Results
  BY DEF RestoreInv, Recorded
<1>6. InFlightRecorded'
  BY DEF RestoreInv, Recorded, InFlightRecorded
<1> QED
  BY <1>1, <1>2, <1>3, <1>4, <1>5, <1>6 DEF Recorded

LEMMA RecordKeepsRecorded ==
  ASSUME RestoreInv, [Next]_vars, NEW r \in Requests,
         Record(r) \/ Finish(r) \/ Settle(r)
  PROVE  Recorded'
<1> USE DEF links, outcomes, posts, Move
<1> DEFINE t == tok[r]
<1>0. /\ TypeOK /\ Recorded /\ t \in Tokens /\ t \in minted \ ep.items
      /\ \A q \in Requests \ {r} : pc[q] \notin {"idle", "resolved"} => tok[q] # t
      /\ pc \in [Requests -> PostStages] /\ outcome \in [Tokens -> Results \cup {"none", "running"}]
      /\ result \in [Tokens -> Results \cup {"none"}]
      /\ UNCHANGED <<ep, minted, tok, aged>>
  BY HandoffFacts DEF RestoreInv, TypeOK, Busy, Record, Finish, Settle
<1>1. \A q \in Requests \ {r} : pc'[q] = pc[q]
  BY <1>0 DEF Record, Finish, Settle
<1>2. CASE Record(r)
  <2>1. /\ pc[r] = "claimed" /\ pc'[r] = "recorded" /\ result' = result
        /\ \A u \in Tokens :
             IF u = t THEN outcome'[u] = "running"
             ELSE \/ outcome'[u] = outcome[u]
                  \/ outcome'[u] = "none" /\ outcome[u] \in Results
    BY <1>0, <1>2 DEF Record, Surviving
  <2>2. \A u \in Tokens : outcome'[u] \in Results => ~InFlight(u)' /\ result'[u] = outcome'[u]
    BY <1>0, <1>1, <2>1 DEF Recorded, InFlight, Results
  <2>3. InFlightRecorded'
    BY <1>0, <1>1, <2>1 DEF Recorded, InFlightRecorded, Results, TypeOK
  <2> QED
    BY <1>0, <1>1, <2>1, <2>2, <2>3 DEF Recorded, TypeOK
<1>3. CASE Finish(r)
  <2>1. /\ pc[r] = "running" /\ pc'[r] = "finished" /\ outcome' = outcome
        /\ result'[t] \in Results /\ \A u \in Tokens : u # t => result'[u] = result[u]
    BY <1>0, <1>3 DEF Finish
  <2>2. outcome[t] = "running"
    BY <1>0, <2>1 DEF Recorded, InFlightRecorded
  <2>3. \A u \in Tokens : outcome'[u] \in Results => ~InFlight(u)' /\ result'[u] = outcome'[u]
    BY <1>0, <1>1, <2>1, <2>2 DEF Recorded, InFlight, Results
  <2>4. InFlightRecorded'
    BY <1>0, <1>1, <2>1 DEF Recorded, InFlightRecorded
  <2> QED
    BY <1>0, <1>1, <2>1, <2>3, <2>4 DEF Recorded, TypeOK
<1>4. CASE Settle(r)
  <2>1. /\ pc[r] = "finished" /\ pc'[r] = "settled" /\ result' = result
        /\ outcome[t] = "running" /\ result[t] \in Results
        /\ \A u \in Tokens : outcome'[u] = IF u = t THEN result[t] ELSE outcome[u]
    BY <1>0, <1>4 DEF Settle, Recorded, InFlightRecorded
  <2>2. \A u \in Tokens : outcome'[u] \in Results => ~InFlight(u)' /\ result'[u] = outcome'[u]
    BY <1>0, <1>1, <2>1 DEF Recorded, InFlight, Results
  <2>3. InFlightRecorded'
    BY <1>0, <1>1, <2>1 DEF Recorded, InFlightRecorded, TypeOK
  <2> QED
    BY <1>0, <1>1, <2>1, <2>2, <2>3 DEF Recorded, TypeOK
<1> QED
  BY <1>2, <1>3, <1>4

(* Pruning and forgetting drop only what no request in flight has recorded. *)
LEMMA DroppingKeepsRecorded ==
  ASSUME RestoreInv, [Next]_vars, NEW p \in Pollers, PruneOutcomes(p) \/ ForgetOutcome(p)
  PROVE  Recorded'
<1> USE DEF links, posts
<1>1. /\ UNCHANGED <<ep, minted, pc, tok, result>>
      /\ \A t \in Tokens : \/ outcome'[t] = outcome[t]
                           \/ outcome'[t] = "none" /\ outcome[t] \in Results
                           \/ outcome'[t] = "none" /\ ~InFlight(t)
  BY DEF PruneOutcomes, ForgetOutcome, Surviving, ReadOn, Step, RestoreInv, TypeOK,
         ResumeTypeOK, Polling, PollRight
<1>2. InFlightRecorded'
  BY <1>1 DEF RestoreInv, TypeOK, Recorded, InFlightRecorded, InFlight, Results
<1>3. \A t \in Tokens : outcome'[t] \in Results => ~InFlight(t)' /\ result'[t] = outcome'[t]
  BY <1>1 DEF RestoreInv, Recorded, InFlight, Results
<1> QED
  BY <1>1, <1>2, <1>3 DEF RestoreInv, Recorded

LEMMA StepKeepsRecorded == RestoreInv /\ [Next]_vars => Recorded'
<1> SUFFICES ASSUME RestoreInv, [Next]_vars
             PROVE  Recorded'
  OBVIOUS
<1> USE DEF links, outcomes, posts
<1>0. pc \in [Requests -> PostStages] /\ tok \in [Requests -> Tokens]
  BY DEF RestoreInv, TypeOK
<1>1. ASSUME NEW t \in Tokens, Start(t) \/ Lapse(t) \/ Age(t) \/ Forsake(t) \/ View(t)
      PROVE  Recorded'
  BY <1>1, QuietKeepsRecorded DEF Start, Lapse, Age, Forsake, View
<1>2. ASSUME NEW r \in Requests, NEW t \in Tokens, Post(r, t)
      PROVE  Recorded'
  BY <1>0, <1>2, QuietKeepsRecorded DEF Post, Move
<1>3. ASSUME NEW r \in Requests,
             \/ Refuse(r) \/ Claim(r) \/ ClaimLost(r) \/ StartRestore(r) \/ Return(r)
      PROVE  Recorded'
  <2>1. UNCHANGED <<outcome, result, tok>>
    BY <1>3 DEF Refuse, Claim, ClaimLost, StartRestore, Return
  <2>2. \A q \in Requests : pc'[q] \in {"claimed", "recorded", "running", "finished"} =>
          \/ pc'[q] = pc[q]
          \/ (pc[q] = "resolved" /\ pc'[q] = "claimed" /\ tok[q] \in ep.items)
          \/ (pc[q] = "recorded" /\ pc'[q] = "running")
    BY <1>0, <1>3 DEF Refuse, Claim, ClaimLost, StartRestore, Return, Move
  <2> QED
    BY <2>1, <2>2, QuietKeepsRecorded
<1>4. ASSUME NEW p \in Pollers,
             \/ NoToken(p) \/ ReadToken(p) \/ ReadOutcome(p)
             \/ Bookkeeping(p) /\ UNCHANGED <<links, outcomes, posts>>
             \/ \E t \in Tokens : CallResume(p, t)
      PROVE  Recorded'
  BY <1>4, QuietKeepsRecorded DEF NoToken, ReadToken, ReadOutcome, CallResume
<1>5. CASE UNCHANGED vars
  BY <1>5, QuietKeepsRecorded DEF vars
<1> QED
  BY <1>1, <1>2, <1>3, <1>4, <1>5, RecordKeepsRecorded, DroppingKeepsRecorded
  DEF Next, Serve, Continue

-----------------------------------------------------------------------------
(* The polls.  A decision, once made, stays right whatever the others do.  *)
LEMMA OthersKeepDecision ==
  ASSUME RestoreInv, [Next]_vars, NEW p \in Pollers,
         stage'[p] = stage[p], ask'[p] = ask[p], verdict'[p] = verdict[p]
  PROVE  PollRight(p)'
<1> DEFINE t == ask[p]
           v == verdict[p]
<1>1. Polling /\ Recorded /\ t \in Tokens
  BY DEF RestoreInv, TypeOK, ResumeTypeOK
<1>2. Says(t, v) => Says(t, v)'
  BY <1>1, SaysStays
<1>3. stage[p] = "forget" => t \in minted \ ep.items
  BY <1>1 DEF Polling, PollRight, Says, Recorded
<1>4. stage[p] = "forget" => ~InFlight(t)'
  BY <1>1, <1>3, LandedStays DEF Polling, PollRight
<1> QED
  BY <1>1, <1>2, <1>4 DEF Polling, PollRight, Says, Dead, InFlight

(* What one poll decides, and on what. *)
LEMMA DecisionIsRight ==
  ASSUME RestoreInv, [Next]_vars, NEW p \in Pollers,
         NoToken(p) \/ ReadToken(p) \/ ReadOutcome(p)
  PROVE  PollRight(p)'
<1> DEFINE t == ask[p]
<1>0. /\ TypeOK /\ Recorded /\ t \in Tokens /\ stage \in [Pollers -> PollStages]
      /\ verdict \in [Pollers -> (Answers \ {"dead"}) \cup {"pending"}]
      /\ ep \in EndpointState /\ ConsistentEndpoint(ep)
  BY HandoffFacts DEF RestoreInv, TypeOK, ResumeTypeOK
<1>1. UNCHANGED <<ask, pc, tok, runs, result, minted>>
  BY DEF NoToken, ReadToken, ReadOutcome, links, posts, Answer, ReadOn
<1>2. CASE NoToken(p)
  BY <1>0, <1>1, <1>2 DEF NoToken, Answer, Step, Decide, Says, PollRight
<1>3. CASE ReadToken(p)
  <2>1. CASE Reason(ep, lapsed, t) = "expired"
    <3>1. t \in ep.items /\ t \in minted /\ t \notin ep'.items
      BY <1>0, <1>3, <2>1, ResolvedCorrect DEF ReadToken
    <3>2. runs[t] = 0 /\ \A r \in Requests : tok[r] = t => pc[r] \in {"idle", "resolved"}
      BY <1>0, <3>1, HandoffFacts DEF RestoreInv, Busy
    <3>3. Dead(t)'
      BY <1>1, <3>1, <3>2 DEF Dead
    <3>4. stage'[p] = "delete" /\ verdict'[p] = "expired"
      BY <1>0, <1>3, <2>1 DEF ReadToken, Answer, Step, Decide, ReadOn
    <3> QED
      BY <1>1, <3>3, <3>4 DEF Says, PollRight
  <2>2. CASE Reason(ep, lapsed, t) # "expired"
    BY <1>0, <1>3, <2>2 DEF ReadToken, Answer, Step, Decide, ReadOn, PollRight
  <2> QED
    BY <2>1, <2>2
<1>4. CASE ReadOutcome(p)
  <2>1. outcome[t] \in Results => ~InFlight(t) /\ result[t] = outcome[t]
    BY <1>0 DEF Recorded
  <2>2. \/ stage'[p] = "idle"
        \/ stage'[p] = "prune" /\ verdict'[p] = "gone"
        \/ stage'[p] = "forget" /\ verdict'[p] = "done" /\ outcome[t] = "succeeded"
        \/ stage'[p] = "forget" /\ verdict'[p] = "failed" /\ outcome[t] = "failed"
    BY <1>0, <1>4 DEF ReadOutcome, Answer, Step, Decide
  <2> QED
    BY <1>1, <2>1, <2>2 DEF Says, Results, InFlight, PollRight
<1> QED
  BY <1>2, <1>3, <1>4

LEMMA PollsKeepPolling ==
  ASSUME RestoreInv, [Next]_vars, NEW p \in Pollers,
         Continue(p) \/ \E t \in Tokens : CallResume(p, t)
  PROVE  Polling' /\ ToldRight'
<1>0. /\ Polling /\ ToldRight /\ stage \in [Pollers -> PollStages] /\ ask \in [Pollers -> Tokens]
      /\ verdict \in [Pollers -> (Answers \ {"dead"}) \cup {"pending"}]
      /\ told \in [Tokens -> SUBSET Answers]
  BY DEF RestoreInv, TypeOK, ResumeTypeOK
<1> USE DEF CallResume, Poll, FindHandle, HandleDead, Continue, NoToken, ReadToken,
            ReadOutcome, PruneOutcomes, ForgetOutcome, Bookkeeping, Dispatch, DeleteHandle,
            EndContinuation, ReadOn, Answer, Step, Tell, Decide
<1>1. \A q \in Pollers \ {p} : stage'[q] = stage[q] /\ ask'[q] = ask[q] /\ verdict'[q] = verdict[q]
  BY <1>0
<1>2. \/ NoToken(p) \/ ReadToken(p) \/ ReadOutcome(p)
      \/ stage'[p] \in {"idle", "found", "dispatched"}
      \/ /\ stage[p] \in {"prune", "forget", "delete"} /\ stage'[p] \in {"delete", "end"}
         /\ ask'[p] = ask[p] /\ verdict'[p] = verdict[p]
  BY <1>0
<1>3. \A t \in Tokens : \A v : v \in told'[t] =>
        v \in told[t] \/ v = "dead" \/ (stage[p] = "end" /\ t = ask[p] /\ v = verdict[p])
  BY <1>0
<1> HIDE DEF CallResume, Poll, FindHandle, HandleDead, Continue, NoToken, ReadToken,
             ReadOutcome, PruneOutcomes, ForgetOutcome, Bookkeeping, Dispatch, DeleteHandle,
             EndContinuation, ReadOn, Answer, Step, Tell, Decide
<1>4. \A t \in Tokens : \A v : Says(t, v) => Says(t, v)'
  BY SaysStays
<1>5. ToldRight'
  <2>1. \A t \in Tokens : \A v : v \in told'[t] => Says(t, v)
    BY <1>0, <1>3 DEF ToldRight, Polling, PollRight, Says
  <2> QED
    BY <1>4, <2>1 DEF ToldRight
<1>6. ASSUME NEW q \in Pollers
      PROVE  PollRight(q)'
  <2>1. CASE q # p
    BY <1>1, <2>1, OthersKeepDecision
  <2>2. CASE q = p /\ (NoToken(p) \/ ReadToken(p) \/ ReadOutcome(p))
    BY <2>2, DecisionIsRight
  <2>3. CASE q = p /\ stage'[p] \in {"idle", "found", "dispatched"}
    BY <2>3 DEF PollRight
  <2>4. CASE /\ q = p /\ stage[p] \in {"prune", "forget", "delete"}
             /\ stage'[p] \in {"delete", "end"} /\ ask'[p] = ask[p] /\ verdict'[p] = verdict[p]
    <3>1. verdict[p] # "pending" /\ Says(ask[p], verdict[p])
      BY <1>0, <2>4 DEF Polling, PollRight
    <3>2. ask[p] \in Tokens
      BY <1>0
    <3>3. Says(ask[p], verdict[p])'
      BY <1>4, <2>4, <3>1, <3>2 DEF Says, Dead
    <3> QED
      BY <2>4, <3>1, <3>3 DEF PollRight
  <2> QED
    BY <1>2, <2>1, <2>2, <2>3, <2>4
<1> QED
  BY <1>5, <1>6 DEF Polling

-----------------------------------------------------------------------------
LEMMA RestoreStep == RestoreInv /\ [Next]_vars => RestoreInv'
<1> SUFFICES ASSUME RestoreInv, [Next]_vars
             PROVE  RestoreInv'
  OBVIOUS
<1>1. OneTime!HandoffInv'
  BY StepImplements, OneTime!NextInv, TombstoneCap DEF RestoreInv
<1>2. TypeOK'
  <2>1. CASE UNCHANGED vars
    BY <2>1
    DEF vars, links, outcomes, posts, resumeVars, RestoreInv, TypeOK, ResumeTypeOK, Started
  <2> QED
    BY <2>1, ServeKeepsTypes, LinkKeepsTypes, PollKeepsTypes DEF Next
<1>3. Recorded'
  BY StepKeepsRecorded
<1>4. Polling' /\ ToldRight'
  <2>1. CASE \E p \in Pollers : Continue(p) \/ \E t \in Tokens : CallResume(p, t)
    BY <2>1, PollsKeepPolling
  <2>2. CASE UNCHANGED <<stage, ask, verdict, told>>
    <3>1. ToldRight'
      BY <2>2, SaysStays DEF RestoreInv, ToldRight, TypeOK, ResumeTypeOK
    <3> QED
      BY <2>2, <3>1, OthersKeepDecision DEF Polling
  <2>3. UNCHANGED <<stage, ask, verdict, told>>
        \/ \E p \in Pollers : Continue(p) \/ \E t \in Tokens : CallResume(p, t)
    BY DEF Next, Start, Lapse, Age, Forsake, View, Post, Serve, Refuse, Claim, ClaimLost,
           Record, StartRestore, Finish, Settle, Return, BeginHandoff, Drop, resumeVars, vars
  <2> QED
    BY <2>1, <2>2, <2>3
<1> QED
  BY <1>1, <1>2, <1>3, <1>4 DEF RestoreInv

LEMMA RestoreTruth == RestoreInv => TypeOK /\ Truthful /\ InFlightRecorded
BY DEF RestoreInv, ToldRight, Says, Dead, Truthful, Recorded

(* Only a poll that cleans up, or the pruning of old ones, drops an outcome. *)
LEMMA OutcomeStep ==
  RestoreInv /\ [Next]_vars =>
    \A t \in Tokens :
       outcome[t] \in Results /\ outcome'[t] = "none" =>
         \/ t \in aged
         \/ \E p \in Pollers :
              ask[p] = t /\ verdict[p] \in {"done", "failed"}
<1> SUFFICES ASSUME RestoreInv, [Next]_vars, NEW t \in Tokens,
                    outcome[t] \in Results, outcome'[t] = "none", t \notin aged
             PROVE  \E p \in Pollers : ask[p] = t /\ verdict[p] \in {"done", "failed"}
  OBVIOUS
<1> USE DEF Results
<1>1. outcome \in [Tokens -> Results \cup {"none", "running"}] /\ Polling /\ InFlightRecorded
      /\ tok \in [Requests -> Tokens] /\ result \in [Tokens -> Results \cup {"none"}]
      /\ ask \in [Pollers -> Tokens] /\ Recorded
  BY DEF RestoreInv, TypeOK, ResumeTypeOK, Recorded
<1>2. ASSUME NEW p \in Pollers, ForgetOutcome(p)
      PROVE  ask[p] = t /\ verdict[p] \in {"done", "failed"}
  BY <1>1, <1>2 DEF ForgetOutcome, ReadOn, Step, Polling, PollRight
<1>3. ASSUME NEW p \in Pollers, PruneOutcomes(p)
      PROVE  FALSE
  BY <1>1, <1>3 DEF PruneOutcomes, Surviving
<1>4. ASSUME NEW r \in Requests, Record(r) \/ Settle(r)
      PROVE  FALSE
  <2>1. CASE Record(r)
    BY <1>1, <2>1 DEF Record, Surviving
  <2>2. CASE Settle(r)
    BY <1>1, <2>2 DEF Settle, Move, Recorded
  <2> QED
    BY <1>4, <2>1, <2>2
<1>5. outcome' # outcome
  OBVIOUS
<1> QED
  BY <1>2, <1>3, <1>4, <1>5
  DEF Next, Start, Lapse, Age, Forsake, View, Post, Serve, Refuse, Claim, ClaimLost,
      StartRestore, Finish, Return, Continue, NoToken, ReadToken, ReadOutcome, CallResume,
      outcomes, vars

(* The two instances of Handoff, with and without its proofs, are the same. *)
LEMMA SameHandoff ==
  /\ OneTime!Init => Generic!Init
  /\ [OneTime!Next]_(OneTime!vars) => [Generic!Next]_(Generic!vars)
<1>1. OneTime!Init => Generic!Init
  BY DEF OneTime!Init, Generic!Init, OneTime!EmptyEndpoint, Generic!EmptyEndpoint
<1>2. /\ \A e, t : Generic!Minted(e, t) = OneTime!Minted(e, t)
      /\ \A e, t : Generic!Removed(e, t) = OneTime!Removed(e, t)
      /\ \A e, l, t : Generic!Reason(e, l, t) = OneTime!Reason(e, l, t)
      /\ \A e, l, t : Generic!Resolved(e, l, t) = OneTime!Resolved(e, l, t)
  <2>1. \A e : Generic!Pruned(e) = OneTime!Pruned(e)
    BY DEF Generic!Pruned, Generic!Overflow, Generic!Cardinality,
           OneTime!Pruned, OneTime!Overflow, OneTime!Cardinality
  <2>2. \A e, t : Generic!Taken(e, t) = OneTime!Taken(e, t)
    BY DEF Generic!Taken, Generic!MarkSpent, OneTime!Taken, OneTime!MarkSpent
  <2>3. \A e, t : Generic!Minted(e, t) = OneTime!Minted(e, t)
    BY DEF Generic!Minted, OneTime!Minted
  <2>4. \A e, t : Generic!Removed(e, t) = OneTime!Removed(e, t)
    BY <2>1, <2>2 DEF Generic!Removed, OneTime!Removed
  <2>5. \A e, l, t : Generic!Reason(e, l, t) = OneTime!Reason(e, l, t)
    BY <2>1 DEF Generic!Reason, OneTime!Reason
  <2>6. \A e, l, t : Generic!Resolved(e, l, t) = OneTime!Resolved(e, l, t)
    BY <2>1, <2>2, <2>5 DEF Generic!Resolved, OneTime!Resolved
  <2> QED
    BY <2>3, <2>4, <2>5, <2>6
<1>3. ASSUME NEW t PROVE /\ OneTime!Mint(t) => Generic!Mint(t)
                         /\ OneTime!Lapse(t) => Generic!Lapse(t)
                         /\ OneTime!Visit(t) => Generic!Visit(t)
  BY <1>2 DEF OneTime!Mint, OneTime!Lapse, OneTime!Visit, Generic!Mint, Generic!Lapse, Generic!Visit
<1>4. OneTime!Count => Generic!Count
  BY DEF OneTime!Count, OneTime!SweepOrders, OneTime!Lapsed, OneTime!Swept, OneTime!Pruned,
         OneTime!Overflow, OneTime!Cardinality, OneTime!Range,
         Generic!Count, Generic!SweepOrders, Generic!Lapsed, Generic!Swept, Generic!Pruned,
         Generic!Overflow, Generic!Cardinality, Generic!Range
<1>5. ASSUME NEW r, NEW t PROVE OneTime!Post(r, t) => Generic!Post(r, t)
  BY <1>2 DEF OneTime!Post, OneTime!Goto, Generic!Post, Generic!Goto
<1>6. ASSUME NEW r PROVE OneTime!Submit(r) => Generic!Submit(r)
  BY <1>2
  DEF OneTime!Submit, OneTime!Reject, OneTime!Claim, OneTime!ClaimLost, OneTime!Run,
      OneTime!Return, OneTime!Goto, OneTime!endpointVars,
      Generic!Submit, Generic!Reject, Generic!Claim, Generic!ClaimLost, Generic!Run,
      Generic!Return, Generic!Goto, Generic!endpointVars
<1>7. UNCHANGED OneTime!vars => UNCHANGED Generic!vars
  BY DEF OneTime!vars, Generic!vars
<1>8. OneTime!Next => Generic!Next
  <2>1. CASE \E t \in Tokens : OneTime!Mint(t) \/ OneTime!Lapse(t) \/ OneTime!Visit(t)
    BY <1>3, <2>1 DEF Generic!Next
  <2>2. CASE \E r \in Requests, t \in Tokens : OneTime!Post(r, t)
    BY <1>5, <2>2 DEF Generic!Next
  <2>3. CASE \E r \in Requests : OneTime!Submit(r)
    BY <1>6, <2>3 DEF Generic!Next
  <2>4. CASE OneTime!Count
    BY <1>4, <2>4 DEF Generic!Next
  <2> QED
    BY <2>1, <2>2, <2>3, <2>4 DEF OneTime!Next
<1> QED
  BY <1>1, <1>7, <1>8

-----------------------------------------------------------------------------
(* The inductive invariant holds in every reachable state. *)
THEOREM RestoreInvariance == Spec => []RestoreInv
BY RestoreInit, RestoreStep, PTL DEF Spec

(* The stores, the POSTs and the polls keep their types. *)
THEOREM RestoreTypeCorrect == Spec => []TypeOK
BY RestoreInvariance, RestoreTruth, PTL

(* The agent is told the truth: "done" and "failed" only of a restore that  *)
(* ended so, "expired" only of one that never ran and never will.           *)
THEOREM RestoreIsTruthful == Spec => []Truthful
BY RestoreInvariance, RestoreTruth, PTL

(* A restore that runs stays on record, however many polls prune or forget. *)
THEOREM RestoreStaysRecorded == Spec => []InFlightRecorded
BY RestoreInvariance, RestoreTruth, PTL

(* No settled outcome is lost before its TTL or the poll that read it. *)
THEOREM OutcomeIsNotLost == Spec => OutcomeNotLost
<1>1. RestoreInv /\ [Next]_vars =>
        [\A t \in Tokens :
           outcome[t] \in Results /\ outcome'[t] = "none" =>
             \/ t \in aged
             \/ \E p \in Pollers :
                  ask[p] = t /\ verdict[p] \in {"done", "failed"}]_vars
  BY OutcomeStep
<1> QED
  BY <1>1, RestoreInvariance, PTL DEF OutcomeNotLost, Spec

(* The flow implements Handoff, and so every restore link is a one-time link. *)
THEOREM RestoreImplementsHandoff == Spec => ImplementsHandoff
<1>1. Init => Generic!Init
  BY InitImplements, SameHandoff
<1>2. RestoreInv /\ [Next]_vars => [Generic!Next]_(Generic!vars)
  BY StepImplements, SameHandoff DEF RestoreInv
<1> QED
  BY <1>1, <1>2, RestoreInvariance, PTL DEF Spec, ImplementsHandoff, Generic!Spec

(* restore_oob.go claims the token before it restores: by HandoffProofs,    *)
(* whatever races for it, a link opens, is taken, runs once, or expires.    *)
THEOREM RestoreLinkIsOneTime == Spec => OneTime!ImplementsOneTimeLink
<1>1. RestoreInv /\ [Next]_vars => [OneTime!Next]_(OneTime!vars)
  BY StepImplements DEF RestoreInv
<1>2. Spec => OneTime!Spec
  BY <1>1, InitImplements, RestoreInvariance, PTL DEF Spec, OneTime!Spec
<1> QED
  BY <1>2, OneTime!Refinement, TombstoneCap
=============================================================================
