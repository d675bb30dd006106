--------------------------- MODULE HandoffProofs ----------------------------
(***************************************************************************)
(* Theorems about Handoff, for every set of tokens, every number of        *)
(* concurrent requests and every tombstone cap.  HandoffInv is the         *)
(* inductive invariant; the theorems at the end are its consequences.      *)
(***************************************************************************)
EXTENDS Handoff, EndpointProofs

LEMMA InitInv == Init => HandoffInv
<1> SUFFICES ASSUME Init PROVE HandoffInv
  OBVIOUS
<1>1. EmptyEndpoint \in EndpointState
  BY DEF EmptyEndpoint, EndpointState
<1>2. ConsistentEndpoint(EmptyEndpoint)
  BY TombstoneCap
  DEF EmptyEndpoint, ConsistentEndpoint, InSync, Apart, Bounded, IsInjective, Range
<1>3. TypeOK
  BY <1>1 DEF Init, TypeOK, Stages
<1>4. LinkInv
  BY FS_EmptySet
  DEF Init, LinkInv, EmptyEndpoint, ExclusiveClaim, Holds, RunsAtMostOnce
<1> QED
  BY <1>2, <1>3, <1>4 DEF HandoffInv, EndpointConsistent, Init

(* The part of LinkInv that only concerns the endpoint survives any step   *)
(* that closes some pending items, marks only minted tokens as spent, and  *)
(* leaves the requests alone.                                              *)
LEMMA ClosingKeepsLinkInv ==
  ASSUME TypeOK, LinkInv,
         ep' \in EndpointState,
         ep'.items \subseteq ep.items, ep'.spent \subseteq minted,
         UNCHANGED <<minted, pc, tok, runs>>
  PROVE  LinkInv'
<1>1. IsFiniteSet(ep'.items)
  BY FS_Subset DEF LinkInv
<1> QED
  BY <1>1 DEF TypeOK, LinkInv, ExclusiveClaim, Holds, RunsAtMostOnce

LEMMA MintInv ==
  ASSUME HandoffInv, NEW t \in Tokens, Mint(t)
  PROVE  HandoffInv'
<1> USE DEF HandoffInv, EndpointConsistent
<1>1. t \notin ep.spent /\ t \notin minted
  BY DEF Mint, LinkInv
<1>2. /\ ep' \in EndpointState /\ ConsistentEndpoint(ep')
      /\ ep'.items = ep.items \cup {t} /\ ep'.spent = ep.spent
  BY <1>1, MintedCorrect DEF Mint, TypeOK
<1>3. IsFiniteSet(ep'.items)
  BY <1>2, FS_AddElement DEF LinkInv
<1>4. TypeOK'
  BY <1>2 DEF Mint, TypeOK
<1>5. ASSUME NEW r \in Requests, Holds(r, t) PROVE FALSE
  BY <1>1, <1>5 DEF Holds, LinkInv, TypeOK, Stages
<1>6. ExclusiveClaim'
  BY <1>2, <1>5 DEF LinkInv, ExclusiveClaim, Holds, Mint
<1> QED
  BY <1>1, <1>2, <1>3, <1>4, <1>6 DEF Mint, LinkInv, RunsAtMostOnce

LEMMA LapseInv ==
  ASSUME HandoffInv, NEW t \in Tokens, Lapse(t)
  PROVE  HandoffInv'
BY DEF HandoffInv, EndpointConsistent, Lapse, TypeOK, LinkInv, ExclusiveClaim,
       Holds, RunsAtMostOnce

LEMMA VisitInv ==
  ASSUME HandoffInv, NEW t \in Tokens, Visit(t)
  PROVE  HandoffInv'
<1>1. /\ ep' \in EndpointState /\ ConsistentEndpoint(ep')
      /\ ep'.spent \subseteq ep.spent \cup {t} /\ ep'.items \subseteq ep.items
  BY ResolvedCorrect DEF HandoffInv, EndpointConsistent, TypeOK, Visit
<1>2. LinkInv'
  BY <1>1, ClosingKeepsLinkInv DEF HandoffInv, Visit, LinkInv
<1> QED
  BY <1>1, <1>2 DEF HandoffInv, EndpointConsistent, TypeOK, Visit

LEMMA CountInv ==
  ASSUME HandoffInv, Count
  PROVE  HandoffInv'
<1>1. /\ ep' \in EndpointState /\ ConsistentEndpoint(ep')
      /\ ep'.items = ep.items \ lapsed
      /\ ep'.spent \subseteq ep.spent \cup ep.items
  BY SweptCorrect
  DEF HandoffInv, EndpointConsistent, ConsistentEndpoint, TypeOK, LinkInv, Count
<1>2. LinkInv'
  BY <1>1, ClosingKeepsLinkInv DEF HandoffInv, Count, LinkInv
<1> QED
  BY <1>1, <1>2 DEF HandoffInv, EndpointConsistent, TypeOK, Count

LEMMA PostInv ==
  ASSUME HandoffInv, NEW r \in Requests, NEW t \in Tokens, Post(r, t)
  PROVE  HandoffInv'
<1>1. /\ ep' \in EndpointState /\ ConsistentEndpoint(ep')
      /\ ep'.spent \subseteq ep.spent \cup {t} /\ ep'.items = ep.items
  BY ResolvedCorrect DEF HandoffInv, EndpointConsistent, TypeOK, Post
<1>2. TypeOK'
  BY <1>1 DEF HandoffInv, TypeOK, Post, Goto, Stages
<1>3. \A s \in Requests, u \in Tokens : Holds(s, u)' => Holds(s, u)
  BY DEF HandoffInv, TypeOK, Post, Goto, Holds
<1>4. LinkInv'
  BY <1>1, <1>3
  DEF HandoffInv, TypeOK, Post, Goto, LinkInv, ExclusiveClaim, RunsAtMostOnce
<1> QED
  BY <1>1, <1>2, <1>4 DEF HandoffInv, EndpointConsistent

(* Reject and ClaimLost give a request up and touch nothing else. *)
LEMMA GiveUpInv ==
  ASSUME HandoffInv, NEW r \in Requests, Reject(r) \/ ClaimLost(r)
  PROVE  HandoffInv'
<1>1. /\ pc' = [pc EXCEPT ![r] = "idle"]
      /\ UNCHANGED <<ep, minted, lapsed, tok, runs>>
  BY DEF Reject, ClaimLost, Goto, endpointVars
<1> QED
  BY <1>1 DEF HandoffInv, EndpointConsistent, TypeOK, Stages, LinkInv,
              ExclusiveClaim, Holds, RunsAtMostOnce

LEMMA ClaimInv ==
  ASSUME HandoffInv, NEW r \in Requests, Claim(r)
  PROVE  HandoffInv'
<1> DEFINE t == tok[r]
<1>1. t \in Tokens /\ t \in ep.items /\ t \in minted
  BY DEF HandoffInv, TypeOK, Claim, LinkInv
<1>2. /\ ep' \in EndpointState /\ ConsistentEndpoint(ep')
      /\ ep'.items = ep.items \ {t} /\ ep'.spent \subseteq ep.spent \cup {t}
  BY <1>1, RemovedCorrect DEF HandoffInv, EndpointConsistent, TypeOK, Claim
<1>3. TypeOK'
  BY <1>2 DEF HandoffInv, TypeOK, Claim, Goto, Stages
<1>4. IsFiniteSet(ep'.items)
  BY <1>2, FS_RemoveElement DEF HandoffInv, LinkInv
<1>5. \A s \in Requests, u \in Tokens :
        /\ s # r => (Holds(s, u)' <=> Holds(s, u))
        /\ Holds(r, u)' => u = t
  BY DEF HandoffInv, TypeOK, Claim, Goto, Holds
<1>6. \A s \in Requests : ~ Holds(s, t)
  BY <1>1 DEF HandoffInv, LinkInv, ExclusiveClaim
<1>7. ExclusiveClaim'
  BY <1>2, <1>5, <1>6 DEF HandoffInv, LinkInv, ExclusiveClaim
<1>8. runs[t] = 0
  BY <1>1 DEF HandoffInv, LinkInv
<1> QED
  BY <1>1, <1>2, <1>3, <1>4, <1>7, <1>8
  DEF HandoffInv, EndpointConsistent, TypeOK, Claim, Goto, LinkInv, RunsAtMostOnce

LEMMA RunInv ==
  ASSUME HandoffInv, NEW r \in Requests, Run(r)
  PROVE  HandoffInv'
<1> DEFINE t == tok[r]
<1>1. /\ t \in Tokens /\ t \in minted /\ t \notin ep.items /\ runs[t] = 0
      /\ Holds(r, t)
  BY DEF HandoffInv, TypeOK, Run, Goto, LinkInv, ExclusiveClaim, Holds
<1>2. /\ pc' = [pc EXCEPT ![r] = "running"] /\ runs' = [runs EXCEPT ![t] = 1]
      /\ UNCHANGED <<ep, minted, lapsed, tok>>
  BY <1>1 DEF Run, Goto, endpointVars
<1>3. TypeOK'
  BY <1>2 DEF HandoffInv, TypeOK, Stages
<1>4. \A s \in Requests, u \in Tokens : Holds(s, u)' <=> Holds(s, u)
  BY <1>1, <1>2 DEF HandoffInv, TypeOK, Holds
<1>5. ExclusiveClaim'
  BY <1>2, <1>4 DEF HandoffInv, LinkInv, ExclusiveClaim
<1>6. ASSUME NEW s \in Requests, pc'[s] = "claimed" PROVE runs'[tok'[s]] = 0
  <2>1. s # r /\ pc[s] = "claimed"
    BY <1>2, <1>6 DEF HandoffInv, TypeOK
  <2>2. tok[s] # t
    BY <1>1, <2>1 DEF HandoffInv, TypeOK, LinkInv, ExclusiveClaim, Holds
  <2> QED
    BY <1>2, <2>1, <2>2 DEF HandoffInv, TypeOK, LinkInv
<1> QED
  BY <1>1, <1>2, <1>3, <1>5, <1>6
  DEF HandoffInv, EndpointConsistent, TypeOK, LinkInv, RunsAtMostOnce

LEMMA ReturnInv ==
  ASSUME HandoffInv, NEW r \in Requests, Return(r)
  PROVE  HandoffInv'
<1> DEFINE t == tok[r]
<1>1. t \in Tokens /\ t \in minted /\ t \notin ep.items
  BY DEF HandoffInv, TypeOK, Return, Goto, LinkInv, ExclusiveClaim, Holds
<1>2. /\ ep' \in EndpointState /\ ConsistentEndpoint(ep')
      /\ ep'.items = ep.items \ {t} /\ ep'.spent \subseteq ep.spent \cup {t}
  BY <1>1, RemovedCorrect DEF HandoffInv, EndpointConsistent, TypeOK, Return
<1>3. pc' = [pc EXCEPT ![r] = "idle"] /\ UNCHANGED <<minted, lapsed, tok, runs>>
  BY DEF Return, Goto
<1>4. ep'.items = ep.items
  BY <1>1, <1>2
<1> QED
  BY <1>1, <1>2, <1>3, <1>4
  DEF HandoffInv, EndpointConsistent, TypeOK, Stages, LinkInv, ExclusiveClaim,
      Holds, RunsAtMostOnce

LEMMA NextInv == HandoffInv /\ [Next]_vars => HandoffInv'
<1> SUFFICES ASSUME HandoffInv, [Next]_vars PROVE HandoffInv'
  OBVIOUS
<1>1. ASSUME NEW t \in Tokens, Mint(t) \/ Lapse(t) \/ Visit(t) PROVE HandoffInv'
  BY <1>1, MintInv, LapseInv, VisitInv
<1>2. CASE Count
  BY <1>2, CountInv
<1>3. ASSUME NEW r \in Requests, NEW t \in Tokens, Post(r, t) PROVE HandoffInv'
  BY <1>3, PostInv
<1>4. ASSUME NEW r \in Requests, Submit(r) PROVE HandoffInv'
  BY <1>4, GiveUpInv, ClaimInv, RunInv, ReturnInv DEF Submit
<1>5. CASE UNCHANGED vars
  BY <1>5 DEF vars, HandoffInv, EndpointConsistent, TypeOK, LinkInv,
              ExclusiveClaim, Holds, RunsAtMostOnce
<1> QED
  BY <1>1, <1>2, <1>3, <1>4, <1>5 DEF Next

(* The inductive invariant holds in every reachable state. *)
THEOREM Invariance == Spec => []HandoffInv
BY InitInv, NextInv, PTL DEF Spec

(* The state of the endpoint and of its requests keeps its types. *)
THEOREM TypeCorrectness == Spec => []TypeOK
<1>1. HandoffInv => TypeOK
  BY DEF HandoffInv
<1> QED
  BY <1>1, Invariance, PTL

(* The tombstone map and its FIFO never get out of step, no token is both   *)
(* live and spent, and the map never grows past its cap by more than one.   *)
THEOREM EndpointConsistency == Spec => []EndpointConsistent
<1>1. HandoffInv => EndpointConsistent
  BY DEF HandoffInv
<1> QED
  BY <1>1, Invariance, PTL

(* However many requests race for one link, the work behind it starts at    *)
(* most once.                                                               *)
THEOREM SingleUse == Spec => []RunsAtMostOnce
<1>1. HandoffInv => RunsAtMostOnce
  BY DEF HandoffInv, LinkInv
<1> QED
  BY <1>1, Invariance, PTL

(* Every entry of the FIFO has one place in it: what Position names. *)
LEMMA PositionInOrder ==
  ASSUME HandoffInv, NEW i \in DOMAIN ep.order
  PROVE  Position(ep.order[i]) = i
BY DEF HandoffInv, EndpointConsistent, ConsistentEndpoint, InSync, IsInjective, Position

(* No step forgets a tombstone but the oldest ones, and none below the cap. *)
LEMMA NextForgetsOldest == HandoffInv /\ [Next]_vars => [ForgetsOldest]_vars
<1> SUFFICES ASSUME HandoffInv, Next PROVE ForgetsOldest
  BY DEF vars
<1>1. /\ ep \in EndpointState /\ ConsistentEndpoint(ep)
      /\ IsFiniteSet(ep.items) /\ Range(ep.order) = ep.spent
  BY DEF HandoffInv, EndpointConsistent, ConsistentEndpoint, InSync, TypeOK, LinkInv
<1>2. ep'.spent = ep.spent \/ OldestGone(ep, ep')
  <2>1. ASSUME NEW t \in Tokens, Mint(t) \/ Lapse(t) \/ Visit(t)
        PROVE  ep'.spent = ep.spent \/ OldestGone(ep, ep')
    BY <1>1, <2>1, ResolvedOldest DEF Mint, Minted, EndpointState, Lapse, Visit
  <2>2. CASE Count
    BY <1>1, <2>2, SweptCorrect DEF Count, ConsistentEndpoint
  <2>3. ASSUME NEW r \in Requests, NEW t \in Tokens, Post(r, t)
        PROVE  OldestGone(ep, ep')
    BY <1>1, <2>3, ResolvedOldest DEF Post
  <2>4. ASSUME NEW r \in Requests, Submit(r)
        PROVE  ep'.spent = ep.spent \/ OldestGone(ep, ep')
    <3>1. tok[r] \in Tokens
      BY DEF HandoffInv, TypeOK
    <3>2. \/ ep' = ep
          \/ ep' = Removed(ep, tok[r])
      BY <2>4 DEF Submit, Reject, Claim, ClaimLost, Run, Return, endpointVars
    <3> QED
      BY <1>1, <3>1, <3>2, RemovedOldest
  <2> QED
    BY <2>1, <2>2, <2>3, <2>4 DEF Next
<1>3. CASE ep'.spent = ep.spent
  BY <1>3 DEF ForgetsOldest
<1>4. CASE OldestGone(ep, ep')
  <2>1. ASSUME NEW t \in ep.spent \ ep'.spent, NEW u \in ep.spent \cap ep'.spent
        PROVE  Position(t) < Position(u)
    <3>1. PICK i \in DOMAIN ep.order : ep.order[i] = t
      BY <1>1 DEF Range
    <3>2. PICK j \in DOMAIN ep.order : ep.order[j] = u
      BY <1>1 DEF Range
    <3>3. Position(t) = i /\ Position(u) = j
      BY <3>1, <3>2, PositionInOrder
    <3> QED
      BY <1>4, <3>1, <3>2, <3>3 DEF OldestGone
  <2> QED
    BY <1>4, <2>1 DEF ForgetsOldest, OldestGone
<1> QED
  BY <1>2, <1>3, <1>4

(* PruneSpentLocked: a spent link keeps its explanation until every older   *)
(* one is forgotten, and none is forgotten while the map has room.          *)
THEOREM OldestForgottenFirst == Spec => OldestFirst
<1>1. HandoffInv /\ [Next]_vars => [ForgetsOldest]_vars
  BY NextForgetsOldest
<1> QED
  BY <1>1, Invariance, PTL DEF Spec, OldestFirst

-----------------------------------------------------------------------------
(***************************************************************************)
(* Refinement.  Every step of the endpoint opens, takes, runs or expires   *)
(* links, or leaves them as they are.                                      *)
(***************************************************************************)
LEMMA InitRefines == Init => Link!Init
<1> SUFFICES ASSUME Init PROVE Link!Init
  OBVIOUS
<1>1. \A t \in Tokens : LinkOf(t) = "unminted"
  BY DEF Init, EmptyEndpoint, LinkOf
<1> QED
  BY <1>1 DEF Link!Init

(* What LinkOf says of a token is settled by four facts about it. *)
LEMMA SameLink ==
  ASSUME NEW t \in Tokens,
         t \in minted' <=> t \in minted, t \in ep'.items <=> t \in ep.items,
         runs'[t] = runs[t],
         (\E r \in Requests : Holds(r, t)') <=> (\E r \in Requests : Holds(r, t))
  PROVE  LinkOf(t)' = LinkOf(t)
BY DEF LinkOf

(* A step that closes lapsed items without claiming them expires them. *)
LEMMA ClosingRefines ==
  ASSUME HandoffInv, ep'.items \subseteq ep.items,
         UNCHANGED <<minted, pc, tok, runs>>
  PROVE  [Link!Next]_[t \in Tokens |-> LinkOf(t)]
<1> DEFINE S == ep.items \ ep'.items
           f == [t \in Tokens |-> LinkOf(t)]
<1>1. S \in SUBSET Tokens /\ S \subseteq minted
  BY DEF HandoffInv, TypeOK, LinkInv, EndpointState
<1>2. \A r \in Requests, t \in Tokens : Holds(r, t)' <=> Holds(r, t)
  BY DEF Holds
<1>3. \A t \in S : LinkOf(t) = "open" /\ LinkOf(t)' = "expired"
  BY <1>1, <1>2
  DEF LinkOf, HandoffInv, TypeOK, LinkInv, ExclusiveClaim
<1>4. \A t \in Tokens \ S : LinkOf(t)' = LinkOf(t)
  BY <1>2, SameLink
<1>5. Link!Expire(S)
  BY <1>1, <1>3, <1>4 DEF Link!Expire
<1> QED
  BY <1>1, <1>5 DEF Link!Next

LEMMA MintRefines ==
  ASSUME HandoffInv, NEW t \in Tokens, Mint(t)
  PROVE  Link!Open(t)
<1>1. /\ ep'.items = ep.items \cup {t} /\ minted' = minted \cup {t}
      /\ UNCHANGED <<pc, tok, runs>>
  BY DEF Mint, Minted, HandoffInv, TypeOK, EndpointState
<1>2. /\ t \notin minted /\ t \notin ep.items
      /\ t \in minted' /\ t \in ep'.items
  BY <1>1 DEF Mint, HandoffInv, LinkInv
<1>3. LinkOf(t) = "unminted"
  BY <1>2 DEF LinkOf
<1>4. LinkOf(t)' = "open"
  BY <1>2 DEF LinkOf
<1>5. \A u \in Tokens \ {t} : LinkOf(u)' = LinkOf(u)
  BY <1>1, SameLink DEF Holds
<1> QED
  BY <1>3, <1>4, <1>5 DEF Link!Open, Link!Step

LEMMA ClaimRefines ==
  ASSUME HandoffInv, NEW r \in Requests, NEW t \in Tokens, t = tok[r], Claim(r)
  PROVE  Link!Take(t)
<1>1. t \in ep.items /\ t \in minted /\ runs[t] = 0
  BY DEF HandoffInv, TypeOK, LinkInv, Claim
<1>2. ep'.items = ep.items \ {t}
  BY <1>1, RemovedCorrect DEF HandoffInv, EndpointConsistent, TypeOK, Claim
<1>3. Holds(r, t)'
  BY DEF Claim, Goto, HandoffInv, TypeOK, Holds
<1>4. LinkOf(t) = "open"
  BY <1>1 DEF LinkOf
<1>5. LinkOf(t)' = "taken"
  BY <1>1, <1>2, <1>3 DEF LinkOf, Claim
<1>6. \A s \in Requests, u \in Tokens \ {t} : Holds(s, u)' <=> Holds(s, u)
  BY DEF Claim, Goto, HandoffInv, TypeOK, Holds
<1>7. \A u \in Tokens \ {t} : LinkOf(u)' = LinkOf(u)
  BY <1>2, <1>6, SameLink DEF Claim
<1> QED
  BY <1>4, <1>5, <1>7 DEF Link!Take, Link!Step

LEMMA RunRefines ==
  ASSUME HandoffInv, NEW r \in Requests, NEW t \in Tokens, t = tok[r], Run(r)
  PROVE  Link!Run(t)
<1>1. /\ t \in minted /\ t \notin ep.items /\ runs[t] = 0
      /\ Holds(r, t)
  BY DEF HandoffInv, TypeOK, Run, Goto, LinkInv, ExclusiveClaim, Holds
<1>2. /\ runs' = [runs EXCEPT ![t] = 1]
      /\ UNCHANGED <<ep, minted, tok>>
  BY <1>1 DEF Run, endpointVars
<1>3. LinkOf(t) = "taken"
  BY <1>1 DEF LinkOf, HandoffInv, TypeOK
<1>4. LinkOf(t)' = "ran"
  BY <1>1, <1>2 DEF LinkOf, HandoffInv, TypeOK
<1>5. \A s \in Requests, u \in Tokens : Holds(s, u)' <=> Holds(s, u)
  BY <1>1, <1>2 DEF Run, Goto, HandoffInv, TypeOK, Holds
<1>6. \A u \in Tokens \ {t} : LinkOf(u)' = LinkOf(u)
  BY <1>2, <1>5, SameLink DEF HandoffInv, TypeOK
<1> QED
  BY <1>3, <1>4, <1>6 DEF Link!Run, Link!Step

(* A request that gives up before its claim, or returns after its work,    *)
(* leaves every link as it was.                                            *)
LEMMA GiveUpRefines ==
  ASSUME HandoffInv, NEW r \in Requests, Reject(r) \/ ClaimLost(r)
  PROVE  UNCHANGED [t \in Tokens |-> LinkOf(t)]
<1>1. UNCHANGED <<ep, minted, tok, runs>>
  BY DEF Reject, ClaimLost, endpointVars
<1>2. \A s \in Requests, u \in Tokens : Holds(s, u)' <=> Holds(s, u)
  BY DEF Reject, ClaimLost, endpointVars, Goto, HandoffInv, TypeOK, Holds
<1> QED
  BY <1>1, <1>2, SameLink

LEMMA PostRefines ==
  ASSUME HandoffInv, NEW r \in Requests, NEW t \in Tokens, Post(r, t)
  PROVE  UNCHANGED [u \in Tokens |-> LinkOf(u)]
<1>1. ep'.items = ep.items
  BY ResolvedCorrect DEF HandoffInv, EndpointConsistent, TypeOK, Post
<1>2. \A s \in Requests, u \in Tokens : Holds(s, u)' <=> Holds(s, u)
  BY DEF Post, Goto, HandoffInv, TypeOK, Holds
<1> QED
  BY <1>1, <1>2, SameLink DEF Post

(* Return closes nothing (its claim did) and the work has run: the link    *)
(* was "ran" and stays so although nobody holds it any longer.             *)
LEMMA ReturnRefines ==
  ASSUME HandoffInv, NEW r \in Requests, Return(r)
  PROVE  UNCHANGED [u \in Tokens |-> LinkOf(u)]
<1>1. PICK t \in Tokens : t = tok[r]
  BY DEF HandoffInv, TypeOK
<1>2. t \in minted /\ t \notin ep.items /\ runs[t] = 1
  BY <1>1 DEF HandoffInv, TypeOK, Return, Goto, LinkInv, ExclusiveClaim, Holds
<1>3. ep'.items = ep.items \ {t}
  BY <1>1, RemovedCorrect DEF HandoffInv, EndpointConsistent, TypeOK, Return
<1>4. ep'.items = ep.items /\ UNCHANGED <<minted, tok, runs>>
  BY <1>2, <1>3 DEF Return
<1>5. LinkOf(t) = "ran"
  BY <1>2 DEF LinkOf
<1>6. LinkOf(t)' = "ran"
  BY <1>2, <1>4 DEF LinkOf
<1>7. \A s \in Requests, u \in Tokens \ {t} : Holds(s, u)' <=> Holds(s, u)
  BY <1>1 DEF Return, Goto, HandoffInv, TypeOK, Holds
<1>8. \A u \in Tokens \ {t} : LinkOf(u)' = LinkOf(u)
  BY <1>4, <1>7, SameLink
<1> QED
  BY <1>5, <1>6, <1>8

LEMMA NextRefines ==
  HandoffInv /\ [Next]_vars => [Link!Next]_[t \in Tokens |-> LinkOf(t)]
<1> SUFFICES ASSUME HandoffInv, [Next]_vars
             PROVE  [Link!Next]_[t \in Tokens |-> LinkOf(t)]
  OBVIOUS
<1>1. ASSUME NEW t \in Tokens, Mint(t) PROVE Link!Next
  BY <1>1, MintRefines DEF Link!Next
<1>2. ASSUME NEW t \in Tokens, Lapse(t)
      PROVE  [Link!Next]_[u \in Tokens |-> LinkOf(u)]
  BY <1>2, ClosingRefines DEF Lapse
<1>3. ASSUME NEW t \in Tokens, Visit(t)
      PROVE  [Link!Next]_[u \in Tokens |-> LinkOf(u)]
  <2>1. ep'.items \subseteq ep.items
    BY <1>3, ResolvedCorrect DEF Visit, HandoffInv, EndpointConsistent, TypeOK
  <2> QED
    BY <1>3, <2>1, ClosingRefines DEF Visit
<1>4. CASE Count
  <2>1. ep'.items \subseteq ep.items
    BY <1>4, SweptCorrect
    DEF Count, HandoffInv, EndpointConsistent, ConsistentEndpoint, TypeOK, LinkInv
  <2> QED
    BY <1>4, <2>1, ClosingRefines DEF Count
<1>5. ASSUME NEW r \in Requests, NEW t \in Tokens, Post(r, t)
      PROVE  UNCHANGED [u \in Tokens |-> LinkOf(u)]
  BY <1>5, PostRefines
<1>6. ASSUME NEW r \in Requests, Submit(r)
      PROVE  [Link!Next]_[u \in Tokens |-> LinkOf(u)]
  <2>1. PICK t \in Tokens : t = tok[r]
    BY DEF HandoffInv, TypeOK
  <2>2. CASE Reject(r) \/ ClaimLost(r)
    BY <2>2, GiveUpRefines
  <2>3. CASE Claim(r)
    BY <2>1, <2>3, ClaimRefines DEF Link!Next
  <2>4. CASE Run(r)
    BY <2>1, <2>4, RunRefines DEF Link!Next
  <2>5. CASE Return(r)
    BY <2>5, ReturnRefines
  <2> QED
    BY <1>6, <2>2, <2>3, <2>4, <2>5 DEF Submit
<1>7. CASE UNCHANGED vars
  BY <1>7 DEF vars, LinkOf, Holds
<1> QED
  BY <1>1, <1>2, <1>3, <1>4, <1>5, <1>6, <1>7 DEF Next

(* The endpoint, under any interleaving of browsers, pollers, sweeps and    *)
(* lapses, implements the one-time link.                                    *)
THEOREM Refinement == Spec => ImplementsOneTimeLink
BY InitRefines, Invariance, NextRefines, PTL DEF Spec, ImplementsOneTimeLink, Link!Spec
=============================================================================
