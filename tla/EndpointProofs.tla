--------------------------- MODULE EndpointProofs ---------------------------
(***************************************************************************)
(* The operators of Endpoint keep an endpoint consistent, for every set of *)
(* tokens and every tombstone cap.  Cited by the proofs of the flows that  *)
(* embed an endpoint.                                                      *)
(***************************************************************************)
EXTENDS Endpoint, FiniteSetTheorems, TLAPS

(* A sequence without repetitions has as many entries as members: what lets *)
(* the eviction loop count map entries and drop FIFO entries.               *)
LEMMA InjectiveLength ==
  ASSUME NEW S, NEW s \in Seq(S), IsInjective(s)
  PROVE  /\ IsFiniteSet(Range(s))
         /\ Cardinality(Range(s)) = Len(s)
<1>1. s \in Bijection(1 .. Len(s), Range(s))
  BY DEF Bijection, Injection, Surjection, IsInjective, Range
<1>2. IsFiniteSet(1 .. Len(s)) /\ Cardinality(1 .. Len(s)) = Len(s)
  <2>1. 1 \in Int /\ Len(s) \in Int /\ Len(s) >= 0
    OBVIOUS
  <2> QED
    BY <2>1, FS_Interval
<1> QED
  BY <1>1, <1>2, FS_Bijection DEF ExistsBijection

(* MarkSpentLocked adds one tombstone to the map and to the FIFO, or none. *)
LEMMA MarkSpentCorrect ==
  ASSUME NEW e \in EndpointState, InSync(e), NEW t \in Tokens
  PROVE  /\ MarkSpent(e, t) \in EndpointState
         /\ InSync(MarkSpent(e, t))
         /\ MarkSpent(e, t).items = e.items
         /\ MarkSpent(e, t).spent = e.spent \cup {t}
         /\ Len(MarkSpent(e, t).order) <= Len(e.order) + 1
<1>1. CASE t \in e.spent
  BY <1>1 DEF MarkSpent, EndpointState
<1>2. CASE t \notin e.spent
  <2> DEFINE o == Append(e.order, t)
  <2>1. e.order \in Seq(Tokens)
    BY DEF EndpointState
  <2>2. MarkSpent(e, t) = [items |-> e.items, spent |-> e.spent \cup {t}, order |-> o]
    BY <1>2 DEF MarkSpent, EndpointState
  <2>3. o \in Seq(Tokens) /\ Len(o) = Len(e.order) + 1
    BY <2>1
  <2>4. \A i \in 1 .. Len(e.order) : o[i] = e.order[i]
    BY <2>1
  <2>5. o[Len(e.order) + 1] = t
    BY <2>1
  <2>6. DOMAIN o = 1 .. Len(e.order) + 1 /\ DOMAIN e.order = 1 .. Len(e.order)
    BY <2>1, <2>3
  <2>7. Range(o) = e.spent \cup {t}
    BY <2>1, <2>4, <2>5, <2>6 DEF InSync, Range
  <2>8. IsInjective(o)
    BY <1>2, <2>1, <2>4, <2>5, <2>6 DEF InSync, Range, IsInjective
  <2> QED
    BY <2>2, <2>3, <2>7, <2>8 DEF InSync, EndpointState
<1> QED
  BY <1>1, <1>2

(* PruneSpentLocked leaves the map within the cap and still in step with    *)
(* the FIFO, and touches no pending item.                                   *)
LEMMA PrunedCorrect ==
  ASSUME NEW e \in EndpointState, InSync(e)
  PROVE  /\ Pruned(e) \in EndpointState
         /\ InSync(Pruned(e))
         /\ Pruned(e).items = e.items
         /\ Pruned(e).spent \subseteq e.spent
         /\ Len(Pruned(e).order) <= MaxSpentTombstones
         /\ Len(Pruned(e).order) <= Len(e.order)
<1> DEFINE n == Overflow(e)
           L == Len(e.order)
           o == SubSeq(e.order, n + 1, L)
<1>1. e.order \in Seq(Tokens) /\ L \in Nat
  BY DEF EndpointState
<1>2. Cardinality(e.spent) = L
  BY <1>1, InjectiveLength DEF InSync
<1>3. n \in Nat /\ n <= L /\ L - n <= MaxSpentTombstones
  BY <1>1, <1>2, TombstoneCap DEF Overflow
<1>4. Pruned(e) = [items |-> e.items,
                   spent |-> e.spent \ {e.order[i] : i \in 1 .. n},
                   order |-> o]
  BY DEF Pruned
<1> HIDE DEF n
<1>5. o \in Seq(Tokens) /\ Len(o) = L - n /\ DOMAIN o = 1 .. L - n
  BY <1>1, <1>3
<1>6. \A i \in 1 .. L - n : o[i] = e.order[n + i]
  BY <1>1, <1>3
<1>7. DOMAIN e.order = 1 .. L
  BY <1>1
<1>8. IsInjective(o)
  <2> SUFFICES ASSUME NEW a \in 1 .. L - n, NEW b \in 1 .. L - n, o[a] = o[b]
               PROVE  a = b
    BY <1>5 DEF IsInjective
  <2>1. n + a \in 1 .. L /\ n + b \in 1 .. L
    BY <1>1, <1>3
  <2>2. e.order[n + a] = e.order[n + b]
    BY <1>6
  <2>3. n + a = n + b
    BY <2>1, <2>2, <1>7 DEF InSync, IsInjective
  <2> QED
    BY <2>3, <1>3
<1>9. Range(o) = e.spent \ {e.order[i] : i \in 1 .. n}
  <2>1. ASSUME NEW x \in Range(o)
        PROVE  x \in e.spent \ {e.order[i] : i \in 1 .. n}
    <3>1. PICK j \in 1 .. L - n : x = e.order[n + j]
      BY <2>1, <1>5, <1>6 DEF Range
    <3>2. n + j \in 1 .. L /\ \A i \in 1 .. n : i \in 1 .. L /\ i # n + j
      BY <1>1, <1>3
    <3> QED
      BY <3>1, <3>2, <1>7 DEF InSync, IsInjective, Range
  <2>2. ASSUME NEW x \in e.spent \ {e.order[i] : i \in 1 .. n}
        PROVE  x \in Range(o)
    <3>1. PICK k \in 1 .. L : x = e.order[k]
      BY <2>2, <1>7 DEF InSync, Range
    <3>2. k - n \in 1 .. L - n /\ n + (k - n) = k
      BY <2>2, <3>1, <1>1, <1>3
    <3> QED
      BY <3>1, <3>2, <1>5, <1>6 DEF Range
  <2> QED
    BY <2>1, <2>2
<1> QED
  BY <1>1, <1>3, <1>4, <1>5, <1>8, <1>9 DEF InSync, EndpointState

(* Nothing is forgotten between the states e and d of an endpoint but the    *)
(* oldest tombstones of e, and nothing before the map is at its cap.        *)
OldestGone(e, d) ==
  /\ e.spent \ d.spent # {} => Cardinality(d.spent) >= MaxSpentTombstones
  /\ \A i, j \in DOMAIN e.order :
       e.order[i] \notin d.spent /\ e.order[j] \in d.spent => i < j

(* A method only appends to the FIFO before PruneSpentLocked drops its head: *)
(* x is the state that is pruned.  d is the state afterwards, which has one *)
(* tombstone more when Resolve closed a lapsed item.                        *)
LEMMA PrunedOldest ==
  ASSUME NEW e \in EndpointState, InSync(e),
         NEW x \in EndpointState, InSync(x),
         \A i \in DOMAIN e.order : i \in DOMAIN x.order /\ x.order[i] = e.order[i],
         NEW d \in EndpointState, InSync(d),
         Pruned(x).spent \subseteq d.spent,
         e.spent \cap d.spent \subseteq Pruned(x).spent
  PROVE  OldestGone(e, d)
<1> DEFINE n == Overflow(x)
           p == Pruned(x)
<1>1. /\ p \in EndpointState /\ InSync(p)
      /\ p.spent = x.spent \ {x.order[i] : i \in 1 .. n}
      /\ p.order = SubSeq(x.order, n + 1, Len(x.order))
  BY PrunedCorrect DEF Pruned
<1>2. /\ x.order \in Seq(Tokens) /\ Len(x.order) \in Nat
      /\ DOMAIN x.order = 1 .. Len(x.order)
      /\ e.order \in Seq(Tokens) /\ Len(e.order) \in Nat
      /\ DOMAIN e.order = 1 .. Len(e.order)
  BY DEF EndpointState
<1>3. Cardinality(x.spent) = Len(x.order)
  BY <1>2, InjectiveLength DEF InSync
<1>4. /\ n \in Nat /\ n <= Len(x.order)
      /\ n > 0 => Len(x.order) - n = MaxSpentTombstones
  BY <1>2, <1>3, TombstoneCap DEF Overflow
<1> HIDE DEF n, p
<1>5. Len(p.order) = Len(x.order) - n
  BY <1>1, <1>2, <1>4
<1>6. /\ IsFiniteSet(d.spent) /\ Cardinality(d.spent) \in Nat
      /\ Cardinality(p.spent) = Len(p.order)
      /\ Cardinality(p.spent) <= Cardinality(d.spent)
  <2>1. /\ IsFiniteSet(d.spent)
        /\ IsFiniteSet(p.spent) /\ Cardinality(p.spent) = Len(p.order)
    BY <1>1, InjectiveLength DEF InSync, EndpointState
  <2> QED
    BY <2>1, FS_Subset, FS_CardinalityType DEF p
(* An entry of e's FIFO is forgotten exactly when it is among the n oldest. *)
<1>7. ASSUME NEW i \in DOMAIN e.order
      PROVE  e.order[i] \notin d.spent <=> i <= n
  <2>1. /\ i \in 1 .. Len(x.order) /\ x.order[i] = e.order[i]
        /\ e.order[i] \in e.spent /\ e.order[i] \in x.spent
    BY <1>2 DEF InSync, Range
  <2>2. e.order[i] \in d.spent <=> e.order[i] \in p.spent
    BY <2>1 DEF p
  <2>3. CASE i <= n
    <3>1. i \in 1 .. n
      BY <2>1, <2>3, <1>2, <1>4
    <3> QED
      BY <2>1, <2>2, <2>3, <3>1, <1>1
  <2>4. CASE ~ (i <= n)
    <3>1. \A k \in 1 .. n : k \in 1 .. Len(x.order) /\ k # i
      BY <2>1, <2>4, <1>2, <1>4
    <3>2. \A k \in 1 .. n : x.order[k] # x.order[i]
      BY <3>1, <2>1, <1>2 DEF InSync, IsInjective
    <3> QED
      BY <2>1, <2>2, <2>4, <3>2, <1>1
  <2> QED
    BY <2>3, <2>4
<1>8. ASSUME e.spent \ d.spent # {} PROVE Cardinality(d.spent) >= MaxSpentTombstones
  <2>1. PICK t \in e.spent : t \notin d.spent
    BY <1>8
  <2>2. PICK i \in DOMAIN e.order : e.order[i] = t
    BY <2>1 DEF InSync, Range
  <2>3. i \in Nat /\ i >= 1 /\ i <= n
    BY <2>1, <2>2, <1>2, <1>7
  <2> QED
    BY <2>3, <1>2, <1>4, <1>5, <1>6, TombstoneCap
<1>9. ASSUME NEW i \in DOMAIN e.order, NEW j \in DOMAIN e.order,
             e.order[i] \notin d.spent, e.order[j] \in d.spent
      PROVE  i < j
  <2>1. i <= n /\ ~ (j <= n)
    BY <1>7, <1>9
  <2> QED
    BY <2>1, <1>2, <1>4
<1> QED
  BY <1>8, <1>9 DEF OldestGone

(* Closing one token: it leaves the pending items for the tombstones. *)
LEMMA TakenCorrect ==
  ASSUME NEW e \in EndpointState, InSync(e), Apart(e), NEW t \in Tokens
  PROVE  /\ Taken(e, t) \in EndpointState
         /\ InSync(Taken(e, t)) /\ Apart(Taken(e, t))
         /\ Taken(e, t).items = e.items \ {t}
         /\ Len(Taken(e, t).order) <= Len(e.order) + 1
<1> DEFINE d == [e EXCEPT !.items = @ \ {t}]
<1>1. /\ d \in EndpointState /\ InSync(d)
      /\ d.items = e.items \ {t} /\ d.spent = e.spent /\ d.order = e.order
  BY DEF EndpointState, InSync
<1>2. Taken(e, t) = MarkSpent(d, t)
  BY DEF Taken
<1> HIDE DEF d
<1> QED
  BY <1>1, <1>2, MarkSpentCorrect DEF Apart

(* Mint keeps the endpoint consistent because the token is a fresh one. *)
LEMMA MintedCorrect ==
  ASSUME NEW e \in EndpointState, ConsistentEndpoint(e),
         NEW t \in Tokens, t \notin e.spent
  PROVE  /\ Minted(e, t) \in EndpointState
         /\ ConsistentEndpoint(Minted(e, t))
         /\ Minted(e, t).items = e.items \cup {t}
         /\ Minted(e, t).spent = e.spent
BY DEF Minted, EndpointState, ConsistentEndpoint, InSync, Apart, Bounded

(* Remove, and a successful Claim. *)
LEMMA RemovedCorrect ==
  ASSUME NEW e \in EndpointState, ConsistentEndpoint(e), NEW t \in Tokens
  PROVE  /\ Removed(e, t) \in EndpointState
         /\ ConsistentEndpoint(Removed(e, t))
         /\ Removed(e, t).items = e.items \ {t}
         /\ Removed(e, t).spent \subseteq e.spent \cup {t}
<1>1. /\ Taken(e, t) \in EndpointState
      /\ InSync(Taken(e, t)) /\ Apart(Taken(e, t))
      /\ Taken(e, t).items = e.items \ {t}
  BY TakenCorrect DEF ConsistentEndpoint
<1>2. Taken(e, t).spent = e.spent \cup {t}
  BY DEF Taken, MarkSpent, EndpointState
<1>3. /\ Pruned(Taken(e, t)) \in EndpointState
      /\ InSync(Pruned(Taken(e, t)))
      /\ Pruned(Taken(e, t)).items = Taken(e, t).items
      /\ Pruned(Taken(e, t)).spent \subseteq Taken(e, t).spent
      /\ Len(Pruned(Taken(e, t)).order) <= MaxSpentTombstones
  BY <1>1, PrunedCorrect
<1>4. Len(Pruned(Taken(e, t)).order) \in Nat
  BY <1>3 DEF EndpointState
<1> QED
  BY <1>1, <1>2, <1>3, <1>4, TombstoneCap
  DEF Removed, ConsistentEndpoint, Apart, Bounded

(* Resolve closes a lapsed item and nothing else; because it prunes before  *)
(* it adds the tombstone, the map may end one over the cap.                 *)
LEMMA ResolvedCorrect ==
  ASSUME NEW e \in EndpointState, ConsistentEndpoint(e),
         NEW lapsed, NEW t \in Tokens
  PROVE  /\ Resolved(e, lapsed, t) \in EndpointState
         /\ ConsistentEndpoint(Resolved(e, lapsed, t))
         /\ Resolved(e, lapsed, t).spent \subseteq e.spent \cup {t}
         /\ Reason(e, lapsed, t) # "expired" =>
               Resolved(e, lapsed, t).items = e.items
         /\ Reason(e, lapsed, t) = "expired" =>
               /\ t \in e.items
               /\ Resolved(e, lapsed, t).items = e.items \ {t}
         /\ Reason(e, lapsed, t) = "live" => t \in e.items
<1> DEFINE p == Pruned(e)
<1>1. /\ p \in EndpointState /\ InSync(p) /\ p.items = e.items
      /\ p.spent \subseteq e.spent /\ Len(p.order) <= MaxSpentTombstones
  BY PrunedCorrect DEF ConsistentEndpoint
<1>2. Apart(p)
  BY <1>1 DEF ConsistentEndpoint, Apart
<1>3. Len(p.order) \in Nat
  BY <1>1 DEF EndpointState
<1>4. CASE Reason(e, lapsed, t) = "expired"
  <2>1. t \in e.items
    BY <1>4 DEF Reason
  <2>2. Resolved(e, lapsed, t) = Taken(p, t)
    BY <1>4 DEF Resolved
  <2> HIDE DEF p
  <2>3. /\ Taken(p, t) \in EndpointState
        /\ InSync(Taken(p, t)) /\ Apart(Taken(p, t))
        /\ Taken(p, t).items = p.items \ {t}
        /\ Len(Taken(p, t).order) <= Len(p.order) + 1
    BY <1>1, <1>2, TakenCorrect
  <2>4. Taken(p, t).spent = p.spent \cup {t}
    BY <1>1 DEF Taken, MarkSpent, EndpointState
  <2>5. Len(Taken(p, t).order) \in Nat
    BY <2>3 DEF EndpointState
  <2> QED
    BY <1>1, <1>3, <1>4, <2>1, <2>2, <2>3, <2>4, <2>5, TombstoneCap
    DEF ConsistentEndpoint, Bounded
<1>5. CASE Reason(e, lapsed, t) # "expired"
  <2>1. Resolved(e, lapsed, t) = p
    BY <1>5 DEF Resolved
  <2>2. Reason(e, lapsed, t) = "live" => t \in e.items
    BY DEF Reason
  <2> HIDE DEF p
  <2> QED
    BY <1>1, <1>2, <1>3, <1>5, <2>1, <2>2, TombstoneCap
    DEF ConsistentEndpoint, Bounded
<1> QED
  BY <1>4, <1>5

(* Remove, Claim and Resolve forget the oldest tombstones only. *)
LEMMA RemovedOldest ==
  ASSUME NEW e \in EndpointState, ConsistentEndpoint(e), NEW t \in Tokens
  PROVE  OldestGone(e, Removed(e, t))
<1> DEFINE x == Taken(e, t)
<1>1. x \in EndpointState /\ InSync(x)
  BY TakenCorrect DEF ConsistentEndpoint
<1>2. x.order = e.order \/ x.order = Append(e.order, t)
  BY DEF Taken, MarkSpent, EndpointState
<1>3. e.order \in Seq(Tokens)
  BY DEF EndpointState
<1> HIDE DEF x
<1>4. \A i \in DOMAIN e.order : i \in DOMAIN x.order /\ x.order[i] = e.order[i]
  <2>1. CASE x.order = e.order
    BY <2>1
  <2>2. CASE x.order = Append(e.order, t)
    BY <2>2, <1>3
  <2> QED
    BY <1>2, <2>1, <2>2
<1>5. Pruned(x) \in EndpointState /\ InSync(Pruned(x))
  BY <1>1, PrunedCorrect
<1>6. Removed(e, t) = Pruned(x)
  BY DEF Removed, x
<1> QED
  BY <1>1, <1>4, <1>5, <1>6, PrunedOldest DEF ConsistentEndpoint

LEMMA ResolvedOldest ==
  ASSUME NEW e \in EndpointState, ConsistentEndpoint(e),
         NEW lapsed, NEW t \in Tokens
  PROVE  OldestGone(e, Resolved(e, lapsed, t))
<1> DEFINE d == Resolved(e, lapsed, t)
<1>1. d \in EndpointState /\ InSync(d)
  BY ResolvedCorrect DEF ConsistentEndpoint
<1>2. Pruned(e) \in EndpointState /\ InSync(Pruned(e))
  BY PrunedCorrect DEF ConsistentEndpoint
<1>3. \/ d.spent = Pruned(e).spent
      \/ d.spent = Pruned(e).spent \cup {t} /\ t \notin e.spent
  <2>1. CASE Reason(e, lapsed, t) = "expired"
    <3>1. t \in e.items /\ t \notin e.spent
      BY <2>1, ResolvedCorrect DEF ConsistentEndpoint, Apart
    <3>2. d = Taken(Pruned(e), t)
      BY <2>1 DEF Resolved
    <3>3. Taken(Pruned(e), t).spent = Pruned(e).spent \cup {t}
      BY <1>2 DEF Taken, MarkSpent, EndpointState
    <3> QED
      BY <3>1, <3>2, <3>3
  <2>2. CASE Reason(e, lapsed, t) # "expired"
    BY <2>2 DEF Resolved
  <2> QED
    BY <2>1, <2>2
<1> HIDE DEF d
<1>4. Pruned(e).spent \subseteq d.spent /\ e.spent \cap d.spent \subseteq Pruned(e).spent
  BY <1>3
<1>5. OldestGone(e, d)
  BY <1>1, <1>4, PrunedOldest DEF ConsistentEndpoint
<1> QED
  BY <1>5 DEF d

(* A sweep closes every lapsed item, in whatever order it meets them. *)
LEMMA SweepOrder ==
  ASSUME NEW e \in EndpointState, IsFiniteSet(e.items), NEW lapsed,
         NEW seq \in SweepOrders(e, lapsed)
  PROVE  /\ seq \in Seq(Tokens) /\ IsInjective(seq)
         /\ Range(seq) = e.items \cap lapsed
<1> DEFINE S == Lapsed(e, lapsed)
           n == Cardinality(S)
<1>1. S \subseteq e.items /\ S \subseteq Tokens /\ S = e.items \cap lapsed
  BY DEF Lapsed, EndpointState
<1>2. IsFiniteSet(S) /\ n \in Nat
  BY <1>1, FS_Subset, FS_CardinalityType
<1>3. seq \in [1 .. n -> S] /\ Range(seq) = S
  BY DEF SweepOrders
<1> HIDE DEF S
<1>4. IsFiniteSet(1 .. n) /\ Cardinality(1 .. n) = n
  <2>1. 1 \in Int /\ n \in Int /\ n >= 0
    BY <1>2
  <2> QED
    BY <2>1, FS_Interval
<1>5. seq \in Surjection(1 .. n, S)
  BY <1>3 DEF Surjection, Range
<1>6. seq \in Injection(1 .. n, S)
  BY <1>4, <1>5, FS_SurjSameCardinalityImpliesInj
<1>7. seq \in Seq(S)
  BY <1>2, <1>3
<1> QED
  BY <1>1, <1>3, <1>6, <1>7 DEF Injection

LEMMA SweptCorrect ==
  ASSUME NEW e \in EndpointState, InSync(e), Apart(e),
         IsFiniteSet(e.items), NEW lapsed,
         NEW seq \in SweepOrders(e, lapsed)
  PROVE  /\ Swept(e, seq) \in EndpointState
         /\ ConsistentEndpoint(Swept(e, seq))
         /\ Swept(e, seq).items = e.items \ lapsed
         /\ Swept(e, seq).spent \subseteq e.spent \cup e.items
         /\ OldestGone(e, Swept(e, seq))
<1> DEFINE o == e.order \o seq
           d == [items |-> e.items \ Range(seq),
                 spent |-> e.spent \cup Range(seq),
                 order |-> o]
           m == Len(e.order)
<1>1. /\ seq \in Seq(Tokens) /\ IsInjective(seq)
      /\ Range(seq) = e.items \cap lapsed
  BY SweepOrder
<1>2. /\ e.order \in Seq(Tokens) /\ m \in Nat /\ DOMAIN e.order = 1 .. m
      /\ IsInjective(e.order) /\ Range(e.order) = e.spent
      /\ e.items \cap e.spent = {}
      /\ e.items \subseteq Tokens /\ e.spent \subseteq Tokens
  BY DEF EndpointState, InSync, Apart
<1>3. /\ o \in Seq(Tokens) /\ Len(seq) \in Nat /\ DOMAIN seq = 1 .. Len(seq)
      /\ DOMAIN o = 1 .. m + Len(seq)
  BY <1>1, <1>2
<1>4. /\ \A i \in 1 .. m : o[i] = e.order[i]
      /\ \A i \in 1 .. Len(seq) : o[m + i] = seq[i]
  BY <1>1, <1>2
<1> HIDE DEF o, m
<1>5. Range(o) = e.spent \cup Range(seq)
  <2>1. ASSUME NEW x \in Range(o) PROVE x \in e.spent \cup Range(seq)
    <3>1. PICK i \in 1 .. m + Len(seq) : x = o[i]
      BY <1>3 DEF Range
    <3>2. CASE i \in 1 .. m
      BY <3>1, <3>2, <1>2, <1>4 DEF Range
    <3>3. CASE i \notin 1 .. m
      <4>1. i - m \in 1 .. Len(seq) /\ m + (i - m) = i
        BY <3>1, <3>3, <1>2, <1>3
      <4> QED
        BY <3>1, <4>1, <1>3, <1>4 DEF Range
    <3> QED
      BY <3>2, <3>3
  <2>2. ASSUME NEW x \in e.spent PROVE x \in Range(o)
    <3>1. PICK i \in 1 .. m : x = e.order[i]
      BY <2>2, <1>2 DEF Range
    <3>2. i \in 1 .. m + Len(seq)
      BY <1>2, <1>3
    <3> QED
      BY <3>1, <3>2, <1>3, <1>4 DEF Range
  <2>3. ASSUME NEW x \in Range(seq) PROVE x \in Range(o)
    <3>1. PICK i \in 1 .. Len(seq) : x = seq[i]
      BY <2>3, <1>3 DEF Range
    <3>2. m + i \in 1 .. m + Len(seq)
      BY <1>2, <1>3
    <3> QED
      BY <3>1, <3>2, <1>3, <1>4 DEF Range
  <2> QED
    BY <2>1, <2>2, <2>3
<1>6. IsInjective(o)
  <2> SUFFICES ASSUME NEW a \in 1 .. m + Len(seq), NEW b \in 1 .. m + Len(seq),
                      o[a] = o[b]
               PROVE  a = b
    BY <1>3 DEF IsInjective
  <2>1. CASE a \in 1 .. m /\ b \in 1 .. m
    BY <2>1, <1>2, <1>4 DEF IsInjective
  <2>2. CASE a \notin 1 .. m /\ b \notin 1 .. m
    <3>1. /\ a - m \in 1 .. Len(seq) /\ m + (a - m) = a
          /\ b - m \in 1 .. Len(seq) /\ m + (b - m) = b
      BY <2>2, <1>2, <1>3
    <3>2. seq[a - m] = seq[b - m]
      BY <3>1, <1>4
    <3>3. a - m = b - m
      BY <3>1, <3>2, <1>1, <1>3 DEF IsInjective
    <3> QED
      BY <3>3, <1>2, <1>3
  <2>3. ASSUME NEW i \in 1 .. m, NEW k \in (1 .. m + Len(seq)) \ (1 .. m),
               o[i] = o[k]
        PROVE  FALSE
    <3>1. k - m \in 1 .. Len(seq) /\ m + (k - m) = k
      BY <1>2, <1>3
    <3>2. o[i] \in e.spent
      BY <1>2, <1>4 DEF Range
    <3>3. o[k] \in e.items
      BY <3>1, <1>1, <1>3, <1>4 DEF Range
    <3> QED
      BY <2>3, <3>2, <3>3, <1>2
  <2> QED
    BY <2>1, <2>2, <2>3
<1>7. d \in EndpointState /\ InSync(d)
  BY <1>1, <1>2, <1>3, <1>5, <1>6 DEF EndpointState, InSync
<1>8. Swept(e, seq) = Pruned(d)
  BY DEF Swept, o
<1>9. d.items = e.items \ lapsed /\ d.spent \subseteq e.spent \cup e.items
  BY <1>1
<1>10. d.items \cap d.spent = {}
  BY <1>1, <1>2
<1>11. \A i \in DOMAIN e.order : i \in DOMAIN d.order /\ d.order[i] = e.order[i]
  BY <1>2, <1>3, <1>4
<1> HIDE DEF d
<1>12. /\ Pruned(d) \in EndpointState /\ InSync(Pruned(d))
       /\ Pruned(d).items = d.items /\ Pruned(d).spent \subseteq d.spent
       /\ Len(Pruned(d).order) <= MaxSpentTombstones
  BY <1>7, PrunedCorrect
<1>13. Len(Pruned(d).order) \in Nat
  BY <1>12 DEF EndpointState
<1>14. OldestGone(e, Pruned(d))
  BY <1>7, <1>11, <1>12, PrunedOldest
<1> QED
  BY <1>8, <1>9, <1>10, <1>12, <1>13, <1>14, TombstoneCap
  DEF ConsistentEndpoint, Apart, Bounded

(* The same facts as one formula, for the modules that reach an endpoint   *)
(* through an instance: whatever a flow does to a consistent endpoint, it  *)
(* stays one, only a fresh token is pending that was not, and only the     *)
(* token named is closed, by Resolve only if it lapsed.                    *)
THEOREM EndpointKept ==
  /\ EmptyEndpoint \in EndpointState /\ ConsistentEndpoint(EmptyEndpoint)
  /\ \A e \in EndpointState : ConsistentEndpoint(e) => \A t \in Tokens :
       /\ t \notin e.spent =>
            /\ Minted(e, t) \in EndpointState /\ ConsistentEndpoint(Minted(e, t))
            /\ Minted(e, t).items = e.items \cup {t} /\ Minted(e, t).spent = e.spent
       /\ Removed(e, t) \in EndpointState /\ ConsistentEndpoint(Removed(e, t))
       /\ Removed(e, t).items = e.items \ {t}
       /\ Removed(e, t).spent \subseteq e.spent \cup {t}
       /\ \A lapsed :
            /\ Resolved(e, lapsed, t) \in EndpointState
            /\ ConsistentEndpoint(Resolved(e, lapsed, t))
            /\ Resolved(e, lapsed, t).spent \subseteq e.spent \cup {t}
            /\ Resolved(e, lapsed, t).items \in {e.items, e.items \ {t}}
            /\ t \notin lapsed => Resolved(e, lapsed, t).items = e.items
            /\ Reason(e, lapsed, t) = "live" =>
                 t \in e.items \ lapsed /\ Resolved(e, lapsed, t).items = e.items
<1>1. EmptyEndpoint \in EndpointState /\ ConsistentEndpoint(EmptyEndpoint)
  BY TombstoneCap
  DEF EmptyEndpoint, EndpointState, ConsistentEndpoint, InSync, Apart, Bounded,
      IsInjective, Range
<1>2. ASSUME NEW e \in EndpointState, ConsistentEndpoint(e), NEW t \in Tokens, NEW lapsed
      PROVE  /\ Resolved(e, lapsed, t) \in EndpointState
             /\ ConsistentEndpoint(Resolved(e, lapsed, t))
             /\ Resolved(e, lapsed, t).spent \subseteq e.spent \cup {t}
             /\ Resolved(e, lapsed, t).items \in {e.items, e.items \ {t}}
             /\ t \notin lapsed => Resolved(e, lapsed, t).items = e.items
             /\ Reason(e, lapsed, t) = "live" =>
                  t \in e.items \ lapsed /\ Resolved(e, lapsed, t).items = e.items
  <2>1. /\ Reason(e, lapsed, t) = "expired" => t \in lapsed
        /\ Reason(e, lapsed, t) = "live" => t \notin lapsed
    BY DEF Reason
  <2> QED
    BY <1>2, <2>1, ResolvedCorrect
<1> QED
  BY <1>1, <1>2, MintedCorrect, RemovedCorrect
=============================================================================
