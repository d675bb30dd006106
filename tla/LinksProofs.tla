----------------------------- MODULE LinksProofs ----------------------------
(***************************************************************************)
(* Theorems about the one-time things of MCLinks, for every value of the   *)
(* constants.                                                              *)
(***************************************************************************)
EXTENDS MCLinks, FiniteSetTheorems, TLAPS

-----------------------------------------------------------------------------
(* Sequences without repetitions, the shape of the registry's entries.     *)

(* Taking an element out takes it out of the members and shifts the rest.  *)
LEMMA RemoveFirstCorrect ==
  ASSUME NEW S, NEW s \in Seq(S), IsInjective(s), NEW e
  PROVE  /\ RemoveFirst(s, e) \in Seq(S)
         /\ IsInjective(RemoveFirst(s, e))
         /\ ToSet(RemoveFirst(s, e)) = ToSet(s) \ {e}
         /\ Len(RemoveFirst(s, e)) = IF e \in ToSet(s) THEN Len(s) - 1 ELSE Len(s)
<1>1. CASE e \notin ToSet(s)
  <2>1. RemoveFirst(s, e) = s
    BY <1>1 DEF RemoveFirst, ToSet
  <2> QED
    BY <1>1, <2>1
<1>2. CASE e \in ToSet(s)
  <2> DEFINE r == RemoveFirst(s, e)
  <2>1. PICK k \in 1 .. Len(s) : s[k] = e
    BY <1>2 DEF ToSet
  <2>2. {i \in 1 .. Len(s) : s[i] = e} = {k}
    BY <2>1 DEF IsInjective
  <2>3. Min({k}) = k
    BY DEF Min
  <2>4. r = SubSeq(s, 1, k - 1) \o SubSeq(s, k + 1, Len(s))
    BY <2>1, <2>2, <2>3 DEF RemoveFirst, SelectInSeq, RemoveAt
  <2> HIDE DEF r
  <2>5. /\ r \in Seq(S) /\ Len(r) = Len(s) - 1
        /\ \A i \in 1 .. Len(s) - 1 : r[i] = IF i < k THEN s[i] ELSE s[i + 1]
    <3> DEFINE a == SubSeq(s, 1, k - 1)
               b == SubSeq(s, k + 1, Len(s))
    <3>1. a \in Seq(S) /\ Len(a) = k - 1 /\ \A i \in 1 .. k - 1 : a[i] = s[i]
      BY <2>1
    <3>2. /\ b \in Seq(S) /\ Len(b) = Len(s) - k
          /\ \A i \in 1 .. Len(s) - k : b[i] = s[k + i]
      BY <2>1
    <3>3. r = a \o b
      BY <2>4
    <3> HIDE DEF a, b
    <3>4. r \in Seq(S) /\ Len(r) = Len(s) - 1
      BY <3>1, <3>2, <3>3
    <3>5. ASSUME NEW i \in 1 .. Len(s) - 1
          PROVE  r[i] = IF i < k THEN s[i] ELSE s[i + 1]
      <4>1. r[i] = IF i < k THEN a[i] ELSE b[i - (k - 1)]
        BY <3>1, <3>2, <3>3
      <4>2. i >= k => i - (k - 1) \in 1 .. Len(s) - k /\ k + (i - (k - 1)) = i + 1
        BY <3>1
      <4> QED
        BY <4>1, <4>2, <3>1, <3>2
    <3> QED
      BY <3>4, <3>5
  <2>6. IsInjective(r)
    BY <2>1, <2>5 DEF IsInjective
  <2>7. ToSet(r) = ToSet(s) \ {e}
    <3>1. ASSUME NEW x \in ToSet(r)
          PROVE  x \in ToSet(s) \ {e}
      <4>1. PICK i \in 1 .. Len(s) - 1 : x = IF i < k THEN s[i] ELSE s[i + 1]
        BY <3>1, <2>5 DEF ToSet
      <4> QED
        BY <4>1, <2>1 DEF ToSet, IsInjective
    <3>2. ASSUME NEW x \in ToSet(s) \ {e}
          PROVE  x \in ToSet(r)
      <4>1. PICK i \in 1 .. Len(s) : x = s[i] /\ i # k
        BY <3>2, <2>1 DEF ToSet
      <4>2. CASE i < k
        <5>1. i \in 1 .. Len(s) - 1 /\ r[i] = x
          BY <4>1, <4>2, <2>1, <2>5
        <5> QED
          BY <5>1, <2>5 DEF ToSet
      <4>3. CASE i > k
        <5>1. i - 1 \in 1 .. Len(s) - 1 /\ r[i - 1] = x
          BY <4>1, <4>3, <2>1, <2>5
        <5> QED
          BY <5>1, <2>5 DEF ToSet
      <4> QED
        BY <4>1, <4>2, <4>3
    <3> QED
      BY <3>1, <3>2
  <2> QED
    BY <1>2, <2>5, <2>6, <2>7 DEF r
<1> QED
  BY <1>1, <1>2

(* Dropping the oldest n drops their members. *)
LEMMA DropCorrect ==
  ASSUME NEW S, NEW s \in Seq(S), IsInjective(s), NEW n \in 0 .. Len(s)
  PROVE  /\ SubSeq(s, n + 1, Len(s)) \in Seq(S)
         /\ IsInjective(SubSeq(s, n + 1, Len(s)))
         /\ Len(SubSeq(s, n + 1, Len(s))) = Len(s) - n
         /\ ToSet(SubSeq(s, n + 1, Len(s))) = ToSet(s) \ {s[i] : i \in 1 .. n}
<1> DEFINE r == SubSeq(s, n + 1, Len(s))
<1>1. /\ r \in Seq(S) /\ Len(r) = Len(s) - n
      /\ \A i \in 1 .. Len(s) - n : r[i] = s[n + i]
  OBVIOUS
<1> HIDE DEF r
<1>2. IsInjective(r)
  <2> SUFFICES ASSUME NEW a \in 1 .. Len(s) - n, NEW b \in 1 .. Len(s) - n, r[a] = r[b]
               PROVE  a = b
    BY <1>1 DEF IsInjective
  <2>1. n + a \in 1 .. Len(s) /\ n + b \in 1 .. Len(s) /\ s[n + a] = s[n + b]
    BY <1>1
  <2>2. n + a = n + b
    BY <2>1 DEF IsInjective
  <2> QED
    BY <2>2
<1>3. ASSUME NEW x \in ToSet(r)
      PROVE  x \in ToSet(s) \ {s[i] : i \in 1 .. n}
  <2>1. PICK i \in 1 .. Len(s) - n : x = s[n + i]
    BY <1>1 DEF ToSet
  <2> QED
    BY <2>1 DEF ToSet, IsInjective
<1>4. ASSUME NEW x \in ToSet(s) \ {s[i] : i \in 1 .. n}
      PROVE  x \in ToSet(r)
  <2>1. PICK i \in 1 .. Len(s) : x = s[i] /\ i > n
    BY <1>4 DEF ToSet
  <2>2. i - n \in 1 .. Len(s) - n /\ r[i - n] = x
    BY <1>1, <2>1
  <2> QED
    BY <1>1, <2>2 DEF ToSet
<1> QED
  BY <1>1, <1>2, <1>3, <1>4 DEF r

LEMMA TailCorrect ==
  ASSUME NEW S, NEW s \in Seq(S), IsInjective(s), s # << >>
  PROVE  /\ Tail(s) \in Seq(S) /\ IsInjective(Tail(s)) /\ Len(Tail(s)) = Len(s) - 1
         /\ Head(s) \in ToSet(s) /\ ToSet(Tail(s)) = ToSet(s) \ {Head(s)}
<1>1. Tail(s) = SubSeq(s, 1 + 1, Len(s)) /\ Len(s) \in Nat \ {0} /\ Head(s) = s[1]
  OBVIOUS
<1>2. {s[i] : i \in 1 .. 1} = {s[1]}
  OBVIOUS
<1>3. /\ SubSeq(s, 1 + 1, Len(s)) \in Seq(S) /\ IsInjective(SubSeq(s, 1 + 1, Len(s)))
      /\ Len(SubSeq(s, 1 + 1, Len(s))) = Len(s) - 1
      /\ ToSet(SubSeq(s, 1 + 1, Len(s))) = ToSet(s) \ {s[i] : i \in 1 .. 1}
  <2>1. 1 \in 0 .. Len(s)
    BY <1>1
  <2> QED
    BY <2>1, DropCorrect, Zenon
<1>4. s[1] \in ToSet(s)
  BY <1>1 DEF ToSet
<1> QED
  BY <1>1, <1>2, <1>3, <1>4

LEMMA AppendCorrect ==
  ASSUME NEW S, NEW s \in Seq(S), IsInjective(s), NEW e \in S \ ToSet(s)
  PROVE  /\ Append(s, e) \in Seq(S) /\ IsInjective(Append(s, e))
         /\ Len(Append(s, e)) = Len(s) + 1
         /\ ToSet(Append(s, e)) = ToSet(s) \cup {e}
<1> DEFINE r == Append(s, e)
<1>1. /\ r \in Seq(S) /\ Len(r) = Len(s) + 1 /\ r[Len(s) + 1] = e
      /\ \A i \in 1 .. Len(s) : r[i] = s[i]
  OBVIOUS
<1> HIDE DEF r
<1>2. DOMAIN r = 1 .. Len(s) + 1 /\ DOMAIN s = 1 .. Len(s)
  BY <1>1
<1>3. IsInjective(r)
  BY <1>1, <1>2 DEF ToSet, IsInjective
<1>4. ToSet(r) = ToSet(s) \cup {e}
  BY <1>1, <1>2 DEF ToSet
<1> QED
  BY <1>1, <1>3, <1>4 DEF r

-----------------------------------------------------------------------------
(* The registry of continuations.                                          *)

RegistryTypeOK ==
  /\ order \in Seq(Handles) /\ stale \in Nat
  /\ store \subseteq Handles /\ used \cup again \cup cut \subseteq Handles
  /\ at \in [Starters -> {"idle", "created", "begun"}] /\ mine \in [Starters -> Handles]
  /\ victims \in [Starters -> SUBSET Handles]
  /\ doing \in [Resumers -> {"idle", "ending", "twice"}] /\ dead \in [Resumers -> Handles]

(* What is live, or about to be ended, was handed out before ...            *)
Recorded ==
  /\ store \subseteq used
  /\ \A q \in Resumers : doing[q] # "idle" => dead[q] \in used

(* ... a Begin retires what it evicted before the next one ...             *)
Evicted == \A s \in Starters : at[s] # "begun" => victims[s] = {}

(* ... and a handle that is live again after a resume call deleted it was  *)
(* begun again.                                                             *)
Over == \A q \in Resumers : doing[q] # "idle" => dead[q] \notin store \ again

RegistryBounded == RegistryTypeOK /\ Bounded

(* Without Evicted a Begin could forget what an earlier one evicted; and    *)
(* without Over, End could take away the continuation of a handle that was  *)
(* begun once.                                                              *)
RegistryInv == RegistryBounded /\ Recorded /\ Evicted /\ Over /\ NoOrphan

LEMMA RegistryInit == Init => RegistryInv
BY RegistryAssumption
DEF Init, RegistryInv, RegistryBounded, RegistryTypeOK, Bounded, Recorded, Evicted,
    Over, NoOrphan, Registered, ToSet, IsInjective

(* What Begin does to the entries: the stale ones go, the oldest goes if   *)
(* there is no room, and its own becomes the youngest.                     *)
LEMMA BeginCorrect ==
  ASSUME RegistryBounded, NEW s \in Starters, Begin(s)
  PROVE  /\ order' \in Seq(Handles) /\ IsInjective(order') /\ Len(order') <= MaxEntries
         /\ stale' = 0 /\ mine[s] \in Registered'
         /\ \E gone \in SUBSET Registered :
              /\ victims' = [victims EXCEPT ![s] = gone]
              /\ Registered' = (Registered \ gone) \cup {mine[s]}
<1>1. /\ order \in Seq(Handles) /\ IsInjective(order) /\ stale \in 0 .. Len(order)
      /\ mine[s] \in Handles /\ Len(order) <= MaxEntries
  BY DEF RegistryBounded, RegistryTypeOK, Bounded
<1>2. /\ Fresh \in Seq(Handles) /\ IsInjective(Fresh) /\ Len(Fresh) <= Len(order)
      /\ ToSet(Fresh) = Registered \ Stale
  <2>1. /\ Fresh \in Seq(Handles) /\ IsInjective(Fresh) /\ Len(Fresh) = Len(order) - stale
        /\ ToSet(Fresh) = Registered \ Stale
    BY <1>1, DropCorrect, Zenon DEF Fresh, Registered, Stale
  <2> QED
    BY <1>1, <2>1
<1>3. Stale \subseteq Registered
  BY <1>1 DEF Stale, Registered, ToSet
<1>4. ASSUME NEW kept \in Seq(Handles), IsInjective(kept), Len(kept) < MaxEntries,
             NEW gone \in SUBSET Registered, ToSet(kept) = Registered \ gone,
             Enter(s, kept, gone)
      PROVE  /\ order' \in Seq(Handles) /\ IsInjective(order') /\ Len(order') <= MaxEntries
             /\ stale' = 0 /\ victims' = [victims EXCEPT ![s] = gone]
             /\ Registered' = (Registered \ gone) \cup {mine[s]}
  <2> DEFINE r == RemoveFirst(kept, mine[s])
  <2>1. /\ r \in Seq(Handles) /\ IsInjective(r) /\ ToSet(r) = ToSet(kept) \ {mine[s]}
        /\ Len(r) <= Len(kept)
    BY <1>4, RemoveFirstCorrect
  <2>2. order' = Append(r, mine[s]) /\ stale' = 0 /\ victims' = [victims EXCEPT ![s] = gone]
    BY <1>4 DEF Enter
  <2> HIDE DEF r
  <2>3. /\ order' \in Seq(Handles) /\ IsInjective(order') /\ Len(order') = Len(r) + 1
        /\ ToSet(order') = ToSet(r) \cup {mine[s]}
    BY <1>1, <2>1, <2>2, AppendCorrect
  <2>4. Len(order') <= MaxEntries
    BY <1>4, <2>1, <2>3, RegistryAssumption
  <2> QED
    BY <1>4, <2>1, <2>2, <2>3, <2>4 DEF Registered
<1>5. CASE Len(Fresh) >= MaxEntries
  <2>1. Fresh # << >> /\ Len(Fresh) - 1 < MaxEntries
    BY <1>1, <1>2, <1>5, RegistryAssumption
  <2>2. Enter(s, Tail(Fresh), Stale \cup {Head(Fresh)})
    BY <1>5 DEF Begin
  <2>3. /\ Tail(Fresh) \in Seq(Handles) /\ IsInjective(Tail(Fresh))
        /\ Len(Tail(Fresh)) = Len(Fresh) - 1 /\ Head(Fresh) \in ToSet(Fresh)
        /\ ToSet(Tail(Fresh)) = ToSet(Fresh) \ {Head(Fresh)}
    BY <1>2, <2>1, TailCorrect
  <2>4. /\ Stale \cup {Head(Fresh)} \in SUBSET Registered
        /\ ToSet(Tail(Fresh)) = Registered \ (Stale \cup {Head(Fresh)})
    BY <1>2, <1>3, <2>3
  <2> QED
    BY <1>4, <2>1, <2>2, <2>3, <2>4
<1>6. CASE ~(Len(Fresh) >= MaxEntries)
  <2>1. Enter(s, Fresh, Stale) /\ Len(Fresh) < MaxEntries
    BY <1>2, <1>6, RegistryAssumption DEF Begin
  <2> QED
    BY <1>2, <1>3, <1>4, <2>1
<1> QED
  BY <1>5, <1>6

(* What End does: the continuation of the dead handle goes. *)
LEMMA EndCorrect ==
  ASSUME RegistryBounded, NEW q \in Resumers, End(q)
  PROVE  /\ order' \in Seq(Handles) /\ IsInjective(order') /\ Len(order') <= Len(order)
         /\ stale' \in 0 .. Len(order') /\ Registered' = Registered \ {dead[q]}
<1>1. /\ order \in Seq(Handles) /\ IsInjective(order) /\ stale \in 0 .. Len(order)
  BY DEF RegistryBounded, RegistryTypeOK, Bounded
<1>2. /\ order' \in Seq(Handles) /\ IsInjective(order')
      /\ ToSet(order') = ToSet(order) \ {dead[q]}
      /\ Len(order') = IF dead[q] \in ToSet(order) THEN Len(order) - 1 ELSE Len(order)
  BY <1>1, RemoveFirstCorrect DEF End
<1>3. stale' \in 0 .. Len(order')
  <2>1. CASE dead[q] \in Stale
    <3>1. stale' = stale - 1 /\ stale > 0 /\ dead[q] \in ToSet(order)
      BY <1>1, <2>1 DEF End, Stale, ToSet
    <3> QED
      BY <1>1, <1>2, <3>1
  <2>2. CASE dead[q] \notin Stale
    <3>1. stale' = stale
      BY <2>2 DEF End
    <3>2. dead[q] \in ToSet(order) => stale < Len(order)
      BY <1>1, <2>2 DEF Stale, ToSet
    <3> QED
      BY <1>1, <1>2, <3>1, <3>2
  <2> QED
    BY <2>1, <2>2
<1> QED
  BY <1>1, <1>2, <1>3 DEF Registered


(* Only Begin, End and the clock touch the entries. *)
LEMMA RegistryBoundedStep == RegistryBounded /\ [Next]_vars => RegistryBounded'
<1> SUFFICES ASSUME RegistryBounded, [Next]_vars
             PROVE  RegistryBounded'
  OBVIOUS
<1> USE DEF RegistryBounded, RegistryTypeOK, Bounded
<1>1. ASSUME NEW s \in Starters, NEW h \in Handles, Create(s, h)
      PROVE  RegistryBounded'
  BY <1>1 DEF Create
<1>2. ASSUME NEW s \in Starters, Begin(s)
      PROVE  RegistryBounded'
  <2>1. /\ order' \in Seq(Handles) /\ IsInjective(order') /\ Len(order') <= MaxEntries
        /\ stale' = 0 /\ victims' \in [Starters -> SUBSET Handles]
    <3>1. Registered \subseteq Handles
      BY DEF Registered, ToSet
    <3> QED
      BY <1>2, <3>1, BeginCorrect
  <2>2. /\ UNCHANGED <<store, used, again, mine, doing, dead>> /\ cut' \subseteq cut
        /\ at' \in [Starters -> {"idle", "created", "begun"}]
    BY <1>2 DEF Begin, Enter
  <2> QED
    BY <2>1, <2>2
<1>3. ASSUME NEW s \in Starters, Cleanup(s)
      PROVE  RegistryBounded'
  BY <1>3 DEF Cleanup
<1>4. ASSUME NEW s \in Starters, Started(s)
      PROVE  RegistryBounded'
  BY <1>4 DEF Started
<1>5. CASE GrowStale
  BY <1>5 DEF GrowStale, tools
<1>6. ASSUME NEW h \in Handles, StoreDrops(h)
      PROVE  RegistryBounded'
  BY <1>6 DEF StoreDrops, tools
<1>7. ASSUME NEW q \in Resumers, NEW h \in Handles, FindOver(q, h)
      PROVE  RegistryBounded'
  BY <1>7 DEF FindOver, tools
<1>8. ASSUME NEW q \in Resumers, End(q)
      PROVE  RegistryBounded'
  <2>1. /\ order' \in Seq(Handles) /\ IsInjective(order') /\ Len(order') <= Len(order)
        /\ stale' \in 0 .. Len(order')
    BY <1>8, EndCorrect
  <2>2. /\ UNCHANGED <<store, used, again, at, mine, victims, dead>>
        /\ cut' \subseteq cut \cup store
        /\ doing' \in [Resumers -> {"idle", "ending", "twice"}]
    BY <1>8 DEF End, tools
  <2>3. Len(order') <= MaxEntries
    BY <2>1, RegistryAssumption
  <2> QED
    BY <2>1, <2>2, <2>3
<1>9. CASE UNCHANGED vars
  BY <1>9 DEF vars
<1> QED
  BY <1>1, <1>2, <1>3, <1>4, <1>5, <1>6, <1>7, <1>8, <1>9 DEF Next

(* A live handle keeps its continuation from its Begin to its end.          *)
LEMMA RegistryStep == RegistryInv /\ [Next]_vars => RegistryInv'
<1> SUFFICES ASSUME RegistryInv, [Next]_vars
             PROVE  RegistryInv'
  OBVIOUS
<1> DEFINE Rest == Recorded /\ Evicted /\ Over /\ NoOrphan
<1>0. RegistryBounded /\ RegistryTypeOK /\ Rest
  BY DEF RegistryInv, RegistryBounded
<1>1. ASSUME NEW s \in Starters, NEW h \in Handles, Create(s, h)
      PROVE  Rest'
  <2>1. /\ Registered' = Registered /\ store' = store \cup {h} /\ used' = used \cup {h}
        /\ again' = again \cup (used \cap {h}) /\ UNCHANGED <<victims, doing, dead, cut>>
    BY <1>1 DEF Create, Registered
  <2>2. /\ at[s] = "idle" /\ at'[s] = "created" /\ mine'[s] = h
        /\ \A u \in Starters \ {s} : at'[u] = at[u] /\ mine'[u] = mine[u]
    BY <1>0, <1>1 DEF Create, RegistryTypeOK
  <2>3. Recorded' /\ Evicted' /\ Over'
    BY <1>0, <2>1, <2>2 DEF Recorded, Evicted, Over
  <2>4. NoOrphan'
    BY <1>0, <2>1, <2>2 DEF NoOrphan
  <2> QED
    BY <2>3, <2>4
<1>2. ASSUME NEW s \in Starters, Begin(s)
      PROVE  Rest'
  <2>1. PICK gone \in SUBSET Registered :
          /\ victims' = [victims EXCEPT ![s] = gone]
          /\ Registered' = (Registered \ gone) \cup {mine[s]}
    BY <1>0, <1>2, BeginCorrect
  <2>2. /\ at[s] = "created" /\ at' = [at EXCEPT ![s] = "begun"]
        /\ UNCHANGED <<store, used, again, mine, doing, dead>> /\ cut' = cut \ {mine[s]}
    BY <1>2 DEF Begin, Enter
  <2>3. Recorded' /\ Over'
    BY <1>0, <2>2 DEF Recorded, Over
  <2>4. Evicted'
    BY <1>0, <2>1, <2>2 DEF RegistryTypeOK, Evicted
  <2>5. NoOrphan'
    BY <1>0, <2>1, <2>2 DEF RegistryTypeOK, Evicted, NoOrphan
  <2> QED
    BY <2>3, <2>4, <2>5
<1>3. ASSUME NEW s \in Starters, Cleanup(s)
      PROVE  Rest'
  <2>1. Registered' = Registered
    BY <1>3 DEF Cleanup, Registered
  <2> QED
    BY <1>0, <1>3, <2>1 DEF Cleanup, RegistryTypeOK, Recorded, Evicted, Over, NoOrphan
<1>4. ASSUME NEW s \in Starters, Started(s)
      PROVE  Rest'
  <2>1. Registered' = Registered
    BY <1>4 DEF Started, Registered
  <2>2. \A u \in Starters : at'[u] = IF u = s THEN "idle" ELSE at[u]
    BY <1>0, <1>4 DEF Started, RegistryTypeOK
  <2>3. /\ at[s] = "begun" /\ victims[s] = {}
        /\ UNCHANGED <<store, used, again, cut, mine, victims, doing, dead>>
    BY <1>4 DEF Started
  <2>4. Recorded' /\ Evicted' /\ Over'
    BY <1>0, <2>1, <2>2, <2>3 DEF Recorded, Evicted, Over
  <2>5. NoOrphan'
    BY <1>0, <2>1, <2>2, <2>3 DEF NoOrphan
  <2> QED
    BY <2>4, <2>5
<1>5. ASSUME GrowStale \/ UNCHANGED vars
      PROVE  Rest'
  <2>1. UNCHANGED <<store, order, used, again, cut, at, mine, victims, doing, dead>>
    BY <1>5 DEF GrowStale, tools, vars
  <2>2. Registered' = Registered
    BY <2>1 DEF Registered
  <2> QED
    BY <1>0, <2>1, <2>2 DEF Recorded, Evicted, Over, NoOrphan
<1>6. ASSUME NEW h \in Handles, StoreDrops(h)
      PROVE  Rest'
  <2>1. Registered' = Registered
    BY <1>6 DEF StoreDrops, Registered
  <2> QED
    BY <1>0, <1>6, <2>1 DEF StoreDrops, tools, RegistryTypeOK, Recorded, Evicted, Over, NoOrphan
<1>7. ASSUME NEW q \in Resumers, NEW h \in Handles, FindOver(q, h)
      PROVE  Rest'
  <2>1. /\ Registered' = Registered /\ UNCHANGED <<used, again, cut, at, mine, victims>>
        /\ h \in used /\ store' = store \ {h} /\ dead'[q] = h
        /\ \A r \in Resumers \ {q} : doing'[r] = doing[r] /\ dead'[r] = dead[r]
    BY <1>0, <1>7 DEF FindOver, Registered, tools, RegistryTypeOK
  <2> QED
    BY <1>0, <2>1 DEF Recorded, Evicted, Over, NoOrphan
<1>8. ASSUME NEW q \in Resumers, End(q)
      PROVE  Rest'
  <2>1. Registered' = Registered \ {dead[q]}
    BY <1>0, <1>8, EndCorrect
  <2>2. /\ doing[q] # "idle" /\ UNCHANGED <<store, used, again, at, mine, victims, dead>>
        /\ cut' = cut \cup ({dead[q]} \cap Registered \cap store)
        /\ \A r \in Resumers : doing'[r] # "idle" => doing[r] # "idle"
    BY <1>0, <1>8 DEF End, tools, RegistryTypeOK
  <2>3. Recorded' /\ Evicted' /\ Over'
    BY <1>0, <2>2 DEF Recorded, Evicted, Over
  <2>4. NoOrphan'
    BY <1>0, <2>1, <2>2 DEF NoOrphan, Over
  <2> QED
    BY <2>3, <2>4
<1>9. RegistryBounded'
  BY <1>0, RegistryBoundedStep
<1> QED
  BY <1>1, <1>2, <1>3, <1>4, <1>5, <1>6, <1>7, <1>8, <1>9 DEF Next, RegistryInv

-----------------------------------------------------------------------------
(* The account pages.                                                      *)

Links == INSTANCE EndpointProofs

(* What a POST beyond its update was answered is what the service did. *)
Answered ==
  \A r \in Requests : pc[r] \notin {"idle", "resolved"} =>
    /\ reply[r] = "succeeded" => updates[tok[r]] > 0
    /\ reply[r] = "failed"    => refusals[tok[r]] > 0

(* Everything that is known of a link was minted. *)
Known ==
  /\ ep.items \cup ep.spent \subseteq minted
  /\ \A r \in Requests : pc[r] # "idle" => tok[r] \in minted
  /\ \A t \in Tokens : outcome[t] # "none" => t \in minted

AccountInv ==
  /\ Account!TypeOK /\ Account!ConsistentEndpoint(ep) /\ Known /\ Answered
  /\ Account!ClosedMeansAsked /\ Account!OutcomeWasGiven

(* EndpointProofs.EndpointKept, in the words of this instance. *)
LEMMA AccountEndpoint ==
  /\ Account!EmptyEndpoint \in Account!EndpointState
  /\ Account!ConsistentEndpoint(Account!EmptyEndpoint)
  /\ \A e \in Account!EndpointState : Account!ConsistentEndpoint(e) => \A t \in Tokens :
       /\ t \notin e.spent =>
            /\ Account!Minted(e, t) \in Account!EndpointState
            /\ Account!ConsistentEndpoint(Account!Minted(e, t))
            /\ Account!Minted(e, t).items = e.items \cup {t}
            /\ Account!Minted(e, t).spent = e.spent
       /\ Account!Removed(e, t) \in Account!EndpointState
       /\ Account!ConsistentEndpoint(Account!Removed(e, t))
       /\ Account!Removed(e, t).items = e.items \ {t}
       /\ Account!Removed(e, t).spent \subseteq e.spent \cup {t}
       /\ \A l :
            /\ Account!Resolved(e, l, t) \in Account!EndpointState
            /\ Account!ConsistentEndpoint(Account!Resolved(e, l, t))
            /\ Account!Resolved(e, l, t).spent \subseteq e.spent \cup {t}
            /\ Account!Resolved(e, l, t).items \in {e.items, e.items \ {t}}
            /\ t \notin l => Account!Resolved(e, l, t).items = e.items
            /\ Account!Reason(e, l, t) = "live" =>
                 t \in e.items \ l /\ Account!Resolved(e, l, t).items = e.items
<1>1. /\ Account!EmptyEndpoint = Links!EmptyEndpoint
      /\ Account!EndpointState = Links!EndpointState
  BY DEF Account!EmptyEndpoint, Links!EmptyEndpoint, Account!EndpointState,
         Links!EndpointState
<1>2. ASSUME NEW e
      PROVE  Account!ConsistentEndpoint(e) <=> Links!ConsistentEndpoint(e)
  BY DEF Account!ConsistentEndpoint, Account!InSync, Account!Apart, Account!Bounded,
         Account!IsInjective, Account!Range,
         Links!ConsistentEndpoint, Links!InSync, Links!Apart, Links!Bounded,
         Links!IsInjective, Links!Range
<1>3. ASSUME NEW e, NEW t
      PROVE  Account!Minted(e, t) = Links!Minted(e, t)
  BY DEF Account!Minted, Links!Minted
<1>4. ASSUME NEW e
      PROVE  Account!Pruned(e) = Links!Pruned(e)
  BY DEF Account!Pruned, Account!Overflow, Account!Cardinality,
         Links!Pruned, Links!Overflow, Links!Cardinality
<1>5. ASSUME NEW e, NEW t
      PROVE  Account!Taken(e, t) = Links!Taken(e, t)
  BY DEF Account!Taken, Account!MarkSpent, Links!Taken, Links!MarkSpent
<1>6. ASSUME NEW e, NEW t
      PROVE  Account!Removed(e, t) = Links!Removed(e, t)
  BY <1>4, <1>5 DEF Account!Removed, Links!Removed
<1>7. ASSUME NEW e, NEW l, NEW t
      PROVE  Account!Reason(e, l, t) = Links!Reason(e, l, t)
  BY <1>4 DEF Account!Reason, Links!Reason
<1>8. ASSUME NEW e, NEW l, NEW t
      PROVE  Account!Resolved(e, l, t) = Links!Resolved(e, l, t)
  BY <1>4, <1>5, <1>7 DEF Account!Resolved, Links!Resolved
<1> QED
  BY <1>1, <1>2, <1>3, <1>6, <1>7, <1>8, LinksAssumption, Links!EndpointKept
LEMMA AccountInit == Account!Init => AccountInv
<1> SUFFICES ASSUME Account!Init
             PROVE  AccountInv
  OBVIOUS
<1>1. ep.items = {} /\ ep.spent = {}
  BY DEF Account!Init, Account!EmptyEndpoint
<1> QED
  BY <1>1, AccountEndpoint
  DEF Account!Init, AccountInv, Account!TypeOK, Account!Stages, Account!Results, Known,
      Answered, Account!ClosedMeansAsked, Account!OutcomeWasGiven

(* The endpoint may close what lapsed or what the service was asked about. *)
LEMMA ClosingKeepsAccountInv ==
  ASSUME AccountInv,
         ep' \in Account!EndpointState, Account!ConsistentEndpoint(ep'),
         ep'.items \cup ep'.spent \subseteq minted,
         \A t \in minted \ lapsed : t \in ep.items \ ep'.items => updates[t] + refusals[t] > 0,
         pc' \in [Requests -> Account!Stages], tok' \in [Requests -> Tokens],
         \A r \in Requests : pc'[r] # "idle" =>
            \/ pc[r] # "idle" /\ tok'[r] = tok[r] /\ (pc[r] = "resolved" => pc'[r] = "resolved")
            \/ pc'[r] = "resolved" /\ tok'[r] \in minted,
         UNCHANGED <<minted, lapsed, reply, outcome, aged, updates, refusals>>
  PROVE  AccountInv'
<1> USE DEF AccountInv
<1>1. Account!TypeOK'
  BY DEF Account!TypeOK
<1>2. Account!ConsistentEndpoint(ep)' /\ Known' /\ Answered'
  BY DEF Known, Answered, Account!TypeOK
<1>3. Account!ClosedMeansAsked' /\ Account!OutcomeWasGiven'
  BY DEF Account!ClosedMeansAsked, Account!OutcomeWasGiven
<1> QED
  BY <1>1, <1>2, <1>3
LEMMA AccountStep == AccountInv /\ [Account!Next]_accountState => AccountInv'
<1> SUFFICES ASSUME AccountInv, [Account!Next]_accountState
             PROVE  AccountInv'
  OBVIOUS
<1> USE DEF Account!links, Account!outcomes, Account!history, Account!Goto
<1>0. /\ ep \in Account!EndpointState /\ Account!ConsistentEndpoint(ep)
      /\ pc \in [Requests -> Account!Stages] /\ tok \in [Requests -> Tokens]
      /\ minted \subseteq Tokens /\ ep.items \cup ep.spent \subseteq minted
  BY DEF AccountInv, Account!TypeOK, Known
<1>1. ASSUME NEW t \in Tokens, Account!Register(t)
      PROVE  AccountInv'
  <2>1. /\ ep' \in Account!EndpointState /\ Account!ConsistentEndpoint(ep')
        /\ ep'.items = ep.items \cup {t} /\ ep'.spent = ep.spent
    BY <1>0, <1>1, AccountEndpoint DEF Account!Register
  <2>2. /\ minted' = minted \cup {t}
        /\ UNCHANGED <<lapsed, pc, tok, reply, outcome, aged, updates, refusals>>
    BY <1>1 DEF Account!Register
  <2> QED
    BY <2>1, <2>2
    DEF AccountInv, Account!TypeOK, Known, Answered, Account!ClosedMeansAsked,
        Account!OutcomeWasGiven
<1>2. ASSUME NEW t \in Tokens, Account!Lapse(t)
      PROVE  AccountInv'
  BY <1>2
  DEF Account!Lapse, AccountInv, Account!TypeOK, Known, Answered,
      Account!ClosedMeansAsked, Account!OutcomeWasGiven
<1>3. ASSUME NEW t \in Tokens, Account!Age(t)
      PROVE  AccountInv'
  BY <1>3
  DEF Account!Age, AccountInv, Account!TypeOK, Known, Answered,
      Account!ClosedMeansAsked, Account!OutcomeWasGiven
<1>4. ASSUME NEW t \in Tokens, Account!View(t)
      PROVE  AccountInv'
  <2>1. /\ ep' \in Account!EndpointState /\ Account!ConsistentEndpoint(ep')
        /\ ep'.items \in {ep.items, ep.items \ {t}} /\ ep'.spent \subseteq ep.spent \cup {t}
        /\ t \notin lapsed => ep'.items = ep.items
    BY <1>0, <1>4, AccountEndpoint DEF Account!View
  <2>2. t \in minted /\ UNCHANGED <<minted, lapsed, pc, tok, reply, outcome, aged, updates, refusals>>
    BY <1>4 DEF Account!View
  <2> QED
    BY <1>0, <2>1, <2>2, ClosingKeepsAccountInv
<1>5. ASSUME NEW r \in Requests, NEW t \in Tokens, Account!Post(r, t)
      PROVE  AccountInv'
  <2>1. /\ ep' \in Account!EndpointState /\ Account!ConsistentEndpoint(ep')
        /\ ep'.items = ep.items /\ ep'.spent \subseteq ep.spent \cup {t}
    <3>1. Account!Reason(ep, lapsed, t) = "live" /\ ep' = Account!Resolved(ep, lapsed, t)
      BY <1>5 DEF Account!Post
    <3> QED
      BY <1>0, <3>1, AccountEndpoint
  <2>2. /\ t \in minted /\ pc' = [pc EXCEPT ![r] = "resolved"] /\ tok' = [tok EXCEPT ![r] = t]
        /\ UNCHANGED <<minted, lapsed, reply, outcome, aged, updates, refusals>>
    BY <1>5 DEF Account!Post
  <2>3. pc' \in [Requests -> Account!Stages]
    BY <1>0, <2>2 DEF Account!Stages
  <2> QED
    BY <1>0, <2>1, <2>2, <2>3, ClosingKeepsAccountInv
<1>6. ASSUME NEW r \in Requests, Account!Refuse(r) \/ Account!ClaimLost(r)
      PROVE  AccountInv'
  <2>1. /\ pc' = [pc EXCEPT ![r] = "idle"]
        /\ UNCHANGED <<ep, minted, lapsed, tok, reply, outcome, aged, updates, refusals>>
    BY <1>6 DEF Account!Refuse, Account!ClaimLost
  <2>2. pc' \in [Requests -> Account!Stages]
    BY <1>0, <2>1 DEF Account!Stages
  <2> QED
    BY <1>0, <2>1, <2>2, ClosingKeepsAccountInv
<1>7. ASSUME NEW r \in Requests, Account!Update(r)
      PROVE  AccountInv'
  BY <1>7
  DEF Account!Update, AccountInv, Account!TypeOK, Account!Stages, Account!Results, Known,
      Answered, Account!ClosedMeansAsked, Account!OutcomeWasGiven
<1>8. ASSUME NEW r \in Requests, Account!Claim(r) \/ Account!Return(r)
      PROVE  AccountInv'
  <2> DEFINE t == tok[r]
  <2>1. /\ pc[r] \notin {"idle", "resolved"} /\ t \in minted
        /\ pc' \in [Requests -> Account!Stages]
        /\ \A q \in Requests : pc'[q] # "idle" /\ pc[q] \in {"idle", "resolved"} => pc'[q] = pc[q]
        /\ ep' = Account!Removed(ep, t)
        /\ UNCHANGED <<minted, lapsed, tok, reply, outcome, aged, updates, refusals>>
    BY <1>0, <1>8 DEF Account!Claim, Account!Return, AccountInv, Known, Account!Stages
  <2>2. /\ ep' \in Account!EndpointState /\ Account!ConsistentEndpoint(ep')
        /\ ep'.items = ep.items \ {t} /\ ep'.spent \subseteq ep.spent \cup {t}
    BY <1>0, <2>1, AccountEndpoint
  <2>3. updates[t] + refusals[t] > 0
    BY <2>1 DEF AccountInv, Account!TypeOK, Account!Results, Answered
  <2> QED
    BY <1>0, <2>1, <2>2, <2>3, ClosingKeepsAccountInv
<1>9. ASSUME NEW r \in Requests, Account!Record(r) \/ Account!Settle(r)
      PROVE  AccountInv'
  <2>1. /\ pc[r] \notin {"idle", "resolved"}
        /\ pc' \in [Requests -> Account!Stages]
        /\ \A q \in Requests : pc'[q] # "idle" /\ pc[q] \in {"idle", "resolved"} => pc'[q] = pc[q]
        /\ UNCHANGED <<ep, minted, lapsed, tok, reply, aged, updates, refusals>>
    BY <1>0, <1>9 DEF Account!Record, Account!Settle, Account!Stages
  <2>2. /\ outcome' \in [Tokens -> Account!Results \cup {"none", "unsettled"}]
        /\ \A t \in Tokens : outcome'[t] # "none" =>
             \/ outcome'[t] = outcome[t]
             \/ t = tok[r] /\ outcome'[t] \in {"unsettled", reply[r]}
    BY <1>9
    DEF Account!Record, Account!Settle, AccountInv, Account!TypeOK, Account!Results
  <2> QED
    BY <2>1, <2>2
    DEF AccountInv, Account!TypeOK, Account!Results, Known, Answered,
        Account!ClosedMeansAsked, Account!OutcomeWasGiven
<1>10. CASE UNCHANGED accountState
  BY <1>10
  DEF accountState, AccountInv, Account!TypeOK, Known, Answered,
      Account!ClosedMeansAsked, Account!OutcomeWasGiven
<1> QED
  BY <1>1, <1>2, <1>3, <1>4, <1>5, <1>6, <1>7, <1>8, <1>9, <1>10
  DEF Account!Next, Account!Serve
-----------------------------------------------------------------------------
(* Writes into a vault.                                                    *)

(* A link is named by the mint that made it, and carried by one PUT: once  *)
(* claimed it is out of the map for good, because a mint stamps once.      *)
Tickets ==
  /\ \A l \in tokens : step[l] = "done" /\ how[l] = "mint"
  /\ \A c \in Calls :
       /\ how[c] # "put" => link[c] = NoCall
       /\ how[c] = "put" =>
            /\ link[c] \in Calls \ tokens /\ step[c] \notin {"idle", "guarded"}
            /\ step[link[c]] = "done" /\ how[link[c]] = "mint"
       /\ \A d \in Calls : how[c] = "put" /\ how[d] = "put" /\ link[c] = link[d] => c = d

(* What is in the metadata of a call from its stamp on, and where it goes. *)
Routed ==
  \A c \in Calls :
    /\ step[c] \notin {"idle", "guarded"} =>
         /\ named[c] # NoProfile => pinned[c] = named[c]
         /\ named[c] = NoProfile /\ Cardinality(seen[c]) = 1 => pinned[c] \in seen[c]
    /\ step[c] \in {"write", "preflight", "walk"} =>
         dest[c] \in Profiles /\ (pinned[c] # NoProfile => dest[c] = pinned[c])

(* How far each call is, and what it has written by then. *)
Written ==
  \A c \in Calls :
    /\ step[c] \in {"resolve", "open", "write", "preflight", "walk"} => how[c] # "mint"
    /\ step[c] = "write" => how[c] \in {"put", "relay"}
    /\ step[c] \in {"preflight", "walk"} => how[c] = "path"
    /\ step[c] \notin {"walk", "done", "failed"} =>
         listed[c] = {} /\ Writes!Objects(c) = {}
    /\ step[c] = "walk" =>
         entry[c] > 0 /\ Writes!Objects(c) = {<<dest[c], c, i>> : i \in 1 .. entry[c] - 1}

WritesInv == Writes!VaultTypeOK /\ Tickets /\ Routed /\ Written /\ Writes!BytesLandWhereAsked
LEMMA SameCardinality == \A S : Writes!Cardinality(S) = Cardinality(S)
BY DEF Writes!Cardinality, Cardinality

LEMMA WritesInit == Writes!VaultInit => WritesInv
<1> SUFFICES ASSUME Writes!VaultInit
             PROVE  WritesInv
  OBVIOUS
<1>1. Writes!VaultTypeOK
  BY LinksAssumption DEF Writes!VaultInit, Writes!VaultTypeOK, Writes!Kinds
<1>2. Tickets /\ Routed /\ Written
  BY DEF Writes!VaultInit, Tickets, Routed, Written, Writes!Objects
<1>3. Writes!BytesLandWhereAsked
  BY DEF Writes!VaultInit, Writes!BytesLandWhereAsked, Writes!Objects
<1> QED
  BY <1>1, <1>2, <1>3 DEF WritesInv

(* A step that writes and lists nothing, and leaves what a call that has   *)
(* written was asked, keeps what was said of the writes.                   *)
LEMMA QuietKeepsLanded ==
  ASSUME WritesInv, UNCHANGED <<landed, listed>>,
         \A c \in Calls : Writes!Objects(c) # {} \/ listed[c] # {} =>
            /\ named'[c] = named[c] /\ seen'[c] = seen[c] /\ how'[c] = how[c]
            /\ link'[c] = link[c] /\ dest'[c] = dest[c],
         \A c \in Calls : step'[c] = "done" =>
            \/ how'[c] = "mint"
            \/ step[c] = "done" /\ how'[c] = how[c]
            \/ how'[c] = "path" /\ Cardinality(Writes!Objects(c)) = Entries
  PROVE  Writes!BytesLandWhereAsked'
<1>1. \A c : Writes!Objects(c)' = Writes!Objects(c)
  BY DEF Writes!Objects
<1>2. \A o \in landed : o[2] \in Calls /\ Writes!Objects(o[2]) # {}
  BY DEF WritesInv, Writes!VaultTypeOK, Writes!Objects
<1>3. (\A o \in landed :
         IF named[o[2]] # NoProfile THEN o[1] = named[o[2]]
         ELSE Writes!Cardinality(seen[o[2]]) = 1 => o[1] \in seen[o[2]])'
  BY <1>2, SameCardinality DEF WritesInv, Writes!BytesLandWhereAsked
<1>4. (\A c, d \in Calls :
         how[c] = "put" /\ link[c] = link[d] /\ Writes!Objects(c) # {} /\ Writes!Objects(d) # {}
           => c = d)'
  BY <1>1 DEF WritesInv, Writes!BytesLandWhereAsked
<1>5. (\A o \in landed : how[o[2]] # "mint")'
  BY <1>2 DEF WritesInv, Writes!BytesLandWhereAsked
<1>6. (\A c \in Calls : {<<dest[c], c, i>> : i \in listed[c]} \subseteq landed)'
  BY DEF WritesInv, Writes!BytesLandWhereAsked
<1>7. (\A c \in Calls :
         /\ step[c] = "done" /\ how[c] \in {"put", "relay"} => Writes!Objects(c) # {}
         /\ step[c] = "done" /\ how[c] = "path" =>
              Writes!Cardinality(Writes!Objects(c)) = Entries)'
  BY <1>1, SameCardinality DEF WritesInv, Writes!BytesLandWhereAsked
<1> QED
  BY <1>3, <1>4, <1>5, <1>6, <1>7 DEF Writes!BytesLandWhereAsked

(* The registry, the tree and the clock change under the calls. *)
LEMMA OthersKeepWrites ==
  ASSUME WritesInv, Writes!VaultTypeOK', tokens' \subseteq tokens,
         UNCHANGED <<step, how, named, pinned, dest, link, entry, listed, landed, seen>>
  PROVE  WritesInv'
<1>1. Tickets' /\ Routed'
  BY DEF WritesInv, Tickets, Routed
<1>2. Written'
  BY DEF WritesInv, Written, Writes!Objects
<1>3. Writes!BytesLandWhereAsked'
  BY QuietKeepsLanded
<1> QED
  BY <1>1, <1>2, <1>3 DEF WritesInv

LEMMA GuardKeepsWrites ==
  ASSUME WritesInv, NEW c \in Calls, NEW k \in Writes!Kinds,
         NEW p \in Profiles \cup {NoProfile}, Writes!Guard(c, k, p)
  PROVE  WritesInv'
<1> USE DEF Writes!Guard, Writes!Goto, Writes!registry, Writes!links, Writes!history
<1>1. Writes!VaultTypeOK'
  BY DEF WritesInv, Writes!VaultTypeOK
<1>2. Tickets' /\ Routed'
  BY DEF WritesInv, Writes!VaultTypeOK, Tickets, Routed
<1>3. Written'
  BY DEF WritesInv, Writes!VaultTypeOK, Written, Writes!Objects
<1>4. Writes!BytesLandWhereAsked'
  BY QuietKeepsLanded DEF WritesInv, Writes!VaultTypeOK, Written
<1> QED
  BY <1>1, <1>2, <1>3, <1>4 DEF WritesInv

LEMMA StampKeepsWrites ==
  ASSUME WritesInv, NEW c \in Calls, Writes!Stamp(c)
  PROVE  WritesInv'
<1> DEFINE P == Writes!ResolveMintProfile(named[c])
<1>1. /\ step[c] = "guarded"
      /\ pinned' = [pinned EXCEPT ![c] = P] /\ seen' = [seen EXCEPT ![c] = unlocked]
      /\ \/ how[c] # "mint" /\ step' = [step EXCEPT ![c] = "resolve"] /\ tokens' = tokens
         \/ how[c] = "mint" /\ step' = [step EXCEPT ![c] = "failed"] /\ tokens' = tokens
         \/ /\ how[c] = "mint" /\ step' = [step EXCEPT ![c] = "done"]
            /\ tokens' \subseteq tokens \cup {c}
      /\ UNCHANGED <<unlocked, active, size, changes, expired, how, named, dest, link,
                     entry, listed, landed>>
  BY DEF Writes!Stamp, Writes!Goto, Writes!registry, Writes!links
<1>2. /\ P \in Profiles \cup {NoProfile}
      /\ named[c] # NoProfile => P = named[c]
      /\ named[c] = NoProfile /\ Cardinality(unlocked) = 1 => P \in unlocked
  <2>1. named[c] \in Profiles \cup {NoProfile} /\ unlocked \subseteq Profiles
    BY DEF WritesInv, Writes!VaultTypeOK
  <2>2. Cardinality(unlocked) = 1 => unlocked # {}
    BY FS_EmptySet
  <2>3. unlocked # {} => (CHOOSE q \in unlocked : TRUE) \in unlocked
    OBVIOUS
  <2>4. P = IF named[c] = NoProfile /\ Cardinality(unlocked) = 1
              THEN CHOOSE q \in unlocked : TRUE ELSE named[c]
    BY SameCardinality DEF Writes!ResolveMintProfile
  <2> QED
    BY <2>1, <2>2, <2>3, <2>4
<1> HIDE DEF P
<1>3. Writes!VaultTypeOK'
  BY <1>1, <1>2 DEF WritesInv, Writes!VaultTypeOK
<1>4. Tickets'
  BY <1>1 DEF WritesInv, Writes!VaultTypeOK, Tickets
<1>5. Routed'
  BY <1>1, <1>2 DEF WritesInv, Writes!VaultTypeOK, Routed
<1>6. Written'
  BY <1>1 DEF WritesInv, Writes!VaultTypeOK, Written, Writes!Objects
<1>7. Writes!BytesLandWhereAsked'
  BY <1>1, QuietKeepsLanded DEF WritesInv, Writes!VaultTypeOK, Written
<1> QED
  BY <1>3, <1>4, <1>5, <1>6, <1>7 DEF WritesInv

LEMMA ClaimKeepsWrites ==
  ASSUME WritesInv, NEW c \in Calls, NEW l \in Calls, Writes!Claim(c, l)
  PROVE  WritesInv'
<1> USE DEF Writes!Claim, Writes!Goto, Writes!registry
<1>1. l \in tokens /\ step[l] = "done" /\ how[l] = "mint" /\ step[c] = "idle"
  BY DEF WritesInv, Tickets
<1>2. Writes!VaultTypeOK'
  BY DEF WritesInv, Writes!VaultTypeOK, Writes!Kinds
<1>3. Tickets'
  BY <1>1 DEF WritesInv, Writes!VaultTypeOK, Tickets
<1>4. Routed'
  BY <1>1 DEF WritesInv, Writes!VaultTypeOK, Routed
<1>5. Written'
  BY <1>1 DEF WritesInv, Writes!VaultTypeOK, Written, Writes!Objects
<1>6. Writes!BytesLandWhereAsked'
  BY <1>1, QuietKeepsLanded DEF WritesInv, Writes!VaultTypeOK, Written
<1> QED
  BY <1>2, <1>3, <1>4, <1>5, <1>6 DEF WritesInv

(* Resolve, Open and Preflight, and a failure without an object: a call    *)
(* that has not written yet goes on or gives up.                           *)
LEMMA AdvanceKeepsWrites ==
  ASSUME WritesInv, NEW c \in Calls,
         Writes!Resolve(c) \/ Writes!Open(c) \/ Writes!Preflight(c)
  PROVE  WritesInv'
<1> USE DEF Writes!Fail, Writes!Goto, Writes!registry, Writes!links, Writes!history
<1>1. Writes!VaultTypeOK'
  <2>1. CASE Writes!Resolve(c)
    BY <2>1 DEF Writes!Resolve, WritesInv, Writes!VaultTypeOK
  <2>2. CASE Writes!Open(c)
    BY <2>2 DEF Writes!Open, WritesInv, Writes!VaultTypeOK
  <2>3. CASE Writes!Preflight(c)
    <3>1. /\ step' = [step EXCEPT ![c] = "walk"] \/ step' = [step EXCEPT ![c] = "failed"]
          /\ entry' = [entry EXCEPT ![c] = 1] \/ entry' = entry
          /\ UNCHANGED <<unlocked, active, size, changes, tokens, expired, how, named,
                         pinned, dest, link, listed, landed, seen>>
      BY <2>3 DEF Writes!Preflight
    <3>2. 1 \in 0 .. Entries + 1
      BY LinksAssumption
    <3> QED
      BY <3>1, <3>2 DEF WritesInv, Writes!VaultTypeOK
  <2> QED
    BY <2>1, <2>2, <2>3
<1>2. /\ step[c] \in {"resolve", "open", "preflight"}
      /\ \E to \in {"open", "write", "preflight", "walk", "failed"} :
           /\ step' = [step EXCEPT ![c] = to]
           /\ to = "write" => how[c] # "path"
           /\ to \in {"preflight", "walk"} => how[c] = "path"
           /\ to \in {"write", "preflight", "walk"} =>
                /\ dest'[c] \in Profiles
                /\ pinned[c] # NoProfile => dest'[c] = pinned[c]
           /\ to = "walk" => entry'[c] = 1
      /\ \A d \in Calls \ {c} : dest'[d] = dest[d] /\ entry'[d] = entry[d]
      /\ UNCHANGED <<tokens, how, named, pinned, link, listed, landed, seen>>
  <2>1. CASE Writes!Resolve(c)
    BY <2>1 DEF Writes!Resolve
  <2>2. CASE Writes!Open(c)
    <3>1. /\ step[c] = "open" /\ pinned[c] \in Profiles \cup {NoProfile}
          /\ dest \in [Calls -> Profiles \cup {NoProfile}] /\ unlocked \subseteq Profiles
      BY <2>2 DEF Writes!Open, WritesInv, Writes!VaultTypeOK
    <3>2. /\ dest'[c] = IF pinned[c] = NoProfile THEN active ELSE pinned[c]
          /\ \A d \in Calls \ {c} : dest'[d] = dest[d]
          /\ \/ step' = [step EXCEPT ![c] = "failed"]
             \/ /\ step' = [step EXCEPT ![c] = "preflight"]
                /\ how[c] = "path" /\ dest'[c] \in unlocked
             \/ /\ step' = [step EXCEPT ![c] = "write"]
                /\ how[c] # "path" /\ dest'[c] \in unlocked
          /\ UNCHANGED <<entry, tokens, how, named, pinned, link, listed, landed, seen>>
      BY <2>2, <3>1 DEF Writes!Open
    <3> QED
      BY <3>1, <3>2
  <2>3. CASE Writes!Preflight(c)
    <3>1. /\ step[c] = "preflight" /\ how[c] = "path" /\ dest[c] \in Profiles
          /\ pinned[c] # NoProfile => dest[c] = pinned[c]
          /\ entry \in [Calls -> 0 .. Entries + 1]
      BY <2>3 DEF Writes!Preflight, WritesInv, Writes!VaultTypeOK, Written, Routed
    <3> QED
      BY <2>3, <3>1 DEF Writes!Preflight
  <2> QED
    BY <2>1, <2>2, <2>3
<1>3. Tickets'
  BY <1>2 DEF WritesInv, Writes!VaultTypeOK, Tickets
<1>4. Routed'
  BY <1>2 DEF WritesInv, Writes!VaultTypeOK, Routed
<1>5. Written'
  BY <1>2 DEF WritesInv, Writes!VaultTypeOK, Writes!Kinds, Written, Writes!Objects
<1>6. Writes!BytesLandWhereAsked'
  BY <1>2, QuietKeepsLanded DEF WritesInv, Writes!VaultTypeOK, Written
<1> QED
  BY <1>1, <1>3, <1>4, <1>5, <1>6 DEF WritesInv
(* A call that is writing comes to its end, well or badly: no link sees it. *)
LEMMA EndingKeepsTickets ==
  ASSUME WritesInv, UNCHANGED <<tokens, how, link>>,
         \A d \in Calls :
            \/ step'[d] = step[d]
            \/ step[d] \in {"write", "walk"} /\ step'[d] \in {"done", "failed"}
  PROVE  Tickets'
<1> USE DEF WritesInv, Writes!VaultTypeOK, Tickets
<1>1. (\A l \in tokens : step[l] = "done" /\ how[l] = "mint")'
  OBVIOUS
<1>2. (\A c \in Calls : how[c] # "put" => link[c] = NoCall)'
  OBVIOUS
<1>3. (\A c \in Calls : how[c] = "put" => link[c] \in Calls \ tokens)'
  OBVIOUS
<1>4. (\A c \in Calls : how[c] = "put" => step[c] \notin {"idle", "guarded"})'
  OBVIOUS
<1>5. (\A c \in Calls : how[c] = "put" => step[link[c]] = "done" /\ how[link[c]] = "mint")'
  <2> SUFFICES ASSUME NEW c \in Calls, how[c] = "put"
               PROVE  step'[link[c]] = "done" /\ how[link[c]] = "mint"
    OBVIOUS
  <2>1. link[c] \in Calls /\ step[link[c]] = "done" /\ how[link[c]] = "mint"
    OBVIOUS
  <2> QED
    BY <2>1
<1>6. (\A c, d \in Calls : how[c] = "put" /\ how[d] = "put" /\ link[c] = link[d] => c = d)'
  OBVIOUS
<1> QED
  BY <1>1, <1>2, <1>3, <1>4, <1>5, <1>6

(* Write and Walk: an object lands where the metadata say. *)
LEMMA LandingKeepsWrites ==
  ASSUME WritesInv, NEW c \in Calls, NEW i \in 0 .. Entries, Writes!VaultTypeOK',
         landed' = landed \cup {<<dest[c], c, i>>},
         \/ step[c] = "write" /\ i = 0 /\ entry' = entry /\ listed' = listed
         \/ /\ step[c] = "walk" /\ i = entry[c]
            /\ \/ entry' = entry /\ listed' = listed
               \/ /\ entry' = [entry EXCEPT ![c] = @ + 1]
                  /\ listed' = [listed EXCEPT ![c] = @ \cup {i}],
         \/ step[c] = "write" /\ step' \in {[step EXCEPT ![c] = "done"], [step EXCEPT ![c] = "failed"]}
         \/ step[c] = "walk" /\ entry' # entry /\ step' = step
         \/ step[c] = "walk" /\ entry' = entry /\ step' = [step EXCEPT ![c] = "failed"],
         UNCHANGED <<tokens, how, named, pinned, dest, link, seen>>
  PROVE  WritesInv'
<1> DEFINE o == <<dest[c], c, i>>
<1>1. \A d \in Calls : Writes!Objects(d)' =
        IF d = c THEN Writes!Objects(c) \cup {o} ELSE Writes!Objects(d)
  BY DEF Writes!Objects
<1>2. /\ step \in [Calls -> {"idle", "guarded", "resolve", "open", "write", "preflight",
                             "walk", "done", "failed"}]
      /\ entry \in [Calls -> 0 .. Entries + 1]
      /\ listed \in [Calls -> SUBSET (1 .. Entries)] /\ o[1] = dest[c] /\ o[2] = c
      /\ landed \subseteq Profiles \X Calls \X (0 .. Entries)
      /\ seen \in [Calls -> SUBSET Profiles] /\ NoProfile \notin Profiles
  BY LinksAssumption DEF WritesInv, Writes!VaultTypeOK
<1>3. /\ how[c] \in {"put", "relay", "path"} /\ step[c] \in {"write", "walk"}
      /\ step[c] = "write" => how[c] # "path" /\ listed[c] = {} /\ Writes!Objects(c) = {}
      /\ step[c] = "walk" => how[c] = "path"
      /\ dest[c] \in Profiles
      /\ IF named[c] # NoProfile THEN dest[c] = named[c]
         ELSE Cardinality(seen[c]) = 1 => dest[c] \in seen[c]
  BY <1>2 DEF WritesInv, Written, Routed
<1> HIDE DEF o
<1>4. Tickets'
  <2>1. \A d \in Calls :
          \/ step'[d] = step[d]
          \/ step[d] \in {"write", "walk"} /\ step'[d] \in {"done", "failed"}
    BY <1>2
  <2> QED
    BY <2>1, EndingKeepsTickets
<1>5. Routed'
  BY <1>2 DEF WritesInv, Routed
<1>6. Written'
  <2>1. \A d \in Calls \ {c} : /\ step'[d] = step[d] /\ entry'[d] = entry[d]
                               /\ listed'[d] = listed[d]
                               /\ Writes!Objects(d)' = Writes!Objects(d)
    BY <1>1, <1>2
  <2>2. CASE step'[c] \in {"done", "failed"}
    BY <2>1, <2>2, <1>2 DEF WritesInv, Written
  <2>3. CASE step' = step /\ step[c] = "walk"
    <3>1. /\ entry'[c] = entry[c] + 1 /\ entry[c] > 0 /\ i = entry[c] /\ entry[c] \in Nat
          /\ Writes!Objects(c) = {<<dest[c], c, j>> : j \in 1 .. entry[c] - 1}
      BY <2>3, <1>2 DEF WritesInv, Written
    <3>2. Writes!Objects(c)' = {<<dest[c], c, j>> : j \in 1 .. entry'[c] - 1}
      BY <3>1, <1>1 DEF o
    <3> QED
      BY <2>1, <2>3, <3>1, <3>2, <1>3 DEF WritesInv, Written
  <2> QED
    BY <2>2, <2>3, <1>2
<1>7. Writes!BytesLandWhereAsked'
  <2>1. (\A x \in landed :
           IF named[x[2]] # NoProfile THEN x[1] = named[x[2]]
           ELSE Writes!Cardinality(seen[x[2]]) = 1 => x[1] \in seen[x[2]])'
    BY <1>2, <1>3, SameCardinality DEF WritesInv, Writes!BytesLandWhereAsked, o
  <2>2. (\A d, e \in Calls :
           how[d] = "put" /\ link[d] = link[e] /\ Writes!Objects(d) # {} /\ Writes!Objects(e) # {}
             => d = e)'
    BY LinksAssumption DEF WritesInv, Tickets, Writes!VaultTypeOK
  <2>3. (\A x \in landed : how[x[2]] # "mint")'
    BY <1>2, <1>3 DEF WritesInv, Writes!BytesLandWhereAsked, o
  <2>4. (\A d \in Calls : {<<dest[d], d, j>> : j \in listed[d]} \subseteq landed)'
    <3>1. \A d \in Calls : \A j \in listed'[d] : j \in listed[d] \/ (d = c /\ j = i)
      BY <1>2
    <3> QED
      BY <3>1 DEF WritesInv, Writes!BytesLandWhereAsked
  <2>5. (\A d \in Calls :
           /\ step[d] = "done" /\ how[d] \in {"put", "relay"} => Writes!Objects(d) # {}
           /\ step[d] = "done" /\ how[d] = "path" =>
                Writes!Cardinality(Writes!Objects(d)) = Entries)'
    BY <1>1, <1>2, <1>3, SameCardinality DEF WritesInv, Writes!BytesLandWhereAsked
  <2> QED
    BY <2>1, <2>2, <2>3, <2>4, <2>5 DEF Writes!BytesLandWhereAsked
<1> QED
  BY <1>4, <1>5, <1>6, <1>7 DEF WritesInv

(* A write that fails without an object, and the end of a walk. *)
LEMMA EndingKeepsWrites ==
  ASSUME WritesInv, NEW c \in Calls, Writes!VaultTypeOK',
         \/ step[c] \in {"write", "walk"} /\ step' = [step EXCEPT ![c] = "failed"]
         \/ /\ step[c] = "walk" /\ entry[c] = Entries + 1
            /\ step' = [step EXCEPT ![c] = "done"],
         UNCHANGED <<tokens, how, named, pinned, dest, link, entry, listed, landed, seen>>
  PROVE  WritesInv'
<1>1. /\ step \in [Calls -> {"idle", "guarded", "resolve", "open", "write", "preflight",
                             "walk", "done", "failed"}]
      /\ step[c] = "walk" => how[c] = "path"
  BY DEF WritesInv, Writes!VaultTypeOK, Written
<1>2. Tickets' /\ Routed' /\ Written'
  <2>1. \A d \in Calls :
          \/ step'[d] = step[d]
          \/ step[d] \in {"write", "walk"} /\ step'[d] \in {"done", "failed"}
    BY <1>1
  <2>2. \A d \in Calls : Writes!Objects(d)' = Writes!Objects(d)
    BY DEF Writes!Objects
  <2>3. Tickets'
    BY <2>1, EndingKeepsTickets
  <2>4. Routed'
    BY <2>1 DEF WritesInv, Routed
  <2>5. Written'
    BY <2>1, <2>2 DEF WritesInv, Written
  <2> QED
    BY <2>3, <2>4, <2>5
<1>3. CASE step' = [step EXCEPT ![c] = "failed"]
  <2>1. Writes!BytesLandWhereAsked'
    BY <1>1, <1>3, QuietKeepsLanded
  <2> QED
    BY <1>2, <2>1 DEF WritesInv
<1>4. CASE step[c] = "walk" /\ entry[c] = Entries + 1 /\ step' = [step EXCEPT ![c] = "done"]
  <2>1. Cardinality(Writes!Objects(c)) = Entries
    <3> DEFINE f == [i \in 1 .. Entries |-> <<dest[c], c, i>>]
    <3>1. Writes!Objects(c) = {<<dest[c], c, i>> : i \in 1 .. Entries}
      BY <1>4, LinksAssumption DEF WritesInv, Written
    <3>2. f \in Bijection(1 .. Entries, Writes!Objects(c))
      <4>1. f \in [1 .. Entries -> Writes!Objects(c)]
        BY <3>1
      <4>2. \A x \in Writes!Objects(c) : \E i \in 1 .. Entries : f[i] = x
        BY <3>1
      <4>3. \A i \in 1 .. Entries : f[i][3] = i
        OBVIOUS
      <4>4. IsInjective(f)
        BY <4>3 DEF IsInjective
      <4> QED
        BY <4>1, <4>2, <4>4 DEF Bijection, Injection, Surjection
    <3>3. IsFiniteSet(1 .. Entries) /\ Cardinality(1 .. Entries) = Entries
      BY LinksAssumption, FS_Interval
    <3> QED
      BY <3>2, <3>3, FS_Bijection DEF ExistsBijection
  <2>2. /\ how[c] = "path"
        /\ \A d \in Calls : step'[d] = IF d = c THEN "done" ELSE step[d]
    BY <1>1, <1>4
  <2>3. Writes!BytesLandWhereAsked'
    BY <2>1, <2>2, QuietKeepsLanded
  <2> QED
    BY <1>2, <2>3 DEF WritesInv
<1> QED
  BY <1>3, <1>4

LEMMA WriteKeepsWrites ==
  ASSUME WritesInv, NEW c \in Calls, Writes!Write(c)
  PROVE  WritesInv'
<1> USE DEF Writes!Write, Writes!Fail, Writes!Goto, Writes!registry, Writes!links
<1>1. dest[c] \in Profiles /\ 0 \in 0 .. Entries
  BY LinksAssumption DEF WritesInv, Routed
<1>2. Writes!VaultTypeOK'
  <2>1. landed' \in {landed, landed \cup {<<dest[c], c, 0>>}}
    OBVIOUS
  <2>2. landed' \subseteq Profiles \X Calls \X (0 .. Entries)
    BY <1>1, <2>1 DEF WritesInv, Writes!VaultTypeOK
  <2>3. step' \in {[step EXCEPT ![c] = "done"], [step EXCEPT ![c] = "failed"]}
    OBVIOUS
  <2>4. UNCHANGED <<unlocked, active, size, changes, tokens, expired, how, named, pinned,
                    dest, link, entry, listed, seen>>
    OBVIOUS
  <2> HIDE DEF Writes!Write
  <2> QED
    BY <2>2, <2>3, <2>4 DEF WritesInv, Writes!VaultTypeOK
<1>3. CASE landed' = landed \cup {<<dest[c], c, 0>>}
  BY <1>1, <1>2, <1>3, LandingKeepsWrites
<1>4. CASE landed' = landed /\ step' = [step EXCEPT ![c] = "failed"]
  BY <1>2, <1>4, EndingKeepsWrites
<1> QED
  BY <1>3, <1>4

LEMMA WalkKeepsWrites ==
  ASSUME WritesInv, NEW c \in Calls, Writes!Walk(c)
  PROVE  WritesInv'
<1> USE DEF Writes!Walk, Writes!Fail, Writes!Goto, Writes!registry, Writes!links
<1> DEFINE i == entry[c]
<1>1. /\ dest[c] \in Profiles /\ i \in 1 .. Entries /\ i \in 0 .. Entries
      /\ i + 1 \in 0 .. Entries + 1 /\ i + 1 # i /\ step[c] = "walk"
      /\ entry \in [Calls -> 0 .. Entries + 1] /\ listed \in [Calls -> SUBSET (1 .. Entries)]
  BY LinksAssumption DEF WritesInv, Writes!VaultTypeOK, Routed, Written
<1>2. Writes!VaultTypeOK'
  <2>1. landed' \in {landed, landed \cup {<<dest[c], c, i>>}}
    OBVIOUS
  <2>2. landed' \subseteq Profiles \X Calls \X (0 .. Entries)
    BY <1>1, <2>1 DEF WritesInv, Writes!VaultTypeOK
  <2>3. /\ step' \in {step, [step EXCEPT ![c] = "failed"]}
        /\ entry' \in {entry, [entry EXCEPT ![c] = i + 1]}
        /\ listed' \in {listed, [listed EXCEPT ![c] = @ \cup {i}]}
    OBVIOUS
  <2>4. UNCHANGED <<unlocked, active, size, changes, tokens, expired, how, named, pinned,
                    dest, link, seen>>
    OBVIOUS
  <2> HIDE DEF Writes!Walk, i
  <2>5. step' \in [Calls -> {"idle", "guarded", "resolve", "open", "write", "preflight",
                             "walk", "done", "failed"}]
    BY <2>3 DEF WritesInv, Writes!VaultTypeOK
  <2>6. listed' \in [Calls -> SUBSET (1 .. Entries)]
    BY <1>1, <2>3
  <2>7. entry' \in [Calls -> 0 .. Entries + 1]
    <3> DEFINE n == i + 1
    <3>1. n \in 0 .. Entries + 1 /\ entry' \in {entry, [entry EXCEPT ![c] = n]}
      BY <1>1, <2>3
    <3> HIDE DEF n
    <3> QED
      BY <1>1, <3>1
  <2> QED
    BY <2>2, <2>4, <2>5, <2>6, <2>7 DEF WritesInv, Writes!VaultTypeOK
<1>3. CASE landed' = landed \cup {<<dest[c], c, i>>}
  BY <1>1, <1>2, <1>3, LandingKeepsWrites
<1>4. CASE UNCHANGED <<landed, entry, listed>> /\ step' = [step EXCEPT ![c] = "failed"]
  BY <1>1, <1>2, <1>4, EndingKeepsWrites
<1> QED
  BY <1>3, <1>4

LEMMA WritesStep == WritesInv /\ [Writes!VaultNext]_writesState => WritesInv'
<1> SUFFICES ASSUME WritesInv, [Writes!VaultNext]_writesState
             PROVE  WritesInv'
  OBVIOUS
<1> USE DEF Writes!Goto, Writes!registry, Writes!links, Writes!calls, Writes!history
<1>1. ASSUME NEW u \in SUBSET Profiles, NEW a \in Profiles \cup {NoProfile},
             NEW s \in [1 .. Entries -> 0 .. Cap + 1], Writes!Other(u, a, s)
      PROVE  WritesInv'
  <2>1. Writes!VaultTypeOK'
    BY <1>1, LinksAssumption DEF WritesInv, Writes!VaultTypeOK, Writes!Other
  <2> QED
    BY <1>1, <2>1, OthersKeepWrites DEF Writes!Other
<1>2. ASSUME NEW p \in Profiles, Writes!Unlock(p) \/ Writes!Use(p) \/ Writes!Forget(p)
      PROVE  WritesInv'
  <2>1. /\ unlocked \subseteq Profiles /\ active \in Profiles \cup {NoProfile}
        /\ size \in [1 .. Entries -> 0 .. Cap + 1]
    BY DEF WritesInv, Writes!VaultTypeOK
  <2> QED
    BY <1>1, <1>2, <2>1 DEF Writes!Unlock, Writes!Use, Writes!Forget
<1>3. ASSUME NEW i \in 1 .. Entries, Writes!Resize(i, Cap) \/ Writes!Resize(i, Cap + 1)
      PROVE  WritesInv'
  <2>1. /\ unlocked \in SUBSET Profiles /\ active \in Profiles \cup {NoProfile}
        /\ \A n \in {Cap, Cap + 1} :
             [size EXCEPT ![i] = n] \in [1 .. Entries -> 0 .. Cap + 1]
    BY LinksAssumption DEF WritesInv, Writes!VaultTypeOK
  <2> QED
    BY <1>1, <1>3, <2>1 DEF Writes!Resize
<1>4. ASSUME NEW l \in Calls, Writes!Expire(l)
      PROVE  WritesInv'
  <2>1. Writes!VaultTypeOK'
    BY <1>4 DEF WritesInv, Writes!VaultTypeOK, Writes!Expire
  <2> QED
    BY <1>4, <2>1, OthersKeepWrites DEF Writes!Expire
<1>5. ASSUME NEW c \in Calls, Writes!EndWalk(c)
      PROVE  WritesInv'
  <2>1. Writes!VaultTypeOK'
    BY <1>5 DEF WritesInv, Writes!VaultTypeOK, Writes!EndWalk
  <2>2. entry[c] = Entries + 1
    BY <1>5, LinksAssumption DEF WritesInv, Writes!VaultTypeOK, Writes!EndWalk
  <2> QED
    BY <1>5, <2>1, <2>2, EndingKeepsWrites DEF Writes!EndWalk
<1>6. CASE UNCHANGED writesState
  <2>1. Writes!VaultTypeOK'
    BY <1>6 DEF WritesInv, Writes!VaultTypeOK, writesState
  <2> QED
    BY <1>6, <2>1, OthersKeepWrites DEF writesState
<1> QED
  BY <1>2, <1>3, <1>4, <1>5, <1>6, GuardKeepsWrites, StampKeepsWrites, ClaimKeepsWrites,
     AdvanceKeepsWrites, WriteKeepsWrites, WalkKeepsWrites
  DEF Writes!VaultNext, Writes!WriteStep

-----------------------------------------------------------------------------
(* The three concerns together.                                            *)
LinksInv ==
  /\ concern = "account" => AccountInv
  /\ concern = "writes"  => WritesInv

LEMMA LinksInvInit == LinksInit => LinksInv
BY AccountInit, WritesInit DEF LinksInit, LinksInv

LEMMA LinksInvStep == LinksInv /\ [LinksNext]_linksVars => LinksInv'
<1> SUFFICES ASSUME LinksInv, [LinksNext]_linksVars
             PROVE  LinksInv'
  OBVIOUS
<1>1. /\ concern' = concern
      /\ concern = "account" => [Account!Next]_accountState
      /\ concern = "writes"  => [Writes!VaultNext]_writesState
  BY DEF LinksNext, linksVars
<1> QED
  BY <1>1, AccountStep, WritesStep DEF LinksInv

LEMMA LinksInvHolds == LinksSpec => []LinksInv
BY LinksInvInit, LinksInvStep, PTL DEF LinksSpec

(* For every number of links, requests, tombstones, calls, profiles and     *)
(* entries, the variables of the account pages and of the vault writes keep *)
(* their types.                                                             *)
THEOREM LinksTypeCorrect == LinksSpec => []LinksTypeOK
<1>1. LinksInv => LinksTypeOK
  BY DEF LinksInv, LinksTypeOK, AccountInv, WritesInv
<1> QED
  BY <1>1, LinksInvHolds, PTL

(* core/accountweb: whatever POSTs race and whatever links lapse, a link is *)
(* closed only once the service was asked or its time had passed, and the   *)
(* outcome recorded for it is one the service gave.                         *)
THEOREM AccountAnswersAreTrue == LinksSpec => []AccountAnswersTrue
<1>1. LinksInv => AccountAnswersTrue
  BY DEF LinksInv, AccountAnswersTrue, AccountInv
<1> QED
  BY <1>1, LinksInvHolds, PTL

(* upload_vault_http.go, vault_dir.go: whatever profiles come, go and change*)
(* between a mint and its PUT, bytes land in the profile that was named, or *)
(* the only one there was; a link carries one write; and what an answer     *)
(* lists is in the vault.                                                   *)
THEOREM BytesLandWhereTold == LinksSpec => []BytesLandRight
<1>1. LinksInv => BytesLandRight
  BY DEF LinksInv, BytesLandRight, WritesInv
<1> QED
  BY <1>1, LinksInvHolds, PTL

(* core/handoff/registry.go: the map and its order hold the same handles, at*)
(* most MaxEntries of them, whatever the handles are.                       *)
RegistryKeepsSize == concern = "registry" => RegistryBounded

THEOREM RegistryIsBounded == LinksSpec => []RegistryKeepsSize
<1>1. LinksInit => RegistryKeepsSize
  BY RegistryInit DEF LinksInit, RegistryKeepsSize, RegistryInv
<1>2. RegistryKeepsSize /\ [LinksNext]_linksVars => RegistryKeepsSize'
  BY RegistryBoundedStep
  DEF RegistryKeepsSize, LinksNext, linksVars, registryState, vars
<1> QED
  BY <1>1, <1>2, PTL DEF LinksSpec

(* handoff_registry.go, for every number of handles, tools and entries:     *)
(* every live handle has its continuation or is on its way to one or to its *)
(* end, also when it is begun again, unless a resume call of its earlier    *)
(* life ends the one of the present; and that happens to no handle that was *)
(* begun once.                                                              *)
RegistryInvHere == concern = "registry" => RegistryInv

LEMMA RegistryInvHolds == LinksSpec => []RegistryInvHere
<1>1. LinksInit => RegistryInvHere
  BY RegistryInit DEF LinksInit, RegistryInvHere
<1>2. RegistryInvHere /\ [LinksNext]_linksVars => RegistryInvHere'
  BY RegistryStep DEF RegistryInvHere, LinksNext, linksVars, registryState, vars
<1> QED
  BY <1>1, <1>2, PTL DEF LinksSpec

THEOREM RegistryIsKept == LinksSpec => []RegistryKept
<1>1. RegistryInvHere => RegistryKept
  BY DEF RegistryInvHere, RegistryKept, RegistryInv, RegistryBounded
<1> QED
  BY <1>1, RegistryInvHolds, PTL
=============================================================================
