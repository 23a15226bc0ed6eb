----------------------------- MODULE FoldProofs ------------------------------
(***************************************************************************)
(* What the folds of RunFolds compute, for any events: each is the value   *)
(* that the last event that touches it gives, a sum or a selection, and    *)
(* the order of load_all has the events of the log and no other.           *)
(*                                                                         *)
(* The induction theorems of the library quantify over a predicate, which  *)
(* no prover here can instantiate.  Induction is proved below for a set of *)
(* numbers instead, from the well-foundedness of < on Nat, and so is the   *)
(* existence of a function that is defined by recursion.                   *)
(***************************************************************************)
EXTENDS RunFolds, WellFoundedInduction, FiniteSetTheorems, FunctionTheorems, TLAPS

Less == {p \in Nat \X Nat : p[1] < p[2]}

(* A number is never greater than all of an endless descending sequence.    *)
LEMMA LessIsWellFounded == IsWellFoundedOn(Less, Nat)
  BY NatLessThanWellFounded DEF OpToRel, Less

(* A set of numbers with 0 and the successor of each member has them all.   *)
LEMMA SetInduction ==
    ASSUME NEW S, 0 \in S, \A n \in Nat : n \in S => n + 1 \in S
    PROVE  \A n \in Nat : n \in S
<1> DEFINE T == Nat \ S
<1>1. ASSUME T # {} PROVE FALSE
  <2>1. T \subseteq Nat
    OBVIOUS
  <2>2. PICK x \in T : \A y \in T : ~ (<<y, x>> \in Less)
    <3> HIDE DEF T
    <3> QED BY <1>1, <2>1, WFMin, LessIsWellFounded
  <2>3. \A y \in T : ~ (y < x)
    BY <2>2 DEF Less
  <2>4. x - 1 \in Nat /\ x - 1 < x /\ (x - 1) + 1 = x
    OBVIOUS
  <2>5. x - 1 \notin T
    BY <2>3, <2>4
  <2> QED BY <2>4, <2>5
<1> QED BY <1>1

(* The same up to a bound.                                                  *)
LEMMA BoundedInduction ==
    ASSUME NEW n \in Nat, NEW S, 0 \in S,
           \A k \in 1..n : k - 1 \in S => k \in S
    PROVE  \A k \in 0..n : k \in S
<1> DEFINE T == {k \in Nat : k <= n => k \in S}
<1>1. 0 \in T
  OBVIOUS
<1>2. ASSUME NEW k \in Nat, k \in T PROVE k + 1 \in T
  <2>1. CASE k + 1 <= n
    <3>1. k + 1 \in 1..n /\ (k + 1) - 1 = k /\ k \in S
      BY <1>2, <2>1
    <3> QED BY <3>1
  <2> QED BY <2>1
<1> HIDE DEF T
<1>3. \A k \in Nat : k \in T
  BY <1>1, <1>2, SetInduction
<1> QED BY <1>3 DEF T

(* f starts with a and takes n steps in T.                                  *)
IsStep(step, T, n)        == step \in [T \X (1..n) -> T]
Follows(f, T, a, step, n) ==
    /\ f \in [0..n -> T]
    /\ f[0] = a /\ \A k \in 1..n : f[k] = step[<<f[k - 1], k>>]

(* There is a function that is defined by recursion.                        *)
LEMMA Recursion ==
    ASSUME NEW T, NEW a \in T, NEW n \in Nat, NEW step, IsStep(step, T, n)
    PROVE  \E f : Follows(f, T, a, step, n)
<1> USE DEF IsStep
<1> DEFINE Steps(f, m) == f[0] = a /\ \A k \in 1..m : f[k] = step[<<f[k - 1], k>>]
           S == {m \in 0..n : \E f \in [0..m -> T] : Steps(f, m)}
<1>1. 0 \in S
  <2> DEFINE f == [k \in 0..0 |-> a]
  <2>1. f \in [0..0 -> T] /\ f[0] = a
    OBVIOUS
  <2> HIDE DEF f
  <2>2. Steps(f, 0)
    BY <2>1
  <2> QED BY <2>1, <2>2
<1>2. ASSUME NEW m \in 1..n, m - 1 \in S PROVE m \in S
  <2>1. PICK f \in [0..(m - 1) -> T] : Steps(f, m - 1)
    BY <1>2
  <2> DEFINE v == step[<<f[m - 1], m>>]
             g == [k \in 0..m |-> IF k = m THEN v ELSE f[k]]
  <2>2. f[m - 1] \in T /\ v \in T
    OBVIOUS
  <2> HIDE DEF v
  <2>3. g \in [0..m -> T]
    BY <2>2
  <2>4. g[m] = v /\ \A k \in 0..(m - 1) : g[k] = f[k]
    OBVIOUS
  <2> HIDE DEF g
  <2>5. g[0] = a
    BY <2>1, <2>4
  <2>6. ASSUME NEW k \in 1..m PROVE g[k] = step[<<g[k - 1], k>>]
    <3>1. CASE k = m
      BY <2>4, <3>1 DEF v
    <3>2. CASE k # m
      <4>1. k \in 1..(m - 1) /\ g[k] = f[k] /\ g[k - 1] = f[k - 1]
        BY <2>4, <3>2
      <4> QED BY <4>1, <2>1
    <3> QED BY <3>1, <3>2
  <2>7. Steps(g, m)
    BY <2>5, <2>6
  <2> QED BY <2>3, <2>7
<1> HIDE DEF S
<1>3. n \in S
  BY <1>1, <1>2, BoundedInduction
<1> QED BY <1>3 DEF S, Follows

-----------------------------------------------------------------------------
(* What a fold over the status meets: the events that set one.              *)
Sets(table, e) == e.type = "RunStatusChanged" \/ e.type \in DOMAIN table
Given(table, e) == IF e.type = "RunStatusChanged" THEN e.status ELSE table[e.type]

(* The status of a fold is that of the last event that sets one.            *)
LEMMA StatusIsLast ==
    ASSUME NEW events, Len(events) \in Nat, NEW table, NEW start
    PROVE  \/ /\ StatusOf(table, start, events) = start
              /\ \A k \in 1..Len(events) : ~ Sets(table, events[k])
           \/ \E k \in 1..Len(events) :
                /\ Sets(table, events[k])
                /\ StatusOf(table, start, events) = Given(table, events[k])
                /\ \A j \in (k + 1)..Len(events) : ~ Sets(table, events[j])
<1> DEFINE n == Len(events)
           T == {start} \cup {Given(table, events[k]) : k \in 1..n}
           body(f, k) == IF k = 0 THEN start
                         ELSE IF events[k].type = "RunStatusChanged" THEN events[k].status
                         ELSE IF events[k].type \in DOMAIN table THEN table[events[k].type]
                         ELSE f[k - 1]
           F == CHOOSE f : f = [k \in 0..n |-> body(f, k)]
<1>1. StatusOf(table, start, events) = F[n]
  BY DEF StatusOf
<1>2. n \in Nat
  OBVIOUS
<1>3. F = [k \in 0..n |-> body(F, k)]
  <2> DEFINE next(v, k) == IF Sets(table, events[k]) THEN Given(table, events[k]) ELSE v
             step == [p \in T \X (1..n) |-> next(p[1], p[2])]
  <2>1. start \in T /\ \A v \in T, k \in 1..n : next(v, k) \in T
    OBVIOUS
  <2> HIDE DEF n, T
  <2>2. IsStep(step, T, n)
    BY <2>1 DEF IsStep
  <2>3. \A v \in T, k \in 1..n : step[<<v, k>>] = next(v, k)
    OBVIOUS
  <2> HIDE DEF step
  <2>4. PICK f : Follows(f, T, start, step, n)
    <3>1. start \in T
      BY <2>1
    <3> QED BY <1>2, <2>2, <3>1, Recursion
  <2>5. ASSUME NEW k \in 0..n PROVE f[k] = body(f, k)
    <3>1. CASE k = 0
      BY <3>1, <2>4 DEF Follows
    <3>2. CASE k # 0
      <4>1. k \in 1..n /\ f[k - 1] \in T
        BY <1>2, <2>4, <3>2 DEF Follows
      <4>2. f[k] = step[<<f[k - 1], k>>] /\ step[<<f[k - 1], k>>] = next(f[k - 1], k)
        BY <4>1, <2>3, <2>4 DEF Follows
      <4> QED BY <4>2, <3>2 DEF Sets, Given
    <3> QED BY <3>1, <3>2
  <2>6. f = [k \in 0..n |-> body(f, k)]
    BY <2>4, <2>5 DEF Follows
  <2> QED BY <2>6
<1> HIDE DEF n, F
<1>4. F[0] = start
  BY <1>2, <1>3
<1>5. \A k \in 1..n : F[k] = IF Sets(table, events[k]) THEN Given(table, events[k]) ELSE F[k - 1]
  BY <1>2, <1>3 DEF Sets, Given
<1> DEFINE Last(k) ==
              \/ F[k] = start /\ \A j \in 1..k : ~ Sets(table, events[j])
              \/ \E l \in 1..k : /\ Sets(table, events[l]) /\ F[k] = Given(table, events[l])
                                 /\ \A j \in (l + 1)..k : ~ Sets(table, events[j])
           S == {k \in 0..n : Last(k)}
<1>6. 0 \in S
  BY <1>2, <1>4
<1>7. ASSUME NEW k \in 1..n, k - 1 \in S PROVE k \in S
  <2>1. CASE Sets(table, events[k])
    BY <1>2, <1>5, <2>1
  <2>2. CASE ~ Sets(table, events[k])
    <3>1. F[k] = F[k - 1] /\ Last(k - 1)
      BY <1>5, <1>7, <2>2
    <3>2. \A j \in 1..k : j \in 1..(k - 1) \/ j = k
      OBVIOUS
    <3>3. CASE F[k - 1] = start /\ \A j \in 1..(k - 1) : ~ Sets(table, events[j])
      BY <1>2, <3>1, <3>2, <3>3, <2>2
    <3>4. ASSUME NEW l \in 1..(k - 1), Sets(table, events[l]), F[k - 1] = Given(table, events[l]),
                 \A j \in (l + 1)..(k - 1) : ~ Sets(table, events[j])
          PROVE  Last(k)
      <4>1. l \in 1..k /\ F[k] = Given(table, events[l])
        BY <3>1, <3>4
      <4>2. \A j \in (l + 1)..k : ~ Sets(table, events[j])
        BY <2>2, <3>4
      <4> QED BY <3>4, <4>1, <4>2
    <3> QED BY <1>2, <3>1, <3>3, <3>4
  <2> QED BY <2>1, <2>2
<1> HIDE DEF S
<1>8. n \in S
  BY <1>2, <1>6, <1>7, BoundedInduction
<1> QED BY <1>1, <1>8 DEF S, n

-----------------------------------------------------------------------------
Touches(types, e, i) == e.type \in types /\ e.item = i

(* The status of an item is that of the last event that touches it.         *)
LEMMA ItemIsLast ==
    ASSUME NEW events, Len(events) \in Nat, NEW types
    PROVE  /\ DOMAIN ItemsOf(types, events) = Items
           /\ ItemsOf(types, events) = [i \in Items |-> ItemsOf(types, events)[i]]
           /\ \A i \in Items :
               \/ /\ ItemsOf(types, events)[i] = "absent"
                  /\ \A k \in 1..Len(events) : ~ Touches(types, events[k], i)
               \/ \E k \in 1..Len(events) :
                    /\ Touches(types, events[k], i)
                    /\ ItemsOf(types, events)[i] = ItemStatus[events[k].type]
                    /\ \A j \in (k + 1)..Len(events) : ~ Touches(types, events[j], i)
<1> DEFINE n == Len(events)
           V == {"absent"} \cup {ItemStatus[events[k].type] : k \in 1..n}
           T == [Items -> V]
           body(f, k) == IF k = 0 THEN NoItems
                         ELSE IF events[k].type \in types
                           THEN [f[k - 1] EXCEPT ![events[k].item] = ItemStatus[events[k].type]]
                         ELSE f[k - 1]
           F == CHOOSE f : f = [k \in 0..n |-> body(f, k)]
<1>1. ItemsOf(types, events) = F[n]
  BY DEF ItemsOf
<1>2. n \in Nat
  OBVIOUS
<1> DEFINE next(v, k) == IF events[k].type \in types
                           THEN [v EXCEPT ![events[k].item] = ItemStatus[events[k].type]]
                           ELSE v
<1>3. NoItems \in T /\ \A v \in T, k \in 1..n : next(v, k) \in T
  <2> HIDE DEF n
  <2>1. NoItems \in T
    BY DEF NoItems
  <2>2. ASSUME NEW v \in T, NEW k \in 1..n PROVE next(v, k) \in T
    <3>1. ItemStatus[events[k].type] \in V
      OBVIOUS
    <3> HIDE DEF V
    <3> QED BY <3>1
  <2> QED BY <2>1, <2>2
<1> HIDE DEF n, V
<1>4. /\ \A k \in 0..n : F[k] \in T
      /\ F[0] = NoItems /\ \A k \in 1..n : F[k] = next(F[k - 1], k)
  <2> DEFINE step == [p \in T \X (1..n) |-> next(p[1], p[2])]
  <2> HIDE DEF T, next
  <2>1. IsStep(step, T, n)
    BY <1>3 DEF IsStep
  <2>2. \A v \in T, k \in 1..n : step[<<v, k>>] = next(v, k)
    OBVIOUS
  <2> HIDE DEF step
  <2>3. PICK f : Follows(f, T, NoItems, step, n)
    BY <1>2, <1>3, <2>1, Recursion
  <2>4. ASSUME NEW k \in 0..n PROVE f[k] = body(f, k)
    <3>1. CASE k = 0
      BY <3>1, <2>3 DEF Follows
    <3>2. CASE k # 0
      <4>1. k \in 1..n /\ f[k - 1] \in T
        BY <1>2, <2>3, <3>2 DEF Follows
      <4>2. f[k] = step[<<f[k - 1], k>>] /\ step[<<f[k - 1], k>>] = next(f[k - 1], k)
        BY <4>1, <2>2, <2>3 DEF Follows
      <4> QED BY <4>2, <3>2 DEF next
    <3> QED BY <3>1, <3>2
  <2>5. f = [k \in 0..n |-> body(f, k)]
    BY <2>3, <2>4 DEF Follows
  <2>6. F = [k \in 0..n |-> body(F, k)]
    BY <2>5
  <2> HIDE DEF F
  <2>7. F[0] = NoItems /\ \A k \in 1..n : F[k] = next(F[k - 1], k)
    <3> HIDE DEF body
    <3>1. \A k \in 0..n : F[k] = body(F, k)
      BY <2>6
    <3>2. F[0] = NoItems
      <4>1. F[0] = body(F, 0)
        BY <1>2, <3>1
      <4>2. body(F, 0) = NoItems
        BY Zenon DEF body
      <4> QED BY <4>1, <4>2
    <3>3. ASSUME NEW k \in 1..n PROVE F[k] = next(F[k - 1], k)
      <4>1. F[k] = body(F, k) /\ k # 0
        BY <1>2, <3>1
      <4> QED BY <4>1 DEF next, body
    <3> QED BY <3>2, <3>3
  <2> DEFINE S == {k \in 0..n : F[k] \in T}
  <2>8. 0 \in S
    BY <1>2, <1>3, <2>7
  <2>9. \A k \in 1..n : k - 1 \in S => k \in S
    BY <1>2, <1>3, <2>7
  <2> HIDE DEF S
  <2>10. \A k \in 0..n : k \in S
    BY <1>2, <2>8, <2>9, BoundedInduction
  <2> QED BY <2>7, <2>10 DEF S
<1> HIDE DEF F
<1>5. F[0] = NoItems /\ \A k \in 1..n : F[k] = next(F[k - 1], k)
  BY <1>4
<1>6. \A k \in 1..n, i \in Items :
        F[k][i] = IF Touches(types, events[k], i) THEN ItemStatus[events[k].type] ELSE F[k - 1][i]
  <2>1. ASSUME NEW k \in 1..n, NEW i \in Items
        PROVE  F[k][i] = IF Touches(types, events[k], i)
                           THEN ItemStatus[events[k].type] ELSE F[k - 1][i]
    <3>1. k - 1 \in 0..n
      BY <1>2
    <3>2. F[k - 1] \in T /\ F[k] = next(F[k - 1], k)
      BY <1>4, <1>5, <3>1
    <3> QED BY <3>2 DEF Touches
  <2> QED BY <2>1
<1>7. ASSUME NEW i \in Items
      PROVE  \/ F[n][i] = "absent" /\ \A k \in 1..n : ~ Touches(types, events[k], i)
             \/ \E k \in 1..n : /\ Touches(types, events[k], i)
                               /\ F[n][i] = ItemStatus[events[k].type]
                               /\ \A j \in (k + 1)..n : ~ Touches(types, events[j], i)
  <2> DEFINE Last(m) ==
                \/ F[m][i] = "absent" /\ \A k \in 1..m : ~ Touches(types, events[k], i)
                \/ \E k \in 1..m : /\ Touches(types, events[k], i)
                                  /\ F[m][i] = ItemStatus[events[k].type]
                                  /\ \A j \in (k + 1)..m : ~ Touches(types, events[j], i)
             S == {m \in 0..n : Last(m)}
  <2>1. 0 \in S
    BY <1>2, <1>5 DEF NoItems
  <2>2. ASSUME NEW m \in 1..n, m - 1 \in S PROVE m \in S
    <3>1. CASE Touches(types, events[m], i)
      BY <1>2, <1>6, <3>1
    <3>2. CASE ~ Touches(types, events[m], i)
      <4>1. F[m][i] = F[m - 1][i] /\ Last(m - 1)
        BY <1>6, <2>2, <3>2
      <4>2. \A j \in 1..m : j \in 1..(m - 1) \/ j = m
        OBVIOUS
      <4>3. CASE F[m - 1][i] = "absent" /\ \A k \in 1..(m - 1) : ~ Touches(types, events[k], i)
        BY <1>2, <4>1, <4>2, <4>3, <3>2
      <4>4. ASSUME NEW l \in 1..(m - 1), Touches(types, events[l], i),
                   F[m - 1][i] = ItemStatus[events[l].type],
                   \A j \in (l + 1)..(m - 1) : ~ Touches(types, events[j], i)
            PROVE  Last(m)
        <5>1. l \in 1..m /\ F[m][i] = ItemStatus[events[l].type]
          BY <4>1, <4>4
        <5>2. \A j \in (l + 1)..m : ~ Touches(types, events[j], i)
          BY <3>2, <4>4
        <5> QED BY <4>4, <5>1, <5>2
      <4> QED BY <1>2, <4>1, <4>3, <4>4
    <3> QED BY <3>1, <3>2
  <2> HIDE DEF S
  <2>3. n \in S
    BY <1>2, <2>1, <2>2, BoundedInduction
  <2> QED BY <2>3 DEF S
<1>8. DOMAIN F[n] = Items /\ F[n] = [i \in Items |-> F[n][i]]
  BY <1>2, <1>4
<1> QED BY <1>1, <1>7, <1>8 DEF n

-----------------------------------------------------------------------------
Worth(e) == IF e.type \in EffortTypes THEN e.effort ELSE 0

(* f is the running total of the efforts of events.                         *)
Totals(f, start, events) ==
    /\ f \in [0..Len(events) -> Nat]
    /\ f[0] = start
    /\ \A k \in 1..Len(events) : f[k] = f[k - 1] + Worth(events[k])

(* The effort of a fold is the last of the running totals.                  *)
LEMMA EffortIsTotal ==
    ASSUME NEW events, Len(events) \in Nat, NEW start \in Nat,
           \A k \in 1..Len(events) : Worth(events[k]) \in Nat
    PROVE  \E f : Totals(f, start, events) /\ EffortOf(start, events) = f[Len(events)]
<1> DEFINE n == Len(events)
           T == Nat
           body(f, k) == IF k = 0 THEN start
                         ELSE IF events[k].type \in EffortTypes THEN f[k - 1] + events[k].effort
                         ELSE f[k - 1]
           F == CHOOSE f : f = [k \in 0..n |-> body(f, k)]
           next(v, k) == IF events[k].type \in EffortTypes THEN v + events[k].effort ELSE v
<1>1. EffortOf(start, events) = F[n]
  BY DEF EffortOf
<1>2. n \in Nat
  OBVIOUS
<1>3. start \in T /\ \A v \in T, k \in 1..n : next(v, k) \in T
  BY DEF Worth
<1> HIDE DEF n
<1>4. /\ \A k \in 0..n : F[k] \in T
      /\ F[0] = start /\ \A k \in 1..n : F[k] = next(F[k - 1], k)
  <2> DEFINE step == [p \in T \X (1..n) |-> next(p[1], p[2])]
  <2> HIDE DEF T, next
  <2>1. IsStep(step, T, n)
    BY <1>3 DEF IsStep
  <2>2. \A v \in T, k \in 1..n : step[<<v, k>>] = next(v, k)
    OBVIOUS
  <2> HIDE DEF step
  <2>3. PICK f : Follows(f, T, start, step, n)
    BY <1>2, <1>3, <2>1, Recursion
  <2>4. ASSUME NEW k \in 0..n PROVE f[k] = body(f, k)
    <3>1. CASE k = 0
      BY <3>1, <2>3 DEF Follows
    <3>2. CASE k # 0
      <4>1. k \in 1..n /\ f[k - 1] \in T
        BY <1>2, <2>3, <3>2 DEF Follows
      <4>2. f[k] = step[<<f[k - 1], k>>] /\ step[<<f[k - 1], k>>] = next(f[k - 1], k)
        BY <4>1, <2>2, <2>3 DEF Follows
      <4> QED BY <4>2, <3>2 DEF next
    <3> QED BY <3>1, <3>2
  <2>5. f = [k \in 0..n |-> body(f, k)]
    BY <2>3, <2>4 DEF Follows
  <2>6. F = [k \in 0..n |-> body(F, k)]
    BY <2>5
  <2> HIDE DEF F, body
  <2>7. \A k \in 0..n : F[k] = body(F, k)
    BY <2>6
  <2>8. F[0] = start
    <3>1. F[0] = body(F, 0)
      BY <1>2, <2>7
    <3>2. body(F, 0) = start
      BY Zenon DEF body
    <3> QED BY <3>1, <3>2
  <2>9. ASSUME NEW k \in 1..n PROVE F[k] = next(F[k - 1], k)
    <3>1. F[k] = body(F, k) /\ k # 0
      BY <1>2, <2>7
    <3> QED BY <3>1 DEF next, body
  <2> DEFINE S == {k \in 0..n : F[k] \in T}
  <2>10. 0 \in S
    BY <1>2, <1>3, <2>8
  <2>11. ASSUME NEW k \in 1..n, k - 1 \in S PROVE k \in S
    <3>1. F[k] = next(F[k - 1], k) /\ F[k - 1] \in T
      BY <2>9, <2>11
    <3>2. F[k] \in T
      BY <1>3, <3>1
    <3>3. k \in 0..n
      BY <1>2
    <3> QED BY <3>2, <3>3
  <2> HIDE DEF S
  <2>12. \A k \in 0..n : k \in S
    BY <1>2, <2>10, <2>11, BoundedInduction
  <2> QED BY <2>8, <2>9, <2>12 DEF S
<1> HIDE DEF F
<1> DEFINE G == [k \in 0..n |-> F[k]]
<1>5. G \in [0..n -> Nat] /\ \A k \in 0..n : G[k] = F[k]
  BY <1>4
<1> HIDE DEF G
<1>6. ASSUME NEW k \in 1..n PROVE G[k] = G[k - 1] + Worth(events[k])
  <2>1. k - 1 \in 0..n /\ k \in 0..n /\ F[k - 1] \in Nat /\ F[k] = next(F[k - 1], k)
    BY <1>2, <1>4
  <2> QED BY <1>5, <2>1 DEF Worth
<1>7. Totals(G, start, events)
  BY <1>2, <1>4, <1>5, <1>6 DEF Totals, n
<1>8. EffortOf(start, events) = G[n]
  BY <1>1, <1>2, <1>5
<1> QED BY <1>7, <1>8 DEF n

(* The effort of a sequence as a set: so many units for each of its events. *)
Paid(e) == {e} \X (1..Worth(e))
Units(events) == UNION {Paid(events[k]) : k \in 1..Len(events)}

(* When no event occurs twice, the effort of a fold counts the units.       *)
LEMMA EffortIsCount ==
    ASSUME NEW events, Len(events) \in Nat,
           \A k \in 1..Len(events) : Worth(events[k]) \in Nat,
           \A j, k \in 1..Len(events) : events[j] = events[k] => j = k
    PROVE  /\ IsFiniteSet(Units(events))
           /\ EffortOf(0, events) = Cardinality(Units(events))
<1> DEFINE n == Len(events)
           U(m) == UNION {Paid(events[k]) : k \in 1..m}
<1>1. PICK f : Totals(f, 0, events) /\ EffortOf(0, events) = f[n]
  BY EffortIsTotal
<1>2. /\ n \in Nat /\ f[0] = 0 /\ \A k \in 0..n : f[k] \in Nat
      /\ \A k \in 1..n : f[k] = f[k - 1] + Worth(events[k])
      /\ \A k \in 1..n : Worth(events[k]) \in Nat
  BY <1>1 DEF Totals
<1> DEFINE S == {m \in 0..n : IsFiniteSet(U(m)) /\ Cardinality(U(m)) = f[m]}
<1>3. 0 \in S
  <2>1. U(0) = {}
    OBVIOUS
  <2> HIDE DEF U
  <2>2. IsFiniteSet(U(0)) /\ Cardinality(U(0)) = 0
    BY <2>1, FS_EmptySet
  <2>3. 0 \in 0..n
    BY <1>2
  <2> QED BY <1>2, <2>2, <2>3
<1>4. ASSUME NEW k \in 1..n, k - 1 \in S PROVE k \in S
  <2>1. IsFiniteSet(Paid(events[k])) /\ Cardinality(Paid(events[k])) = Worth(events[k])
    <3>1. \A w \in Nat : IsFiniteSet(1..w) /\ Cardinality(1..w) = w
      <4>1. ASSUME NEW w \in Nat PROVE IsFiniteSet(1..w) /\ Cardinality(1..w) = w
        <5>1. 1 \in Int /\ w \in Int
          OBVIOUS
        <5>2. IsFiniteSet(1..w) /\ Cardinality(1..w) = IF 1 > w THEN 0 ELSE w - 1 + 1
          BY <5>1, FS_Interval
        <5> QED BY <5>2
      <4> QED BY <4>1
    <3>2. \A x : IsFiniteSet({x}) /\ Cardinality({x}) = 1
      BY FS_Singleton
    <3>3. Worth(events[k]) \in Nat
      BY <1>2
    <3> DEFINE A == {events[k]}
               B == 1..Worth(events[k])
    <3>4. /\ IsFiniteSet(A) /\ Cardinality(A) = 1
          /\ IsFiniteSet(B) /\ Cardinality(B) = Worth(events[k])
      BY <3>1, <3>2, <3>3
    <3>5. Paid(events[k]) = A \X B
      BY DEF Paid
    <3> HIDE DEF A, B
    <3>6. IsFiniteSet(A \X B) /\ Cardinality(A \X B) = Cardinality(A) * Cardinality(B)
      BY <3>4, FS_Product
    <3> QED BY <3>3, <3>4, <3>5, <3>6
  <2>2. U(k) = U(k - 1) \cup Paid(events[k])
    <3>1. \A j : j \in 1..k <=> j \in 1..(k - 1) \/ j = k
      BY <1>2
    <3> QED BY <3>1
  <2>3. U(k - 1) \cap Paid(events[k]) = {}
    <3>1. ASSUME NEW x, x \in U(k - 1), x \in Paid(events[k]) PROVE FALSE
      <4>1. PICK j \in 1..(k - 1) : x \in Paid(events[j])
        BY <3>1
      <4>2. x[1] = events[j] /\ x[1] = events[k]
        BY <3>1, <4>1 DEF Paid
      <4>3. j \in 1..Len(events) /\ k \in 1..Len(events) /\ j # k
        BY <1>2, <4>1
      <4> QED BY <4>2, <4>3
    <3> QED BY <3>1
  <2>4. IsFiniteSet(U(k - 1)) /\ Cardinality(U(k - 1)) = f[k - 1] /\ k - 1 \in 0..n
    BY <1>4
  <2> DEFINE X == U(k - 1)
             Y == Paid(events[k])
             Z == U(k)
  <2> HIDE DEF U, X, Y, Z
  <2>5. IsFiniteSet(Z) /\ Cardinality(Z) = f[k]
    <3>1. /\ IsFiniteSet(X) /\ Cardinality(X) = f[k - 1]
          /\ IsFiniteSet(Y) /\ Cardinality(Y) = Worth(events[k])
          /\ Z = X \cup Y /\ X \cap Y = {}
      BY <2>1, <2>2, <2>3, <2>4 DEF X, Y, Z
    <3>2. /\ IsFiniteSet(X \cup Y)
          /\ Cardinality(X \cup Y) = Cardinality(X) + Cardinality(Y) - Cardinality(X \cap Y)
      BY <3>1, FS_Union
    <3>3. Cardinality(X \cap Y) = 0
      BY <3>1, FS_EmptySet
    <3> QED BY <1>2, <2>4, <3>1, <3>2, <3>3
  <2>6. IsFiniteSet(U(k)) /\ Cardinality(U(k)) = f[k]
    BY <2>5 DEF Z
  <2>7. k \in 0..n
    BY <1>2
  <2> QED BY <2>6, <2>7
<1> HIDE DEF S
<1>5. n \in S
  <2>1. \A k \in 0..n : k \in S
    BY <1>2, <1>3, <1>4, BoundedInduction
  <2> QED BY <1>2, <2>1
<1> QED BY <1>1, <1>5 DEF S, U, n, Units

(* The same events in another order have the same effort.                   *)
LEMMA EffortInAnyOrder ==
    ASSUME NEW s, Len(s) \in Nat, \A k \in 1..Len(s) : Worth(s[k]) \in Nat,
           \A j, k \in 1..Len(s) : s[j] = s[k] => j = k,
           NEW t, Len(t) = Len(s),
           \A j, k \in 1..Len(t) : t[j] = t[k] => j = k,
           \A k \in 1..Len(s) : \E p \in 1..Len(s) : t[k] = s[p],
           \A p \in 1..Len(s) : \E k \in 1..Len(s) : t[k] = s[p]
    PROVE  EffortOf(0, t) = EffortOf(0, s)
<1>1. \A k \in 1..Len(t) : Worth(t[k]) \in Nat
  BY Zenon
<1>2. EffortOf(0, s) = Cardinality(Units(s))
  BY EffortIsCount
<1>3. EffortOf(0, t) = Cardinality(Units(t))
  BY <1>1, EffortIsCount
<1>4. Units(s) = Units(t)
  <2>1. ASSUME NEW x, x \in Units(s) PROVE x \in Units(t)
    <3>1. PICK p \in 1..Len(s) : x \in Paid(s[p])
      BY <2>1 DEF Units
    <3>2. PICK k \in 1..Len(t) : t[k] = s[p]
      OBVIOUS
    <3>3. x \in Paid(t[k])
      BY <3>1, <3>2
    <3> QED BY <3>3 DEF Units
  <2>2. ASSUME NEW x, x \in Units(t) PROVE x \in Units(s)
    <3>1. PICK k \in 1..Len(t) : x \in Paid(t[k])
      BY <2>2 DEF Units
    <3>2. PICK p \in 1..Len(s) : t[k] = s[p]
      OBVIOUS
    <3>3. x \in Paid(s[p])
      BY <3>1, <3>2
    <3> QED BY <3>3 DEF Units
  <2> QED BY <2>1, <2>2
<1> QED BY <1>2, <1>3, <1>4

(* Two batches, one behind the other: the efforts are added.                *)
LEMMA EffortAdds ==
    ASSUME NEW s, Len(s) \in Nat, NEW b, Len(b) \in Nat, NEW t, Len(t) = Len(s) + Len(b),
           \A k \in 1..Len(s) : t[k] = s[k] /\ Worth(s[k]) \in Nat,
           \A k \in 1..Len(b) : t[Len(s) + k] = b[k] /\ Worth(b[k]) \in Nat
    PROVE  /\ EffortOf(0, t) = EffortOf(0, s) + EffortOf(0, b)
           /\ EffortOf(0, s) \in Nat /\ EffortOf(0, b) \in Nat
<1> DEFINE m == Len(s)
           n == Len(b)
<1>1. /\ m \in Nat /\ n \in Nat /\ m + n \in Nat
      /\ \A k \in 1..(m + n) : \/ k \in 1..m
                               \/ k - m \in 1..n /\ k = m + (k - m)
  OBVIOUS
<1>2. \A k \in 1..(m + n) : Worth(t[k]) \in Nat
  <2>1. ASSUME NEW k \in 1..(m + n) PROVE Worth(t[k]) \in Nat
    <3>1. CASE k \in 1..m
      BY <3>1
    <3>2. CASE k - m \in 1..n /\ k = m + (k - m)
      <4>1. t[m + (k - m)] = b[k - m] /\ Worth(b[k - m]) \in Nat
        BY <3>2
      <4> QED BY <3>2, <4>1
    <3> QED BY <1>1, <3>1, <3>2
  <2> QED BY <2>1
<1>3. PICK f : Totals(f, 0, s) /\ EffortOf(0, s) = f[m]
  BY EffortIsTotal
<1>4. PICK g : Totals(g, 0, b) /\ EffortOf(0, b) = g[n]
  BY EffortIsTotal
<1>5. PICK h : Totals(h, 0, t) /\ EffortOf(0, t) = h[m + n]
  <2>1. Len(t) = m + n /\ Len(t) \in Nat /\ 0 \in Nat
    BY <1>1
  <2> HIDE DEF m, n
  <2>2. \A k \in 1..Len(t) : Worth(t[k]) \in Nat
    BY <1>2, <2>1
  <2>3. PICK h : Totals(h, 0, t) /\ EffortOf(0, t) = h[Len(t)]
    BY <2>1, <2>2, EffortIsTotal
  <2> QED BY <2>1, <2>3
<1>6. /\ f[0] = 0 /\ g[0] = 0 /\ h[0] = 0
      /\ \A k \in 0..m : f[k] \in Nat
      /\ \A k \in 0..n : g[k] \in Nat
      /\ \A k \in 1..m : f[k] = f[k - 1] + Worth(s[k])
      /\ \A k \in 1..n : g[k] = g[k - 1] + Worth(b[k])
      /\ \A k \in 1..(m + n) : h[k] = h[k - 1] + Worth(t[k])
  BY <1>3, <1>4, <1>5 DEF Totals
<1>7. h[m] = f[m]
  <2> DEFINE S == {k \in 0..m : h[k] = f[k]}
  <2>1. 0 \in S
    BY <1>1, <1>6
  <2>2. ASSUME NEW k \in 1..m, k - 1 \in S PROVE k \in S
    <3>1. k \in 1..(m + n) /\ k \in 0..m
      BY <1>1
    <3> QED BY <1>6, <2>2, <3>1
  <2> HIDE DEF S
  <2>3. \A k \in 0..m : k \in S
    BY <1>1, <2>1, <2>2, BoundedInduction
  <2>4. m \in S
    BY <1>1, <2>3
  <2> QED BY <2>4 DEF S
<1>8. h[m + n] = f[m] + g[n]
  <2> DEFINE S == {k \in 0..n : h[m + k] = f[m] + g[k]}
  <2>1. 0 \in S
    BY <1>1, <1>6, <1>7
  <2>2. ASSUME NEW k \in 1..n, k - 1 \in S PROVE k \in S
    <3>1. m + k \in 1..(m + n) /\ k \in 0..n /\ k - 1 \in 0..n /\ m + k - 1 = m + (k - 1)
      BY <1>1
    <3>2. h[m + k] = h[m + k - 1] + Worth(t[m + k]) /\ t[m + k] = b[k]
      BY <1>6, <3>1
    <3>3. h[m + (k - 1)] = f[m] + g[k - 1] /\ g[k] = g[k - 1] + Worth(b[k]) /\ Worth(b[k]) \in Nat
      BY <1>6, <2>2
    <3>4. f[m] \in Nat /\ g[k - 1] \in Nat
      BY <1>1, <1>6, <3>1
    <3>5. h[m + k] = f[m] + g[k]
      BY <3>1, <3>2, <3>3, <3>4
    <3> QED BY <3>1, <3>5
  <2> HIDE DEF S
  <2>3. \A k \in 0..n : k \in S
    BY <1>1, <2>1, <2>2, BoundedInduction
  <2>4. n \in S
    BY <1>1, <2>3
  <2> QED BY <2>4 DEF S
<1> QED BY <1>1, <1>3, <1>4, <1>5, <1>6, <1>8

(* Each of the items has an event of its own that is worth so much at least.*)
LEMMA EffortAtLeast ==
    ASSUME NEW events, Len(events) \in Nat,
           \A k \in 1..Len(events) : Worth(events[k]) \in Nat,
           \A j, k \in 1..Len(events) : events[j] = events[k] => j = k,
           NEW S, IsFiniteSet(S), NEW n \in Nat,
           \A i \in S : \E k \in 1..Len(events) : events[k].item = i /\ n <= Worth(events[k])
    PROVE  n * Cardinality(S) <= EffortOf(0, events)
<1> DEFINE of(i) == CHOOSE k \in 1..Len(events) : events[k].item = i /\ n <= Worth(events[k])
           f == [p \in S \X (1..n) |-> <<events[of(p[1])], p[2]>>]
<1>1. \A i \in S : /\ of(i) \in 1..Len(events)
                   /\ events[of(i)].item = i /\ n <= Worth(events[of(i)])
  OBVIOUS
<1> HIDE DEF of
<1>2. f \in [S \X (1..n) -> Units(events)]
  <2>1. ASSUME NEW p \in S \X (1..n) PROVE <<events[of(p[1])], p[2]>> \in Units(events)
    <3>1. p[1] \in S /\ p[2] \in 1..n
      OBVIOUS
    <3>2. of(p[1]) \in 1..Len(events) /\ n <= Worth(events[of(p[1])])
          /\ Worth(events[of(p[1])]) \in Nat
      BY <1>1, <3>1
    <3>3. p[2] \in 1..Worth(events[of(p[1])])
      BY <3>1, <3>2
    <3>4. <<events[of(p[1])], p[2]>> \in Paid(events[of(p[1])])
      BY <3>3 DEF Paid
    <3> QED BY <3>2, <3>4 DEF Units
  <2> QED BY <2>1
<1>3. \A p, q \in S \X (1..n) : f[p] = f[q] => p = q
  <2>1. ASSUME NEW p \in S \X (1..n), NEW q \in S \X (1..n), f[p] = f[q] PROVE p = q
    <3>1. events[of(p[1])] = events[of(q[1])] /\ p[2] = q[2]
      BY <2>1
    <3>2. p[1] \in S /\ q[1] \in S /\ p = <<p[1], p[2]>> /\ q = <<q[1], q[2]>>
      OBVIOUS
    <3>3. p[1] = q[1]
      BY <1>1, <3>1, <3>2
    <3> QED BY <3>1, <3>2, <3>3
  <2> QED BY <2>1
<1>4. f \in Injection(S \X (1..n), Units(events))
  BY <1>2, <1>3 DEF Injection, IsInjective
<1> HIDE DEF f
<1>5. IsFiniteSet(Units(events)) /\ EffortOf(0, events) = Cardinality(Units(events))
  BY EffortIsCount
<1>6. Cardinality(S \X (1..n)) <= Cardinality(Units(events))
  BY <1>4, <1>5, FS_Injection
<1>7. Cardinality(S \X (1..n)) = Cardinality(S) * n /\ Cardinality(S) \in Nat
  <2>1. 1 \in Int /\ n \in Int
    OBVIOUS
  <2>2. IsFiniteSet(1..n) /\ Cardinality(1..n) = IF 1 > n THEN 0 ELSE n - 1 + 1
    BY <2>1, FS_Interval
  <2>3. Cardinality(1..n) = n
    BY <2>2
  <2> DEFINE B == 1..n
  <2> HIDE DEF B
  <2>4. Cardinality(S \X B) = Cardinality(S) * Cardinality(B)
    BY <2>2, FS_Product DEF B
  <2> QED BY <2>3, <2>4, FS_CardinalityType DEF B
<1>8. Cardinality(S) * n = n * Cardinality(S)
  BY <1>7
<1> QED BY <1>5, <1>6, <1>7, <1>8

(* What a projection is given of a batch: events of it, of known types.     *)
LEMMA TouchingKeeps ==
    ASSUME NEW events, Len(events) \in Nat, NEW types
    PROVE  Touching(types, events) \in
             Seq({e \in {events[k] : k \in 1..Len(events)} : e.type \in types})
<1> DEFINE n == Len(events)
           E == {e \in {events[k] : k \in 1..n} : e.type \in types}
           T == Seq(E)
           body(f, k) == IF k = 0 THEN <<>>
                         ELSE IF events[k].type \in types THEN Append(f[k - 1], events[k])
                         ELSE f[k - 1]
           F == CHOOSE f : f = [k \in 0..n |-> body(f, k)]
           next(v, k) == IF events[k].type \in types THEN Append(v, events[k]) ELSE v
<1>1. Touching(types, events) = F[n]
  BY DEF Touching
<1>2. n \in Nat
  OBVIOUS
<1> HIDE DEF n
<1>3. <<>> \in T /\ \A v \in T, k \in 1..n : next(v, k) \in T
  <2>1. ASSUME NEW v \in T, NEW k \in 1..n PROVE next(v, k) \in T
    <3>1. CASE events[k].type \in types
      <4>1. events[k] \in E
        BY <3>1
      <4> HIDE DEF E
      <4> QED BY <3>1, <4>1
    <3>2. CASE events[k].type \notin types
      BY <3>2
    <3> QED BY <3>1, <3>2
  <2> QED BY <2>1
<1> HIDE DEF E
<1>4. /\ \A k \in 0..n : F[k] \in T
      /\ F[0] = <<>> /\ \A k \in 1..n : F[k] = next(F[k - 1], k)
  <2> DEFINE step == [p \in T \X (1..n) |-> next(p[1], p[2])]
  <2> HIDE DEF T, next
  <2>1. IsStep(step, T, n)
    BY <1>3 DEF IsStep
  <2>2. \A v \in T, k \in 1..n : step[<<v, k>>] = next(v, k)
    OBVIOUS
  <2> HIDE DEF step
  <2>3. PICK f : Follows(f, T, <<>>, step, n)
    BY <1>2, <1>3, <2>1, Recursion
  <2>4. ASSUME NEW k \in 0..n PROVE f[k] = body(f, k)
    <3>1. CASE k = 0
      BY <3>1, <2>3 DEF Follows
    <3>2. CASE k # 0
      <4>1. k \in 1..n /\ f[k - 1] \in T
        BY <1>2, <2>3, <3>2 DEF Follows
      <4>2. f[k] = step[<<f[k - 1], k>>] /\ step[<<f[k - 1], k>>] = next(f[k - 1], k)
        BY <4>1, <2>2, <2>3 DEF Follows
      <4> QED BY <4>2, <3>2 DEF next
    <3> QED BY <3>1, <3>2
  <2>5. f = [k \in 0..n |-> body(f, k)]
    BY <2>3, <2>4 DEF Follows
  <2>6. F = [k \in 0..n |-> body(F, k)]
    BY <2>5
  <2> HIDE DEF F, body
  <2>7. \A k \in 0..n : F[k] = body(F, k)
    BY <2>6
  <2>8. F[0] = <<>>
    <3>1. F[0] = body(F, 0)
      BY <1>2, <2>7
    <3>2. body(F, 0) = <<>>
      BY Zenon DEF body
    <3> QED BY <3>1, <3>2
  <2>9. ASSUME NEW k \in 1..n PROVE F[k] = next(F[k - 1], k)
    <3>1. F[k] = body(F, k) /\ k # 0
      BY <1>2, <2>7
    <3> QED BY <3>1 DEF next, body
  <2> DEFINE S == {k \in 0..n : F[k] \in T}
  <2>10. 0 \in S
    BY <1>2, <1>3, <2>8
  <2>11. ASSUME NEW k \in 1..n, k - 1 \in S PROVE k \in S
    <3>1. F[k] = next(F[k - 1], k) /\ F[k - 1] \in T
      BY <2>9, <2>11
    <3> QED BY <1>2, <1>3, <3>1
  <2> HIDE DEF S
  <2>12. \A k \in 0..n : k \in S
    BY <1>2, <2>10, <2>11, BoundedInduction
  <2> QED BY <2>8, <2>9, <2>12 DEF S
<1> HIDE DEF F
<1> QED BY <1>1, <1>2, <1>4 DEF n, E

-----------------------------------------------------------------------------
(* load_all returns the events of the log, all of them, each at one place,  *)
(* in the order of their times.                                             *)
LEMMA TimeOrderSorts ==
    ASSUME NEW E, NEW events \in Seq(E),
           \A k \in 1..Len(events) : events[k].at \in Nat,
           \A j, k \in 1..Len(events) : events[j].at = events[k].at => j = k
    PROVE  /\ InTimeOrder(events) \in Seq(E)
           /\ Len(InTimeOrder(events)) = Len(events)
           /\ \A k \in 1..Len(events) : \E p \in 1..Len(events) :
                InTimeOrder(events)[k] = events[p]
           /\ \A p \in 1..Len(events) : \E k \in 1..Len(events) :
                InTimeOrder(events)[k] = events[p]
           /\ \A j, k \in 1..Len(events) :
                j < k => InTimeOrder(events)[j].at < InTimeOrder(events)[k].at
<1> DEFINE n == Len(events)
           Upto(p) == {q \in 1..n : events[q].at <= events[p].at}
           place == [p \in 1..n |-> Cardinality(Upto(p))]
<1>1. n \in Nat /\ DOMAIN events = 1..n /\ IsFiniteSet(1..n) /\ Cardinality(1..n) = n
  <2>1. n \in Nat /\ DOMAIN events = 1..n
    OBVIOUS
  <2> HIDE DEF n
  <2>2. IsFiniteSet(1..n) /\ Cardinality(1..n) = IF 1 > n THEN 0 ELSE n - 1 + 1
    BY <2>1, FS_Interval
  <2> QED BY <2>1, <2>2
<1>2. \A p \in 1..n : events[p] \in E /\ events[p].at \in Nat
  OBVIOUS
<1>3. \A p, q \in 1..n : events[p].at = events[q].at => p = q
  OBVIOUS
<1> HIDE DEF n
<1>4. ASSUME NEW p \in 1..n
      PROVE  IsFiniteSet(Upto(p)) /\ Cardinality(Upto(p)) \in 1..n
  <2>1. Upto(p) \in SUBSET (1..n) /\ p \in Upto(p)
    BY <1>2
  <2> HIDE DEF Upto
  <2>2. IsFiniteSet(Upto(p)) /\ Cardinality(Upto(p)) <= n
    BY <1>1, <2>1, FS_Subset
  <2>3. Cardinality(Upto(p)) \in Nat /\ Cardinality(Upto(p)) # 0
    BY <2>1, <2>2, FS_CardinalityType, FS_EmptySet
  <2> QED BY <1>1, <2>2, <2>3
<1>5. ASSUME NEW p \in 1..n, NEW q \in 1..n, events[p].at < events[q].at
      PROVE  place[p] < place[q]
  <2>1. Upto(p) \in SUBSET Upto(q) /\ q \in Upto(q) /\ q \notin Upto(p)
    BY <1>2, <1>5
  <2>2. IsFiniteSet(Upto(q)) /\ Cardinality(Upto(p)) \in Nat /\ Cardinality(Upto(q)) \in Nat
    <3> HIDE DEF Upto
    <3>1. IsFiniteSet(Upto(q)) /\ Cardinality(Upto(p)) \in 1..n /\ Cardinality(Upto(q)) \in 1..n
      BY <1>4
    <3> QED BY <1>1, <3>1
  <2>3. place[p] = Cardinality(Upto(p)) /\ place[q] = Cardinality(Upto(q))
    OBVIOUS
  <2> HIDE DEF Upto, place
  <2>4. Cardinality(Upto(p)) <= Cardinality(Upto(q)) /\ Cardinality(Upto(p)) # Cardinality(Upto(q))
    BY <2>1, <2>2, FS_Subset
  <2> QED BY <2>2, <2>3, <2>4
<1>6. place \in [1..n -> 1..n]
  BY <1>4
<1>7. \A p \in 1..n : place[p] = Cardinality({q \in DOMAIN events : events[q].at <= events[p].at})
  BY <1>1
<1> HIDE DEF place
<1>8. \A p, q \in 1..n : place[p] = place[q] => p = q
  <2> SUFFICES ASSUME NEW p \in 1..n, NEW q \in 1..n, p # q PROVE place[p] # place[q]
    OBVIOUS
  <2>1. place[p] \in 1..n /\ place[q] \in 1..n
    BY <1>6
  <2>2. events[p].at < events[q].at \/ events[q].at < events[p].at
    BY <1>2, <1>3
  <2> QED BY <1>1, <1>5, <2>1, <2>2
<1>9. ASSUME NEW k \in 1..n PROVE \E p \in 1..n : place[p] = k
  <2>1. place \in Injection(1..n, 1..n)
    BY <1>6, <1>8, Fun_IsInj
  <2>2. place \in Surjection(1..n, 1..n)
    BY <1>1, <2>1, FS_Injection
  <2>3. \A t \in 1..n : \E p \in 1..n : place[p] = t
    BY <2>2 DEF Surjection
  <2> QED BY <2>3
<1> DEFINE at(k) == CHOOSE p \in 1..n : place[p] = k
<1>10. ASSUME NEW k \in 1..n PROVE at(k) \in 1..n /\ place[at(k)] = k
  BY <1>9
<1> DEFINE s == InTimeOrder(events)
           seq == [k \in 1..n |-> events[at(k)]]
<1>11. s = seq
  <2> DEFINE Rank(p) == Cardinality({q \in DOMAIN events : events[q].at <= events[p].at})
             first(k) == CHOOSE p \in DOMAIN events : Rank(p) = k
  <2>1. s = [k \in DOMAIN events |-> events[first(k)]]
    BY DEF InTimeOrder
  <2> HIDE DEF s
  <2>2. ASSUME NEW k \in 1..n PROVE first(k) = at(k)
    <3>1. \A p \in 1..n : Rank(p) = k <=> place[p] = k
      BY <1>7
    <3> HIDE DEF Rank
    <3>2. first(k) = CHOOSE p \in 1..n : Rank(p) = k
      BY <1>1
    <3>3. (CHOOSE p \in 1..n : Rank(p) = k) = at(k)
      BY <3>1
    <3> QED BY <3>2, <3>3
  <2> HIDE DEF first, at
  <2> QED BY <1>1, <2>1, <2>2
<1> HIDE DEF at, s
<1>12. ASSUME NEW p \in 1..n PROVE place[p] \in 1..n /\ at(place[p]) = p
  <2>1. place[p] \in 1..n
    BY <1>6
  <2>2. at(place[p]) \in 1..n /\ place[at(place[p])] = place[p]
    BY <1>10, <2>1
  <2> QED BY <1>8, <2>1, <2>2
<1>13. s \in Seq(E) /\ Len(s) = n /\ \A k \in 1..n : s[k] = events[at(k)]
  <2>1. \A k \in 1..n : events[at(k)] \in E
    BY <1>2, <1>10
  <2>2. seq \in [1..n -> E] /\ DOMAIN seq = 1..n /\ \A k \in 1..n : seq[k] = events[at(k)]
    BY <2>1
  <2> HIDE DEF seq
  <2>3. seq \in Seq(E) /\ Len(seq) = n
    BY <1>1, <2>2
  <2> QED BY <1>11, <2>2, <2>3
<1> HIDE DEF seq
<1>14. \A k \in 1..n : \E p \in 1..n : s[k] = events[p]
  BY <1>10, <1>13
<1>15. \A p \in 1..n : \E k \in 1..n : s[k] = events[p]
  BY <1>12, <1>13
<1>16. ASSUME NEW j \in 1..n, NEW k \in 1..n, j < k PROVE s[j].at < s[k].at
  <2>0. at(j) \in 1..n /\ place[at(j)] = j /\ at(k) \in 1..n /\ place[at(k)] = k
    BY <1>10
  <2>1. ~ (events[at(k)].at < events[at(j)].at)
    <3>1. ASSUME events[at(k)].at < events[at(j)].at PROVE FALSE
      <4>1. place[at(k)] < place[at(j)]
        BY <1>5, <2>0, <3>1
      <4> QED BY <1>1, <1>16, <2>0, <4>1
    <3> QED BY <3>1
  <2>2. at(j) # at(k)
    <3>1. j # k
      BY <1>1, <1>16
    <3> QED BY <2>0, <3>1
  <2>3. events[at(j)].at \in Nat /\ events[at(k)].at \in Nat /\ events[at(j)].at # events[at(k)].at
    BY <1>2, <1>3, <2>0, <2>2
  <2>4. s[j] = events[at(j)] /\ s[k] = events[at(k)]
    BY <1>13
  <2> QED BY <2>1, <2>3, <2>4
<1> QED BY <1>13, <1>14, <1>15, <1>16 DEF s, n

=============================================================================
