---------------------------- MODULE IntakeProofs ----------------------------
(***************************************************************************)
(* Proofs about Intake: its types, that a plan has every word of the       *)
(* objective once and no more items than it may, that agents share the     *)
(* items evenly, and that every execution is accounted for; for any        *)
(* objective, counts, answers and limits.                                  *)
(***************************************************************************)
EXTENDS Intake, FiniteSetTheorems, SequenceTheorems, WellFoundedInduction, TLAPS

-----------------------------------------------------------------------------
(* Arithmetic.                                                              *)
LEMMA Times == ASSUME NEW a \in Nat, NEW b \in Nat, NEW w \in Nat, a <= b
               PROVE  a * w <= b * w /\ a * w \in Nat
  OBVIOUS

(* Integer division, as the sizes of chunks need it.                       *)
LEMMA Division ==
    ASSUME NEW n \in Nat, NEW w \in Nat, w > 0
    PROVE  n \div w \in Nat /\ (n \div w) * w <= n /\ n < (n \div w) * w + w
  OBVIOUS

(* A quotient and a remainder are the only ones.                            *)
LEMMA OneRemainder ==
    ASSUME NEW w \in Nat, w > 0, NEW p \in Int, NEW q \in Int, NEW r \in 0..(w - 1),
           NEW s \in 0..(w - 1), p * w + r = q * w + s
    PROVE  p = q /\ r = s
<1>1. (p - q) * w = s - r /\ s - r < w /\ r - s < w
  OBVIOUS
<1>2. p - q < 1
  <2>1. ASSUME p - q >= 1 PROVE FALSE
    <3>1. (p - q) * w >= w
      BY <2>1
    <3> QED BY <1>1, <3>1
  <2> QED BY <2>1
<1>3. q - p < 1
  <2>1. ASSUME q - p >= 1 PROVE FALSE
    <3>1. (q - p) * w >= w /\ (q - p) * w = r - s
      BY <1>1, <2>1
    <3> QED BY <1>1, <3>1
  <2> QED BY <2>1
<1>4. p = q
  BY <1>2, <1>3
<1> QED BY <1>4

-----------------------------------------------------------------------------
(* The planner.  n words are cut into chunks of w words, but no more than   *)
(* target of them.                                                          *)
LEMMA WidthIs ==
    ASSUME NEW n \in Nat, NEW target \in Nat, target > 0
    PROVE  LET w == ChunkWidth(n, target)
           IN  w \in Nat /\ w > 0 /\ n <= w * target /\ (n > 0 => (w - 1) * target < n)
<1> DEFINE q == (n + target - 1) \div target
           w == ChunkWidth(n, target)
<1>1. q \in Nat /\ q * target <= n + target - 1 /\ n + target - 1 < q * target + target
  BY Division
<1>2. w = IF q >= 1 THEN q ELSE 1
  BY <1>1 DEF ChunkWidth, Greatest
<1> HIDE DEF q, w
<1>3. CASE q >= 1
  <2>1. w = q /\ w \in Nat /\ w > 0
    BY <1>1, <1>2, <1>3
  <2>2. (w - 1) * target = q * target - target
    BY <2>1, <1>1
  <2> QED BY <1>1, <2>1, <2>2 DEF w
<1>4. CASE q = 0
  <2>1. w = 1 /\ n < 1
    BY <1>1, <1>2, <1>4
  <2> QED BY <2>1 DEF w
<1> QED BY <1>1, <1>3, <1>4

(* The chunks of an objective, and the first word after chunk k.            *)
LEMMA ChunksAre ==
    ASSUME NEW n \in Nat, n > 0, NEW target \in Nat, target > 0
    PROVE  \E w \in Nat, L \in 1..target :
              /\ w > 0 /\ (w - 1) * target < n /\ (L - 1) * w < n /\ n <= L * w
              /\ Chunks(n, target) = [k \in 1..L |-> Chunk(n, w, k)]
<1> DEFINE w == ChunkWidth(n, target)
           c == ChunkCount(n, w)
           L == Least(c, target)
<1>1. w \in Nat /\ w > 0 /\ n <= w * target /\ (w - 1) * target < n
  BY WidthIs
<1>2. Chunks(n, target) = [k \in 1..L |-> Chunk(n, w, k)]
  BY DEF Chunks
<1> HIDE DEF w
<1>3. c \in Nat /\ c * w <= n + w - 1 /\ n + w - 1 < c * w + w
  BY <1>1, Division DEF ChunkCount
<1> HIDE DEF c
<1>4. c >= 1
  BY <1>1, <1>3
<1>5. L \in 1..target /\ L <= c /\ (L = c \/ L = target)
  BY <1>3, <1>4 DEF Least
<1>6. n <= L * w
  BY <1>1, <1>3, <1>5
<1>7. (L - 1) * w < n
  <2>1. L * w <= c * w /\ (L - 1) * w = L * w - w
    BY <1>1, <1>3, <1>5, Times
  <2> QED BY <1>1, <1>3, <1>5, <2>1
<1> QED BY <1>1, <1>2, <1>5, <1>6, <1>7

(* What a chunk is.                                                         *)
LEMMA ChunkIs ==
    ASSUME NEW n \in Nat, NEW w \in Nat, w > 0, NEW L \in Nat,
           (L - 1) * w < n, NEW k \in 1..L
    PROVE  LET c == Chunk(n, w, k)
           IN  /\ c.first \in Nat /\ c.last \in Nat
               /\ c.first = (k - 1) * w + 1 /\ c.first <= c.last
               /\ c.last = IF k * w <= n THEN k * w ELSE n
               /\ c.last - c.first < w
<1>1. k - 1 \in Nat /\ L - 1 \in Nat /\ k - 1 <= L - 1
  OBVIOUS
<1>2. (k - 1) * w <= (L - 1) * w /\ (k - 1) * w \in Nat
  BY <1>1, Times
<1>3. k * w = (k - 1) * w + w
  BY <1>1
<1>4. Chunk(n, w, k).first = (k - 1) * w + 1 /\ Chunk(n, w, k).last = Least(k * w, n)
  BY DEF Chunk
<1>5. k * w \in Nat
  BY <1>2, <1>3
<1>6. (L - 1) * w \in Int
  BY <1>1
<1> QED BY <1>2, <1>3, <1>4, <1>5, <1>6 DEF Least

(* Items are dealt in turn: agent a gets the items a, a + agents, ...      *)
LEMMA AgentIs ==
    ASSUME NEW k \in Nat, k > 0, NEW agents \in Nat, agents > 0, NEW a \in 1..agents
    PROVE  /\ AgentOf(k, agents) \in 1..agents
           /\ AgentOf(k, agents) = a <=> \E q \in Nat : k = q * agents + a
<1> DEFINE r == (k - 1) % agents
           d == (k - 1) \div agents
<1>1. r \in 0..(agents - 1) /\ d \in Nat /\ k - 1 = d * agents + r
  <2>1. k - 1 \in Nat
    OBVIOUS
  <2> QED BY <2>1
<1>2. AgentOf(k, agents) = r + 1
  BY DEF AgentOf
<1> HIDE DEF r, d
<1>3. ASSUME r + 1 = a PROVE \E q \in Nat : k = q * agents + a
  BY <1>1, <1>3
<1>4. ASSUME NEW q \in Nat, k = q * agents + a PROVE r + 1 = a
  <2>1. d * agents + r = q * agents + (a - 1) /\ a - 1 \in 0..(agents - 1) /\ d \in Int /\ q \in Int
    BY <1>1, <1>4
  <2>2. r = a - 1
    BY <1>1, <2>1, OneRemainder
  <2> QED BY <1>1, <2>2
<1>5. AgentOf(k, agents) \in 1..agents
  BY <1>1, <1>2
<1>6. (AgentOf(k, agents) = a) => \E q \in Nat : k = q * agents + a
  BY <1>2, <1>3
<1>7. (\E q \in Nat : k = q * agents + a) => AgentOf(k, agents) = a
  BY <1>2, <1>4
<1> QED BY <1>5, <1>6, <1>7

(* The plan as it is stored: its length, the words of each item, its agent. *)
Item(n, w, agents, k) ==
    [first |-> IF n > 0 THEN Chunk(n, w, k).first ELSE 1,
     last  |-> IF n > 0 THEN Chunk(n, w, k).last ELSE 0,
     agent |-> AgentOf(k, agents)]

IsPlan(P, n, target, agents) ==
    \E w \in Nat, L \in 1..target :
        /\ w > 0
        /\ n > 0 => (w - 1) * target < n /\ (L - 1) * w < n /\ n <= L * w
        /\ P = [k \in 1..L |-> Item(n, w, agents, k)]

(* What the planner and the dispatcher make of n words is a plan for them. *)
LEMMA PlanIs ==
    ASSUME NEW n \in Nat, NEW target \in 1..MaxItems, NEW agents
    PROVE  IsPlan(AssignItems(Decompose(n, target), agents), n, target, agents)
<1> USE PlannerAssumption
<1>1. Least(Greatest(target, 1), MaxItems) = target /\ target \in Nat /\ target > 0
  BY DEF Least, Greatest
<1>2. CASE n > 0
  <2>1. PICK w \in Nat, L \in 1..target :
              /\ w > 0 /\ (w - 1) * target < n /\ (L - 1) * w < n /\ n <= L * w
              /\ Chunks(n, target) = [k \in 1..L |-> Chunk(n, w, k)]
    BY <1>1, <1>2, ChunksAre
  <2> DEFINE D == Decompose(n, target)
  <2>2. D = [k \in 1..L |-> Chunk(n, w, k)]
    BY <1>1, <1>2, <2>1 DEF Decompose
  <2> HIDE DEF D
  <2>3. AssignItems(D, agents) = [k \in 1..L |-> Item(n, w, agents, k)]
    BY <1>2, <2>2 DEF AssignItems, Item
  <2> QED BY <2>1, <2>3 DEF IsPlan, D
<1>3. CASE ~ (n > 0)
  <2> DEFINE D == Decompose(n, target)
             L == Least(Least(DefaultItems, target), CannedSteps)
  <2>1. D = [k \in 1..L |-> [first |-> 1, last |-> 0]]
    BY <1>1, <1>3 DEF Decompose, CannedPlan
  <2>2. L \in 1..target
    BY <1>1 DEF Least
  <2> HIDE DEF D, L
  <2>3. AssignItems(D, agents) = [k \in 1..L |-> Item(n, 1, agents, k)]
    BY <1>3, <2>1 DEF AssignItems, Item
  <2> QED BY <1>3, <2>2, <2>3 DEF IsPlan, D
<1> QED BY <1>2, <1>3

(* The counts of a request, limited.                                        *)
LEMMA CountsAre ==
    ASSUME request \in [words : Words, items : Fields(Counts), agents : Fields(Counts)]
    PROVE  /\ request.words \in Nat /\ TargetItems \in 1..MaxItems /\ AgentCount \in 1..MaxAgents
           /\ request.items \in 1..MaxItems => TargetItems = request.items
<1>1. /\ request.words \in Nat /\ request.items \in Counts \cup {NotGiven}
      /\ request.agents \in Counts \cup {NotGiven}
  BY InputsAssumption DEF Fields
<1>2. \A x \in Counts : x \in Nat /\ x # NotGiven
  BY InputsAssumption, PlannerAssumption
<1>3. \A x \in Counts \cup {NotGiven} : Count(x) = NotGiven \/ (Count(x) = x /\ x \in Nat)
  BY <1>2 DEF Count
<1>4. \A x \in Counts \cup {NotGiven} : ResolveItemCount(Count(x)) \in 1..MaxItems
  BY <1>3, PlannerAssumption DEF ResolveItemCount, Least, Greatest
<1>5. \A x \in Counts \cup {NotGiven} : ResolveAgentCount(Count(x)) \in 1..MaxAgents
  BY <1>3, PlannerAssumption DEF ResolveAgentCount, Least, Greatest
<1>6. TargetItems \in 1..MaxItems /\ AgentCount \in 1..MaxAgents
  BY <1>1, <1>4, <1>5 DEF TargetItems, AgentCount
<1>7. ASSUME request.items \in 1..MaxItems PROVE TargetItems = request.items
  <2>1. request.items # 0 /\ request.items # NotGiven /\ request.items \in Nat
    BY <1>7, PlannerAssumption
  <2>2. Count(request.items) = request.items
    BY <2>1 DEF Count
  <2> QED BY <1>7, <2>1, <2>2, PlannerAssumption DEF TargetItems, ResolveItemCount, Least, Greatest
<1> QED BY <1>1, <1>6, <1>7

-----------------------------------------------------------------------------
(* Agents.  The items of an agent, by their number.                         *)
ItemsOf(L, agents, a) == {k \in 1..L : AgentOf(k, agents) = a}

(* No agent has two items more than another: all but the first item of one
   agent each follow an item of the other.                                 *)
LEMMA Shares ==
    ASSUME NEW L \in Nat, NEW agents \in Nat, agents > 0,
           NEW a \in 1..agents, NEW b \in 1..agents
    PROVE  Cardinality(ItemsOf(L, agents, a)) <= Cardinality(ItemsOf(L, agents, b)) + 1
<1> DEFINE A == ItemsOf(L, agents, a)
           B == ItemsOf(L, agents, b)
<1>1. A \subseteq 1..L /\ B \subseteq 1..L /\ IsFiniteSet(1..L)
  BY FS_Interval DEF ItemsOf
<1>2. IsFiniteSet(A) /\ IsFiniteSet(B) /\ Cardinality(A) \in Nat /\ Cardinality(B) \in Nat
  <2> HIDE DEF A, B
  <2> QED BY <1>1, FS_Subset, FS_CardinalityType
<1>3. ASSUME NEW k \in 1..L
      PROVE  /\ k \in A => \E q \in Nat : k = q * agents + a
             /\ \A q \in Nat : k = q * agents + b => k \in B
  <2>1. k \in Nat /\ k > 0
    OBVIOUS
  <2>2. AgentOf(k, agents) = a <=> \E q \in Nat : k = q * agents + a
    BY <2>1, AgentIs
  <2>3. AgentOf(k, agents) = b <=> \E q \in Nat : k = q * agents + b
    BY <2>1, AgentIs
  <2> QED BY <2>2, <2>3 DEF ItemsOf
<1> HIDE DEF A, B
(* An earlier agent has an item before each item of a later one.            *)
<1>4. CASE b <= a
  <2> DEFINE f == [k \in A |-> k - (a - b)]
  <2>1. ASSUME NEW k \in A PROVE f[k] \in B
    <3>1. PICK q \in Nat : k = q * agents + a
      BY <1>1, <1>3
    <3>2. q * agents \in Nat
      OBVIOUS
    <3>3. f[k] = q * agents + b /\ f[k] \in 1..L
      BY <1>1, <1>4, <3>1, <3>2
    <3> QED BY <1>3, <3>3
  <2>2. \A j, k \in A : f[j] = f[k] => j = k
    BY <1>1
  <2>3. f \in Injection(A, B)
    BY <2>1, <2>2 DEF Injection, IsInjective
  <2>4. Cardinality(A) <= Cardinality(B)
    BY <1>2, <2>3, FS_Injection
  <2> QED BY <1>2, <2>4 DEF A, B
(* But for its first: the item of the later agent one round before.         *)
<1>5. CASE b > a
  <2> DEFINE R == A \ {a}
             f == [k \in R |-> k - (agents - (b - a))]
  <2>1. ASSUME NEW k \in R PROVE f[k] \in B
    <3>1. PICK q \in Nat : k = q * agents + a
      BY <1>1, <1>3
    <3>2. q # 0
      BY <3>1
    <3>3. q - 1 \in Nat /\ (q - 1) * agents \in Nat /\ q * agents = (q - 1) * agents + agents
      BY <3>2
    <3>4. f[k] = (q - 1) * agents + b /\ f[k] \in 1..L
      BY <1>1, <1>5, <3>1, <3>3
    <3> QED BY <1>3, <3>3, <3>4
  <2>2. \A j, k \in R : f[j] = f[k] => j = k
    BY <1>1
  <2>3. f \in Injection(R, B)
    BY <2>1, <2>2 DEF Injection, IsInjective
  <2> HIDE DEF R, f
  <2>4. Cardinality(R) <= Cardinality(B)
    BY <1>2, <2>3, FS_Injection
  <2>5. Cardinality(R) = IF a \in A THEN Cardinality(A) - 1 ELSE Cardinality(A)
    BY <1>2, FS_RemoveElement DEF R
  <2> QED BY <1>2, <2>4, <2>5 DEF A, B
<1> QED BY <1>4, <1>5

-----------------------------------------------------------------------------
(* Words.                                                                   *)
Count123(n)    == [i \in 1..n |-> i]
WordsOf(f, l)  == [i \in 1..(l - f + 1) |-> f + i - 1]

(* The words up to u and those after it are the words up to v.             *)
LEMMA CountOn ==
    ASSUME NEW u \in Nat, NEW v \in Nat, u <= v
    PROVE  Count123(u) \o WordsOf(u + 1, v) = Count123(v)
<1> DEFINE s == Count123(u)
           t == WordsOf(u + 1, v)
           c == Count123(v)
<1>1. s \in Seq(Nat) /\ Len(s) = u /\ \A i \in 1..u : s[i] = i
  BY DEF Count123
<1>2. t \in Seq(Nat) /\ Len(t) = v - u /\ \A i \in 1..(v - u) : t[i] = u + i
  <2>1. v - (u + 1) + 1 = v - u /\ v - u \in Nat
    OBVIOUS
  <2>2. t = [i \in 1..(v - u) |-> u + 1 + i - 1]
    BY <2>1 DEF WordsOf
  <2> QED BY <2>1, <2>2
<1>3. c \in Seq(Nat) /\ Len(c) = v /\ \A i \in 1..v : c[i] = i
  BY DEF Count123
<1> HIDE DEF s, t, c
<1> DEFINE j == s \o t
<1>4. /\ j \in Seq(Nat) /\ Len(j) = u + (v - u)
      /\ \A i \in 1..u : j[i] = s[i]
      /\ \A i \in 1..(v - u) : j[u + i] = t[i]
  <2> DEFINE d == v - u
  <2>1. d \in Nat /\ Len(t) = d
    BY <1>2
  <2> HIDE DEF d
  <2>2. s \in Seq(Nat) /\ t \in Seq(Nat) /\ Len(s) = u
    BY <1>1, <1>2
  <2>3. /\ j \in Seq(Nat) /\ Len(j) = u + d
        /\ \A i \in 1..u : j[i] = s[i]
        /\ \A i \in 1..d : j[u + i] = t[i]
    BY <2>1, <2>2
  <2> QED BY <2>3 DEF d
<1> HIDE DEF j
<1>5. ASSUME NEW i \in 1..v PROVE j[i] = c[i]
  <2>1. CASE i <= u
    BY <1>1, <1>3, <1>4, <2>1
  <2>2. CASE i > u
    <3> DEFINE m == i - u
    <3>1. m \in 1..(v - u) /\ i = u + m
      BY <2>2
    <3> HIDE DEF m
    <3>2. j[u + m] = u + m
      BY <1>2, <1>4, <3>1
    <3> QED BY <1>3, <3>1, <3>2
  <2> QED BY <2>1, <2>2
<1>6. j \in Seq(Nat) /\ Len(j) = v
  BY <1>4
<1>7. j = c
  BY <1>3, <1>5, <1>6, SeqEqual
<1> QED BY <1>7 DEF j, s, t, c

(* A set of numbers with 1 and the successor of each member up to n.        *)
LEMMA UpTo ==
    ASSUME NEW n \in Nat, NEW S, 1 \in S, \A k \in 2..n : k - 1 \in S => k \in S
    PROVE  \A k \in 1..n : k \in S
<1> DEFINE T == {k \in 1..n : k \notin S}
           R == {p \in Nat \X Nat : p[1] < p[2]}
<1>1. ASSUME T # {} PROVE FALSE
  <2>1. T \subseteq Nat /\ IsWellFoundedOn(R, Nat)
    BY NatLessThanWellFounded DEF OpToRel
  <2>2. PICK x \in T : \A y \in T : ~ (<<y, x>> \in R)
    <3> HIDE DEF T, R
    <3> QED BY <1>1, <2>1, WFMin
  <2>3. ASSUME NEW y \in T PROVE ~ (y < x)
    <3>1. ~ (<<y, x>> \in R) /\ y \in Nat /\ x \in Nat
      BY <2>1, <2>2
    <3> QED BY <3>1
  <2>4. x \in 2..n /\ x - 1 \in 1..n /\ x - 1 < x /\ x \notin S
    OBVIOUS
  <2>5. x - 1 \notin T
    BY <2>3, <2>4
  <2> QED BY <2>4, <2>5
<1> QED BY <1>1

(* What FlattenSeq makes of s, given all of its prefixes.                   *)
LEMMA FlattenIs ==
    ASSUME NEW s, Len(s) \in Nat, Len(s) > 0, NEW g, g[1] = s[1],
           \A k \in 2..Len(s) : g[k] = g[k - 1] \o s[k]
    PROVE  FlattenSeq(s) = g[Len(s)]
<1> DEFINE n == Len(s)
           body(f, k) == IF k = 1 THEN s[k] ELSE f[k - 1] \o s[k]
           F == CHOOSE f : f = [k \in 1..n |-> body(f, k)]
           h == [k \in 1..n |-> g[k]]
<1>1. FlattenSeq(s) = F[n]
  BY DEF FlattenSeq
<1>2. h = [k \in 1..n |-> body(h, k)]
  <2>1. ASSUME NEW k \in 1..n PROVE h[k] = body(h, k)
    <3>1. CASE k = 1
      BY <3>1
    <3>2. CASE k # 1
      <4>1. k \in 2..n /\ k - 1 \in 1..n
        BY <3>2
      <4>2. h[k] = g[k] /\ h[k - 1] = g[k - 1]
        BY <4>1
      <4> HIDE DEF h
      <4> QED BY <3>2, <4>1, <4>2
    <3> QED BY <3>1, <3>2
  <2>2. h = [k \in 1..n |-> h[k]]
    OBVIOUS
  <2> HIDE DEF h, body
  <2> QED BY <2>1, <2>2
<1>3. F = [k \in 1..n |-> body(F, k)]
  <2> HIDE DEF h, body
  <2> QED BY <1>2
<1> HIDE DEF F
<1> DEFINE S == {k \in 1..n : F[k] = g[k]}
<1>4. n \in Nat /\ n > 0
  OBVIOUS
<1>5. 1 \in S
  <2>1. F[1] = body(F, 1)
    <3> HIDE DEF body
    <3> QED BY <1>3, <1>4
  <2> QED BY <1>4, <2>1
<1>6. ASSUME NEW k \in 2..n, k - 1 \in S PROVE k \in S
  <2>1. k \in 1..n /\ k # 1
    OBVIOUS
  <2>2. F[k] = body(F, k)
    <3> HIDE DEF body
    <3> QED BY <1>3, <2>1
  <2>3. F[k] = F[k - 1] \o s[k] /\ F[k - 1] = g[k - 1]
    BY <1>6, <2>1, <2>2
  <2> QED BY <2>1, <2>3
<1> HIDE DEF S, n
<1>8. \A k \in 2..n : k - 1 \in S => k \in S
  BY <1>6
<1>9. \A k \in 1..n : k \in S
  BY <1>4, <1>5, <1>8, UpTo
<1>7. n \in S
  BY <1>4, <1>9
<1> QED BY <1>1, <1>7 DEF S, n

(* The words of the items of a plan, one after the other.                   *)
LEMMA PlanHasWords ==
    ASSUME NEW n \in Nat, n > 0, NEW w \in Nat, w > 0, NEW L \in Nat, L > 0,
           (L - 1) * w < n, n <= L * w
    PROVE  FlattenSeq([k \in 1..L |-> WordsOf(Chunk(n, w, k).first, Chunk(n, w, k).last)])
             = Count123(n)
<1> DEFINE c(k) == Chunk(n, w, k)
           s == [k \in 1..L |-> WordsOf(c(k).first, c(k).last)]
           g == [k \in 1..L |-> Count123(c(k).last)]
<1>1. ASSUME NEW k \in 1..L
      PROVE  /\ c(k).first \in Nat /\ c(k).last \in Nat
             /\ c(k).first = (k - 1) * w + 1 /\ c(k).first <= c(k).last
             /\ c(k).last = IF k * w <= n THEN k * w ELSE n
  BY ChunkIs
<1> HIDE DEF c
<1>2. Len(s) = L /\ \A k \in 1..L : s[k] = WordsOf(c(k).first, c(k).last)
  OBVIOUS
<1>3. \A k \in 1..L : g[k] = Count123(c(k).last)
  OBVIOUS
<1> HIDE DEF s, g
<1>4. g[1] = s[1]
  <2>1. 1 \in 1..L /\ c(1).first = 1 /\ c(1).last \in Nat
    BY <1>1
  <2>2. Count123(c(1).last) = WordsOf(1, c(1).last)
    <3> DEFINE l == c(1).last
    <3> HIDE DEF l
    <3>1. l - 1 + 1 = l /\ \A i \in 1..l : 1 + i - 1 = i
      BY <2>1 DEF l
    <3>2. Count123(l) = WordsOf(1, l)
      BY <3>1 DEF Count123, WordsOf
    <3> QED BY <3>2 DEF l
  <2> QED BY <1>2, <1>3, <2>1, <2>2
<1>5. ASSUME NEW k \in 2..L PROVE g[k] = g[k - 1] \o s[k]
  <2>1. k \in 1..L /\ k - 1 \in 1..L
    OBVIOUS
  <2> DEFINE u == c(k - 1).last
             v == c(k).last
  <2>2. (k - 1) * w <= (L - 1) * w
    BY <2>1, Times
  <2>3. u = (k - 1) * w
    BY <1>1, <2>1, <2>2
  <2>4. u \in Nat /\ v \in Nat /\ u <= v /\ c(k).first = u + 1
    BY <1>1, <2>1, <2>3
  <2> HIDE DEF u, v
  <2>5. Count123(u) \o WordsOf(u + 1, v) = Count123(v)
    BY <2>4, CountOn
  <2> QED BY <1>2, <1>3, <2>1, <2>4, <2>5 DEF u, v
<1>6. FlattenSeq(s) = g[L]
  BY <1>2, <1>4, <1>5, FlattenIs
<1>7. g[L] = Count123(n)
  <2>1. c(L).last = n /\ L \in 1..L
    BY <1>1
  <2> QED BY <1>3, <2>1
<1> QED BY <1>6, <1>7 DEF s, c

-----------------------------------------------------------------------------
(* The executors.                                                           *)
Sound(r) ==
    /\ r.outcome \in {"success", "failure", "error"}
    /\ r.outcome = "success" => r.effort \in 1..IntMax

(* A result with an effort from 1 up is sound.                             *)
LEMMA ResultSound ==
    ASSUME NEW success, NEW effort \in 1..IntMax
    PROVE  Sound(Result(success, effort))
  BY DEF Sound, Result

(* The conversion keeps an i32, and what it gives is one.                   *)
LEMMA AsIntIs == ASSUME NEW n \in Int PROVE AsInt(n) \in Ints
<1> DEFINE w == 2 * IntHalf
<1>1. IntHalf \in Nat /\ IntHalf > 10 /\ w \in Nat /\ w > 0 /\ n + IntHalf \in Int
  BY WidthAssumption
<1>2. (n + IntHalf) % w \in 0..(w - 1)
  <2> HIDE DEF w
  <2> QED BY <1>1
<1> QED BY <1>1, <1>2 DEF AsInt, Ints, IntMax

(* An estimated effort, a quotient of an answer, is small enough to be added. *)
LEMMA QuotientIs ==
    ASSUME NEW n \in Ints, NEW d \in {2, 4, 5}
    PROVE  /\ Quotient(n, d) \in Int /\ 2 * Quotient(n, d) <= IntMax
           /\ d = 5 => 5 * Quotient(n, d) <= IntMax
           /\ n >= 0 => 0 <= Quotient(n, d) /\ 2 * Quotient(n, d) <= n
<1>1. IntHalf \in Nat /\ IntHalf > 10 /\ n \in Int /\ n <= IntMax /\ IntMax \in Nat
  BY WidthAssumption DEF Ints, IntMax
<1>2. CASE n >= 0
  <2>1. Quotient(n, d) = n \div d /\ n \in Nat
    BY <1>1, <1>2 DEF Quotient
  <2>2. CASE d = 2
    BY <1>1, <1>2, <2>1, <2>2
  <2>3. CASE d = 4
    BY <1>1, <1>2, <2>1, <2>3
  <2>4. CASE d = 5
    BY <1>1, <1>2, <2>1, <2>4
  <2> QED BY <2>2, <2>3, <2>4
<1>3. CASE n < 0
  <2>1. Quotient(n, d) = - ((- n) \div d) /\ - n \in Nat
    BY <1>1, <1>3 DEF Quotient
  <2>2. (- n) \div d \in Nat
    BY <2>1
  <2> QED BY <1>1, <1>3, <2>1, <2>2
<1> QED BY <1>1, <1>2, <1>3

(* What an answer has.                                                      *)
LEMMA AnswerIs ==
    ASSUME NEW a \in Answers
    PROVE  /\ a.kind \in {"unreachable", "refused", "garbled", "json", "text"}
           /\ a.kind \in {"json", "text"} => Or(a.tokens, 50) \in Int /\ Or(a.tokens, 40) \in Int
           /\ a.kind = "json" => Or(a.effort, 8) \in Int
           /\ a.kind = "text" => a.effort = NotGiven \/ a.effort \in 0..IntMax
<1>1. Numbers \subseteq Int
  BY InputsAssumption
<1>2. CASE a \in [kind : {"unreachable", "refused", "garbled"}]
  BY <1>2
<1>3. CASE a \in [kind : {"json"}, success : Fields(BOOLEAN), effort : Fields(Numbers),
                  tokens : Fields(Numbers)]
  <2>1. /\ a.kind = "json" /\ a.effort \in Int \cup {NotGiven}
        /\ a.tokens \in Int \cup {NotGiven}
    BY <1>1, <1>3 DEF Fields
  <2>2. Or(a.tokens, 50) \in Int /\ Or(a.tokens, 40) \in Int /\ Or(a.effort, 8) \in Int
    BY <2>1 DEF Or
  <2> QED BY <2>1, <2>2
<1>4. CASE a \in [kind : {"text"}, effort : Fields(Numbers \cap 0..IntMax),
                  tokens : Fields(Numbers)]
  <2>1. /\ a.kind = "text" /\ a.effort \in (0..IntMax) \cup {NotGiven}
        /\ a.tokens \in Int \cup {NotGiven}
    BY <1>1, <1>4 DEF Fields
  <2>2. Or(a.tokens, 50) \in Int /\ Or(a.tokens, 40) \in Int
    BY <2>1 DEF Or
  <2> QED BY <2>1, <2>2
<1> QED BY <1>2, <1>3, <1>4 DEF Answers

(* Whatever an endpoint answers, and whatever the setting is, an executor   *)
(* comes to an error, a failure or an effort that is a positive i32.        *)
LEMMA ResultsSound == \A r \in Results : Sound(r)
<1>1. IntHalf \in Nat /\ IntHalf > 10 /\ IntMax \in Nat /\ IntMax >= 10
  BY WidthAssumption DEF IntMax
<1>6. Sound(Result(TRUE, 8)) /\ Sound(Result(FALSE, 1)) /\ Sound(Result(TRUE, 10))
  <2>1. 8 \in 1..IntMax /\ 1 \in 1..IntMax /\ 10 \in 1..IntMax
    BY <1>1
  <2> QED BY <2>1 DEF Sound, Result
<1>2. Sound(ExecutorError)
  BY DEF Sound, ExecutorError
<1>3. ASSUME NEW setting \in Fields(Settings) PROVE Sound(Simulated(setting))
  <2>1. BaseEffort(setting) \in 1..IntMax
    BY <1>1, InputsAssumption DEF BaseEffort, Fields, Ints
  <2> QED BY <2>1, ResultSound DEF Simulated
<1>4. ASSUME NEW hasKey \in BOOLEAN, NEW a \in Answers PROVE Sound(OpenRouter(hasKey, a))
  <2>1. CASE ~ hasKey
    <3>1. OpenRouter(hasKey, a) = Result(TRUE, 8)
      BY <2>1 DEF OpenRouter
    <3> QED BY <1>6, <3>1
  <2>2. CASE hasKey /\ a.kind = "refused"
    <3>1. OpenRouter(hasKey, a) = Result(FALSE, 1)
      BY <2>2 DEF OpenRouter
    <3> QED BY <1>6, <3>1
  <2>3. CASE hasKey /\ a.kind \in {"unreachable", "garbled"}
    <3>1. OpenRouter(hasKey, a) = ExecutorError
      BY <2>3 DEF OpenRouter
    <3> QED BY <1>2, <3>1
  <2>4. CASE hasKey /\ a.kind = "json"
    <3> DEFINE e == AsInt(Or(a.effort, 8))
    <3>1. OpenRouter(hasKey, a) = Result(Or(a.success, TRUE), AtLeastThree(e))
      BY <2>4 DEF OpenRouter
    <3>2. e \in Ints
      BY <2>4, AnswerIs, AsIntIs
    <3> HIDE DEF e
    <3>3. AtLeastThree(e) \in 1..IntMax
      BY <1>1, <3>2 DEF AtLeastThree, Greatest, Ints
    <3> QED BY <3>1, <3>3, ResultSound
  <2>5. CASE hasKey /\ a.kind = "text"
    <3> DEFINE m == AsInt(Or(a.tokens, 50))
               e == Or(a.effort, Quotient(m, 5) + 5)
    <3>1. OpenRouter(hasKey, a) = Result(TRUE, AtLeastThree(e))
      BY <2>5 DEF OpenRouter
    <3>2. m \in Ints
      BY <2>5, AnswerIs, AsIntIs
    <3> HIDE DEF m
    <3>3. Quotient(m, 5) \in Int /\ 5 * Quotient(m, 5) <= IntMax
      BY <3>2, QuotientIs
    <3>4. e \in Int /\ e <= IntMax
      BY <1>1, <2>5, <3>3, AnswerIs DEF Or
    <3> HIDE DEF e
    <3>5. AtLeastThree(e) \in 1..IntMax
      BY <1>1, <3>4 DEF AtLeastThree, Greatest
    <3> QED BY <3>1, <3>5, ResultSound
  <2> QED BY <2>1, <2>2, <2>3, <2>4, <2>5, AnswerIs
<1>5. ASSUME NEW a \in Answers PROVE Sound(LocalLlm(a))
  <2>1. CASE a.kind \in {"json", "text"}
    <3> DEFINE m == AsInt(Or(a.tokens, 40))
    <3>1. LocalLlm(a) = Result(TRUE, Greatest(Quotient(m, 4), 5))
      BY <2>1 DEF LocalLlm
    <3>2. m \in Ints
      BY <2>1, AnswerIs, AsIntIs
    <3> HIDE DEF m
    <3>3. Quotient(m, 4) \in Int /\ 2 * Quotient(m, 4) <= IntMax
      BY <3>2, QuotientIs
    <3>4. Greatest(Quotient(m, 4), 5) \in 1..IntMax
      BY <1>1, <3>3 DEF Greatest
    <3> QED BY <3>1, <3>4, ResultSound
  <2>2. CASE a.kind \notin {"json", "text"}
    <3>1. LocalLlm(a) = Result(TRUE, 10)
      BY <2>2 DEF LocalLlm
    <3> QED BY <1>6, <3>1
  <2> QED BY <2>1, <2>2
<1> QED BY <1>3, <1>4, <1>5 DEF Results

-----------------------------------------------------------------------------
(* The events of executions.                                                *)
IntakeEvents == EventNames \X Ints

(* ExecutionsAccounted of any events, and none of those it is about first.  *)
StartAt(s, k, n) == k < n /\ s[k + 1][1] \in {"WorkItemCompleted", "WorkItemFailed"}
CompletionAt(s, k, n) ==
    /\ k > 1 /\ s[k][2] \in 1..IntMax /\ s[k - 1][1] = "WorkItemStarted"
    /\ k < n /\ s[k + 1][1] = "ProgressChunkEmitted"
    /\ s[k + 1][2] \in 1..s[k][2]
ChunkAt(s, k) == k > 1 /\ s[k - 1][1] = "WorkItemCompleted"
Accounted(s) ==
    \A k \in 1..Len(s) :
        /\ s[k][1] = "WorkItemStarted" => StartAt(s, k, Len(s))
        /\ s[k][1] = "WorkItemCompleted" => CompletionAt(s, k, Len(s))
        /\ s[k][1] = "ProgressChunkEmitted" => ChunkAt(s, k)

(* Events that are accounted for stay so behind others.                    *)
LEMMA AccountedJoin ==
    ASSUME NEW s \in Seq(IntakeEvents), NEW b \in Seq(IntakeEvents), Accounted(s), Accounted(b)
    PROVE  /\ Accounted(s \o b) /\ s \o b \in Seq(IntakeEvents)
           /\ Len(s \o b) = Len(s) + Len(b)
<1> DEFINE t == s \o b
           m == Len(s)
           n == Len(b)
<1>1. /\ t \in Seq(IntakeEvents) /\ Len(t) = m + n /\ m \in Nat /\ n \in Nat
      /\ \A k \in 1..(m + n) : t[k] = IF k <= m THEN s[k] ELSE b[k - m]
  BY ConcatProperties
<1> HIDE DEF t, m, n
<1>2. ASSUME NEW k \in 1..m
      PROVE  t[k] = s[k] /\ (k > 1 => t[k - 1] = s[k - 1]) /\ (k < m => t[k + 1] = s[k + 1])
  BY <1>1
<1>3. ASSUME NEW k \in 1..n
      PROVE  /\ t[m + k] = b[k] /\ (k > 1 => t[m + k - 1] = b[k - 1])
             /\ (k < n => t[m + k + 1] = b[k + 1])
  <2>1. t[m + k] = b[k]
    BY <1>1
  <2>2. ASSUME k > 1 PROVE t[m + k - 1] = b[k - 1]
    <3>1. m + k - 1 \in 1..(m + n) /\ ~ (m + k - 1 <= m) /\ (m + k - 1) - m = k - 1
      BY <1>1, <2>2
    <3> QED BY <1>1, <3>1
  <2>3. ASSUME k < n PROVE t[m + k + 1] = b[k + 1]
    <3>1. m + k + 1 \in 1..(m + n) /\ ~ (m + k + 1 <= m) /\ (m + k + 1) - m = k + 1
      BY <1>1, <2>3
    <3> QED BY <1>1, <3>1
  <2> QED BY <2>1, <2>2, <2>3
<1>4. ASSUME NEW k \in 1..Len(t)
      PROVE  /\ t[k][1] = "WorkItemStarted" => StartAt(t, k, Len(t))
             /\ t[k][1] = "WorkItemCompleted" => CompletionAt(t, k, Len(t))
             /\ t[k][1] = "ProgressChunkEmitted" => ChunkAt(t, k)
  <2>1. CASE k \in 1..m
    <3>1. /\ s[k][1] = "WorkItemStarted" => StartAt(s, k, m)
          /\ s[k][1] = "WorkItemCompleted" => CompletionAt(s, k, m)
          /\ s[k][1] = "ProgressChunkEmitted" => ChunkAt(s, k)
      BY <2>1 DEF Accounted, m
    <3>2. CompletionAt(s, k, m) => CompletionAt(t, k, Len(t))
      <4> SUFFICES ASSUME CompletionAt(s, k, m) PROVE CompletionAt(t, k, Len(t))
        OBVIOUS
      <4>1. t[k - 1] = s[k - 1] /\ t[k + 1] = s[k + 1] /\ t[k] = s[k] /\ k < Len(t)
        BY <1>1, <1>2, <2>1 DEF CompletionAt
      <4> QED BY <4>1 DEF CompletionAt
    <3>3. ChunkAt(s, k) => ChunkAt(t, k)
      BY <1>2, <2>1 DEF ChunkAt
    <3>4. StartAt(s, k, m) => StartAt(t, k, Len(t))
      BY <1>1, <1>2, <2>1 DEF StartAt
    <3> QED BY <1>2, <2>1, <3>1, <3>2, <3>3, <3>4
  <2>2. CASE k \notin 1..m
    <3> DEFINE j == k - m
    <3>1. j \in 1..n /\ k = m + j /\ k - 1 = m + j - 1 /\ k + 1 = m + j + 1
      BY <1>1, <2>2
    <3> HIDE DEF j
    <3>2. /\ b[j][1] = "WorkItemStarted" => StartAt(b, j, n)
          /\ b[j][1] = "WorkItemCompleted" => CompletionAt(b, j, n)
          /\ b[j][1] = "ProgressChunkEmitted" => ChunkAt(b, j)
      BY <3>1 DEF Accounted, n
    <3>3. Len(t) = m + n /\ (j > 1 => k > 1) /\ (j < n => k < m + n) /\ t[k] = b[j]
      BY <1>1, <1>3, <3>1
    <3>4. CompletionAt(b, j, n) => CompletionAt(t, k, Len(t))
      <4> SUFFICES ASSUME CompletionAt(b, j, n) PROVE CompletionAt(t, k, Len(t))
        OBVIOUS
      <4>1. t[k - 1] = b[j - 1] /\ t[k + 1] = b[j + 1] /\ k > 1 /\ k < Len(t)
        BY <1>3, <3>1, <3>3 DEF CompletionAt
      <4> QED BY <3>3, <4>1 DEF CompletionAt
    <3>5. ChunkAt(b, j) => ChunkAt(t, k)
      BY <1>3, <3>1, <3>3 DEF ChunkAt
    <3>6. StartAt(b, j, n) => StartAt(t, k, Len(t))
      BY <1>3, <3>1, <3>3 DEF StartAt
    <3> QED BY <3>2, <3>3, <3>4, <3>5, <3>6
  <2> QED BY <2>1, <2>2
<1>5. Accounted(t)
  BY <1>4 DEF Accounted
<1> QED BY <1>1, <1>5 DEF t, m, n

(* The events of a sound result are accounted for.                         *)
LEMMA EventsSound ==
    ASSUME NEW r, Sound(r)
    PROVE  EventsForExecution(r) \in Seq(IntakeEvents) /\ Accounted(EventsForExecution(r))
<1> DEFINE e == EventsForExecution(r)
<1>1. IntHalf \in Nat /\ IntHalf > 10 /\ IntMax \in Nat /\ 0 \in Ints /\ 1..IntMax \subseteq Ints
  BY WidthAssumption DEF IntMax, Ints
<1>2. CASE r.outcome = "success"
  <2> DEFINE f == r.effort
             c == ChunkEffort(f)
  <2>1. f \in 1..IntMax /\ f \in Ints
    BY <1>1, <1>2 DEF Sound
  <2> HIDE DEF f
  <2>2. c \in 1..f /\ c \in Ints
    BY <1>1, <2>1, QuotientIs DEF ChunkEffort, Greatest
  <2>3. e = << <<"WorkItemStarted", 0>>, <<"WorkItemCompleted", f>>,
               <<"ProgressChunkEmitted", c>> >>
    BY <1>2 DEF EventsForExecution, f
  <2> HIDE DEF c, e
  <2>4. /\ Len(e) = 3 /\ e[1] = <<"WorkItemStarted", 0>> /\ e[2] = <<"WorkItemCompleted", f>>
        /\ e[3] = <<"ProgressChunkEmitted", c>>
    BY <2>3
  <2>5. Accounted(e)
    BY <2>1, <2>2, <2>4 DEF Accounted, StartAt, CompletionAt, ChunkAt
  <2>6. e \in Seq(IntakeEvents)
    BY <1>1, <2>1, <2>2, <2>3 DEF IntakeEvents, EventNames
  <2> QED BY <2>5, <2>6 DEF e
<1>3. CASE r.outcome = "failure"
  <2>1. e = << <<"WorkItemStarted", 0>>, <<"WorkItemFailed", 0>> >>
    BY <1>3 DEF EventsForExecution
  <2> HIDE DEF e
  <2>2. Len(e) = 2 /\ e[1] = <<"WorkItemStarted", 0>> /\ e[2] = <<"WorkItemFailed", 0>>
    BY <2>1
  <2>3. Accounted(e)
    BY <2>2 DEF Accounted, StartAt
  <2>4. e \in Seq(IntakeEvents)
    BY <1>1, <2>1 DEF IntakeEvents, EventNames
  <2> QED BY <2>3, <2>4 DEF e
<1>4. CASE r.outcome = "error"
  <2>1. e = << <<"WorkItemFailed", 0>> >>
    BY <1>4 DEF EventsForExecution
  <2> HIDE DEF e
  <2>2. Len(e) = 1 /\ e[1] = <<"WorkItemFailed", 0>>
    BY <2>1
  <2>3. Accounted(e)
    BY <2>2 DEF Accounted
  <2>4. e \in Seq(IntakeEvents)
    BY <1>1, <2>1 DEF IntakeEvents, EventNames
  <2> QED BY <2>3, <2>4 DEF e
<1> QED BY <1>2, <1>3, <1>4 DEF Sound

-----------------------------------------------------------------------------
(* The invariant: there are no events before the plan, the plan is that of  *)
(* the request, and executions add their events behind it.                  *)
Plan == AssignItems(Decompose(request.words, TargetItems), AgentCount)

IntakeInv ==
    /\ request \in [words : Words, items : Fields(Counts), agents : Fields(Counts)]
    /\ \/ items = <<>> /\ events = <<>>
       \/ items = Plan /\ events # <<>>
    /\ events \in Seq(IntakeEvents)
    /\ Accounted(events)

(* The invariant holds at the start.                                       *)
LEMMA IntakeInit == Init => IntakeInv
<1> SUFFICES ASSUME Init PROVE IntakeInv
  OBVIOUS
<1>1. events = <<>> /\ events \in Seq(IntakeEvents) /\ Len(events) = 0
  BY DEF Init
<1>2. Accounted(events)
  BY <1>1 DEF Accounted
<1> QED BY <1>1, <1>2 DEF Init, IntakeInv

(* The plan of the request.                                                 *)
LEMMA PlanOfRequest ==
    ASSUME IntakeInv
    PROVE  /\ IsPlan(Plan, request.words, TargetItems, AgentCount)
           /\ request.words \in Nat /\ TargetItems \in 1..MaxItems /\ AgentCount \in 1..MaxAgents
           /\ request.items \in 1..MaxItems => TargetItems = request.items
<1>1. /\ request.words \in Nat /\ TargetItems \in 1..MaxItems /\ AgentCount \in 1..MaxAgents
      /\ request.items \in 1..MaxItems => TargetItems = request.items
  BY CountsAre DEF IntakeInv
<1> QED BY <1>1, PlanIs DEF Plan

(* An item of a plan has its words and an agent that exists.               *)
LEMMA ItemTyped ==
    ASSUME NEW n \in Nat, NEW w \in Nat, w > 0, NEW agents \in Nat, agents > 0,
           NEW L \in Nat, n > 0 => (L - 1) * w < n, NEW k \in 1..L
    PROVE  /\ Item(n, w, agents, k) \in [first : Nat, last : Nat, agent : Nat]
           /\ Item(n, w, agents, k).agent \in 1..agents
<1>1. AgentOf(k, agents) \in 1..agents
  <2>1. k \in Nat /\ k > 0 /\ 1 \in 1..agents
    OBVIOUS
  <2> QED BY <2>1, AgentIs
<1>2. n > 0 => Chunk(n, w, k).first \in Nat /\ Chunk(n, w, k).last \in Nat
  BY ChunkIs
<1> QED BY <1>1, <1>2 DEF Item

(* What a plan is to the properties: its items, one by one.                 *)
LEMMA PlanItems ==
    ASSUME IntakeInv
    PROVE  \E w \in Nat, L \in 1..TargetItems :
              /\ w > 0 /\ Len(Plan) = L /\ DOMAIN Plan = 1..L /\ Plan # <<>>
              /\ request.words > 0 =>
                    /\ (w - 1) * TargetItems < request.words
                    /\ (L - 1) * w < request.words /\ request.words <= L * w
              /\ \A k \in 1..L : Plan[k] = Item(request.words, w, AgentCount, k)
              /\ Plan \in Seq([first : Nat, last : Nat, agent : Nat])
              /\ \A k \in 1..L : Plan[k].agent \in 1..AgentCount
<1>1. PICK w \in Nat, L \in 1..TargetItems :
        /\ w > 0
        /\ request.words > 0 => /\ (w - 1) * TargetItems < request.words
                                /\ (L - 1) * w < request.words /\ request.words <= L * w
        /\ Plan = [k \in 1..L |-> Item(request.words, w, AgentCount, k)]
  BY PlanOfRequest DEF IsPlan
<1>2. L \in Nat /\ L > 0 /\ request.words \in Nat /\ AgentCount \in Nat /\ AgentCount > 0
  BY PlanOfRequest, PlannerAssumption
<1> DEFINE it(k) == Item(request.words, w, AgentCount, k)
           R == [first : Nat, last : Nat, agent : Nat]
<1>3. \A k \in 1..L : it(k) \in R /\ it(k).agent \in 1..AgentCount
  BY <1>1, <1>2, ItemTyped
<1> HIDE DEF it, R
<1>4. Plan = [k \in 1..L |-> it(k)]
  BY <1>1 DEF it
<1>5. Plan \in Seq(R) /\ Len(Plan) = L /\ DOMAIN Plan = 1..L
  BY <1>2, <1>3, <1>4
<1>6. \A k \in 1..L : Plan[k] = it(k)
  BY <1>4
<1>7. Plan # <<>>
  BY <1>2, <1>5
<1> QED BY <1>1, <1>3, <1>5, <1>6, <1>7 DEF it, R

(* Every step keeps the invariant.                                         *)
LEMMA IntakeStep == IntakeInv /\ [Next]_vars => IntakeInv'
<1> SUFFICES ASSUME IntakeInv, [Next]_vars PROVE IntakeInv'
  OBVIOUS
<1>1. CASE StartRun
  <2>1. /\ request' = request /\ items' = Plan
        /\ events' = << <<"RunStarted", 0>> >>
                     \o [k \in DOMAIN Plan |-> <<"WorkItemAssigned", Plan[k].agent>>]
    BY <1>1 DEF StartRun, Plan
  <2>2. Plan' = Plan
    BY <2>1 DEF Plan, TargetItems, AgentCount
  <2> DEFINE s == << <<"RunStarted", 0>> >>
             b == [k \in DOMAIN Plan |-> <<"WorkItemAssigned", Plan[k].agent>>]
  <2>3. PICK L \in Nat : DOMAIN Plan = 1..L /\ \A k \in 1..L : Plan[k].agent \in 1..AgentCount
    BY PlanItems, PlanOfRequest
  <2>4. 0 \in Ints /\ 1..AgentCount \subseteq Ints
    BY WidthAssumption, InputsAssumption, PlanOfRequest, PlannerAssumption DEF Ints, IntMax
  <2>5. s \in Seq(IntakeEvents) /\ Len(s) = 1 /\ s[1][1] = "RunStarted"
    BY <2>4 DEF IntakeEvents, EventNames
  <2>6. /\ b \in Seq(IntakeEvents) /\ Len(b) = L
        /\ \A k \in 1..L : b[k][1] = "WorkItemAssigned"
    BY <2>3, <2>4 DEF IntakeEvents, EventNames
  <2> HIDE DEF s, b
  <2>7. Accounted(s) /\ Accounted(b)
    BY <2>5, <2>6 DEF Accounted
  <2>8. Accounted(s \o b) /\ s \o b \in Seq(IntakeEvents)
    BY <2>5, <2>6, <2>7, AccountedJoin
  <2>9. s \o b # <<>>
    <3>1. Len(s \o b) = 1 + L
      BY <2>5, <2>6, <2>7, AccountedJoin
    <3> QED BY <2>3, <3>1
  <2>10. events' = s \o b
    BY <2>1 DEF s, b
  <2> QED BY <2>1, <2>2, <2>8, <2>9, <2>10 DEF IntakeInv
<1>2. ASSUME NEW result \in Results, ExecuteItem(result) PROVE IntakeInv'
  <2>1. /\ request' = request /\ items' = items /\ items # <<>>
        /\ events' = events \o EventsForExecution(result)
    BY <1>2 DEF ExecuteItem
  <2>2. Plan' = Plan
    BY <2>1 DEF Plan, TargetItems, AgentCount
  <2> DEFINE b == EventsForExecution(result)
  <2>3. b \in Seq(IntakeEvents) /\ Accounted(b)
    BY ResultsSound, EventsSound
  <2> HIDE DEF b
  <2>4. events \in Seq(IntakeEvents) /\ Accounted(events) /\ events # <<>> /\ items = Plan
    BY <2>1 DEF IntakeInv
  <2>5. Accounted(events \o b) /\ events \o b \in Seq(IntakeEvents)
    BY <2>3, <2>4, AccountedJoin
  <2>6. events \o b # <<>>
    BY <2>3, <2>4
  <2> QED BY <2>1, <2>2, <2>4, <2>5, <2>6 DEF IntakeInv, b
<1>3. CASE UNCHANGED vars
  BY <1>3 DEF vars, IntakeInv, Plan, TargetItems, AgentCount
<1> QED BY <1>1, <1>2, <1>3 DEF Next

(* The invariant holds in every reachable state.                           *)
LEMMA IntakeHolds == Spec => []IntakeInv
  BY IntakeInit, IntakeStep, PTL DEF Spec

-----------------------------------------------------------------------------
(* The types: every number an event carries is an i32, whatever an endpoint *)
(* answers.                                                                 *)
THEOREM IntakeTyped == Spec => []TypeOK
<1>1. IntakeInv => TypeOK
  BY PlanItems DEF IntakeInv, TypeOK, IntakeEvents
<1> QED BY <1>1, IntakeHolds, PTL

(* decompose_objective_with_target loses no word of the objective, repeats  *)
(* none and keeps their order, for every objective and number of items.     *)
THEOREM WordsAreKept == Spec => []EveryWordOnce
<1>1. IntakeInv => EveryWordOnce
  <2> SUFFICES ASSUME IntakeInv, items # <<>>, request.words > 0
               PROVE  /\ FlattenSeq([k \in DOMAIN items |-> Text(k)])
                           = [i \in 1..request.words |-> i]
                      /\ \A k \in DOMAIN items : Text(k) # <<>>
    BY DEF EveryWordOnce
  <2> DEFINE n == request.words
  <2>1. items = Plan /\ n \in Nat
    BY PlanOfRequest DEF IntakeInv
  <2>2. PICK w \in Nat, L \in 1..TargetItems :
          /\ w > 0 /\ DOMAIN Plan = 1..L
          /\ (L - 1) * w < n /\ n <= L * w
          /\ \A k \in 1..L : Plan[k] = Item(n, w, AgentCount, k)
    BY PlanItems
  <2>3. L \in Nat /\ L > 0
    BY PlanOfRequest
  <2>4. \A k \in 1..L : Text(k) = WordsOf(Chunk(n, w, k).first, Chunk(n, w, k).last)
    BY <2>1, <2>2 DEF Text, WordsOf, Item
  <2>5. [k \in DOMAIN items |-> Text(k)]
          = [k \in 1..L |-> WordsOf(Chunk(n, w, k).first, Chunk(n, w, k).last)]
    BY <2>1, <2>2, <2>4
  <2> HIDE DEF n
  <2>6. n > 0
    BY DEF n
  <2>7. FlattenSeq([k \in DOMAIN items |-> Text(k)]) = Count123(n)
    BY <2>1, <2>2, <2>3, <2>5, <2>6, PlanHasWords
  <2>8. ASSUME NEW k \in 1..L PROVE Text(k) # <<>>
    <3> DEFINE f == Chunk(n, w, k).first
               l == Chunk(n, w, k).last
    <3>1. f \in Nat /\ l \in Nat /\ f <= l
      BY <2>1, <2>2, <2>3, ChunkIs
    <3>2. Text(k) = WordsOf(f, l)
      BY <2>4
    <3> HIDE DEF f, l
    <3>3. Len(WordsOf(f, l)) = l - f + 1 /\ l - f + 1 # 0
      BY <3>1 DEF WordsOf
    <3> QED BY <3>2, <3>3
  <2> QED BY <2>1, <2>2, <2>7, <2>8 DEF Count123, n
<1> QED BY <1>1, IntakeHolds, PTL

(* A run has an item at least, at most as many as were asked for and the    *)
(* planner allows, and none longer than that number makes necessary.        *)
THEOREM PlansFit == Spec => []PlanFits
<1>1. IntakeInv => PlanFits
  <2> SUFFICES ASSUME IntakeInv, items # <<>> \/ events # <<>>
               PROVE  /\ Len(items) \in 1..Least(TargetItems, MaxItems)
                      /\ request.items \in 1..MaxItems => Len(items) <= request.items
                      /\ \A k \in DOMAIN items : (Len(Text(k)) - 1) * TargetItems < request.words
    BY DEF PlanFits
  <2> DEFINE n == request.words
  <2>1. items = Plan /\ n \in Nat /\ TargetItems \in 1..MaxItems
    BY PlanOfRequest DEF IntakeInv
  <2>2. PICK w \in Nat, L \in 1..TargetItems :
          /\ w > 0 /\ DOMAIN Plan = 1..L /\ Len(Plan) = L
          /\ n > 0 => (w - 1) * TargetItems < n /\ (L - 1) * w < n
          /\ \A k \in 1..L : Plan[k] = Item(n, w, AgentCount, k)
    BY PlanItems
  <2>3. Len(items) \in 1..Least(TargetItems, MaxItems) /\ Len(items) <= TargetItems
    BY <2>1, <2>2, PlannerAssumption DEF Least
  <2>4. ASSUME NEW k \in 1..L PROVE (Len(Text(k)) - 1) * TargetItems < n
    <3>1. CASE n > 0
      <4> DEFINE f == Chunk(n, w, k).first
                 l == Chunk(n, w, k).last
      <4>1. f \in Nat /\ l \in Nat /\ f <= l /\ l - f < w
        <5>1. L \in Nat /\ n \in Nat /\ (L - 1) * w < n
          BY <2>1, <2>2, <3>1
        <5> HIDE DEF n
        <5> QED BY <2>2, <5>1, ChunkIs
      <4>2. Text(k) = WordsOf(f, l)
        BY <2>1, <2>2, <3>1 DEF Text, WordsOf, Item
      <4> HIDE DEF f, l
      <4>3. Len(Text(k)) = l - f + 1
        BY <4>1, <4>2 DEF WordsOf
      <4>4. l - f \in Nat /\ w - 1 \in Nat /\ l - f <= w - 1 /\ TargetItems \in Nat
        BY <2>1, <4>1
      <4>5. (l - f) * TargetItems <= (w - 1) * TargetItems /\ (l - f) * TargetItems \in Nat
        BY <4>4, Times
      <4>6. Len(Text(k)) - 1 = l - f /\ (w - 1) * TargetItems \in Nat
        BY <4>3, <4>4
      <4> QED BY <2>1, <2>2, <3>1, <4>5, <4>6
    <3>2. CASE n = 0
      <4>1. Text(k) = [i \in 1..0 |-> 1 + i - 1]
        BY <2>1, <2>2, <3>2 DEF Text, Item
      <4>2. Len(Text(k)) = 0
        BY <4>1
      <4> QED BY <2>1, <3>2, <4>2
    <3> QED BY <2>1, <3>1, <3>2
  <2> QED BY <2>1, <2>2, <2>3, <2>4, PlanOfRequest
<1> QED BY <1>1, IntakeHolds, PTL

(* assign_items gives every agent of the run its share.                     *)
THEOREM LoadsAreBalanced == Spec => []LoadsBalanced
<1>1. IntakeInv => LoadsBalanced
  <2> SUFFICES ASSUME IntakeInv PROVE LoadsBalanced
    OBVIOUS
  <2>1. CASE items = <<>>
    <3>1. \A a : Load(a) = 0
      BY <2>1, FS_EmptySet DEF Load
    <3> QED BY <2>1, <3>1 DEF LoadsBalanced
  <2>2. CASE items = Plan
    <3>1. PICK w \in Nat, L \in 1..TargetItems :
            /\ DOMAIN Plan = 1..L
            /\ \A k \in 1..L : Plan[k] = Item(request.words, w, AgentCount, k)
            /\ \A k \in 1..L : Plan[k].agent \in 1..AgentCount
      BY PlanItems
    <3>2. L \in Nat /\ AgentCount \in Nat
      BY PlanOfRequest, PlannerAssumption
    <3>3. ASSUME NEW a \in 1..AgentCount, NEW b \in 1..AgentCount PROVE Load(a) - Load(b) <= 1
      <4>1. \A c : Load(c) = Cardinality(ItemsOf(L, AgentCount, c))
        <5>1. \A k \in 1..L : items[k].agent = AgentOf(k, AgentCount)
          BY <2>2, <3>1 DEF Item
        <5>2. \A c : {k \in DOMAIN items : items[k].agent = c} = ItemsOf(L, AgentCount, c)
          BY <2>2, <3>1, <5>1 DEF ItemsOf
        <5> QED BY <5>2 DEF Load
      <4>2. Load(a) <= Load(b) + 1
        BY <3>2, <4>1, Shares
      <4>3. ASSUME NEW c PROVE Load(c) \in Nat
        <5>1. IsFiniteSet(1..L) /\ ItemsOf(L, AgentCount, c) \in SUBSET (1..L)
          BY <3>2, FS_Interval DEF ItemsOf
        <5> QED BY <4>1, <5>1, FS_Subset, FS_CardinalityType
      <4>4. Load(a) \in Nat /\ Load(b) \in Nat
        BY <4>3
      <4> QED BY <4>2, <4>4
    <3> QED BY <2>2, <3>1, <3>3 DEF LoadsBalanced
  <2> QED BY <2>1, <2>2 DEF IntakeInv
<1> QED BY <1>1, IntakeHolds, PTL

(* Whatever an endpoint answers, an execution leaves one of three lists of  *)
(* events - started, completed and a chunk; started and failed; failed -    *)
(* its effort is positive, and the chunk is positive and no more than the   *)
(* effort.                                                                  *)
THEOREM ExecutionsAreAccounted == Spec => []ExecutionsAccounted
<1>1. IntakeInv => ExecutionsAccounted
  <2> SUFFICES ASSUME IntakeInv PROVE ExecutionsAccounted
    OBVIOUS
  <2>1. DOMAIN events = 1..Len(events) /\ Accounted(events)
    BY DEF IntakeInv
  <2> QED BY <2>1 DEF ExecutionsAccounted, Accounted, StartAt, CompletionAt, ChunkAt
<1> QED BY <1>1, IntakeHolds, PTL

=============================================================================
