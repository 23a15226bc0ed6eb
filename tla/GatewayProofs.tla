--------------------------- MODULE GatewayProofs ---------------------------
(***************************************************************************)
(* Proofs about Gateway: its types, the order of what a client is given,   *)
(* the events a greeted client may not miss, and that it implements        *)
(* EventFeed; for any handlers, clients, capacity and bounds.              *)
(***************************************************************************)
EXTENDS Gateway, TLAPS

-----------------------------------------------------------------------------
(* What the proofs say of sequences.  S is what entered the channel, g what *)
(* a client was given.                                                      *)
Distinct(S) == \A p, q \in 1..Len(S) : S[p] = S[q] => p = q

(* g are events of S from positions below n, in the order of S.             *)
Received(g, S, n) ==
    /\ \A i \in 1..Len(g) : \E p \in 1..Len(S) : g[i] = S[p]
    /\ \A i \in 1..Len(g), p \in 1..Len(S) : g[i] = S[p] => p < n
    /\ \A i, j \in 1..Len(g), p, q \in 1..Len(S) :
          i < j /\ g[i] = S[p] /\ g[j] = S[q] => p < q

(* g has the events of S from position a to position b.                     *)
HasAll(g, S, a, b) == \A p \in a..b : \E i \in 1..Len(g) : g[i] = S[p]

(* Append puts one element behind the others, which stay where they are.   *)
LEMMA AppendIs ==
    ASSUME NEW T, NEW s \in Seq(T), NEW e \in T
    PROVE  /\ Append(s, e) \in Seq(T) /\ Len(Append(s, e)) = Len(s) + 1 /\ Len(s) \in Nat
           /\ \A k \in 1..Len(s) : Append(s, e)[k] = s[k] /\ k \in 1..(Len(s) + 1)
           /\ Append(s, e)[Len(s) + 1] = e /\ Len(s) + 1 \in 1..(Len(s) + 1)
           /\ \A k \in 1..(Len(s) + 1) : k \in 1..Len(s) \/ k = Len(s) + 1
  OBVIOUS

(* What a client was given of a stream it was given of the longer stream.  *)
LEMMA ReceivedGrows ==
    ASSUME NEW T, NEW S \in Seq(T), NEW e \in T, NEW g \in Seq(T), NEW n \in Int,
           Distinct(Append(S, e)), Received(g, S, n)
    PROVE  Received(g, Append(S, e), n)
<1> DEFINE U == Append(S, e)
<1>1. /\ Len(U) = Len(S) + 1 /\ Len(S) \in Nat
      /\ \A k \in 1..Len(S) : U[k] = S[k] /\ k \in 1..Len(U)
  BY AppendIs
<1> HIDE DEF U
<1>2. Distinct(U)
  BY DEF U
<1>3. \A i \in 1..Len(g) : \E p \in 1..Len(U) : g[i] = U[p]
  BY <1>1 DEF Received
(* An event of g has one place in U, the one it had in S.                   *)
<1>4. ASSUME NEW i \in 1..Len(g), NEW p \in 1..Len(U), g[i] = U[p]
      PROVE  p \in 1..Len(S) /\ g[i] = S[p]
  <2>1. PICK q \in 1..Len(S) : g[i] = S[q]
    BY DEF Received
  <2>2. q = p
    BY <1>1, <1>2, <1>4, <2>1 DEF Distinct
  <2> QED BY <2>1, <2>2
<1>5. Received(g, U, n)
  BY <1>3, <1>4 DEF Received
<1> QED BY <1>5 DEF U

(* The next event of the stream may be given to the client.                *)
LEMMA ReceivedNext ==
    ASSUME NEW T, NEW S \in Seq(T), NEW g \in Seq(T), NEW n \in 1..Len(S),
           Distinct(S), Received(g, S, n)
    PROVE  Received(Append(g, S[n]), S, n + 1)
<1> DEFINE h == Append(g, S[n])
<1>1. S[n] \in T /\ Len(S) \in Nat
  OBVIOUS
<1>2. /\ Len(h) = Len(g) + 1 /\ Len(g) \in Nat
      /\ \A k \in 1..Len(g) : h[k] = g[k]
      /\ h[Len(g) + 1] = S[n]
      /\ \A k \in 1..Len(h) : k \in 1..Len(g) \/ k = Len(g) + 1
  BY <1>1, AppendIs
<1> HIDE DEF h
<1>3. ASSUME NEW i \in 1..Len(h) PROVE \E p \in 1..Len(S) : h[i] = S[p]
  BY <1>2 DEF Received
<1>4. ASSUME NEW i \in 1..Len(h), NEW p \in 1..Len(S), h[i] = S[p]
      PROVE  IF i \in 1..Len(g) THEN g[i] = S[p] /\ p < n ELSE i = Len(g) + 1 /\ p = n
  BY <1>2, <1>4 DEF Received, Distinct
<1>5. ASSUME NEW i \in 1..Len(h), NEW p \in 1..Len(S), h[i] = S[p] PROVE p < n + 1
  BY <1>1, <1>4, <1>5
<1>6. ASSUME NEW i \in 1..Len(h), NEW j \in 1..Len(h),
             NEW p \in 1..Len(S), NEW q \in 1..Len(S), i < j, h[i] = S[p], h[j] = S[q]
      PROVE  p < q
  BY <1>2, <1>4, <1>6 DEF Received
<1>7. Received(h, S, n + 1)
  BY <1>3, <1>5, <1>6 DEF Received
<1> QED BY <1>7 DEF h

(* A client that missed nothing has missed nothing when the stream grows.  *)
LEMMA HasAllGrows ==
    ASSUME NEW T, NEW S \in Seq(T), NEW e \in T, NEW g \in Seq(T), NEW a \in Nat, NEW b \in Int,
           0 < a, b <= Len(S), HasAll(g, S, a, b)
    PROVE  HasAll(g, Append(S, e), a, b)
  BY AppendIs DEF HasAll

(* With the next event it has missed nothing up to that one either.        *)
LEMMA HasAllNext ==
    ASSUME NEW T, NEW S \in Seq(T), NEW g \in Seq(T), NEW a \in Int, NEW n \in 1..Len(S),
           HasAll(g, S, a, n - 1)
    PROVE  HasAll(Append(g, S[n]), S, a, n)
<1> DEFINE h == Append(g, S[n])
<1>1. S[n] \in T /\ Len(S) \in Nat
  OBVIOUS
<1>2. /\ Len(h) = Len(g) + 1 /\ Len(g) \in Nat
      /\ \A k \in 1..Len(g) : h[k] = g[k] /\ k \in 1..Len(h)
      /\ h[Len(g) + 1] = S[n] /\ Len(g) + 1 \in 1..Len(h)
  BY <1>1, AppendIs
<1> HIDE DEF h
<1>3. ASSUME NEW p \in a..n PROVE \E i \in 1..Len(h) : h[i] = S[p]
  <2>1. CASE p = n
    BY <1>2, <2>1
  <2>2. CASE p # n
    <3>1. p \in a..(n - 1)
      BY <1>1, <2>2
    <3>2. PICK i \in 1..Len(g) : g[i] = S[p]
      BY <3>1 DEF HasAll
    <3> QED BY <1>2, <3>2
  <2> QED BY <2>1, <2>2
<1>4. HasAll(h, S, a, n)
  BY <1>3 DEF HasAll
<1> QED BY <1>4 DEF h

(* Positions that share a slot are the size of the ring apart.              *)
LEMMA SlotsApart ==
    ASSUME NEW a \in Nat, NEW b \in Nat, a > b, Slot(a) = Slot(b)
    PROVE  a >= b + Capacity
<1>1. Capacity \in Nat /\ Capacity > 0
  BY CapacityAssumption
<1>2. PICK q \in Int, r \in Int : a = Capacity * q + r /\ r = a % Capacity
  BY <1>1
<1>3. PICK u \in Int, t \in Int : b = Capacity * u + t /\ t = b % Capacity
  BY <1>1
<1>7. r = t
  BY <1>2, <1>3 DEF Slot
<1>4. a - b = Capacity * (q - u)
  BY <1>1, <1>2, <1>3, <1>7
<1>5. q - u >= 1
  BY <1>1, <1>4
<1>6. Capacity * (q - u) >= Capacity
  BY <1>1, <1>5
<1> QED BY <1>1, <1>4, <1>6

-----------------------------------------------------------------------------
(* The invariant.                                                           *)

(* The events of an append share the first revision of it.  What a handler  *)
(* still has to broadcast is in order, of a batch no other handler has, and *)
(* behind everything of that batch that entered the channel.                *)
BatchInv ==
    /\ \A r \in 1..Len(log) : log[r] \in 1..r
    /\ \A h \in Handlers : \A i \in 1..Len(todo[h]) : todo[h][i] \in 1..Len(log)
    /\ \A h \in Handlers : \A i, j \in 1..Len(todo[h]) : i < j => todo[h][i] < todo[h][j]
    /\ \A h, k \in Handlers : h # k =>
          \A i \in 1..Len(todo[h]), j \in 1..Len(todo[k]) : log[todo[h][i]] # log[todo[k][j]]
    /\ \A p \in 1..Len(sent) : sent[p] \in 1..Len(log)
    /\ \A p, q \in 1..Len(sent) : p < q /\ log[sent[p]] = log[sent[q]] => sent[p] < sent[q]
    /\ \A p \in 1..Len(sent) : \A h \in Handlers : \A i \in 1..Len(todo[h]) :
          log[sent[p]] = log[todo[h][i]] => sent[p] < todo[h][i]

(* A slot that is not empty holds what entered at its position.             *)
RingInv ==
    \A s \in 0..(Capacity - 1) : ring[s].pos # 0 =>
        /\ ring[s].pos \in 1..Len(sent)
        /\ Slot(ring[s].pos) = s
        /\ ring[s].event = sent[ring[s].pos]

(* One client: l is where its task is, n its position, e what it is about   *)
(* to be sent, o and b its connection and inbox, g what it was given, a the *)
(* events sent before it was greeted, and lost tells whether it has lagged. *)
Fine(l, n, e, o, b, g, a, lost, S) ==
    LET read == IF l = "sending" THEN n - 1 ELSE n IN
    /\ o = "open" => b <= MaxInbox
    /\ l \in {"hello", "select", "sending"} => n \in 1..(Len(S) + 1)
    /\ l = "sending" => n > 1 /\ e = S[n - 1]
    /\ l \in {"away", "hello"} => g = <<>>
    /\ Received(g, S, read)
    /\ l \in {"select", "sending"} /\ ~ lost => HasAll(g, S, a + 1, read - 1)

ClientInv ==
    \A c \in Clients : Fine(task[c], next[c], sending[c], socket[c], inbox[c],
                            got[c], hello[c], lagged[c], sent)

FeedInv == TypeOK /\ BatchInv /\ RingInv /\ ClientInv

-----------------------------------------------------------------------------
(* Each event enters the channel once.                                      *)
LEMMA OrderedOnce ==
    ASSUME NEW L, NEW S, \A p \in 1..Len(S) : S[p] \in 1..Len(L),
           \A p, q \in 1..Len(S) : p < q /\ L[S[p]] = L[S[q]] => S[p] < S[q]
    PROVE  Distinct(S)
<1> SUFFICES ASSUME NEW p \in 1..Len(S), NEW q \in 1..Len(S), S[p] = S[q]
             PROVE  p = q
  BY DEF Distinct
<1>1. S[p] \in Int /\ p \in Int /\ q \in Int
  OBVIOUS
<1>2. ~ (p < q) /\ ~ (q < p)
  BY <1>1
<1> QED BY <1>1, <1>2

(* No event is broadcast twice.                                            *)
LEMMA SentOnce == BatchInv => Distinct(sent)
  BY OrderedOnce DEF BatchInv

(* A client is as well off when the stream grows behind it.                *)
LEMMA FineGrows ==
    ASSUME NEW T, NEW S \in Seq(T), NEW f \in T, Distinct(Append(S, f)),
           NEW l, NEW n \in Nat, NEW e, NEW o, NEW b, NEW g \in Seq(T), NEW a \in Nat, NEW lost,
           Fine(l, n, e, o, b, g, a, lost, S)
    PROVE  Fine(l, n, e, o, b, g, a, lost, Append(S, f))
<1> DEFINE U    == Append(S, f)
           read == IF l = "sending" THEN n - 1 ELSE n
<1>1. /\ Len(U) = Len(S) + 1 /\ Len(S) \in Nat
      /\ \A k \in 1..Len(S) : U[k] = S[k]
  BY AppendIs
<1>2. read \in Int /\ Received(g, S, read)
  BY DEF Fine
<1> HIDE DEF read
<1>3. Received(g, U, read)
  BY <1>2, ReceivedGrows
<1>4. ASSUME l \in {"select", "sending"}, ~ lost PROVE HasAll(g, U, a + 1, read - 1)
  <2>1. HasAll(g, S, a + 1, read - 1) /\ n \in 1..(Len(S) + 1)
    BY <1>4 DEF Fine, read
  <2>2. read - 1 \in Int /\ read - 1 <= Len(S)
    BY <1>1, <2>1 DEF read
  <2> QED BY <2>1, <2>2, HasAllGrows
<1> HIDE DEF U
<1>5. l = "sending" => n > 1 /\ e = U[n - 1]
  <2>1. ASSUME l = "sending" PROVE n > 1 /\ e = S[n - 1] /\ n - 1 \in 1..Len(S)
    BY <1>1, <2>1 DEF Fine
  <2> QED BY <1>1, <2>1
<1>6. Fine(l, n, e, o, b, g, a, lost, U)
  <2>1. l \in {"hello", "select", "sending"} => n \in 1..(Len(U) + 1)
    BY <1>1 DEF Fine
  <2> QED BY <1>3, <1>4, <1>5, <2>1 DEF Fine, read
<1> QED BY <1>6 DEF U

(* The invariant holds at the start.                                       *)
LEMMA FeedInit == Init => FeedInv
<1> SUFFICES ASSUME Init PROVE FeedInv
  OBVIOUS
<1> USE CapacityAssumption, FeedBoundsAssumption
<1>1. TypeOK
  BY DEF Init, TypeOK
<1>2. BatchInv
  BY DEF Init, BatchInv
<1>3. RingInv
  BY DEF Init, RingInv
<1>4. \A S : Received(<<>>, S, 0)
  BY DEF Received
<1>5. ClientInv
  BY <1>4 DEF Init, ClientInv, Fine
<1> QED BY <1>1, <1>2, <1>3, <1>5 DEF FeedInv

(* A client of whom nothing changes.                                        *)
LEMMA OtherClients ==
    ASSUME FeedInv, NEW c \in Clients, UNCHANGED sent,
           /\ task'[c] = task[c] /\ next'[c] = next[c] /\ sending'[c] = sending[c]
           /\ socket'[c] = socket[c] /\ inbox'[c] = inbox[c] /\ got'[c] = got[c]
           /\ hello'[c] = hello[c] /\ lagged'[c] = lagged[c]
    PROVE  Fine(task'[c], next'[c], sending'[c], socket'[c], inbox'[c],
                got'[c], hello'[c], lagged'[c], sent')
  BY DEF FeedInv, ClientInv

-----------------------------------------------------------------------------
(* Writers.                                                                 *)
NewLog(n) == log \o [i \in 1..n |-> Len(log) + 1]

(* M is log L and n events of one append behind it.                         *)
Longer(L, M, n) ==
    /\ Len(L) \in Nat /\ n \in Nat /\ Len(M) = Len(L) + n
    /\ \A r \in 1..Len(L) : M[r] = L[r] /\ r \in 1..Len(M)
    /\ \A i \in 1..n : M[Len(L) + i] = Len(L) + 1 /\ Len(L) + i \in 1..Len(M)
    /\ \A r \in 1..Len(M) : r \in 1..Len(L) \/ \E i \in 1..n : r = Len(L) + i

(* The log with one more batch of n events.                                *)
LEMMA NewLogIs ==
    ASSUME TypeOK, NEW n \in 1..MaxBatch
    PROVE  NewLog(n) \in Seq(Nat \ {0}) /\ Longer(log, NewLog(n), n)
<1>1. Len(log) \in Nat /\ n \in Nat /\ log \in Seq(Nat \ {0})
  BY FeedBoundsAssumption DEF TypeOK
<1> DEFINE b == [i \in 1..n |-> Len(log) + 1]
           M == log \o b
<1>2. b \in Seq(Nat \ {0}) /\ Len(b) = n /\ \A i \in 1..n : b[i] = Len(log) + 1
  BY <1>1
<1> HIDE DEF b
<1>3. /\ M \in Seq(Nat \ {0}) /\ Len(M) = Len(log) + n
      /\ \A r \in 1..Len(log) : M[r] = log[r]
      /\ \A i \in 1..n : M[Len(log) + i] = b[i]
  BY <1>1, <1>2
<1> HIDE DEF M
<1>4. ASSUME NEW r \in 1..Len(M), r \notin 1..Len(log)
      PROVE  \E i \in 1..n : r = Len(log) + i
  <2>1. r - Len(log) \in 1..n /\ r = Len(log) + (r - Len(log))
    BY <1>1, <1>3, <1>4
  <2> QED BY <2>1
<1>5. /\ \A r \in 1..Len(log) : r \in 1..Len(M)
      /\ \A i \in 1..n : Len(log) + i \in 1..Len(M)
  BY <1>1, <1>3
<1>6. Longer(log, M, n)
  BY <1>1, <1>2, <1>3, <1>4, <1>5 DEF Longer
<1>7. NewLog(n) = M
  BY DEF NewLog, b, M
<1> QED BY <1>3, <1>6, <1>7

(* The log grows behind what handlers hold and what was sent.               *)
LEMMA LogGrows ==
    ASSUME FeedInv, NEW n \in 1..MaxBatch, log' = NewLog(n)
    PROVE  /\ log' \in Seq(Nat \ {0}) /\ Longer(log, log', n)
           /\ \A r \in 1..Len(log') : log'[r] \in 1..r
           /\ \A r \in 1..Len(log) : log[r] \in 1..Len(log)
           /\ \A p \in 1..Len(sent) : sent[p] \in 1..Len(log) /\ log'[sent[p]] = log[sent[p]]
           /\ \A h \in Handlers : \A i \in 1..Len(todo[h]) :
                 todo[h][i] \in 1..Len(log) /\ log'[todo[h][i]] = log[todo[h][i]]
<1>1. TypeOK /\ BatchInv
  BY DEF FeedInv
<1>2. NewLog(n) \in Seq(Nat \ {0}) /\ Longer(log, NewLog(n), n)
  BY <1>1, NewLogIs
<1>3. log' \in Seq(Nat \ {0}) /\ Longer(log, log', n)
  BY <1>2
<1>4. \A r \in 1..Len(log) : log[r] \in 1..r
  BY <1>1 DEF BatchInv
<1>5. ASSUME NEW r \in 1..Len(log') PROVE log'[r] \in 1..r
  <2>1. CASE r \in 1..Len(log)
    BY <1>3, <1>4, <2>1 DEF Longer
  <2>2. CASE r \notin 1..Len(log)
    <3>1. PICK i \in 1..n : r = Len(log) + i
      BY <1>3, <2>2 DEF Longer
    <3>2. n \in Nat /\ Len(log) \in Nat
      BY <1>3 DEF Longer
    <3>3. log'[Len(log) + i] = Len(log) + 1
      BY <1>3 DEF Longer
    <3>4. log'[r] = Len(log) + 1
      BY <3>1, <3>3
    <3>5. i >= 1 /\ i \in Int
      BY <3>2
    <3> QED BY <3>1, <3>2, <3>4, <3>5
  <2> QED BY <2>1, <2>2
<1>6. \A r \in 1..Len(log) : log[r] \in 1..Len(log)
  BY <1>3, <1>4 DEF Longer
<1>7. ASSUME NEW p \in 1..Len(sent)
      PROVE  sent[p] \in 1..Len(log) /\ log'[sent[p]] = log[sent[p]]
  <2>1. sent[p] \in 1..Len(log)
    BY <1>1 DEF BatchInv
  <2> QED BY <1>3, <2>1 DEF Longer
<1>8. ASSUME NEW h \in Handlers, NEW i \in 1..Len(todo[h])
      PROVE  todo[h][i] \in 1..Len(log) /\ log'[todo[h][i]] = log[todo[h][i]]
  <2>1. todo[h][i] \in 1..Len(log)
    BY <1>1 DEF BatchInv
  <2> QED BY <1>3, <2>1 DEF Longer
<1> QED BY <1>3, <1>5, <1>6, <1>7, <1>8

(* A batch that is appended and never broadcast leaves the others in order. *)
LEMMA QuietBatch ==
    ASSUME FeedInv, NEW n \in 1..MaxBatch, log' = NewLog(n), UNCHANGED <<sent, todo>>
    PROVE  BatchInv'
<1>1. /\ Longer(log, log', n)
      /\ \A r \in 1..Len(log') : log'[r] \in 1..r
      /\ \A p \in 1..Len(sent) : sent[p] \in 1..Len(log) /\ log'[sent[p]] = log[sent[p]]
      /\ \A h \in Handlers : \A i \in 1..Len(todo[h]) :
            todo[h][i] \in 1..Len(log) /\ log'[todo[h][i]] = log[todo[h][i]]
  BY LogGrows
<1>2. BatchInv /\ 1..Len(log) \subseteq 1..Len(log')
  BY <1>1 DEF FeedInv, Longer
<1>3. \A h \in Handlers : todo'[h] = todo[h]
  OBVIOUS
<1>4. /\ \A h \in Handlers : \A i \in 1..Len(todo[h]) : todo[h][i] \in 1..Len(log')
      /\ \A h \in Handlers : \A i, j \in 1..Len(todo[h]) : i < j => todo[h][i] < todo[h][j]
  BY <1>1, <1>2 DEF BatchInv
<1>5. \A h, k \in Handlers : h # k =>
        \A i \in 1..Len(todo[h]), j \in 1..Len(todo[k]) : log'[todo[h][i]] # log'[todo[k][j]]
  BY <1>1, <1>2 DEF BatchInv
<1>6. /\ \A p \in 1..Len(sent) : sent[p] \in 1..Len(log')
      /\ \A p, q \in 1..Len(sent) : p < q /\ log'[sent[p]] = log'[sent[q]] => sent[p] < sent[q]
  BY <1>1, <1>2 DEF BatchInv
<1>7. \A p \in 1..Len(sent) : \A h \in Handlers : \A i \in 1..Len(todo[h]) :
        log'[sent[p]] = log'[todo[h][i]] => sent[p] < todo[h][i]
  BY <1>1, <1>2 DEF BatchInv
<1>8. UNCHANGED sent /\ todo' = todo
  OBVIOUS
<1>9. BatchInv'
  <2>1. \A r \in 1..Len(log') : log'[r] \in 1..r
    BY <1>1
  <2>2. /\ \A h \in Handlers : \A k \in 1..Len(todo'[h]) : todo'[h][k] \in 1..Len(log')
        /\ \A h \in Handlers : \A k, l \in 1..Len(todo'[h]) : k < l => todo'[h][k] < todo'[h][l]
    BY <1>4, <1>8
  <2>3. \A h, g \in Handlers : h # g =>
          \A k \in 1..Len(todo'[h]), l \in 1..Len(todo'[g]) : log'[todo'[h][k]] # log'[todo'[g][l]]
    BY <1>5, <1>8
  <2>4. /\ \A p \in 1..Len(sent') : sent'[p] \in 1..Len(log')
        /\ \A p, r \in 1..Len(sent') : p < r /\ log'[sent'[p]] = log'[sent'[r]] => sent'[p] < sent'[r]
    BY <1>6, <1>8
  <2>5. \A p \in 1..Len(sent') : \A h \in Handlers : \A k \in 1..Len(todo'[h]) :
          log'[sent'[p]] = log'[todo'[h][k]] => sent'[p] < todo'[h][k]
    BY <1>7, <1>8
  <2> QED BY <2>1, <2>2, <2>3, <2>4, <2>5 DEF BatchInv
<1> QED BY <1>9

(* So does one that its handler is going to broadcast.                     *)
LEMMA NewBatch ==
    ASSUME FeedInv, NEW n \in 1..MaxBatch, NEW h \in Handlers, log' = NewLog(n), UNCHANGED sent,
           todo[h] = <<>>, todo' = [todo EXCEPT ![h] = Batch(n)]
    PROVE  BatchInv'
<1>1. /\ Longer(log, log', n)
      /\ \A r \in 1..Len(log') : log'[r] \in 1..r
      /\ \A r \in 1..Len(log) : log[r] \in 1..Len(log)
      /\ \A p \in 1..Len(sent) : sent[p] \in 1..Len(log) /\ log'[sent[p]] = log[sent[p]]
      /\ \A k \in Handlers : \A i \in 1..Len(todo[k]) :
            todo[k][i] \in 1..Len(log) /\ log'[todo[k][i]] = log[todo[k][i]]
  BY LogGrows
<1>2. BatchInv /\ 1..Len(log) \subseteq 1..Len(log') /\ Len(log) \in Nat /\ n \in Nat
  BY <1>1 DEF FeedInv, Longer
<1>3. \A k \in Handlers : k # h => todo'[k] = todo[k]
  BY DEF FeedInv, TypeOK
<1>4. Len(todo'[h]) = n /\ \A i \in 1..n : todo'[h][i] = Len(log) + i
  <2>1. todo'[h] = Batch(n)
    BY DEF FeedInv, TypeOK
  <2> QED BY <1>2, <2>1 DEF Batch
<1>5. \A i \in 1..n : todo'[h][i] \in 1..Len(log') /\ log'[todo'[h][i]] = Len(log) + 1
  BY <1>1, <1>4 DEF Longer
<1>6. ASSUME NEW k \in Handlers, k # h
      PROVE  \A i \in 1..Len(todo'[k]) :
                todo'[k][i] \in 1..Len(log') /\ log'[todo'[k][i]] \in 1..Len(log)
  BY <1>1, <1>2, <1>3, <1>6
<1>7. \A k \in Handlers : \A i \in 1..Len(todo'[k]) : todo'[k][i] \in 1..Len(log')
  BY <1>4, <1>5, <1>6
<1>8. ASSUME NEW k \in Handlers, NEW i \in 1..Len(todo'[k]), NEW j \in 1..Len(todo'[k]), i < j
      PROVE  todo'[k][i] < todo'[k][j]
  <2>1. CASE k = h
    BY <1>2, <1>4, <1>8, <2>1
  <2>2. CASE k # h
    BY <1>2, <1>3, <1>8, <2>2 DEF BatchInv
  <2> QED BY <2>1, <2>2
<1>9. ASSUME NEW k \in Handlers, NEW m \in Handlers, k # m,
             NEW i \in 1..Len(todo'[k]), NEW j \in 1..Len(todo'[m])
      PROVE  log'[todo'[k][i]] # log'[todo'[m][j]]
  <2>1. CASE k = h
    BY <1>2, <1>4, <1>5, <1>6, <1>9, <2>1
  <2>2. CASE m = h
    BY <1>2, <1>4, <1>5, <1>6, <1>9, <2>2
  <2>3. CASE k # h /\ m # h
    BY <1>1, <1>2, <1>3, <1>9, <2>3 DEF BatchInv
  <2> QED BY <2>1, <2>2, <2>3
<1>10. ASSUME NEW p \in 1..Len(sent), NEW k \in Handlers, NEW i \in 1..Len(todo'[k]),
              log'[sent[p]] = log'[todo'[k][i]]
       PROVE  sent[p] < todo'[k][i]
  <2>1. CASE k = h
    BY <1>1, <1>2, <1>4, <2>1
  <2>2. CASE k # h
    BY <1>1, <1>2, <1>3, <1>10, <2>2 DEF BatchInv
  <2> QED BY <2>1, <2>2
<1>11. /\ \A p \in 1..Len(sent) : sent[p] \in 1..Len(log')
       /\ \A p, q \in 1..Len(sent) : p < q /\ log'[sent[p]] = log'[sent[q]] => sent[p] < sent[q]
  BY <1>1, <1>2 DEF BatchInv
<1> QED BY <1>1, <1>7, <1>8, <1>9, <1>10, <1>11 DEF BatchInv

(* Tail(todo[h]) is todo[h] without its first event.                        *)
LEMMA TodoTail ==
    ASSUME TypeOK, NEW h \in Handlers, todo[h] # <<>>,
           todo' = [todo EXCEPT ![h] = Tail(@)]
    PROVE  /\ todo' \in [Handlers -> Seq(Nat \ {0})]
           /\ \A k \in Handlers : k # h => todo'[k] = todo[k]
           /\ 1 \in 1..Len(todo[h]) /\ Head(todo[h]) = todo[h][1] /\ Head(todo[h]) \in Nat \ {0}
           /\ \A i \in 1..Len(todo'[h]) :
                 i + 1 \in 1..Len(todo[h]) /\ todo'[h][i] = todo[h][i + 1]
<1> DEFINE s == todo[h]
<1>1. s \in Seq(Nat \ {0}) /\ s # <<>>
  BY DEF TypeOK
<1>2. todo'[h] = Tail(s) /\ \A k \in Handlers : k # h => todo'[k] = todo[k]
  BY DEF TypeOK
<1> HIDE DEF s
<1>3. /\ Tail(s) \in Seq(Nat \ {0}) /\ 1 \in 1..Len(s)
      /\ Head(s) = s[1] /\ Head(s) \in Nat \ {0}
      /\ \A i \in 1..Len(Tail(s)) : i + 1 \in 1..Len(s) /\ Tail(s)[i] = s[i + 1]
  BY <1>1
<1>4. todo' \in [Handlers -> Seq(Nat \ {0})]
  <2>1. Tail(todo[h]) \in Seq(Nat \ {0})
    BY <1>3 DEF s
  <2> QED BY <2>1 DEF TypeOK
<1> QED BY <1>2, <1>3, <1>4 DEF s

(* An event leaves the handler, with or without entering the channel.       *)
LEMMA TodoShrinks ==
    ASSUME TypeOK, BatchInv, NEW h \in Handlers, todo[h] # <<>>,
           todo' = [todo EXCEPT ![h] = Tail(@)], UNCHANGED log
    PROVE  /\ \A k \in Handlers : \A i \in 1..Len(todo'[k]) : todo'[k][i] \in 1..Len(log')
           /\ \A k \in Handlers : \A i, j \in 1..Len(todo'[k]) :
                 i < j => todo'[k][i] < todo'[k][j]
           /\ \A k, m \in Handlers : k # m =>
                 \A i \in 1..Len(todo'[k]), j \in 1..Len(todo'[m]) :
                    log'[todo'[k][i]] # log'[todo'[m][j]]
           /\ \A p \in 1..Len(sent) : \A k \in Handlers : \A i \in 1..Len(todo'[k]) :
                 log'[sent[p]] = log'[todo'[k][i]] => sent[p] < todo'[k][i]
           /\ \A k \in Handlers : \A i \in 1..Len(todo'[k]) :
                 log'[Head(todo[h])] = log'[todo'[k][i]] => Head(todo[h]) < todo'[k][i]
<1>1. /\ \A k \in Handlers : k # h => todo'[k] = todo[k]
      /\ 1 \in 1..Len(todo[h]) /\ Head(todo[h]) = todo[h][1]
      /\ \A i \in 1..Len(todo'[h]) : i + 1 \in 1..Len(todo[h]) /\ todo'[h][i] = todo[h][i + 1]
  BY TodoTail
(* What a handler has left it had before, after the first.                  *)
<1>2. ASSUME NEW k \in Handlers, NEW i \in 1..Len(todo'[k])
      PROVE  \E j \in 1..Len(todo[k]) :
                /\ todo'[k][i] = todo[k][j]
                /\ j = IF k = h THEN i + 1 ELSE i
  BY <1>1
<1>3. \A k \in Handlers : \A i \in 1..Len(todo'[k]) : todo'[k][i] \in 1..Len(log')
  BY <1>2 DEF BatchInv
<1>4. ASSUME NEW k \in Handlers, NEW i \in 1..Len(todo'[k]), NEW j \in 1..Len(todo'[k]), i < j
      PROVE  todo'[k][i] < todo'[k][j]
  BY <1>2, <1>4 DEF BatchInv
<1>5. ASSUME NEW k \in Handlers, NEW m \in Handlers, k # m,
             NEW i \in 1..Len(todo'[k]), NEW j \in 1..Len(todo'[m])
      PROVE  log'[todo'[k][i]] # log'[todo'[m][j]]
  <2>1. PICK a \in 1..Len(todo[k]) : todo'[k][i] = todo[k][a]
    BY <1>2
  <2>2. PICK b \in 1..Len(todo[m]) : todo'[m][j] = todo[m][b]
    BY <1>2
  <2>3. log[todo[k][a]] # log[todo[m][b]]
    BY <1>5 DEF BatchInv
  <2> QED BY <2>1, <2>2, <2>3
<1>6. ASSUME NEW p \in 1..Len(sent), NEW k \in Handlers, NEW i \in 1..Len(todo'[k]),
             log'[sent[p]] = log'[todo'[k][i]]
      PROVE  sent[p] < todo'[k][i]
  <2>1. PICK j \in 1..Len(todo[k]) : todo'[k][i] = todo[k][j]
    BY <1>2
  <2>2. log[sent[p]] = log[todo[k][j]]
    BY <1>6, <2>1
  <2> QED BY <2>1, <2>2 DEF BatchInv
<1>7. ASSUME NEW k \in Handlers, NEW i \in 1..Len(todo'[k]),
             log'[Head(todo[h])] = log'[todo'[k][i]]
      PROVE  Head(todo[h]) < todo'[k][i]
  <2>1. CASE k = h
    BY <1>1, <2>1 DEF BatchInv
  <2>2. CASE k # h
    BY <1>1, <1>7, <2>2 DEF BatchInv
  <2> QED BY <2>1, <2>2
<1> QED BY <1>3, <1>4, <1>5, <1>6, <1>7

(* A broadcast event is the next of its batch, and of no other.            *)
LEMMA BatchSent ==
    ASSUME FeedInv, NEW h \in Handlers, Broadcast(h)
    PROVE  BatchInv'
<1>1. TypeOK /\ BatchInv /\ todo[h] # <<>> /\ todo' = [todo EXCEPT ![h] = Tail(@)] /\ log' = log
  BY DEF FeedInv, Broadcast, taskVars, netVars
<1> DEFINE e == Head(todo[h])
<1>2. /\ \A k \in Handlers : \A i \in 1..Len(todo'[k]) : todo'[k][i] \in 1..Len(log')
      /\ \A k \in Handlers : \A i, j \in 1..Len(todo'[k]) : i < j => todo'[k][i] < todo'[k][j]
      /\ \A k, m \in Handlers : k # m =>
            \A i \in 1..Len(todo'[k]), j \in 1..Len(todo'[m]) :
               log'[todo'[k][i]] # log'[todo'[m][j]]
      /\ \A p \in 1..Len(sent) : \A k \in Handlers : \A i \in 1..Len(todo'[k]) :
            log'[sent[p]] = log'[todo'[k][i]] => sent[p] < todo'[k][i]
      /\ \A k \in Handlers : \A i \in 1..Len(todo'[k]) :
            log'[e] = log'[todo'[k][i]] => e < todo'[k][i]
  BY <1>1, TodoShrinks
<1>3. \A r \in 1..Len(log') : log'[r] \in 1..r
  BY <1>1 DEF BatchInv
<1>4. e \in Nat \ {0} /\ 1 \in 1..Len(todo[h]) /\ e = todo[h][1] /\ sent \in Seq(Nat \ {0})
  BY <1>1, TodoTail DEF TypeOK
<1>5. e \in 1..Len(log) /\ \A p \in 1..Len(sent) : log[sent[p]] = log[e] => sent[p] < e
  BY <1>1, <1>4 DEF BatchInv
<1> HIDE DEF e
<1>6. CASE sent' = sent
  <2>1. /\ \A p \in 1..Len(sent') : sent'[p] \in 1..Len(log')
        /\ \A p, q \in 1..Len(sent') :
              p < q /\ log'[sent'[p]] = log'[sent'[q]] => sent'[p] < sent'[q]
    BY <1>1, <1>6 DEF BatchInv
  <2>2. \A p \in 1..Len(sent') : \A k \in Handlers : \A i \in 1..Len(todo'[k]) :
          log'[sent'[p]] = log'[todo'[k][i]] => sent'[p] < todo'[k][i]
    BY <1>2, <1>6
  <2> QED BY <1>2, <1>3, <2>1, <2>2 DEF BatchInv
<1>7. CASE sent' = Append(sent, e)
  <2>1. /\ Len(sent') = Len(sent) + 1 /\ Len(sent) \in Nat
        /\ \A p \in 1..Len(sent) : sent'[p] = sent[p]
        /\ sent'[Len(sent) + 1] = e
        /\ \A p \in 1..Len(sent') : p \in 1..Len(sent) \/ p = Len(sent) + 1
    BY <1>4, <1>7, AppendIs
  <2>2. ASSUME NEW p \in 1..Len(sent') PROVE sent'[p] \in 1..Len(log')
    BY <1>1, <1>5, <2>1 DEF BatchInv
  <2>3. ASSUME NEW p \in 1..Len(sent'), NEW q \in 1..Len(sent'),
               p < q, log'[sent'[p]] = log'[sent'[q]]
        PROVE  sent'[p] < sent'[q]
    <3>1. p \in 1..Len(sent)
      BY <2>1, <2>3
    <3>2. CASE q \in 1..Len(sent)
      BY <1>1, <2>1, <2>3, <3>1, <3>2 DEF BatchInv
    <3>3. CASE q = Len(sent) + 1
      BY <1>1, <1>5, <2>1, <2>3, <3>1, <3>3
    <3> QED BY <2>1, <3>2, <3>3
  <2>4. ASSUME NEW p \in 1..Len(sent'), NEW k \in Handlers, NEW i \in 1..Len(todo'[k]),
               log'[sent'[p]] = log'[todo'[k][i]]
        PROVE  sent'[p] < todo'[k][i]
    BY <1>2, <2>1, <2>4
  <2> QED BY <1>2, <1>3, <2>2, <2>3, <2>4 DEF BatchInv
<1> QED BY <1>6, <1>7 DEF Broadcast, e

(* After a broadcast each slot has the newest event of its positions.      *)
LEMMA RingSent ==
    ASSUME FeedInv, NEW h \in Handlers, Broadcast(h)
    PROVE  RingInv' /\ ring' \in [0..(Capacity - 1) -> [pos : Nat, event : Nat]]
<1>1. CASE UNCHANGED <<ring, sent>>
  BY <1>1 DEF FeedInv, RingInv, TypeOK
<1> DEFINE e == Head(todo[h])
<1>2. CASE /\ sent' = Append(sent, e)
           /\ ring' = [ring EXCEPT ![Slot(End)] = [pos |-> End, event |-> e]]
  <2>1. e \in Nat \ {0} /\ sent \in Seq(Nat \ {0})
    BY TodoTail DEF FeedInv, TypeOK, Broadcast
  <2> HIDE DEF e
  <2>2. /\ Len(sent') = End /\ End \in Nat /\ End \in 1..Len(sent')
        /\ \A p \in 1..Len(sent) : sent'[p] = sent[p] /\ p \in 1..Len(sent')
        /\ sent'[End] = e
    BY <1>2, <2>1, AppendIs DEF End
  <2>3. Slot(End) \in 0..(Capacity - 1)
    BY <2>2, CapacityAssumption DEF Slot
  <2>4. /\ ring \in [0..(Capacity - 1) -> [pos : Nat, event : Nat]]
        /\ [pos |-> End, event |-> e] \in [pos : Nat, event : Nat]
    BY <2>1, <2>2 DEF FeedInv, TypeOK
  <2>5. ring' \in [0..(Capacity - 1) -> [pos : Nat, event : Nat]]
    BY <1>2, <2>4
  <2>6. ASSUME NEW s \in 0..(Capacity - 1), ring'[s].pos # 0
        PROVE  /\ ring'[s].pos \in 1..Len(sent')
               /\ Slot(ring'[s].pos) = s
               /\ ring'[s].event = sent'[ring'[s].pos]
    <3>1. CASE s = Slot(End)
      <4>1. ring'[s].pos = End /\ ring'[s].event = e
        BY <1>2, <2>3, <2>4, <3>1
      <4> QED BY <2>2, <3>1, <4>1
    <3>2. CASE s # Slot(End)
      <4>1. ring'[s] = ring[s]
        BY <1>2, <2>4, <3>2
      <4>2. /\ ring[s].pos \in 1..Len(sent) /\ Slot(ring[s].pos) = s
            /\ ring[s].event = sent[ring[s].pos]
        BY <2>6, <4>1 DEF FeedInv, RingInv
      <4> QED BY <2>2, <4>1, <4>2
    <3> QED BY <3>1, <3>2
  <2>7. Slot(1)' = Slot(1)
    BY DEF Slot
  <2> QED BY <2>5, <2>6 DEF RingInv, Slot
<1> QED BY <1>1, <1>2 DEF Broadcast

(* No client is worse off for a broadcast.                                 *)
LEMMA ClientsSent ==
    ASSUME FeedInv, NEW h \in Handlers, Broadcast(h), BatchInv', sent' \in Seq(Nat \ {0})
    PROVE  ClientInv'
<1>1. CASE sent' = sent
  BY <1>1, OtherClients DEF ClientInv, Broadcast, taskVars, netVars
<1> DEFINE e == Head(todo[h])
<1>2. CASE sent' = Append(sent, e)
  <2>1. e \in Nat \ {0} /\ sent \in Seq(Nat \ {0})
    BY TodoTail DEF FeedInv, TypeOK, Broadcast
  <2> HIDE DEF e
  <2>2. Distinct(sent')
    BY OrderedOnce DEF BatchInv
  <2>3. ASSUME NEW c \in Clients
        PROVE  Fine(task'[c], next'[c], sending'[c], socket'[c], inbox'[c],
                    got'[c], hello'[c], lagged'[c], sent')
    <3>1. /\ got[c] \in Seq(Nat \ {0}) /\ next[c] \in Nat /\ hello[c] \in Nat
          /\ Fine(task[c], next[c], sending[c], socket[c], inbox[c],
                  got[c], hello[c], lagged[c], sent)
      BY DEF FeedInv, TypeOK, ClientInv
    <3>2. Fine(task[c], next[c], sending[c], socket[c], inbox[c],
               got[c], hello[c], lagged[c], Append(sent, e))
      BY <1>2, <2>1, <2>2, <3>1, FineGrows
    <3> QED BY <1>2, <3>2 DEF Broadcast, taskVars, netVars
  <2> QED BY <2>3 DEF ClientInv
<1> QED BY <1>1, <1>2 DEF Broadcast

(* What a client was given lies before any later position, too.            *)
LEMMA ReceivedLater ==
    ASSUME NEW S, Len(S) \in Nat, NEW g, NEW n \in Int, NEW m \in Int, n <= m, Received(g, S, n)
    PROVE  Received(g, S, m)
  BY DEF Received

(* The writers keep the invariant.                                          *)
LEMMA BatchTyped ==
    ASSUME TypeOK, NEW n \in 1..MaxBatch
    PROVE  Batch(n) \in Seq(Nat \ {0})
<1>1. Len(log) \in Nat /\ n \in Nat
  BY FeedBoundsAssumption DEF TypeOK
<1> QED BY <1>1 DEF Batch

(* One lemma for each kind of step: the invariant survives an append,      *)
LEMMA WriterKeeps ==
    ASSUME FeedInv, NEW n \in 1..MaxBatch,
           AppendSilently(n) \/ \E h \in Handlers : AppendEvents(h, n)
    PROVE  FeedInv'
<1>1. log' = NewLog(n) /\ UNCHANGED <<ring, sent, taskVars, netVars>>
  BY DEF AppendSilently, AppendEvents, NewLog
<1>2. log' \in Seq(Nat \ {0})
  BY <1>1, LogGrows
<1>3. /\ todo' \in [Handlers -> Seq(Nat \ {0})]
      /\ BatchInv'
  <2>1. CASE AppendSilently(n)
    <3>1. UNCHANGED <<sent, todo>>
      BY <1>1, <2>1 DEF AppendSilently
    <3> QED BY <1>1, <3>1, QuietBatch DEF FeedInv, TypeOK
  <2>2. CASE \E h \in Handlers : AppendEvents(h, n)
    <3>1. PICK h \in Handlers : AppendEvents(h, n)
      BY <2>2
    <3>2. todo[h] = <<>> /\ todo' = [todo EXCEPT ![h] = Batch(n)] /\ sent' = sent
      BY <1>1, <3>1 DEF AppendEvents
    <3>3. BatchInv'
      BY <1>1, <3>2, NewBatch
    <3>4. Batch(n) \in Seq(Nat \ {0})
      BY BatchTyped DEF FeedInv
    <3> QED BY <3>2, <3>3, <3>4 DEF FeedInv, TypeOK
  <2> QED BY <2>1, <2>2
<1>4. TypeOK'
  BY <1>1, <1>2, <1>3 DEF FeedInv, TypeOK, taskVars, netVars
<1>5. RingInv' /\ ClientInv'
  BY <1>1 DEF FeedInv, RingInv, ClientInv, Slot, taskVars, netVars
<1> QED BY <1>3, <1>4, <1>5 DEF FeedInv

(* a broadcast,                                                            *)
LEMMA BroadcastKeeps ==
    ASSUME FeedInv, NEW h \in Handlers, Broadcast(h)
    PROVE  FeedInv'
<1>1. BatchInv' /\ RingInv' /\ ring' \in [0..(Capacity - 1) -> [pos : Nat, event : Nat]]
  BY BatchSent, RingSent
<1>2. todo' \in [Handlers -> Seq(Nat \ {0})] /\ Head(todo[h]) \in Nat \ {0}
  BY TodoTail DEF FeedInv, Broadcast
<1>3. sent' \in Seq(Nat \ {0})
  <2>1. sent' = sent \/ sent' = Append(sent, Head(todo[h]))
    BY DEF Broadcast
  <2> DEFINE e == Head(todo[h])
             T == Nat \ {0}
  <2>2. sent \in Seq(T) /\ e \in T
    BY <1>2 DEF FeedInv, TypeOK
  <2> HIDE DEF e, T
  <2>3. Append(sent, e) \in Seq(T)
    BY <2>2
  <2>4. sent' \in Seq(T)
    BY <2>1, <2>2, <2>3 DEF e
  <2> QED BY <2>4 DEF T
<1>4. TypeOK'
  BY <1>1, <1>2, <1>3 DEF FeedInv, TypeOK, Broadcast, taskVars, netVars
<1>5. ClientInv'
  BY <1>1, <1>3, ClientsSent
<1> QED BY <1>1, <1>4, <1>5 DEF FeedInv

-----------------------------------------------------------------------------
(* Clients.                                                                 *)

(* A step of client d alone: what has to be shown of it.                    *)
OnlyClient(d) ==
    /\ UNCHANGED <<log, todo, ring, sent>>
    /\ \A c \in Clients : c # d =>
          /\ task'[c] = task[c] /\ next'[c] = next[c] /\ sending'[c] = sending[c]
          /\ socket'[c] = socket[c] /\ inbox'[c] = inbox[c] /\ got'[c] = got[c]
          /\ hello'[c] = hello[c] /\ lagged'[c] = lagged[c]

(* any step that only concerns one client and leaves it fine,              *)
LEMMA ClientKeeps ==
    ASSUME FeedInv, NEW d \in Clients, OnlyClient(d), TypeOK',
           Fine(task'[d], next'[d], sending'[d], socket'[d], inbox'[d],
                got'[d], hello'[d], lagged'[d], sent)
    PROVE  FeedInv'
<1>1. BatchInv' /\ RingInv'
  BY DEF OnlyClient, FeedInv, BatchInv, RingInv, Slot
<1>2. ASSUME NEW c \in Clients
      PROVE  Fine(task'[c], next'[c], sending'[c], socket'[c], inbox'[c],
                  got'[c], hello'[c], lagged'[c], sent')
  <2>1. CASE c = d
    BY <2>1 DEF OnlyClient
  <2>2. CASE c # d
    BY <2>2, OtherClients DEF OnlyClient
  <2> QED BY <2>1, <2>2
<1> QED BY <1>1, <1>2 DEF FeedInv, ClientInv

(* What is known of one client.                                             *)
LEMMA ClientIs ==
    ASSUME FeedInv, NEW d \in Clients
    PROVE  /\ Fine(task[d], next[d], sending[d], socket[d], inbox[d],
                   got[d], hello[d], lagged[d], sent)
           /\ sent \in Seq(Nat \ {0}) /\ Len(sent) \in Nat /\ Distinct(sent)
           /\ next[d] \in Nat /\ inbox[d] \in Nat /\ hello[d] \in Nat
           /\ got[d] \in Seq(Nat \ {0})
<1>1. sent \in Seq(Nat \ {0}) /\ Distinct(sent)
  BY SentOnce DEF FeedInv, TypeOK
<1> QED BY <1>1, FeedBoundsAssumption DEF FeedInv, TypeOK, ClientInv

(* what the network does to a client,                                      *)
LEMMA NetKeeps ==
    ASSUME FeedInv, NEW d \in Clients,
           ClientSpeaks(d) \/ ClientCloses(d) \/ ConnectionBreaks(d)
    PROVE  FeedInv'
<1>1. OnlyClient(d)
  BY DEF FeedInv, TypeOK, OnlyClient, ClientSpeaks, ClientCloses, ConnectionBreaks, taskVars
<1>2. inbox[d] <= MaxInbox /\ inbox[d] \in Nat /\ MaxInbox \in Nat
  BY ClientIs, FeedBoundsAssumption DEF Fine, ClientSpeaks, ClientCloses, ConnectionBreaks
<1>3. TypeOK'
  <2>1. inbox[d] + 1 \in 0..(MaxInbox + 1)
    BY <1>2
  <2>2. inbox' \in [Clients -> 0..(MaxInbox + 1)]
    BY <2>1 DEF FeedInv, TypeOK, ClientSpeaks, ClientCloses, ConnectionBreaks
  <2>3. socket' \in [Clients -> {"open", "closed", "broken"}]
    BY DEF FeedInv, TypeOK, ClientSpeaks, ClientCloses, ConnectionBreaks
  <2> QED
    BY <2>2, <2>3 DEF FeedInv, TypeOK, ClientSpeaks, ClientCloses, ConnectionBreaks, taskVars
<1>4. socket'[d] = "open" => inbox'[d] <= MaxInbox
  BY <1>2 DEF FeedInv, TypeOK, ClientSpeaks, ClientCloses, ConnectionBreaks
<1>5. /\ task' = task /\ next' = next /\ sending' = sending /\ got' = got
      /\ hello' = hello /\ lagged' = lagged
  BY DEF ClientSpeaks, ClientCloses, ConnectionBreaks, taskVars
<1>6. Fine(task'[d], next'[d], sending'[d], socket'[d], inbox'[d],
           got'[d], hello'[d], lagged'[d], sent)
  BY <1>4, <1>5, ClientIs DEF Fine
<1> QED BY <1>1, <1>3, <1>6, ClientKeeps

(* whether it reads,                                                       *)
LEMMA ReadingKeeps ==
    ASSUME FeedInv, NEW d \in Clients, ClientStalls(d) \/ ClientResumes(d)
    PROVE  FeedInv'
<1>1. UNCHANGED <<log, todo, ring, sent, task, next, sending, recvOff, nextOff, got,
                  hello, lagged, socket, inbox>>
  BY DEF ClientStalls, ClientResumes, taskVars
<1>2. reading' \in [Clients -> BOOLEAN]
  BY DEF FeedInv, TypeOK, ClientStalls, ClientResumes
<1>3. TypeOK'
  BY <1>1, <1>2 DEF FeedInv, TypeOK
<1> QED BY <1>1, <1>3 DEF FeedInv, BatchInv, RingInv, ClientInv, Slot

(* a subscription, which begins at the tail,                               *)
LEMMA SubscribeKeeps ==
    ASSUME FeedInv, NEW d \in Clients, Subscribe(d)
    PROVE  FeedInv'
<1>1. OnlyClient(d)
  BY DEF FeedInv, TypeOK, OnlyClient, Subscribe, Goto, netVars
<1>2. End \in Nat /\ End = Len(sent) + 1 /\ Len(sent) \in Nat /\ End \in 1..(Len(sent) + 1)
  BY ClientIs DEF End
<1>3. TypeOK'
  BY <1>2 DEF FeedInv, TypeOK, Subscribe, Goto, netVars
<1>4. /\ task'[d] = "hello" /\ next'[d] = End /\ got'[d] = got[d] /\ task[d] = "away"
      /\ sending' = sending /\ socket' = socket /\ inbox' = inbox /\ hello' = hello
      /\ lagged' = lagged
  BY DEF FeedInv, TypeOK, Subscribe, Goto, netVars
<1>5. got[d] = <<>>
  BY <1>4, ClientIs DEF Fine
<1>6. Received(<<>>, sent, End)
  BY DEF Received
<1>7. Fine(task'[d], next'[d], sending'[d], socket'[d], inbox'[d],
           got'[d], hello'[d], lagged'[d], sent)
  BY <1>2, <1>4, <1>5, <1>6, ClientIs DEF Fine
<1> QED BY <1>1, <1>3, <1>7, ClientKeeps

(* the greeting,                                                           *)
LEMMA HelloKeeps ==
    ASSUME FeedInv, NEW d \in Clients, SendHello(d)
    PROVE  FeedInv'
<1>1. OnlyClient(d)
  BY DEF FeedInv, TypeOK, OnlyClient, SendHello, Goto, netVars
<1>2. Len(sent) \in Nat
  BY ClientIs
<1>3. TypeOK'
  BY <1>2 DEF FeedInv, TypeOK, SendHello, Goto, netVars
<1>4. /\ task'[d] = "select" /\ hello'[d] = Len(sent) /\ next' = next /\ got' = got
      /\ task[d] = "hello" /\ sending' = sending /\ socket' = socket /\ inbox' = inbox
      /\ lagged' = lagged
  BY DEF FeedInv, TypeOK, SendHello, Goto, netVars
<1>5. next[d] \in 1..(Len(sent) + 1)
  BY <1>4, ClientIs DEF Fine
<1>6. HasAll(got[d], sent, Len(sent) + 1, next[d] - 1)
  BY <1>2, <1>5 DEF HasAll
<1>7. Fine(task'[d], next'[d], sending'[d], socket'[d], inbox'[d],
           got'[d], hello'[d], lagged'[d], sent)
  BY <1>4, <1>6, ClientIs DEF Fine
<1> QED BY <1>1, <1>3, <1>7, ClientKeeps

(* the event that was taken from the ring, sent or not,                    *)
LEMMA SendKeeps ==
    ASSUME FeedInv, NEW d \in Clients, SendEvent(d)
    PROVE  FeedInv'
<1>1. OnlyClient(d)
  BY DEF FeedInv, TypeOK, OnlyClient, SendEvent, Goto, netVars
<1>2. /\ task'[d] = "select" /\ got'[d] = Append(got[d], sending[d]) /\ next' = next
      /\ task[d] = "sending" /\ hello' = hello /\ socket' = socket /\ inbox' = inbox
      /\ lagged' = lagged
  BY DEF FeedInv, TypeOK, SendEvent, Goto, netVars
<1> DEFINE n == next[d] - 1
<1>3. /\ n \in 1..Len(sent) /\ next[d] = n + 1 /\ sending[d] = sent[n]
      /\ sending[d] \in Nat \ {0} /\ next[d] \in 1..(Len(sent) + 1)
  BY <1>2, ClientIs DEF Fine
<1>4. TypeOK'
  <2>1. Append(got[d], sending[d]) \in Seq(Nat \ {0})
    BY <1>3, ClientIs
  <2>2. got' \in [Clients -> Seq(Nat \ {0})]
    BY <2>1 DEF FeedInv, TypeOK, SendEvent
  <2> QED BY <2>2 DEF FeedInv, TypeOK, SendEvent, Goto, netVars
<1>5. Received(got[d], sent, n) /\ (~ lagged[d] => HasAll(got[d], sent, hello[d] + 1, n - 1))
  BY <1>2, ClientIs DEF Fine
<1> HIDE DEF n
<1>6. Received(got'[d], sent, n + 1)
  <2>1. Received(Append(got[d], sent[n]), sent, n + 1)
    BY <1>3, <1>5, ClientIs, ReceivedNext
  <2> QED BY <1>2, <1>3, <2>1
<1>7. ASSUME ~ lagged[d] PROVE HasAll(got'[d], sent, hello[d] + 1, n)
  <2>1. hello[d] + 1 \in Int
    BY ClientIs
  <2>2. HasAll(Append(got[d], sent[n]), sent, hello[d] + 1, n)
    BY <1>3, <1>5, <1>7, <2>1, ClientIs, HasAllNext
  <2> QED BY <1>2, <1>3, <2>2
<1>8. socket[d] = "open" => inbox[d] <= MaxInbox
  BY ClientIs DEF Fine
<1>9. Fine(task'[d], next'[d], sending'[d], socket'[d], inbox'[d],
           got'[d], hello'[d], lagged'[d], sent)
  <2>1. next[d] - 1 = n
    BY DEF n
  <2> QED BY <1>2, <1>3, <1>6, <1>7, <1>8, <2>1 DEF Fine
<1> QED BY <1>1, <1>4, <1>9, ClientKeeps

(* The task ends, or waits on without a branch.                             *)
LEMMA EndKeeps ==
    ASSUME FeedInv, NEW d \in Clients, SendFails(d) \/ ReadError(d) \/ StreamEnded(d)
    PROVE  FeedInv'
<1>1. OnlyClient(d)
  BY DEF FeedInv, TypeOK, OnlyClient, SendFails, ReadError, StreamEnded, Goto, netVars
<1>2. TypeOK'
  BY DEF FeedInv, TypeOK, SendFails, ReadError, StreamEnded, Goto, netVars
<1>3. /\ task'[d] = "gone" \/ (task'[d] = "select" /\ task[d] = "select")
      /\ next' = next /\ sending' = sending /\ socket' = socket /\ inbox' = inbox
      /\ got' = got /\ hello' = hello /\ lagged' = lagged
  BY DEF FeedInv, TypeOK, SendFails, ReadError, StreamEnded, Goto, netVars
<1>4. Received(got[d], sent, next[d])
  <2> DEFINE read == IF task[d] = "sending" THEN next[d] - 1 ELSE next[d]
  <2>1. read \in Int /\ next[d] \in Int /\ read <= next[d] /\ Received(got[d], sent, read)
    BY ClientIs DEF Fine
  <2> HIDE DEF read
  <2> QED BY <2>1, ClientIs, ReceivedLater
<1>5. Fine(task'[d], next'[d], sending'[d], socket'[d], inbox'[d],
           got'[d], hello'[d], lagged'[d], sent)
  BY <1>3, <1>4, ClientIs DEF Fine
<1> QED BY <1>1, <1>2, <1>5, ClientKeeps

(* a frame of the client,                                                  *)
LEMMA FrameKeeps ==
    ASSUME FeedInv, NEW d \in Clients, ReadFrame(d)
    PROVE  FeedInv'
<1>1. OnlyClient(d)
  BY DEF FeedInv, TypeOK, OnlyClient, ReadFrame, BothBranches
<1>2. inbox[d] \in 0..(MaxInbox + 1) /\ inbox[d] > 0 /\ inbox'[d] = inbox[d] - 1 /\ MaxInbox \in Nat
  BY FeedBoundsAssumption DEF FeedInv, TypeOK, ReadFrame
<1>3. inbox[d] - 1 \in 0..(MaxInbox + 1)
  BY <1>2
<1>4. TypeOK'
  BY <1>3 DEF FeedInv, TypeOK, ReadFrame, BothBranches
<1>5. /\ task' = task /\ next' = next /\ sending' = sending /\ socket' = socket
      /\ got' = got /\ hello' = hello /\ lagged' = lagged
  BY DEF ReadFrame
<1>6. socket[d] = "open" => inbox'[d] <= MaxInbox
  BY <1>2
<1>7. Fine(task'[d], next'[d], sending'[d], socket'[d], inbox'[d],
           got'[d], hello'[d], lagged'[d], sent)
  BY <1>5, <1>6, ClientIs DEF Fine
<1> QED BY <1>1, <1>4, <1>7, ClientKeeps

(* and a receive: an event, a lag or an empty ring.                        *)
LEMMA RecvKeeps ==
    ASSUME FeedInv, NEW d \in Clients, RecvEvent(d)
    PROVE  FeedInv'
<1>1. OnlyClient(d)
  BY DEF FeedInv, TypeOK, OnlyClient, RecvEvent, BothBranches, Goto, netVars
<1> DEFINE n == next[d]
           s == Slot(n)
<1>2. task[d] = "select" /\ n \in 1..(Len(sent) + 1) /\ n \in Nat /\ n > 0
  BY ClientIs DEF Fine, RecvEvent
<1>3. s \in 0..(Capacity - 1)
  BY <1>2, CapacityAssumption DEF Slot
<1>4. ring[s].pos = n
  BY DEF RecvEvent, Ready
<1>5. n \in 1..Len(sent) /\ ring[s].event = sent[n]
  BY <1>2, <1>3, <1>4 DEF FeedInv, RingInv
<1>6. /\ task'[d] = "sending" /\ sending'[d] = sent[n] /\ next'[d] = n + 1
      /\ socket' = socket /\ inbox' = inbox /\ got' = got /\ hello' = hello /\ lagged' = lagged
  BY <1>5 DEF FeedInv, TypeOK, RecvEvent, Goto, netVars
<1>7. TypeOK'
  <2>1. ring[s].event \in Nat /\ n + 1 \in Nat
    BY <1>2, <1>3 DEF FeedInv, TypeOK
  <2> QED BY <2>1 DEF FeedInv, TypeOK, RecvEvent, BothBranches, Goto, netVars
<1> HIDE DEF n, s
<1>8. /\ socket[d] = "open" => inbox[d] <= MaxInbox
      /\ Received(got[d], sent, n)
      /\ ~ lagged[d] => HasAll(got[d], sent, hello[d] + 1, n - 1)
  BY <1>2, ClientIs DEF Fine, n
<1>9. n + 1 \in 1..(Len(sent) + 1) /\ n + 1 > 1 /\ (n + 1) - 1 = n /\ Len(sent) \in Nat
  BY <1>2, <1>5, ClientIs
<1>10. Fine(task'[d], next'[d], sending'[d], socket'[d], inbox'[d],
            got'[d], hello'[d], lagged'[d], sent)
  BY <1>6, <1>8, <1>9 DEF Fine
<1> QED BY <1>1, <1>7, <1>10, ClientKeeps

(* A receiver that lags moves forward: the slot it reads next holds an      *)
(* event that is at least a whole ring away.                                *)
LEMMA LagKeeps ==
    ASSUME FeedInv, NEW d \in Clients, RecvLagged(d)
    PROVE  FeedInv'
<1>1. OnlyClient(d)
  BY DEF FeedInv, TypeOK, OnlyClient, RecvLagged, Goto, netVars
<1> DEFINE n == next[d]
           s == Slot(n)
           p == ring[s].pos
<1>2. task[d] = "select" /\ n \in 1..(Len(sent) + 1) /\ n \in Nat /\ n > 0
  BY ClientIs DEF Fine, RecvLagged
<1>3. s \in 0..(Capacity - 1) /\ Capacity \in Nat /\ Capacity > 0
  BY <1>2, CapacityAssumption DEF Slot
<1>4. p \in Nat /\ p > n
  BY <1>3 DEF FeedInv, TypeOK, RecvLagged, Lags
<1>5. p \in 1..Len(sent) /\ Slot(p) = s
  BY <1>2, <1>3, <1>4 DEF FeedInv, RingInv
<1> HIDE DEF p
<1>6. p >= n + Capacity
  BY <1>2, <1>4, <1>5, SlotsApart
<1> HIDE DEF n, s
<1>7. Oldest \in Nat /\ n <= Oldest /\ Oldest \in 1..(Len(sent) + 1)
  BY <1>2, <1>3, <1>4, <1>5, <1>6, ClientIs DEF Oldest, End
<1>8. /\ task'[d] = "gone" \/ task'[d] = "select"
      /\ next'[d] = Oldest /\ lagged'[d] = TRUE
      /\ sending' = sending /\ socket' = socket /\ inbox' = inbox /\ got' = got /\ hello' = hello
  BY DEF FeedInv, TypeOK, RecvLagged, Goto, netVars
<1>9. TypeOK'
  BY <1>7 DEF FeedInv, TypeOK, RecvLagged, Goto, netVars
<1>10. /\ socket[d] = "open" => inbox[d] <= MaxInbox
       /\ Received(got[d], sent, n)
  BY <1>2, ClientIs DEF Fine, n
<1>11. Received(got[d], sent, Oldest)
  BY <1>2, <1>7, <1>10, ClientIs, ReceivedLater
<1>12. Fine(task'[d], next'[d], sending'[d], socket'[d], inbox'[d],
            got'[d], hello'[d], lagged'[d], sent)
  BY <1>7, <1>8, <1>10, <1>11 DEF Fine
<1> QED BY <1>1, <1>9, <1>12, ClientKeeps

(* Every step keeps the invariant.                                         *)
LEMMA FeedStep == FeedInv /\ [Next]_vars => FeedInv'
<1> SUFFICES ASSUME FeedInv, [Next]_vars PROVE FeedInv'
  OBVIOUS
<1>1. CASE \E h \in Handlers : (\E n \in 1..MaxBatch : AppendEvents(h, n)) \/ Broadcast(h)
  BY <1>1, WriterKeeps, BroadcastKeeps
<1>2. CASE \E n \in 1..MaxBatch : AppendSilently(n)
  BY <1>2, WriterKeeps
<1>3. ASSUME NEW c \in Clients,
             \/ ClientSpeaks(c) \/ ClientCloses(c) \/ ConnectionBreaks(c)
             \/ ClientStalls(c) \/ ClientResumes(c) \/ Subscribe(c) \/ TaskStep(c)
      PROVE  FeedInv'
  <2>1. CASE ClientSpeaks(c) \/ ClientCloses(c) \/ ConnectionBreaks(c)
    BY <2>1, NetKeeps
  <2>2. CASE Subscribe(c)
    BY <2>2, SubscribeKeeps
  <2>3. CASE TaskStep(c)
    BY <2>3, HelloKeeps, SendKeeps, EndKeeps, FrameKeeps, RecvKeeps, LagKeeps
    DEF TaskStep, SendStep, SelectStep
  <2>4. CASE ClientStalls(c) \/ ClientResumes(c)
    BY <2>4, ReadingKeeps
  <2> QED BY <1>3, <2>1, <2>2, <2>3, <2>4
<1>4. CASE UNCHANGED vars
  <2>1. UNCHANGED <<log, todo, ring, sent, task, next, sending, recvOff, nextOff, got,
                    hello, lagged, socket, inbox, reading>>
    BY <1>4 DEF vars, taskVars, netVars
  <2> QED BY <2>1 DEF FeedInv, TypeOK, BatchInv, RingInv, ClientInv, Slot
<1>5. CASE Next
  <2>1. \/ \E h \in Handlers : (\E n \in 1..MaxBatch : AppendEvents(h, n)) \/ Broadcast(h)
        \/ \E n \in 1..MaxBatch : AppendSilently(n)
        \/ \E c \in Clients : \/ ClientSpeaks(c) \/ ClientCloses(c) \/ ConnectionBreaks(c)
                              \/ ClientStalls(c) \/ ClientResumes(c)
                              \/ Subscribe(c) \/ TaskStep(c)
    BY <1>5 DEF Next
  <2> QED BY <1>1, <1>2, <1>3, <2>1
<1> QED BY <1>4, <1>5

(* The invariant holds in every reachable state.                           *)
LEMMA FeedHolds == Spec => []FeedInv
  BY FeedInit, FeedStep, PTL DEF Spec

-----------------------------------------------------------------------------
(* The types, for any number of handlers and connections and any capacity.  *)
THEOREM FeedTyped == Spec => []TypeOK
<1>1. FeedInv => TypeOK
  BY DEF FeedInv
<1> QED BY <1>1, FeedHolds, PTL

(* What one request did reaches every client in the order in which it was   *)
(* stored and once (the loop of broadcast calls after append, the ring and  *)
(* the one receiver of handle_socket): a client has events of the channel   *)
(* in the order of the channel, and the channel has those of a batch in     *)
(* order.                                                                   *)
THEOREM BatchesAreInOrder == Spec => []BatchesInOrder
<1>1. FeedInv => BatchesInOrder
  <2> SUFFICES ASSUME FeedInv, NEW c \in Clients, NEW i \in DOMAIN got[c],
                      NEW j \in DOMAIN got[c], i < j
               PROVE  /\ got[c][i] # got[c][j]
                      /\ log[got[c][i]] = log[got[c][j]] => got[c][i] < got[c][j]
    BY DEF BatchesInOrder
  <2> DEFINE read == IF task[c] = "sending" THEN next[c] - 1 ELSE next[c]
  <2>1. Received(got[c], sent, read) /\ got[c] \in Seq(Nat \ {0})
    BY ClientIs DEF Fine
  <2> HIDE DEF read
  <2>2. i \in 1..Len(got[c]) /\ j \in 1..Len(got[c])
    BY <2>1
  <2>3. PICK p \in 1..Len(sent) : got[c][i] = sent[p]
    BY <2>1, <2>2 DEF Received
  <2>4. PICK q \in 1..Len(sent) : got[c][j] = sent[q]
    BY <2>1, <2>2 DEF Received
  <2>5. p < q
    BY <2>1, <2>2, <2>3, <2>4 DEF Received
  <2>6. sent[p] \in Int /\ (log[sent[p]] = log[sent[q]] => sent[p] < sent[q])
    BY <2>5 DEF FeedInv, BatchInv
  <2> QED BY <2>3, <2>4, <2>6
<1> QED BY <1>1, FeedHolds, PTL

(* A client that was greeted is given everything sent from then on, unless  *)
(* it lagged (ws.rs subscribes before it says hello).                       *)
THEOREM GreetedAreServed == Spec => []GreetedMissNothing
<1>1. FeedInv => GreetedMissNothing
  <2> SUFFICES ASSUME FeedInv, NEW c \in Clients, task[c] \in {"select", "sending"}, ~ lagged[c],
                      NEW p \in (hello[c] + 1)..(next[c] - 1)
               PROVE  sent[p] \in Range(got[c]) \cup {sending[c]}
    BY DEF GreetedMissNothing
  <2>1. got[c] \in Seq(Nat \ {0}) /\ next[c] \in Nat /\ hello[c] \in Nat
    BY ClientIs
  <2>2. ASSUME NEW b, p <= b, b \in Int, HasAll(got[c], sent, hello[c] + 1, b)
        PROVE  sent[p] \in Range(got[c])
    <3>1. PICK i \in 1..Len(got[c]) : got[c][i] = sent[p]
      BY <2>1, <2>2 DEF HasAll
    <3> QED BY <2>1, <3>1 DEF Range
  <2>3. CASE task[c] = "select"
    <3>1. HasAll(got[c], sent, hello[c] + 1, next[c] - 1)
      BY <2>3, ClientIs DEF Fine
    <3> QED BY <2>1, <2>2, <3>1
  <2>4. CASE task[c] = "sending"
    <3>1. HasAll(got[c], sent, hello[c] + 1, next[c] - 1 - 1) /\ sending[c] = sent[next[c] - 1]
      BY <2>4, ClientIs DEF Fine
    <3>2. CASE p = next[c] - 1
      BY <3>1, <3>2
    <3>3. CASE p # next[c] - 1
      <4>1. p <= next[c] - 1 - 1 /\ next[c] - 1 - 1 \in Int
        BY <2>1, <3>3
      <4> QED BY <2>2, <3>1, <4>1
    <3> QED BY <3>2, <3>3
  <2> QED BY <2>3, <2>4
<1> QED BY <1>1, FeedHolds, PTL

-----------------------------------------------------------------------------
(* What a client may be given next was sent after all it has.               *)
LEMMA GivesLater ==
    ASSUME FeedInv, NEW c \in Clients, SendEvent(c)
    PROVE  \E p \in DOMAIN sent :
              /\ \A q \in p..Len(sent) : \A i \in DOMAIN got[c] : got[c][i] # sent[q]
              /\ sending[c] = sent[p]
<1> DEFINE n == next[c] - 1
<1>1. task[c] = "sending"
  BY DEF SendEvent
<1>2. n \in 1..Len(sent) /\ sending[c] = sent[n] /\ Received(got[c], sent, n)
  BY <1>1, ClientIs DEF Fine
<1>3. got[c] \in Seq(Nat \ {0}) /\ sent \in Seq(Nat \ {0}) /\ Len(sent) \in Nat
  BY ClientIs
<1> HIDE DEF n
<1>4. ASSUME NEW q \in n..Len(sent), NEW i \in DOMAIN got[c] PROVE got[c][i] # sent[q]
  <2>1. q \in 1..Len(sent) /\ ~ (q < n) /\ i \in 1..Len(got[c])
    BY <1>2, <1>3
  <2> QED BY <1>2, <2>1 DEF Received
<1>5. n \in DOMAIN sent
  BY <1>2, <1>3
<1> QED BY <1>2, <1>4, <1>5

(* Every step of the gateway is one of the stream, or none.                 *)
LEMMA StepOfFeed ==
    ASSUME FeedInv, FeedInv', [Next]_vars
    PROVE  [Feed!Next]_<<Len(log), sent, got>>
<1>1. ASSUME NEW n \in 1..MaxBatch, AppendSilently(n) \/ \E h \in Handlers : AppendEvents(h, n)
      PROVE  Feed!Store
  <2>1. log' = NewLog(n) /\ sent' = sent /\ got' = got
    BY <1>1 DEF AppendSilently, AppendEvents, NewLog, taskVars
  <2>2. Len(log') = Len(log) + n /\ Len(log) \in Nat /\ n \in Nat /\ n > 0
    BY <2>1, LogGrows DEF Longer
  <2> QED BY <2>1, <2>2 DEF Feed!Store
<1>2. ASSUME NEW h \in Handlers, Broadcast(h)
      PROVE  Feed!Publish \/ UNCHANGED <<Len(log), sent, got>>
  <2>1. log' = log /\ got' = got
    BY <1>2 DEF Broadcast, taskVars
  <2>2. CASE sent' = sent
    BY <2>1, <2>2
  <2>3. CASE sent' = Append(sent, Head(todo[h]))
    <3> DEFINE e == Head(todo[h])
    <3>1. 1 \in 1..Len(todo[h]) /\ e = todo[h][1] /\ sent \in Seq(Nat \ {0})
      BY <1>2, TodoTail DEF FeedInv, TypeOK, Broadcast
    <3>2. e \in 1..Len(log) /\ \A p \in 1..Len(sent) : log[sent[p]] = log[e] => sent[p] < e
      BY <3>1 DEF FeedInv, BatchInv
    <3> HIDE DEF e
    <3>3. ASSUME NEW p \in DOMAIN sent, sent[p] = e PROVE FALSE
      <4>1. p \in 1..Len(sent)
        BY <3>1
      <4>2. sent[p] < e /\ e \in Int
        BY <3>2, <3>3, <4>1
      <4> QED BY <3>3, <4>2
    <3>4. e \in (1..Len(log)) \ Feed!Published
      BY <3>2, <3>3 DEF Feed!Published
    <3>5. sent' = Append(sent, e)
      BY <2>3 DEF e
    <3> QED BY <2>1, <3>4, <3>5 DEF Feed!Publish
  <2> QED BY <1>2, <2>2, <2>3 DEF Broadcast
<1>3. ASSUME NEW c \in Clients, SendEvent(c)
      PROVE  Feed!Give(c)
  <2>1. PICK p \in DOMAIN sent :
              /\ \A q \in p..Len(sent) : \A i \in DOMAIN got[c] : got[c][i] # sent[q]
              /\ sending[c] = sent[p]
    BY <1>3, GivesLater
  <2>2. got' = [got EXCEPT ![c] = Append(@, sent[p])] /\ log' = log /\ sent' = sent
    BY <1>3, <2>1 DEF SendEvent
  <2> QED BY <2>1, <2>2 DEF Feed!Give
<1>4. ASSUME NEW c \in Clients,
             \/ ClientSpeaks(c) \/ ClientCloses(c) \/ ConnectionBreaks(c)
             \/ ClientStalls(c) \/ ClientResumes(c) \/ Subscribe(c)
             \/ SendHello(c) \/ SendFails(c) \/ ReadFrame(c) \/ ReadError(c) \/ StreamEnded(c)
             \/ RecvEvent(c) \/ RecvLagged(c)
      PROVE  UNCHANGED <<Len(log), sent, got>>
  BY <1>4 DEF ClientSpeaks, ClientCloses, ConnectionBreaks, ClientStalls, ClientResumes,
     Subscribe, SendHello, SendFails, ReadFrame, ReadError, StreamEnded, RecvEvent, RecvLagged, taskVars
<1>5. CASE UNCHANGED vars
  BY <1>5 DEF vars, taskVars
<1>6. CASE Next
  BY <1>1, <1>2, <1>3, <1>4, <1>6 DEF Next, TaskStep, SendStep, SelectStep, Feed!Next
<1> QED BY <1>5, <1>6

(* The gateway implements the stream that EventFeed describes: what a       *)
(* client is given is stored already, comes at most once, and in the order  *)
(* of the channel.                                                          *)
THEOREM GatewayImplementsFeed == Spec => ImplementsFeed
<1>1. Init => Feed!Init
  BY DEF Init, Feed!Init
<1> QED BY <1>1, FeedHolds, StepOfFeed, PTL DEF Spec, ImplementsFeed, Feed!Spec

=============================================================================
