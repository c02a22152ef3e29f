------------------------- MODULE UserThreads_proofs -------------------------
(***************************************************************************)
(* Proofs about UserThreads, for every set of threads, number of queues    *)
(* and delays.                                                             *)
(***************************************************************************)
EXTENDS UserThreads, FiniteSetTheorems, FunctionTheorems, TLAPS

------------------------------------------------------------------------------
(* InOrder.                                                                 *)

(* B[x] are the elements up to x in an order of S: their number tells x.    *)
Below(B, S) ==
  /\ B \in [S -> SUBSET S]
  /\ \A x \in S : x \in B[x]
  /\ \A x, y \in S : x \in B[y] \/ y \in B[x]
  /\ \A x, y \in S : x \in B[y] /\ y \in B[x] => x = y
  /\ \A x, y \in S : x \in B[y] => B[x] \subseteq B[y]

Ranks(B, S) ==
  /\ Cardinality(S) \in Nat
  /\ \A x \in S : Cardinality(B[x]) \in 1 .. Cardinality(S)
  /\ \A x, y \in S : Cardinality(B[x]) = Cardinality(B[y]) => x = y
  /\ \A n \in 1 .. Cardinality(S) : \E x \in S : Cardinality(B[x]) = n

LEMMA Ranked ==
  ASSUME NEW S, IsFiniteSet(S), NEW B, Below(B, S)
  PROVE  Ranks(B, S)
<1> USE DEF Below
<1>1. Cardinality(S) \in Nat
  BY FS_CardinalityType
<1>2. ASSUME NEW x \in S PROVE Cardinality(B[x]) \in 1 .. Cardinality(S) /\ IsFiniteSet(B[x])
  <2>1. IsFiniteSet(B[x]) /\ Cardinality(B[x]) <= Cardinality(S)
    BY FS_Subset
  <2>2. Cardinality(B[x]) \in Nat
    BY <2>1, FS_CardinalityType
  <2>3. Cardinality(B[x]) # 0
    BY <2>1, FS_EmptySet
  <2> QED
    BY <1>1, <2>1, <2>2, <2>3
<1>3. ASSUME NEW x \in S, NEW y \in S, Cardinality(B[x]) = Cardinality(B[y]), x \in B[y]
      PROVE  x = y
  <2>1. B[x] \in SUBSET B[y]
    BY <1>3
  <2>2. B[x] = B[y]
    BY <1>2, <1>3, <2>1, FS_Subset
  <2> QED
    BY <1>3, <2>2
<1>4. \A x, y \in S : Cardinality(B[x]) = Cardinality(B[y]) => x = y
  BY <1>3
<1>5. \A n \in 1 .. Cardinality(S) : \E x \in S : Cardinality(B[x]) = n
  <2> DEFINE rank == [x \in S |-> Cardinality(B[x])]
             T == 1 .. Cardinality(S)
  <2>1. rank \in Injection(S, T)
    BY <1>2, <1>4 DEF Injection, IsInjective
  <2>2. IsFiniteSet(T) /\ Cardinality(T) = Cardinality(S)
    <3>1. 1 \in Int /\ Cardinality(S) \in Int
      BY <1>1
    <3>2. /\ IsFiniteSet(T)
          /\ Cardinality(T) = IF 1 > Cardinality(S) THEN 0 ELSE Cardinality(S) - 1 + 1
      BY <3>1, FS_Interval
    <3> QED
      BY <1>1, <3>2
  <2>3. rank \in Surjection(S, T)
    BY <2>1, <2>2, FS_Injection
  <2>4. \A n \in T : \E x \in S : rank[x] = n
    <3> HIDE DEF rank, T
    <3> QED
      BY <2>3 DEF Surjection
  <2> QED
    BY <2>4
<1> QED
  BY <1>1, <1>2, <1>4, <1>5 DEF Ranks

(* A sequence that lists a set, each element once.                          *)
Lists(s, S) ==
  /\ Cardinality(S) \in Nat
  /\ DOMAIN s = 1 .. Cardinality(S)
  /\ \A n \in DOMAIN s : s[n] \in S
  /\ \A m, n \in DOMAIN s : s[m] = s[n] => m = n
  /\ \A x \in S : \E n \in DOMAIN s : s[n] = x

LEMMA Listing ==
  ASSUME NEW S, NEW B, Ranks(B, S), NEW s,
         DOMAIN s = 1 .. Cardinality(S),
         \A n \in 1 .. Cardinality(S) : s[n] \in S /\ Cardinality(B[s[n]]) = n
  PROVE  Lists(s, S)
<1>1. \A x \in S : \E n \in DOMAIN s : s[n] = x
  BY DEF Ranks
<1> QED
  BY <1>1 DEF Ranks, Lists

LEMMA EarlierLists ==
  ASSUME NEW S \in SUBSET Int, IsFiniteSet(S)
  PROVE  Lists(InOrder(S, Earlier), S)
<1> DEFINE B == [x \in S |-> {y \in S : y <= x}]
           s == InOrder(S, Earlier)
<1>1. s = [n \in 1 .. Cardinality(S) |-> CHOOSE x \in S : Cardinality({y \in S : y <= x}) = n]
  BY DEF InOrder, Earlier
<1>2. Ranks(B, S)
  <2>1. B \in [S -> SUBSET S] /\ \A x \in S : x \in B[x]
    OBVIOUS
  <2>2. \A x, y \in S : x \in B[y] \/ y \in B[x]
    OBVIOUS
  <2>3. \A x, y \in S : x \in B[y] /\ y \in B[x] => x = y
    OBVIOUS
  <2>4. ASSUME NEW x \in S, NEW y \in S, x \in B[y] PROVE B[x] \subseteq B[y]
    <3>1. x <= y
      BY <2>4
    <3>2. \A z \in S : z <= x => z <= y
      BY <3>1
    <3> QED
      BY <3>2
  <2>5. Below(B, S)
    <3> HIDE DEF B
    <3> QED
      BY <2>1, <2>2, <2>3, <2>4 DEF Below
  <2> QED
    BY <2>5, Ranked
<1>3. \A n \in 1 .. Cardinality(S) : s[n] \in S /\ Cardinality(B[s[n]]) = n
  <2> TAKE n \in 1 .. Cardinality(S)
  <2> DEFINE P(x) == Cardinality({y \in S : y <= x}) = n
  <2>1. (\E x \in S : P(x)) /\ s[n] = CHOOSE x \in S : P(x)
    BY <1>1, <1>2 DEF Ranks
  <2> HIDE DEF s, P
  <2>2. s[n] \in S /\ P(s[n])
    BY <2>1
  <2> QED
    BY <2>2 DEF P
<1>4. DOMAIN s = 1 .. Cardinality(S)
  BY <1>1
<1>5. Lists(s, S)
  <2> HIDE DEF s, B
  <2> QED
    BY <1>2, <1>3, <1>4, Listing
<1> QED
  BY <1>5

LEMMA LaterLists ==
  ASSUME NEW S \in SUBSET Int, IsFiniteSet(S)
  PROVE  Lists(InOrder(S, Later), S)
<1> DEFINE B == [x \in S |-> {y \in S : y >= x}]
           s == InOrder(S, Later)
<1>1. s = [n \in 1 .. Cardinality(S) |-> CHOOSE x \in S : Cardinality({y \in S : y >= x}) = n]
  BY DEF InOrder, Later
<1>2. Ranks(B, S)
  <2>1. B \in [S -> SUBSET S] /\ \A x \in S : x \in B[x]
    OBVIOUS
  <2>2. \A x, y \in S : x \in B[y] \/ y \in B[x]
    OBVIOUS
  <2>3. \A x, y \in S : x \in B[y] /\ y \in B[x] => x = y
    OBVIOUS
  <2>4. ASSUME NEW x \in S, NEW y \in S, x \in B[y] PROVE B[x] \subseteq B[y]
    <3>1. x >= y
      BY <2>4
    <3>2. \A z \in S : z >= x => z >= y
      BY <3>1
    <3> QED
      BY <3>2
  <2>5. Below(B, S)
    <3> HIDE DEF B
    <3> QED
      BY <2>1, <2>2, <2>3, <2>4 DEF Below
  <2> QED
    BY <2>5, Ranked
<1>3. \A n \in 1 .. Cardinality(S) : s[n] \in S /\ Cardinality(B[s[n]]) = n
  <2> TAKE n \in 1 .. Cardinality(S)
  <2> DEFINE P(x) == Cardinality({y \in S : y >= x}) = n
  <2>1. (\E x \in S : P(x)) /\ s[n] = CHOOSE x \in S : P(x)
    BY <1>1, <1>2 DEF Ranks
  <2> HIDE DEF s, P
  <2>2. s[n] \in S /\ P(s[n])
    BY <2>1
  <2> QED
    BY <2>2 DEF P
<1>4. DOMAIN s = 1 .. Cardinality(S)
  BY <1>1
<1>5. Lists(s, S)
  <2> HIDE DEF s, B
  <2> QED
    BY <1>2, <1>3, <1>4, Listing
<1> QED
  BY <1>5

LEMMA UpwardLists ==
  ASSUME NEW S \in SUBSET (Int \X Int), IsFiniteSet(S)
  PROVE  Lists(InOrder(S, Upward), S)
<1> DEFINE Over(x) == {y \in S : y[1] > x[1] \/ (y[1] = x[1] /\ y[2] >= x[2])}
           B == [x \in S |-> Over(x)]
           s == InOrder(S, Upward)
<1>1. s = [n \in 1 .. Cardinality(S) |-> CHOOSE x \in S : Cardinality(Over(x)) = n]
  BY DEF InOrder, Upward
<1>2. Ranks(B, S)
  <2>1. B \in [S -> SUBSET S] /\ \A x \in S : x \in B[x]
    OBVIOUS
  <2>2. \A x, y \in S : x \in B[y] \/ y \in B[x]
    OBVIOUS
  <2>3. ASSUME NEW x \in S, NEW y \in S, x \in B[y], y \in B[x] PROVE x = y
    <3>1. x[1] \in Int /\ x[2] \in Int /\ y[1] \in Int /\ y[2] \in Int
      OBVIOUS
    <3>2. x[1] = y[1] /\ x[2] = y[2]
      BY <2>3, <3>1
    <3>3. x = <<x[1], x[2]>> /\ y = <<y[1], y[2]>>
      OBVIOUS
    <3> QED
      BY <3>2, <3>3
  <2>4. ASSUME NEW x \in S, NEW y \in S, x \in B[y] PROVE B[x] \subseteq B[y]
    <3>1. x[1] > y[1] \/ (x[1] = y[1] /\ x[2] >= y[2])
      BY <2>4
    <3>2. ASSUME NEW z \in S, z[1] > x[1] \/ (z[1] = x[1] /\ z[2] >= x[2])
          PROVE  z[1] > y[1] \/ (z[1] = y[1] /\ z[2] >= y[2])
      <4>1. \A u \in S : u[1] \in Int /\ u[2] \in Int
        OBVIOUS
      <4> QED
        BY <3>1, <3>2, <4>1
    <3> QED
      BY <3>2
  <2>5. Below(B, S)
    <3> HIDE DEF B
    <3> QED
      BY <2>1, <2>2, <2>3, <2>4 DEF Below
  <2> QED
    BY <2>5, Ranked
<1>3. \A n \in 1 .. Cardinality(S) : s[n] \in S /\ Cardinality(B[s[n]]) = n
  <2> TAKE n \in 1 .. Cardinality(S)
  <2> DEFINE P(x) == Cardinality(Over(x)) = n
  <2>1. (\E x \in S : P(x)) /\ s[n] = CHOOSE x \in S : P(x)
    BY <1>1, <1>2 DEF Ranks
  <2> HIDE DEF s, P
  <2>2. s[n] \in S /\ P(s[n])
    BY <2>1
  <2> QED
    BY <2>2 DEF P
<1>4. DOMAIN s = 1 .. Cardinality(S)
  BY <1>1
<1>5. Lists(s, S)
  <2> HIDE DEF s, B
  <2> QED
    BY <1>2, <1>3, <1>4, Listing
<1> QED
  BY <1>5

------------------------------------------------------------------------------
(* Threads in queues qs, in a list of sleepers sl, and on the processor.    *)
Typed(qs, sl, c) ==
  /\ qs \in [Qs -> Seq(Threads)]
  /\ sl \in Seq(SleeperType)
  /\ c \in Threads \cup {NoThread}

(* No thread is in two places.                                              *)
Apart(qs, sl, c) ==
  /\ \A k, l \in Qs : \A m \in DOMAIN qs[k], n \in DOMAIN qs[l] :
       qs[k][m] = qs[l][n] => k = l /\ m = n
  /\ \A m, n \in DOMAIN sl : sl[m].tcb = sl[n].tcb => m = n
  /\ \A k \in Qs : \A m \in DOMAIN qs[k] : qs[k][m] # c
  /\ \A n \in DOMAIN sl : sl[n].tcb # c
  /\ \A k \in Qs : \A m \in DOMAIN qs[k], n \in DOMAIN sl : qs[k][m] # sl[n].tcb

Somewhere(t, qs, sl, c) ==
  \/ \E k \in Qs : \E n \in DOMAIN qs[k] : qs[k][n] = t
  \/ \E n \in DOMAIN sl : sl[n].tcb = t
  \/ t = c

AllIn(qs, sl, c, L) ==
  L \subseteq Threads /\ \A t \in Threads : t \in L <=> Somewhere(t, qs, sl, c)

Once(qs, sl, c, L) == Typed(qs, sl, c) /\ Apart(qs, sl, c) /\ AllIn(qs, sl, c, L)

LEMMA SleeperFields ==
  \A e \in SleeperType : e.tcb \in Threads /\ e.queue \in Qs
BY DEF SleeperType

LEMMA Sleepers ==
  ASSUME NEW sl \in Seq(SleeperType)
  PROVE  /\ Len(sl) \in Nat /\ DOMAIN sl = 1 .. Len(sl)
         /\ \A n \in DOMAIN sl : sl[n] \in SleeperType /\ sl[n].tcb \in Threads /\ sl[n].queue \in Qs
<1>1. /\ Len(sl) \in Nat /\ DOMAIN sl = 1 .. Len(sl)
      /\ \A n \in DOMAIN sl : sl[n] \in SleeperType
  OBVIOUS
<1> QED
  BY <1>1, SleeperFields

LEMMA Queues ==
  ASSUME NEW qs \in [Qs -> Seq(Threads)]
  PROVE  \A k \in Qs : /\ Len(qs[k]) \in Nat /\ DOMAIN qs[k] = 1 .. Len(qs[k])
                       /\ \A n \in DOMAIN qs[k] : qs[k][n] \in Threads
<1>1. \A k \in Qs : qs[k] \in Seq(Threads)
  OBVIOUS
<1>2. \A s \in Seq(Threads) : Len(s) \in Nat /\ DOMAIN s = 1 .. Len(s) /\ \A n \in DOMAIN s : s[n] \in Threads
  OBVIOUS
<1> QED
  BY <1>1, <1>2

(* A thread that leaves the processor for the end of a queue.               *)
LEMMA PutBack ==
  ASSUME NEW qs, NEW sl, NEW c \in Threads, NEW L, Once(qs, sl, c, L), NEW k \in Qs
  PROVE  Once([qs EXCEPT ![k] = Append(@, c)], sl, NoThread, L)
<1> DEFINE q2 == [qs EXCEPT ![k] = Append(@, c)]
<1>1. qs \in [Qs -> Seq(Threads)] /\ sl \in Seq(SleeperType)
  BY DEF Once, Typed
<1>2. q2 \in [Qs -> Seq(Threads)] /\ q2[k] = Append(qs[k], c)
      /\ \A l \in Qs : l # k => q2[l] = qs[l]
  BY <1>1
<1>3. /\ Len(qs[k]) \in Nat /\ DOMAIN qs[k] = 1 .. Len(qs[k])
      /\ DOMAIN q2[k] = 1 .. Len(qs[k]) + 1
      /\ \A n \in 1 .. Len(qs[k]) : q2[k][n] = qs[k][n]
      /\ q2[k][Len(qs[k]) + 1] = c
  BY <1>1, <1>2
<1>4. NoThread \notin Threads /\ \A n \in DOMAIN sl : sl[n].tcb \in Threads
  BY <1>1, UserThreadsAssumption, Sleepers
<1> HIDE DEF q2
<1>5. \A l \in Qs : \A n \in DOMAIN q2[l] :
        \/ n \in DOMAIN qs[l] /\ q2[l][n] = qs[l][n]
        \/ l = k /\ n = Len(qs[k]) + 1 /\ q2[l][n] = c
  BY <1>2, <1>3
<1>6. \A l \in Qs : \A n \in DOMAIN qs[l] : n \in DOMAIN q2[l] /\ q2[l][n] = qs[l][n]
  BY <1>2, <1>3
<1>7. Apart(qs, sl, c)
  BY DEF Once
<1>8. Apart(q2, sl, NoThread)
  <2>1. ASSUME NEW x \in Qs, NEW y \in Qs, NEW m \in DOMAIN q2[x], NEW n \in DOMAIN q2[y],
               q2[x][m] = q2[y][n]
        PROVE  x = y /\ m = n
    BY <1>5, <1>7, <2>1 DEF Apart
  <2>2. \A x \in Qs : \A m \in DOMAIN q2[x] : q2[x][m] # NoThread
    <3>1. \A x \in Qs : \A m \in DOMAIN q2[x] : q2[x][m] \in Threads
      BY <1>2
    <3> QED
      BY <1>4, <3>1
  <2>3. \A x \in Qs : \A m \in DOMAIN q2[x], n \in DOMAIN sl : q2[x][m] # sl[n].tcb
    BY <1>5, <1>7 DEF Apart
  <2>4. \A m, n \in DOMAIN sl : sl[m].tcb = sl[n].tcb => m = n
    BY <1>7 DEF Apart
  <2> QED
    BY <1>4, <2>1, <2>2, <2>3, <2>4 DEF Apart
<1>9. \A t \in Threads : Somewhere(t, q2, sl, NoThread) <=> Somewhere(t, qs, sl, c)
  <2> TAKE t \in Threads
  <2>1. ASSUME Somewhere(t, q2, sl, NoThread) PROVE Somewhere(t, qs, sl, c)
    BY <1>4, <1>5, <2>1 DEF Somewhere
  <2>2. Len(qs[k]) + 1 \in DOMAIN q2[k]
    BY <1>3
  <2>3. ASSUME Somewhere(t, qs, sl, c) PROVE Somewhere(t, q2, sl, NoThread)
    BY <1>3, <1>6, <2>2, <2>3 DEF Somewhere
  <2> QED
    BY <2>1, <2>3
<1> QED
  BY <1>1, <1>2, <1>8, <1>9 DEF Once, Typed, AllIn, q2

(* A thread that comes from the front of a queue to the processor.          *)
LEMMA Taken ==
  ASSUME NEW qs, NEW sl, NEW L, Once(qs, sl, NoThread, L), NEW k \in Qs, qs[k] # <<>>
  PROVE  Once([qs EXCEPT ![k] = Tail(@)], sl, Head(qs[k]), L) /\ Head(qs[k]) \in Threads
<1> DEFINE q2 == [qs EXCEPT ![k] = Tail(@)]
           c  == Head(qs[k])
<1>1. qs \in [Qs -> Seq(Threads)] /\ sl \in Seq(SleeperType)
  BY DEF Once, Typed
<1>2. q2 \in [Qs -> Seq(Threads)] /\ q2[k] = Tail(qs[k])
      /\ \A l \in Qs : l # k => q2[l] = qs[l]
  BY <1>1
<1>3. /\ Len(qs[k]) \in Nat \ {0} /\ DOMAIN qs[k] = 1 .. Len(qs[k])
      /\ DOMAIN q2[k] = 1 .. Len(qs[k]) - 1
      /\ \A n \in 1 .. Len(qs[k]) - 1 : q2[k][n] = qs[k][n + 1]
      /\ c = qs[k][1] /\ 1 \in DOMAIN qs[k] /\ c \in Threads
  BY <1>1, <1>2
<1>4. NoThread \notin Threads /\ \A n \in DOMAIN sl : sl[n].tcb \in Threads
  BY <1>1, UserThreadsAssumption, Sleepers
<1> HIDE DEF q2, c
<1> DEFINE Old(l, n) == IF l = k THEN n + 1 ELSE n
<1>5. \A l \in Qs : \A n \in DOMAIN q2[l] :
        /\ Old(l, n) \in DOMAIN qs[l] /\ q2[l][n] = qs[l][Old(l, n)]
        /\ l = k => Old(l, n) # 1
  <2> SUFFICES ASSUME NEW l \in Qs, NEW n \in DOMAIN q2[l]
               PROVE  /\ Old(l, n) \in DOMAIN qs[l] /\ q2[l][n] = qs[l][Old(l, n)]
                      /\ l = k => Old(l, n) # 1
    OBVIOUS
  <2>1. CASE l = k
    <3>1. n \in 1 .. Len(qs[k]) - 1 /\ n + 1 \in 1 .. Len(qs[k]) /\ n + 1 # 1
      BY <1>3, <2>1
    <3> QED
      BY <1>3, <2>1, <3>1
  <2>2. CASE l # k
    BY <1>2, <2>2
  <2> QED
    BY <2>1, <2>2
<1>6. \A l \in Qs : \A n \in DOMAIN qs[l] :
        \/ l = k /\ n = 1
        \/ \E m \in DOMAIN q2[l] : q2[l][m] = qs[l][n]
  <2> SUFFICES ASSUME NEW l \in Qs, NEW n \in DOMAIN qs[l], ~ (l = k /\ n = 1)
               PROVE  \E m \in DOMAIN q2[l] : q2[l][m] = qs[l][n]
    OBVIOUS
  <2>1. CASE l = k
    <3>1. n - 1 \in DOMAIN q2[k] /\ n - 1 \in 1 .. Len(qs[k]) - 1 /\ n - 1 + 1 = n
      BY <1>3, <2>1
    <3> QED
      BY <1>3, <2>1, <3>1
  <2>2. CASE l # k
    BY <1>2, <2>2
  <2> QED
    BY <2>1, <2>2
<1>7. Apart(qs, sl, NoThread)
  BY DEF Once
<1>8. Apart(q2, sl, c)
  <2>1. ASSUME NEW x \in Qs, NEW y \in Qs, NEW m \in DOMAIN q2[x], NEW n \in DOMAIN q2[y],
               q2[x][m] = q2[y][n]
        PROVE  x = y /\ m = n
    <3>1. x = y /\ Old(x, m) = Old(y, n)
      BY <1>5, <1>7, <2>1 DEF Apart
    <3>2. m \in Int /\ n \in Int
      BY <1>2
    <3> QED
      BY <3>1, <3>2
  <2> HIDE DEF Old
  <2>2. \A x \in Qs : \A m \in DOMAIN q2[x] : q2[x][m] # c
    BY <1>3, <1>5, <1>7 DEF Apart
  <2>3. \A x \in Qs : \A m \in DOMAIN q2[x], n \in DOMAIN sl : q2[x][m] # sl[n].tcb
    BY <1>5, <1>7 DEF Apart
  <2>4. \A n \in DOMAIN sl : sl[n].tcb # c
    BY <1>3, <1>7 DEF Apart
  <2>5. \A m, n \in DOMAIN sl : sl[m].tcb = sl[n].tcb => m = n
    BY <1>7 DEF Apart
  <2> QED
    BY <2>1, <2>2, <2>3, <2>4, <2>5 DEF Apart
<1>9. \A t \in Threads : Somewhere(t, q2, sl, c) <=> Somewhere(t, qs, sl, NoThread)
  <2> HIDE DEF Old
  <2> TAKE t \in Threads
  <2>1. ASSUME Somewhere(t, q2, sl, c) PROVE Somewhere(t, qs, sl, NoThread)
    BY <1>3, <1>5, <2>1 DEF Somewhere
  <2>2. ASSUME Somewhere(t, qs, sl, NoThread) PROVE Somewhere(t, q2, sl, c)
    BY <1>3, <1>4, <1>6, <2>2 DEF Somewhere
  <2> QED
    BY <2>1, <2>2
<1> QED
  BY <1>1, <1>2, <1>3, <1>8, <1>9 DEF Once, Typed, AllIn, q2, c

(* A thread that leaves the processor for the end of the list.              *)
LEMMA GoesToSleep ==
  ASSUME NEW qs, NEW sl, NEW c \in Threads, NEW L, Once(qs, sl, c, L),
         NEW e \in SleeperType, e.tcb = c
  PROVE  Once(qs, Append(sl, e), NoThread, L)
<1> DEFINE s2 == Append(sl, e)
<1>1. qs \in [Qs -> Seq(Threads)] /\ sl \in Seq(SleeperType)
  BY DEF Once, Typed
<1>2. /\ s2 \in Seq(SleeperType)
      /\ Len(sl) \in Nat /\ DOMAIN sl = 1 .. Len(sl) /\ DOMAIN s2 = 1 .. Len(sl) + 1
      /\ \A n \in 1 .. Len(sl) : s2[n] = sl[n]
      /\ s2[Len(sl) + 1] = e
  BY <1>1
<1>3. NoThread \notin Threads /\ \A k \in Qs : \A n \in DOMAIN qs[k] : qs[k][n] \in Threads
  BY <1>1, UserThreadsAssumption
<1>4. \A n \in DOMAIN s2 : s2[n].tcb \in Threads
  BY <1>2, Sleepers
<1> HIDE DEF s2
<1>5. \A n \in DOMAIN s2 : \/ n \in DOMAIN sl /\ s2[n] = sl[n]
                           \/ n = Len(sl) + 1 /\ s2[n].tcb = c
  BY <1>2
<1>6. Apart(qs, sl, c)
  BY DEF Once
<1>7. Apart(qs, s2, NoThread)
  <2>1. \A m, n \in DOMAIN s2 : s2[m].tcb = s2[n].tcb => m = n
    BY <1>5, <1>6 DEF Apart
  <2>2. \A k \in Qs : \A m \in DOMAIN qs[k], n \in DOMAIN s2 : qs[k][m] # s2[n].tcb
    BY <1>5, <1>6 DEF Apart
  <2>3. \A x, y \in Qs : \A m \in DOMAIN qs[x], n \in DOMAIN qs[y] :
          qs[x][m] = qs[y][n] => x = y /\ m = n
    BY <1>6 DEF Apart
  <2> QED
    BY <1>3, <1>4, <2>1, <2>2, <2>3 DEF Apart
<1>8. \A t \in Threads : Somewhere(t, qs, s2, NoThread) <=> Somewhere(t, qs, sl, c)
  <2> TAKE t \in Threads
  <2>1. ASSUME Somewhere(t, qs, s2, NoThread) PROVE Somewhere(t, qs, sl, c)
    BY <1>3, <1>5, <2>1 DEF Somewhere
  <2>2. Len(sl) + 1 \in DOMAIN s2 /\ \A n \in DOMAIN sl : n \in DOMAIN s2
    BY <1>2
  <2>3. ASSUME Somewhere(t, qs, sl, c) PROVE Somewhere(t, qs, s2, NoThread)
    BY <1>2, <2>2, <2>3 DEF Somewhere
  <2> QED
    BY <2>1, <2>3
<1> QED
  BY <1>1, <1>2, <1>7, <1>8 DEF Once, Typed, AllIn, s2

LEMMA Exits ==
  ASSUME NEW qs, NEW sl, NEW c \in Threads, NEW L, Once(qs, sl, c, L)
  PROVE  Once(qs, sl, NoThread, L \ {c})
<1>1. qs \in [Qs -> Seq(Threads)] /\ sl \in Seq(SleeperType)
  BY DEF Once, Typed
<1>2. NoThread \notin Threads
      /\ (\A k \in Qs : \A n \in DOMAIN qs[k] : qs[k][n] \in Threads)
      /\ \A n \in DOMAIN sl : sl[n].tcb \in Threads
  BY <1>1, UserThreadsAssumption, Sleepers, Queues
<1>3. Apart(qs, sl, c) /\ AllIn(qs, sl, c, L)
  BY DEF Once
<1>4. Apart(qs, sl, NoThread)
  BY <1>2, <1>3 DEF Apart
<1>5. \A t \in Threads : Somewhere(t, qs, sl, NoThread) <=> Somewhere(t, qs, sl, c) /\ t # c
  BY <1>2, <1>3 DEF Apart, Somewhere
<1>6. AllIn(qs, sl, NoThread, L \ {c})
  BY <1>3, <1>5 DEF AllIn
<1> QED
  BY <1>1, <1>4, <1>6 DEF Once, Typed

(* ps is the function p over 1 .. c in front of the sequence s.             *)
Prefixed(p, c, s, ps, T) ==
  /\ ps \in Seq(T)
  /\ DOMAIN ps = 1 .. c + Len(s)
  /\ \A n \in 1 .. c : ps[n] = p[n]
  /\ \A n \in 1 .. Len(s) : ps[c + n] = s[n]

LEMMA InFront ==
  ASSUME NEW T, NEW c \in Nat, NEW p \in [1 .. c -> T], NEW s \in Seq(T)
  PROVE  Prefixed(p, c, s, p \o s, T)
<1>1. p \in Seq(T) /\ Len(p) = c
  OBVIOUS
<1> QED
  BY <1>1 DEF Prefixed

(* Some sleepers come to the front of the queues: those in the places A of  *)
(* the list, ord[k][n] to the place n of queue k; rest[n] is where the n-th *)
(* that stays has been.                                                     *)
ToFront(qs, sl, A, c, ord, q2) ==
  /\ q2 \in [Qs -> Seq(Threads)]
  /\ A \subseteq DOMAIN sl
  /\ \A k \in Qs : c[k] \in Nat /\ DOMAIN q2[k] = 1 .. c[k] + Len(qs[k])
  /\ \A k \in Qs : \A n \in 1 .. c[k] : ord[k][n] \in A /\ sl[ord[k][n]].queue = k
  /\ \A k \in Qs : \A m, n \in 1 .. c[k] : ord[k][m] = ord[k][n] => m = n
  /\ \A a \in A : \E k \in Qs : \E n \in 1 .. c[k] : ord[k][n] = a
  /\ \A k \in Qs : \A n \in 1 .. c[k] : q2[k][n] = sl[ord[k][n]].tcb
  /\ \A k \in Qs : \A n \in 1 .. Len(qs[k]) : q2[k][c[k] + n] = qs[k][n]

Staying(sl, A, rest, s2) ==
  /\ s2 \in Seq(SleeperType)
  /\ \A n \in DOMAIN s2 : rest[n] \in DOMAIN sl /\ rest[n] \notin A /\ s2[n] = sl[rest[n]]
  /\ \A m, n \in DOMAIN s2 : rest[m] = rest[n] => m = n
  /\ \A a \in DOMAIN sl : a \notin A => \E n \in DOMAIN s2 : rest[n] = a

LEMMA MovedFromList ==
  ASSUME NEW qs, NEW sl, NEW L, Once(qs, sl, NoThread, L),
         NEW A, NEW c, NEW ord, NEW q2, ToFront(qs, sl, A, c, ord, q2),
         NEW rest, NEW s2, Staying(sl, A, rest, s2)
  PROVE  Once(q2, s2, NoThread, L)
<1>1. qs \in [Qs -> Seq(Threads)] /\ Apart(qs, sl, NoThread)
  BY DEF Once, Typed
<1>2. \A k \in Qs : c[k] \in Nat /\ Len(qs[k]) \in Nat /\ DOMAIN qs[k] = 1 .. Len(qs[k])
  BY <1>1, Queues DEF ToFront
<1>3. /\ \A k, l \in Qs : \A m \in DOMAIN qs[k], n \in DOMAIN qs[l] :
            qs[k][m] = qs[l][n] => k = l /\ m = n
      /\ \A m, n \in DOMAIN sl : sl[m].tcb = sl[n].tcb => m = n
      /\ \A k \in Qs : \A m \in DOMAIN qs[k], n \in DOMAIN sl : qs[k][m] # sl[n].tcb
  BY <1>1 DEF Apart
<1>4. \A n \in DOMAIN s2 : rest[n] \in DOMAIN sl /\ rest[n] \notin A /\ s2[n].tcb = sl[rest[n]].tcb
  BY DEF Staying
<1> DEFINE FromList(k, n) ==
             n \in 1 .. c[k] /\ ord[k][n] \in A /\ ord[k][n] \in DOMAIN sl
             /\ sl[ord[k][n]].queue = k /\ q2[k][n] = sl[ord[k][n]].tcb
           FromQueue(k, n) ==
             \E j \in DOMAIN qs[k] : j = n - c[k] /\ q2[k][n] = qs[k][j]
<1>5. ASSUME NEW k \in Qs, NEW n \in DOMAIN q2[k] PROVE FromList(k, n) \/ FromQueue(k, n)
  <2>1. n \in Int /\ c[k] \in Int /\ n >= 1 /\ n <= c[k] + Len(qs[k])
    BY <1>2 DEF ToFront
  <2>2. CASE n <= c[k]
    <3>1. n \in 1 .. c[k]
      BY <2>1, <2>2
    <3> QED
      BY <3>1 DEF ToFront
  <2>3. CASE n > c[k]
    <3>1. n - c[k] \in 1 .. Len(qs[k]) /\ c[k] + (n - c[k]) = n
      BY <1>2, <2>1, <2>3
    <3>2. q2[k][c[k] + (n - c[k])] = qs[k][n - c[k]]
      BY <3>1 DEF ToFront
    <3> QED
      BY <1>2, <3>1, <3>2
  <2> QED
    BY <2>1, <2>2, <2>3
<1>6. Apart(q2, s2, NoThread)
  <2>1. ASSUME NEW x \in Qs, NEW y \in Qs, NEW m \in DOMAIN q2[x], NEW n \in DOMAIN q2[y],
               q2[x][m] = q2[y][n]
        PROVE  x = y /\ m = n
    <3>1. FromList(y, n) \/ FromQueue(y, n)
      BY <1>5
    <3>2. CASE FromList(x, m)
      <4>1. CASE FromList(y, n)
        <5>1. ord[x][m] = ord[y][n]
          BY <1>3, <2>1, <3>2, <4>1
        <5>2. x = y
          BY <3>2, <4>1, <5>1
        <5>3. m \in 1 .. c[x] /\ n \in 1 .. c[x] /\ ord[x][m] = ord[x][n]
          BY <3>2, <4>1, <5>1, <5>2
        <5> QED
          BY <5>2, <5>3 DEF ToFront
      <4>2. CASE FromQueue(y, n)
        <5>1. PICK j \in DOMAIN qs[y] : q2[y][n] = qs[y][j]
          BY <4>2
        <5>2. PICK a \in DOMAIN sl : q2[x][m] = sl[a].tcb
          BY <3>2
        <5>3. qs[y][j] # sl[a].tcb
          BY <1>3
        <5> QED
          BY <2>1, <5>1, <5>2, <5>3
      <4> QED
        BY <3>1, <4>1, <4>2
    <3>3. CASE FromQueue(x, m)
      <4>1. CASE FromQueue(y, n)
        <5>1. PICK j \in DOMAIN qs[y] : j = n - c[y] /\ q2[y][n] = qs[y][j]
          BY <4>1
        <5>2. PICK l \in DOMAIN qs[x] : l = m - c[x] /\ q2[x][m] = qs[x][l]
          BY <3>3
        <5>3. qs[x][l] = qs[y][j]
          BY <2>1, <5>1, <5>2
        <5>4. x = y /\ l = j
          BY <1>3, <5>3
        <5>5. x = y /\ m - c[x] = n - c[x]
          BY <5>1, <5>2, <5>4
        <5>6. m \in Int /\ n \in Int /\ c[x] \in Int
          BY <1>2 DEF ToFront
        <5> QED
          BY <5>5, <5>6
      <4>2. CASE FromList(y, n)
        <5>1. PICK j \in DOMAIN qs[x] : q2[x][m] = qs[x][j]
          BY <3>3
        <5>2. PICK a \in DOMAIN sl : q2[y][n] = sl[a].tcb
          BY <4>2
        <5>3. qs[x][j] # sl[a].tcb
          BY <1>3
        <5> QED
          BY <2>1, <5>1, <5>2, <5>3
      <4> QED
        BY <3>1, <4>1, <4>2
    <3>4. FromList(x, m) \/ FromQueue(x, m)
      BY <1>5
    <3> QED
      BY <3>2, <3>3, <3>4
  <2>2. ASSUME NEW k \in Qs, NEW m \in DOMAIN q2[k], NEW n \in DOMAIN s2,
               q2[k][m] = s2[n].tcb
        PROVE  FALSE
    <3>1. CASE FromList(k, m)
      <4>1. sl[ord[k][m]].tcb = sl[rest[n]].tcb
        BY <1>4, <2>2, <3>1
      <4>2. ord[k][m] \in DOMAIN sl /\ rest[n] \in DOMAIN sl
        BY <1>4, <3>1
      <4>3. ord[k][m] = rest[n]
        BY <1>3, <4>1, <4>2
      <4> QED
        BY <1>4, <3>1, <4>3
    <3>2. CASE FromQueue(k, m)
      <4>1. PICK j \in DOMAIN qs[k] : q2[k][m] = qs[k][j]
        BY <3>2
      <4>2. rest[n] \in DOMAIN sl /\ s2[n].tcb = sl[rest[n]].tcb
        BY <1>4
      <4>3. qs[k][j] # sl[rest[n]].tcb
        BY <1>3, <4>2
      <4> QED
        BY <2>2, <4>1, <4>2, <4>3
    <3>3. FromList(k, m) \/ FromQueue(k, m)
      BY <1>5
    <3> QED
      BY <3>1, <3>2, <3>3
  <2>3. ASSUME NEW m \in DOMAIN s2, NEW n \in DOMAIN s2, s2[m].tcb = s2[n].tcb PROVE m = n
    <3>1. rest[m] = rest[n]
      BY <1>3, <1>4, <2>3
    <3> QED
      BY <3>1 DEF Staying
  <2>4. \A k \in Qs : \A m \in DOMAIN q2[k] : q2[k][m] # NoThread
    <3>1. q2 \in [Qs -> Seq(Threads)]
      BY DEF ToFront
    <3>2. \A k \in Qs : \A m \in DOMAIN q2[k] : q2[k][m] \in Threads
      BY <3>1, Queues
    <3> QED
      BY <3>2, UserThreadsAssumption
  <2>5. \A n \in DOMAIN s2 : s2[n].tcb # NoThread
    <3>1. s2 \in Seq(SleeperType)
      BY DEF Staying
    <3>2. \A n \in DOMAIN s2 : s2[n].tcb \in Threads
      BY <3>1, Sleepers
    <3> QED
      BY <3>2, UserThreadsAssumption
  <2> QED
    BY <2>1, <2>2, <2>3, <2>4, <2>5 DEF Apart
<1>7. \A t \in Threads : Somewhere(t, q2, s2, NoThread) <=> Somewhere(t, qs, sl, NoThread)
  <2> TAKE t \in Threads
  <2>1. t # NoThread
    BY UserThreadsAssumption
  <2>2. ASSUME Somewhere(t, q2, s2, NoThread) PROVE Somewhere(t, qs, sl, NoThread)
    <3>1. ASSUME NEW k \in Qs, NEW n \in DOMAIN q2[k], q2[k][n] = t
          PROVE  Somewhere(t, qs, sl, NoThread)
      <4>1. FromList(k, n) \/ FromQueue(k, n)
        BY <1>5
      <4>2. CASE FromList(k, n)
        BY <3>1, <4>2 DEF Somewhere
      <4>3. CASE FromQueue(k, n)
        BY <3>1, <4>3 DEF Somewhere
      <4> QED
        BY <4>1, <4>2, <4>3
    <3>2. ASSUME NEW n \in DOMAIN s2, s2[n].tcb = t PROVE Somewhere(t, qs, sl, NoThread)
      BY <1>4, <3>2 DEF Somewhere
    <3> QED
      BY <2>1, <2>2, <3>1, <3>2 DEF Somewhere
  <2>3. ASSUME Somewhere(t, qs, sl, NoThread) PROVE Somewhere(t, q2, s2, NoThread)
    <3>1. ASSUME NEW k \in Qs, NEW n \in DOMAIN qs[k], qs[k][n] = t
          PROVE  Somewhere(t, q2, s2, NoThread)
      <4>1. n \in 1 .. Len(qs[k]) /\ c[k] + n \in 1 .. c[k] + Len(qs[k])
        BY <1>2
      <4>2. c[k] + n \in DOMAIN q2[k] /\ q2[k][c[k] + n] = t
        BY <3>1, <4>1 DEF ToFront
      <4> QED
        BY <4>2 DEF Somewhere
    <3>2. ASSUME NEW a \in DOMAIN sl, sl[a].tcb = t PROVE Somewhere(t, q2, s2, NoThread)
      <4>1. CASE a \in A
        <5>1. PICK k \in Qs : \E n \in 1 .. c[k] : ord[k][n] = a
          BY <4>1 DEF ToFront
        <5>2. PICK n \in 1 .. c[k] : ord[k][n] = a
          BY <5>1
        <5>3. n \in 1 .. c[k] + Len(qs[k])
          BY <1>2, <5>2
        <5>4. n \in DOMAIN q2[k] /\ q2[k][n] = t
          BY <3>2, <5>2, <5>3 DEF ToFront
        <5> QED
          BY <5>4 DEF Somewhere
      <4>2. CASE a \notin A
        <5>1. PICK n \in DOMAIN s2 : rest[n] = a
          BY <4>2 DEF Staying
        <5>2. s2[n].tcb = t
          BY <1>4, <3>2, <5>1
        <5> QED
          BY <5>2 DEF Somewhere
      <4> QED
        BY <4>1, <4>2
    <3> QED
      BY <2>1, <2>3, <3>1, <3>2 DEF Somewhere
  <2> QED
    BY <2>2, <2>3
<1>8. Typed(q2, s2, NoThread)
  BY DEF Typed, ToFront, Staying
<1> QED
  BY <1>6, <1>7, <1>8 DEF Once, AllIn

(* wake: A are the sleepers whose time has come, ord[k] lists those that go *)
(* to queue k, rest the others.                                             *)
Split(qs, sl, A, ord, rest, q2, s2) ==
  /\ A \in SUBSET DOMAIN sl
  /\ \A k \in Qs : Lists(ord[k], {n \in A : sl[n].queue = k})
  /\ Lists(rest, DOMAIN sl \ A)
  /\ q2 = [k \in Qs |-> [n \in DOMAIN ord[k] |-> sl[ord[k][n]].tcb] \o qs[k]]
  /\ s2 = [n \in DOMAIN rest |-> sl[rest[n]]]

LEMMA Wakes ==
  ASSUME NEW qs, NEW sl, NEW L, Once(qs, sl, NoThread, L),
         NEW A, NEW ord, NEW rest, NEW q2, NEW s2,
         Split(qs, sl, A, ord, rest, q2, s2)
  PROVE  Once(q2, s2, NoThread, L) /\ Len(s2) = Cardinality(DOMAIN sl \ A)
<1> DEFINE ToQueue(k) == {n \in A : sl[n].queue = k}
           c == [k \in Qs |-> Cardinality(ToQueue(k))]
<1> USE DEF Split
<1>1. qs \in [Qs -> Seq(Threads)] /\ sl \in Seq(SleeperType)
  BY DEF Once, Typed
<1>2. \A n \in DOMAIN sl : sl[n] \in SleeperType /\ sl[n].tcb \in Threads /\ sl[n].queue \in Qs
  BY <1>1, Sleepers
<1>3. \A k \in Qs : \A n \in ToQueue(k) : n \in A /\ sl[n].queue = k
  OBVIOUS
<1>4. \A a \in A : sl[a].queue \in Qs /\ a \in ToQueue(sl[a].queue)
  BY <1>2
<1>5. \A k \in Qs : Lists(ord[k], ToQueue(k))
  OBVIOUS
<1>6. \A k \in Qs : c[k] = Cardinality(ToQueue(k))
  OBVIOUS
<1> HIDE DEF ToQueue, c
<1>7. ASSUME NEW k \in Qs
      PROVE  /\ c[k] \in Nat /\ DOMAIN ord[k] = 1 .. c[k]
             /\ \A n \in 1 .. c[k] : ord[k][n] \in A /\ sl[ord[k][n]].queue = k
             /\ \A m, n \in 1 .. c[k] : ord[k][m] = ord[k][n] => m = n
             /\ \A x \in ToQueue(k) : \E n \in 1 .. c[k] : ord[k][n] = x
  <2>1. Lists(ord[k], ToQueue(k)) /\ c[k] = Cardinality(ToQueue(k))
    BY <1>5, <1>6
  <2> QED
    BY <2>1, <1>3 DEF Lists
<1>8. \A a \in A : \E k \in Qs : \E n \in 1 .. c[k] : ord[k][n] = a
  BY <1>7, <1>4
<1>9. ASSUME NEW k \in Qs
      PROVE  /\ q2[k] \in Seq(Threads)
             /\ DOMAIN q2[k] = 1 .. c[k] + Len(qs[k])
             /\ \A n \in 1 .. c[k] : q2[k][n] = sl[ord[k][n]].tcb
             /\ \A n \in 1 .. Len(qs[k]) : q2[k][c[k] + n] = qs[k][n]
  <2> DEFINE p == [n \in DOMAIN ord[k] |-> sl[ord[k][n]].tcb]
  <2>1. p \in [1 .. c[k] -> Threads] /\ c[k] \in Nat /\ qs[k] \in Seq(Threads)
    BY <1>1, <1>2, <1>7
  <2>2. q2[k] = p \o qs[k] /\ \A n \in 1 .. c[k] : p[n] = sl[ord[k][n]].tcb
    BY <1>7
  <2> HIDE DEF p
  <2>3. Prefixed(p, c[k], qs[k], p \o qs[k], Threads)
    BY <2>1, InFront
  <2> QED
    BY <2>2, <2>3 DEF Prefixed
<1>10. q2 \in [Qs -> Seq(Threads)]
  <2>1. \A k \in Qs : q2[k] \in Seq(Threads)
    BY <1>9
  <2> QED
    BY <2>1
<1>11. /\ Cardinality(DOMAIN sl \ A) \in Nat /\ DOMAIN rest = 1 .. Cardinality(DOMAIN sl \ A)
       /\ \A n \in DOMAIN rest : rest[n] \in DOMAIN sl /\ rest[n] \notin A
       /\ \A m, n \in DOMAIN rest : rest[m] = rest[n] => m = n
       /\ \A a \in DOMAIN sl : a \notin A => \E n \in DOMAIN rest : rest[n] = a
  BY DEF Lists
<1>12. s2 \in Seq(SleeperType) /\ Len(s2) = Cardinality(DOMAIN sl \ A)
       /\ DOMAIN s2 = DOMAIN rest /\ \A n \in DOMAIN s2 : s2[n] = sl[rest[n]]
  <2> DEFINE N == Cardinality(DOMAIN sl \ A)
  <2>1. N \in Nat /\ DOMAIN rest = 1 .. N
    BY <1>11
  <2> HIDE DEF N
  <2>2. s2 \in [1 .. N -> SleeperType] /\ \A n \in DOMAIN s2 : s2[n] = sl[rest[n]]
    BY <1>2, <1>11, <2>1
  <2>3. s2 \in Seq(SleeperType) /\ Len(s2) = N /\ DOMAIN s2 = 1 .. N
    BY <2>1, <2>2
  <2> QED
    BY <2>1, <2>2, <2>3 DEF N
<1>13. ToFront(qs, sl, A, c, ord, q2)
  BY <1>7, <1>8, <1>9, <1>10 DEF ToFront
<1>14. Staying(sl, A, rest, s2)
  BY <1>11, <1>12 DEF Staying
<1>15. Once(q2, s2, NoThread, L)
  BY <1>13, <1>14, MovedFromList
<1> QED
  BY <1>12, <1>15

(* Threads that are moved to queue 0, from the places f[n], g[n].           *)
AllUp(qs, q2, f, g) ==
  /\ q2 \in [Qs -> Seq(Threads)]
  /\ \A k \in Qs : k # 0 => q2[k] = <<>>
  /\ \A n \in DOMAIN q2[0] : /\ f[n] \in Qs /\ g[n] \in DOMAIN qs[f[n]]
                             /\ q2[0][n] = qs[f[n]][g[n]]
  /\ \A m, n \in DOMAIN q2[0] : f[m] = f[n] /\ g[m] = g[n] => m = n
  /\ \A k \in Qs : \A n \in DOMAIN qs[k] : \E m \in DOMAIN q2[0] : q2[0][m] = qs[k][n]

LEMMA MovedUp ==
  ASSUME NEW qs, NEW sl, NEW L, Once(qs, sl, NoThread, L),
         NEW q2, NEW f, NEW g, AllUp(qs, q2, f, g)
  PROVE  Once(q2, sl, NoThread, L)
<1>1. Apart(qs, sl, NoThread) /\ sl \in Seq(SleeperType) /\ 0 \in Qs
  BY UserThreadsAssumption DEF Once, Typed, Qs
<1>2. ASSUME NEW k \in Qs, NEW n \in DOMAIN q2[k] PROVE k = 0
  <2>1. CASE k # 0
    <3>1. q2[k] = <<>>
      BY <2>1 DEF AllUp
    <3>2. DOMAIN q2[k] = {}
      BY <3>1
    <3> QED
      BY <3>2
  <2> QED
    BY <2>1
<1>3. /\ \A k, l \in Qs : \A m \in DOMAIN qs[k], n \in DOMAIN qs[l] :
            qs[k][m] = qs[l][n] => k = l /\ m = n
      /\ \A m, n \in DOMAIN sl : sl[m].tcb = sl[n].tcb => m = n
      /\ \A k \in Qs : \A m \in DOMAIN qs[k] : qs[k][m] # NoThread
      /\ \A n \in DOMAIN sl : sl[n].tcb # NoThread
      /\ \A k \in Qs : \A m \in DOMAIN qs[k], n \in DOMAIN sl : qs[k][m] # sl[n].tcb
  BY <1>1 DEF Apart
<1>4. \A n \in DOMAIN q2[0] : /\ f[n] \in Qs /\ g[n] \in DOMAIN qs[f[n]]
                              /\ q2[0][n] = qs[f[n]][g[n]]
  BY DEF AllUp
<1>5. Apart(q2, sl, NoThread)
  <2>1. ASSUME NEW x \in Qs, NEW y \in Qs, NEW m \in DOMAIN q2[x], NEW n \in DOMAIN q2[y],
               q2[x][m] = q2[y][n]
        PROVE  x = y /\ m = n
    <3>1. x = 0 /\ y = 0
      BY <1>2
    <3>2. m \in DOMAIN q2[0] /\ n \in DOMAIN q2[0] /\ q2[0][m] = q2[0][n]
      BY <2>1, <3>1
    <3>3. f[m] = f[n] /\ g[m] = g[n]
      BY <1>3, <1>4, <3>2
    <3> QED
      BY <3>1, <3>2, <3>3 DEF AllUp
  <2>2. ASSUME NEW k \in Qs, NEW m \in DOMAIN q2[k]
        PROVE  q2[k][m] # NoThread /\ \A n \in DOMAIN sl : q2[k][m] # sl[n].tcb
    <3>1. k = 0
      BY <1>2
    <3>2. f[m] \in Qs /\ g[m] \in DOMAIN qs[f[m]] /\ q2[k][m] = qs[f[m]][g[m]]
      BY <1>4, <3>1
    <3> QED
      BY <1>3, <3>2
  <2> QED
    BY <1>3, <2>1, <2>2 DEF Apart
<1>6. \A t \in Threads : Somewhere(t, q2, sl, NoThread) <=> Somewhere(t, qs, sl, NoThread)
  <2> TAKE t \in Threads
  <2>1. ASSUME Somewhere(t, q2, sl, NoThread) PROVE Somewhere(t, qs, sl, NoThread)
    <3>1. ASSUME NEW k \in Qs, NEW n \in DOMAIN q2[k], q2[k][n] = t
          PROVE  Somewhere(t, qs, sl, NoThread)
      <4>1. k = 0
        BY <1>2
      <4> QED
        BY <1>4, <3>1, <4>1 DEF Somewhere
    <3> QED
      BY <2>1, <3>1 DEF Somewhere
  <2>2. ASSUME Somewhere(t, qs, sl, NoThread) PROVE Somewhere(t, q2, sl, NoThread)
    <3>1. ASSUME NEW k \in Qs, NEW n \in DOMAIN qs[k], qs[k][n] = t
          PROVE  Somewhere(t, q2, sl, NoThread)
      <4>1. PICK m \in DOMAIN q2[0] : q2[0][m] = qs[k][n]
        BY DEF AllUp
      <4> QED
        BY <1>1, <3>1, <4>1 DEF Somewhere
    <3> QED
      BY <2>2, <3>1 DEF Somewhere
  <2> QED
    BY <2>1, <2>2
<1>7. Typed(q2, sl, NoThread)
  BY <1>1 DEF Typed, AllUp
<1> QED
  BY <1>5, <1>6, <1>7 DEF Once, AllIn

LEMMA SameDifference == \A a, b, d \in Int : a - d = b - d => a = b
OBVIOUS

(* resurf: top lists the places of the queues below queue 0.                *)
LEMMA Resurfaces ==
  ASSUME NEW qs, NEW sl, NEW L, Once(qs, sl, NoThread, L),
         NEW P, P = UNION {{k} \X DOMAIN qs[k] : k \in Qs \ {0}},
         NEW top, Lists(top, P),
         NEW q2, q2 = [k \in Qs |-> IF k = 0
                                      THEN [n \in DOMAIN top |-> qs[top[n][1]][top[n][2]]] \o qs[0]
                                      ELSE <<>>]
  PROVE  Once(q2, sl, NoThread, L)
<1> DEFINE c == Cardinality(P)
           f == [n \in DOMAIN q2[0] |-> IF n <= c THEN top[n][1] ELSE 0]
           g == [n \in DOMAIN q2[0] |-> IF n <= c THEN top[n][2] ELSE n - c]
<1>1. qs \in [Qs -> Seq(Threads)] /\ sl \in Seq(SleeperType)
  BY DEF Once, Typed
<1>2. \A k \in Qs : /\ Len(qs[k]) \in Nat /\ DOMAIN qs[k] = 1 .. Len(qs[k])
                    /\ \A n \in DOMAIN qs[k] : qs[k][n] \in Threads
  BY <1>1, Queues
<1>3. /\ c \in Nat /\ DOMAIN top = 1 .. c
      /\ \A n \in 1 .. c : top[n] \in P
      /\ \A m, n \in 1 .. c : top[m] = top[n] => m = n
      /\ \A x \in P : \E n \in 1 .. c : top[n] = x
  BY DEF Lists
<1>4. \A x \in P : x[1] \in Qs /\ x[1] # 0 /\ x[2] \in DOMAIN qs[x[1]] /\ x = <<x[1], x[2]>>
  OBVIOUS
<1>5. \A k \in Qs : k # 0 => \A n \in DOMAIN qs[k] : <<k, n>> \in P
  OBVIOUS
<1> HIDE DEF c
<1>6. 0 \in Qs
  BY UserThreadsAssumption DEF Qs
<1>7. /\ q2[0] \in Seq(Threads)
      /\ DOMAIN q2[0] = 1 .. c + Len(qs[0])
      /\ \A n \in 1 .. c : q2[0][n] = qs[top[n][1]][top[n][2]]
      /\ \A n \in 1 .. Len(qs[0]) : q2[0][c + n] = qs[0][n]
      /\ \A k \in Qs : k # 0 => q2[k] = <<>>
  <2> DEFINE p == [n \in DOMAIN top |-> qs[top[n][1]][top[n][2]]]
  <2>1. p \in [1 .. c -> Threads] /\ c \in Nat /\ qs[0] \in Seq(Threads)
    BY <1>1, <1>2, <1>3, <1>4, <1>6
  <2>2. q2[0] = p \o qs[0] /\ \A n \in 1 .. c : p[n] = qs[top[n][1]][top[n][2]]
    BY <1>3, <1>6
  <2>3. \A k \in Qs : k # 0 => q2[k] = <<>>
    OBVIOUS
  <2> HIDE DEF p
  <2>4. Prefixed(p, c, qs[0], p \o qs[0], Threads)
    BY <2>1, InFront
  <2> QED
    BY <2>2, <2>3, <2>4 DEF Prefixed
<1>8. q2 \in [Qs -> Seq(Threads)]
  <2>1. ASSUME NEW k \in Qs PROVE q2[k] \in Seq(Threads)
    <3>1. CASE k = 0
      BY <1>7, <3>1
    <3>2. CASE k # 0
      <4>1. q2[k] = <<>>
        BY <1>7, <3>2
      <4>2. <<>> \in Seq(Threads)
        OBVIOUS
      <4> QED
        BY <4>1, <4>2
    <3> QED
      BY <3>1, <3>2
  <2> QED
    BY <2>1
<1>9. ASSUME NEW n \in DOMAIN q2[0]
      PROVE  /\ n \in Int /\ c \in Int
             /\ \/ n \in 1 .. c /\ n <= c /\ top[n] \in P
                \/ ~ n <= c /\ n - c \in 1 .. Len(qs[0]) /\ c + (n - c) = n
  BY <1>2, <1>3, <1>6, <1>7
<1>10. ASSUME NEW n \in DOMAIN q2[0]
       PROVE  /\ f[n] \in Qs /\ g[n] \in DOMAIN qs[f[n]]
              /\ q2[0][n] = qs[f[n]][g[n]]
              /\ n <= c => f[n] # 0 /\ top[n] = <<f[n], g[n]>>
              /\ ~ n <= c => f[n] = 0 /\ g[n] = n - c
  <2>1. CASE n \in 1 .. c /\ n <= c /\ top[n] \in P
    <3>1. f[n] = top[n][1] /\ g[n] = top[n][2]
      BY <2>1
    <3> HIDE DEF f, g
    <3> QED
      BY <1>4, <1>7, <2>1, <3>1
  <2>2. CASE ~ n <= c /\ n - c \in 1 .. Len(qs[0]) /\ c + (n - c) = n
    <3>1. f[n] = 0 /\ g[n] = n - c
      BY <2>2
    <3> HIDE DEF f, g
    <3>2. q2[0][c + (n - c)] = qs[0][n - c]
      BY <1>7, <2>2
    <3> QED
      BY <1>2, <1>6, <2>2, <3>1, <3>2
  <2> QED
    BY <1>9, <2>1, <2>2
<1> HIDE DEF f, g
<1>11. ASSUME NEW m \in DOMAIN q2[0], NEW n \in DOMAIN q2[0], f[m] = f[n], g[m] = g[n]
       PROVE  m = n
  <2>1. m <= c <=> n <= c
    BY <1>10, <1>11
  <2>2. CASE m <= c
    <3>1. m \in 1 .. c /\ n \in 1 .. c
      BY <1>9, <2>1, <2>2
    <3>2. top[m] = <<f[m], g[m]>> /\ top[n] = <<f[n], g[n]>>
      BY <1>10, <2>1, <2>2
    <3>3. m \in 1 .. c /\ n \in 1 .. c /\ top[m] = top[n]
      BY <1>11, <3>1, <3>2
    <3> QED
      BY <1>3, <3>3
  <2>3. CASE ~ m <= c
    <3>1. m \in Int /\ n \in Int /\ c \in Int
      BY <1>9
    <3>2. g[m] = m - c /\ g[n] = n - c
      BY <1>10, <2>1, <2>3
    <3>3. m - c = n - c /\ m \in Int /\ n \in Int /\ c \in Int
      BY <1>11, <3>1, <3>2
    <3> QED
      BY <3>3, SameDifference, Zenon
  <2> QED
    BY <2>2, <2>3
<1>12. ASSUME NEW k \in Qs, NEW n \in DOMAIN qs[k]
       PROVE  \E m \in DOMAIN q2[0] : q2[0][m] = qs[k][n]
  <2>1. CASE k = 0
    <3>1. n \in 1 .. Len(qs[0]) /\ c + n \in DOMAIN q2[0]
      BY <1>2, <1>3, <1>6, <1>7, <2>1
    <3>2. q2[0][c + n] = qs[0][n]
      BY <1>7, <3>1
    <3> QED
      BY <2>1, <3>1, <3>2
  <2>2. CASE k # 0
    <3>1. PICK m \in 1 .. c : top[m] = <<k, n>>
      BY <1>3, <1>5, <2>2
    <3>2. m \in DOMAIN q2[0]
      BY <1>2, <1>3, <1>6, <1>7
    <3>3. top[m][1] = k /\ top[m][2] = n
      BY <3>1
    <3>4. q2[0][m] = qs[k][n]
      BY <1>7, <3>3
    <3> QED
      BY <3>2, <3>4
  <2> QED
    BY <2>1, <2>2
<1>13. AllUp(qs, q2, f, g)
  BY <1>7, <1>8, <1>10, <1>11, <1>12 DEF AllUp
<1> QED
  BY <1>13, MovedUp

(* A thread that is forked.                                                 *)
LEMMA Appears ==
  ASSUME NEW qs, NEW sl, NEW t \in Threads, NEW L, Once(qs, sl, NoThread, L), t \notin L
  PROVE  Once(qs, sl, t, L \cup {t})
<1>1. qs \in [Qs -> Seq(Threads)] /\ sl \in Seq(SleeperType)
  BY DEF Once, Typed
<1>2. NoThread \notin Threads
  BY UserThreadsAssumption
<1>3. Apart(qs, sl, NoThread) /\ AllIn(qs, sl, NoThread, L)
  BY DEF Once
<1>4. ~ Somewhere(t, qs, sl, NoThread)
  BY <1>3 DEF AllIn
<1>5. Apart(qs, sl, t)
  BY <1>3, <1>4 DEF Apart, Somewhere
<1>6. \A u \in Threads : Somewhere(u, qs, sl, t) <=> Somewhere(u, qs, sl, NoThread) \/ u = t
  BY <1>2 DEF Somewhere
<1>7. AllIn(qs, sl, t, L \cup {t})
  BY <1>3, <1>6 DEF AllIn
<1> QED
  BY <1>1, <1>5, <1>7 DEF Once, Typed

(* Time passes for the sleepers.                                            *)
LEMMA Aged ==
  ASSUME NEW qs, NEW sl, NEW c, NEW L, Once(qs, sl, c, L),
         NEW s2, s2 = [n \in DOMAIN sl |-> [sl[n] EXCEPT !.left = IF @ = 0 THEN 0 ELSE @ - 1]]
  PROVE  Once(qs, s2, c, L) /\ Len(s2) = Len(sl)
<1>1. sl \in Seq(SleeperType)
  BY DEF Once, Typed
<1>2. \A e \in SleeperType :
        /\ [e EXCEPT !.left = IF @ = 0 THEN 0 ELSE @ - 1] \in SleeperType
        /\ [e EXCEPT !.left = IF @ = 0 THEN 0 ELSE @ - 1].tcb = e.tcb
  BY DEF SleeperType
<1>3. Len(sl) \in Nat /\ DOMAIN sl = 1 .. Len(sl) /\ \A n \in DOMAIN sl : sl[n] \in SleeperType
  BY <1>1, Sleepers
<1>4. DOMAIN s2 = DOMAIN sl /\ \A n \in DOMAIN sl : s2[n] \in SleeperType /\ s2[n].tcb = sl[n].tcb
  BY <1>2, <1>3
<1>5. s2 \in [1 .. Len(sl) -> SleeperType]
  <2>1. s2 = [n \in 1 .. Len(sl) |-> [sl[n] EXCEPT !.left = IF @ = 0 THEN 0 ELSE @ - 1]]
    BY <1>3
  <2> QED
    BY <1>2, <1>3, <2>1
<1>6. s2 \in Seq(SleeperType) /\ Len(s2) = Len(sl)
  BY <1>3, <1>5
<1>7. Apart(qs, s2, c)
  BY <1>4 DEF Once, Apart
<1>8. AllIn(qs, s2, c, L)
  <2>1. \A t : (\E n \in DOMAIN s2 : s2[n].tcb = t) <=> (\E n \in DOMAIN sl : sl[n].tcb = t)
    BY <1>4
  <2>2. \A t : Somewhere(t, qs, s2, c) <=> Somewhere(t, qs, sl, c)
    BY <2>1 DEF Somewhere
  <2> QED
    BY <2>2 DEF Once, AllIn
<1> QED
  BY <1>6, <1>7, <1>8 DEF Once, Typed

------------------------------------------------------------------------------
(* The inductive invariant: the parts of TypeOK and the first two           *)
(* properties in the form the steps preserve, and where the scheduler is.   *)
SchedInv ==
  /\ Once(queues, sleepers, cur_thread, live)
  /\ sleeping = Len(sleepers)
  /\ cur_queue \in Qs
  /\ pc \in {"main", "wake", "pick", "block", "run", "end"}
  /\ cur_thread # NoThread <=> pc = "run"
  /\ i \in 0 .. NUM_QUEUES
  /\ pc = "pick" => i # NUM_QUEUES
  /\ sinceResurf \in 0 .. resurfDelay + 1
  /\ slice \in 0 .. SliceTicks
  /\ NeverStuck
  /\ pc = "end" => sleepers = <<>> /\ runq = <<>>

LEMMA EmptyLists ==
  /\ \A sl \in Seq(SleeperType) : Len(sl) \in Nat /\ (Len(sl) = 0 <=> sl = <<>>)
  /\ 0 \in Qs
<1>1. \A sl \in Seq(SleeperType) : Len(sl) \in Nat /\ (Len(sl) = 0 <=> sl = <<>>)
  OBVIOUS
<1>2. 0 \in Qs
  BY UserThreadsAssumption DEF Qs
<1> QED
  BY <1>1, <1>2

(* One call of wake.                                                        *)
LEMMA WakeStep ==
  ASSUME Once(queues, sleepers, NoThread, live), sleeping = Len(sleepers), wake
  PROVE  /\ Once(queues', sleepers', NoThread, live)
         /\ sleeping' = Len(sleepers')
         /\ Awoke = {} => sleeping' = sleeping
<1> DEFINE ord == [k \in Qs |-> InOrder(AwokeOn(k), Later)]
           rest == InOrder(StillAsleep, Earlier)
           q2 == [k \in Qs |-> [n \in DOMAIN ord[k] |-> sleepers[ord[k][n]].tcb] \o queues[k]]
           s2 == [n \in DOMAIN rest |-> sleepers[rest[n]]]
<1>1. sleepers \in Seq(SleeperType) /\ Len(sleepers) \in Nat /\ DOMAIN sleepers = 1 .. Len(sleepers)
  BY Sleepers DEF Once, Typed
<1>2. /\ IsFiniteSet(DOMAIN sleepers) /\ Cardinality(DOMAIN sleepers) = Len(sleepers)
      /\ DOMAIN sleepers \in SUBSET Int
  <2>1. 1 \in Int /\ Len(sleepers) \in Int
    BY <1>1
  <2>2. /\ IsFiniteSet(1 .. Len(sleepers))
        /\ Cardinality(1 .. Len(sleepers)) = IF 1 > Len(sleepers) THEN 0 ELSE Len(sleepers) - 1 + 1
    BY <2>1, FS_Interval
  <2> QED
    BY <1>1, <2>2
<1>3. Awoke \in SUBSET DOMAIN sleepers /\ IsFiniteSet(Awoke)
  <2>1. Awoke \in SUBSET DOMAIN sleepers
    BY DEF Awoke
  <2> QED
    BY <1>2, <2>1, FS_Subset
<1>4. \A k \in Qs : Lists(ord[k], {n \in Awoke : sleepers[n].queue = k})
  <2> TAKE k \in Qs
  <2>1. AwokeOn(k) \in SUBSET Awoke
    BY DEF AwokeOn
  <2>2. IsFiniteSet(AwokeOn(k)) /\ AwokeOn(k) \in SUBSET Int
    BY <1>2, <1>3, <2>1, FS_Subset
  <2>3. Lists(InOrder(AwokeOn(k), Later), AwokeOn(k))
    BY <2>2, LaterLists
  <2>4. ord[k] = InOrder(AwokeOn(k), Later)
    OBVIOUS
  <2> QED
    BY <2>3, <2>4 DEF AwokeOn
<1>5. Lists(rest, DOMAIN sleepers \ Awoke)
  <2>1. IsFiniteSet(StillAsleep) /\ StillAsleep \in SUBSET Int
    BY <1>2, FS_Difference DEF StillAsleep
  <2> QED
    BY <2>1, EarlierLists DEF StillAsleep
<1>6. queues' = q2
  <2>1. \A k \in Qs : Pushed(k) = [n \in DOMAIN ord[k] |-> sleepers[ord[k][n]].tcb]
    BY DEF Pushed
  <2>2. queues' = [k \in Qs |-> Pushed(k) \o queues[k]]
    BY DEF wake
  <2> QED
    BY <2>1, <2>2
<1>7. sleepers' = s2
  BY DEF wake, Kept
<1>8. Once(q2, s2, NoThread, live) /\ Len(s2) = Cardinality(DOMAIN sleepers \ Awoke)
  <2> HIDE DEF ord, rest
  <2>1. Split(queues, sleepers, Awoke, ord, rest, q2, s2)
    BY <1>3, <1>4, <1>5 DEF Split
  <2> HIDE DEF q2, s2
  <2> QED
    BY <2>1, Wakes
<1>9. Cardinality(DOMAIN sleepers \ Awoke) = Len(sleepers) - Cardinality(Awoke)
  <2> DEFINE D == DOMAIN sleepers
  <2>1. D \cap Awoke = Awoke
    BY <1>3
  <2>2. IsFiniteSet(D) /\ Cardinality(D) = Len(sleepers)
    BY <1>2
  <2> HIDE DEF D
  <2>3. Cardinality(D \ Awoke) = Cardinality(D) - Cardinality(D \cap Awoke)
    BY <2>2, FS_Difference
  <2>4. Cardinality(D \ Awoke) = Len(sleepers) - Cardinality(Awoke)
    BY <2>1, <2>2, <2>3
  <2> QED
    BY <2>4 DEF D
<1>10. sleeping' = sleeping - Cardinality(Awoke)
  BY DEF wake
<1>11. Awoke = {} => Cardinality(Awoke) = 0
  BY FS_EmptySet
<1> HIDE DEF q2, s2
<1> QED
  BY <1>1, <1>6, <1>7, <1>8, <1>9, <1>10, <1>11

(* The queues after a resurf.                                               *)
LEMMA ResurfStep ==
  ASSUME Once(queues, sleepers, NoThread, live)
  PROVE  Once(Resurfaced, sleepers, NoThread, live)
<1> DEFINE top == InOrder(Lower, Upward)
<1>1. \A k \in Qs : Len(queues[k]) \in Nat /\ DOMAIN queues[k] = 1 .. Len(queues[k])
  BY Queues DEF Once, Typed
<1>2. IsFiniteSet(Qs \ {0})
  <2>1. 0 \in Int /\ NUM_QUEUES - 1 \in Int
    BY UserThreadsAssumption
  <2>2. IsFiniteSet(0 .. NUM_QUEUES - 1)
    BY <2>1, FS_Interval
  <2> QED
    BY <2>2, FS_Difference DEF Qs
<1>3. \A k \in Qs : IsFiniteSet({k} \X DOMAIN queues[k])
  <2> TAKE k \in Qs
  <2>1. IsFiniteSet(DOMAIN queues[k])
    <3>1. 1 \in Int /\ Len(queues[k]) \in Int
      BY <1>1
    <3>2. IsFiniteSet(1 .. Len(queues[k]))
      BY <3>1, FS_Interval
    <3> QED
      BY <1>1, <3>2
  <2>2. IsFiniteSet({k})
    BY FS_Singleton
  <2> QED
    BY <2>1, <2>2, FS_Product
<1>4. IsFiniteSet(Lower)
  <2> DEFINE f == [k \in Qs \ {0} |-> {k} \X DOMAIN queues[k]]
             T == {{k} \X DOMAIN queues[k] : k \in Qs \ {0}}
  <2>1. f \in Surjection(Qs \ {0}, T)
    BY DEF Surjection
  <2>2. IsFiniteSet(T)
    BY <1>2, <2>1, FS_Surjection
  <2>3. \A U \in T : IsFiniteSet(U)
    BY <1>3
  <2>4. IsFiniteSet(UNION T)
    BY <2>2, <2>3, FS_UNION
  <2> QED
    BY <2>4 DEF Lower
<1>5. Lower \in SUBSET (Int \X Int)
  <2>1. Qs \subseteq Int
    BY DEF Qs
  <2>2. \A k \in Qs : DOMAIN queues[k] \subseteq Int
    BY <1>1
  <2> QED
    BY <2>1, <2>2 DEF Lower
<1>6. Lists(top, Lower)
  BY <1>4, <1>5, UpwardLists
<1>7. Lower = UNION {{k} \X DOMAIN queues[k] : k \in Qs \ {0}}
  BY DEF Lower
<1>8. Resurfaced = [k \in Qs |-> IF k = 0
                                   THEN [n \in DOMAIN top |-> queues[top[n][1]][top[n][2]]] \o queues[0]
                                   ELSE <<>>]
  BY DEF Resurfaced
<1> HIDE DEF top
<1> QED
  BY <1>6, <1>7, <1>8, Resurfaces

------------------------------------------------------------------------------
LEMMA SchedInit == Init => SchedInv
<1> SUFFICES ASSUME Init PROVE SchedInv
  OBVIOUS
<1> USE DEF Init
<1>1. queues \in [Qs -> Seq(Threads)] /\ \A k \in Qs : queues[k] = <<>> /\ DOMAIN queues[k] = {}
  OBVIOUS
<1>2. sleepers \in Seq(SleeperType) /\ Len(sleepers) = 0 /\ DOMAIN sleepers = {}
  OBVIOUS
<1>3. NoThread \notin Threads
  BY UserThreadsAssumption
<1>4. Once(queues, sleepers, cur_thread, live)
  <2>1. Typed(queues, sleepers, cur_thread)
    BY <1>1, <1>2 DEF Typed
  <2>2. Apart(queues, sleepers, cur_thread)
    BY <1>1, <1>2 DEF Apart
  <2>3. AllIn(queues, sleepers, cur_thread, live)
    BY <1>1, <1>2, <1>3 DEF AllIn, Somewhere
  <2> QED
    BY <2>1, <2>2, <2>3 DEF Once
<1>5. 0 \in Qs /\ 0 \in 0 .. NUM_QUEUES /\ 0 \in 0 .. resurfDelay + 1 /\ 0 \in 0 .. SliceTicks
  BY UserThreadsAssumption DEF Qs
<1> QED
  BY <1>2, <1>4, <1>5 DEF SchedInv, NeverStuck

LEMMA ForkStep ==
  ASSUME SchedInv, NEW t \in Threads, rpi_fork(t)
  PROVE  SchedInv'
<1> USE DEF rpi_fork
<1>1. Once(queues, sleepers, NoThread, live) /\ cur_thread = NoThread
  BY DEF SchedInv
<1>2. Once(queues, sleepers, t, live \cup {t})
  BY <1>1, Appears
<1>3. Once([queues EXCEPT ![0] = Append(@, t)], sleepers, NoThread, live \cup {t})
  BY <1>2, EmptyLists, PutBack
<1>4. Once(queues, sleepers, cur_thread, live)'
  BY <1>1, <1>3
<1> QED
  BY <1>4 DEF SchedInv, NeverStuck

LEMMA StartStep ==
  ASSUME SchedInv, rpi_thread_start
  PROVE  SchedInv'
<1> USE DEF rpi_thread_start
<1>1. Once(queues, sleepers, cur_thread, live)'
  BY DEF SchedInv
<1>2. 0 \in 0 .. NUM_QUEUES /\ 0 \in 0 .. resurfDelay + 1
  BY UserThreadsAssumption
<1> QED
  BY <1>1, <1>2 DEF SchedInv, NeverStuck

LEMMA SlotWakeStep ==
  ASSUME SchedInv, SlotWake
  PROVE  SchedInv'
<1> USE DEF SlotWake
<1>1. Once(queues, sleepers, NoThread, live) /\ cur_thread = NoThread /\ sleeping = Len(sleepers)
  BY DEF SchedInv
<1>2. Once(queues', sleepers', NoThread, live) /\ sleeping' = Len(sleepers')
  BY <1>1, WakeStep
<1>3. i # NUM_QUEUES
  BY UserThreadsAssumption DEF SchedInv
<1> QED
  BY <1>1, <1>2, <1>3 DEF SchedInv, NeverStuck

LEMMA SlotPickStep ==
  ASSUME SchedInv, SlotPick
  PROVE  SchedInv'
<1> DEFINE qs == IF ResurfDue THEN Resurfaced ELSE queues
<1> USE DEF SlotPick
<1>1. Once(queues, sleepers, NoThread, live) /\ cur_thread = NoThread
  BY DEF SchedInv
<1>2. Once(qs, sleepers, NoThread, live)
  BY <1>1, ResurfStep
<1>3. i \in Qs /\ i + 1 \in 0 .. NUM_QUEUES
  BY UserThreadsAssumption DEF SchedInv, Qs
<1>4. sinceResurf' \in 0 .. resurfDelay + 1
  BY UserThreadsAssumption DEF SchedInv
<1> HIDE DEF qs
<1>5. CASE qs[i] = <<>> /\ queues' = qs /\ i' = i + 1 /\ pc' = "wake"
           /\ UNCHANGED <<cur_thread, slice>>
  <2>1. cur_queue' = i /\ UNCHANGED <<sleepers, sleeping, live>>
    OBVIOUS
  <2> QED
    BY <1>1, <1>2, <1>3, <1>4, <1>5, <2>1 DEF SchedInv, NeverStuck
<1>6. CASE qs[i] # <<>> /\ queues' = [qs EXCEPT ![i] = Tail(@)] /\ cur_thread' = Head(qs[i])
           /\ pc' = "run" /\ slice' = 0 /\ UNCHANGED i
  <2>1. Once([qs EXCEPT ![i] = Tail(@)], sleepers, Head(qs[i]), live) /\ Head(qs[i]) \in Threads
    BY <1>2, <1>3, <1>6, Taken
  <2>2. cur_queue' = i /\ UNCHANGED <<sleepers, sleeping, live>>
    OBVIOUS
  <2>3. cur_thread' # NoThread
    BY <1>6, <2>1, UserThreadsAssumption
  <2>4. 0 \in 0 .. SliceTicks
    BY UserThreadsAssumption
  <2> QED
    BY <1>3, <1>4, <1>6, <2>1, <2>2, <2>3, <2>4 DEF SchedInv, NeverStuck
<1> QED
  BY <1>5, <1>6 DEF qs

LEMMA PassDoneStep ==
  ASSUME SchedInv, PassDone
  PROVE  SchedInv'
<1> USE DEF PassDone
<1>1. sleepers \in Seq(SleeperType) /\ sleeping = Len(sleepers)
  BY DEF SchedInv, Once, Typed
<1>2. sleeping = 0 <=> sleepers = <<>>
  BY <1>1, EmptyLists
<1>3. Once(queues, sleepers, cur_thread, live)'
  BY DEF SchedInv
<1> QED
  BY <1>2, <1>3 DEF SchedInv, NeverStuck, runq

LEMMA BlockStep ==
  ASSUME SchedInv, Block
  PROVE  SchedInv'
<1> USE DEF Block
<1>1. Once(queues, sleepers, NoThread, live) /\ cur_thread = NoThread /\ sleeping = Len(sleepers)
      /\ sleepers \in Seq(SleeperType)
  BY DEF SchedInv, Once, Typed
<1>2. Once(queues', sleepers', NoThread, live) /\ sleeping' = Len(sleepers')
      /\ (Awoke = {} => sleeping' = sleeping)
  BY <1>1, WakeStep
<1>3. CASE Awoke = {} /\ runq = <<>>
  <2>1. sleepers # <<>>
    BY <1>3 DEF SchedInv, NeverStuck
  <2>2. Len(sleepers) # 0 /\ Len(sleepers') = Len(sleepers)
    BY <1>1, <1>2, <1>3, <2>1, EmptyLists
  <2>3. sleepers' # <<>>
    <3>1. sleepers' \in Seq(SleeperType)
      BY <1>2 DEF Once, Typed
    <3> QED
      BY <2>2, <3>1, EmptyLists
  <2> QED
    BY <1>1, <1>2, <1>3, <2>3 DEF SchedInv, NeverStuck
<1>4. CASE ~ (Awoke = {} /\ runq = <<>>)
  <2>1. 0 \in 0 .. NUM_QUEUES
    BY UserThreadsAssumption
  <2> QED
    BY <1>1, <1>2, <1>4, <2>1 DEF SchedInv, NeverStuck
<1> QED
  BY <1>3, <1>4

(* The running thread enters the scheduler.                                 *)
LEMMA EnterStep ==
  ASSUME SchedInv, ToScheduler,
         Once(queues', sleepers', NoThread, live'), sleeping' = Len(sleepers')
  PROVE  SchedInv'
<1>1. 0 \in 0 .. NUM_QUEUES
  BY UserThreadsAssumption
<1> QED
  BY <1>1 DEF SchedInv, NeverStuck, ToScheduler

LEMMA Running ==
  ASSUME SchedInv, ToScheduler
  PROVE  cur_thread \in Threads /\ Once(queues, sleepers, cur_thread, live)
BY DEF SchedInv, ToScheduler, Once, Typed

LEMMA YieldStep ==
  ASSUME SchedInv, save_context_yield
  PROVE  SchedInv'
<1> USE DEF save_context_yield
<1>1. Once([queues EXCEPT ![0] = Append(@, cur_thread)], sleepers, NoThread, live)
  BY Running, EmptyLists, PutBack
<1>2. sleeping = Len(sleepers)
  BY DEF SchedInv
<1> QED
  BY <1>1, <1>2, EnterStep

LEMMA PreemptStep ==
  ASSUME SchedInv, save_context
  PROVE  SchedInv'
<1> USE DEF save_context
<1>1. Demoted(cur_queue) \in Qs
  BY UserThreadsAssumption DEF SchedInv, Demoted, Qs
<1>2. Once([queues EXCEPT ![Demoted(cur_queue)] = Append(@, cur_thread)], sleepers, NoThread, live)
  BY <1>1, Running, PutBack
<1>3. sleeping = Len(sleepers)
  BY DEF SchedInv
<1> QED
  BY <1>2, <1>3, EnterStep

LEMMA SleepStep ==
  ASSUME SchedInv, NEW d \in Delays, rpi_sleep(d)
  PROVE  SchedInv'
<1> USE DEF rpi_sleep
<1> DEFINE e == [tcb |-> cur_thread, queue |-> cur_queue, left |-> d]
<1>1. e \in SleeperType /\ e.tcb = cur_thread
  BY Running, UserThreadsAssumption DEF SchedInv, SleeperType
<1>2. sleepers' = Append(sleepers, e)
  OBVIOUS
<1> HIDE DEF e
<1>3. Once(queues, Append(sleepers, e), NoThread, live)
  BY <1>1, Running, GoesToSleep
<1>4. sleepers \in Seq(SleeperType) /\ sleeping = Len(sleepers)
  BY DEF SchedInv, Once, Typed
<1>5. sleeping' = Len(sleepers')
  BY <1>1, <1>2, <1>4
<1> QED
  BY <1>2, <1>3, <1>5, EnterStep

LEMMA ExitStep ==
  ASSUME SchedInv, rpi_exit
  PROVE  SchedInv'
<1> USE DEF rpi_exit
<1>1. Once(queues, sleepers, NoThread, live \ {cur_thread})
  BY Running, Exits
<1>2. sleeping = Len(sleepers)
  BY DEF SchedInv
<1> QED
  BY <1>1, <1>2, EnterStep

LEMMA TickStep ==
  ASSUME SchedInv, Tick
  PROVE  SchedInv'
<1> USE DEF Tick
<1>1. Once(queues, sleepers, cur_thread, live) /\ sleepers \in Seq(SleeperType)
  BY DEF SchedInv, Once, Typed
<1>2. Once(queues, sleepers', cur_thread, live) /\ Len(sleepers') = Len(sleepers)
  BY <1>1, Aged
<1>3. sleepers' \in Seq(SleeperType)
  BY <1>2 DEF Once, Typed
<1>4. sleepers' = <<>> <=> sleepers = <<>>
  BY <1>1, <1>2, <1>3, EmptyLists
<1>5. sinceResurf' \in 0 .. resurfDelay + 1
  BY UserThreadsAssumption DEF SchedInv, ResurfDue
<1>6. slice' \in 0 .. SliceTicks
  BY UserThreadsAssumption DEF SchedInv
<1> QED
  BY <1>2, <1>4, <1>5, <1>6 DEF SchedInv, NeverStuck, runq

LEMMA SchedNext == SchedInv /\ [Next]_vars => SchedInv'
<1> SUFFICES ASSUME SchedInv, [Next]_vars PROVE SchedInv'
  OBVIOUS
<1>1. CASE \E t \in Threads : rpi_fork(t)
  BY <1>1, ForkStep
<1>2. CASE rpi_thread_start
  BY <1>2, StartStep
<1>3. CASE threadSched
  BY <1>3, SlotWakeStep, SlotPickStep, PassDoneStep, BlockStep DEF threadSched
<1>4. CASE save_context_yield
  BY <1>4, YieldStep
<1>5. CASE save_context
  BY <1>5, PreemptStep
<1>6. CASE \E d \in Delays : rpi_sleep(d)
  BY <1>6, SleepStep
<1>7. CASE rpi_exit
  BY <1>7, ExitStep
<1>8. CASE Tick
  BY <1>8, TickStep
<1>9. CASE UNCHANGED vars
  BY <1>9 DEF vars, SchedInv, NeverStuck, runq
<1> QED
  BY <1>1, <1>2, <1>3, <1>4, <1>5, <1>6, <1>7, <1>8, <1>9 DEF Next

LEMMA SchedHolds == Spec => []SchedInv
BY SchedInit, SchedNext, PTL DEF Spec

------------------------------------------------------------------------------
(* Every state of the scheduler is of its types, whatever the threads, the  *)
(* queues and the delays.                                                   *)
THEOREM SchedTyped == Spec => []TypeOK
<1>1. SchedInv => TypeOK
  <2> SUFFICES ASSUME SchedInv PROVE TypeOK
    OBVIOUS
  <2>1. Typed(queues, sleepers, cur_thread) /\ live \subseteq Threads /\ sleeping \in Nat
    BY EmptyLists DEF SchedInv, Once, Typed, AllIn
  <2> QED
    BY <2>1 DEF SchedInv, TypeOK, Typed
<1> QED
  BY <1>1, SchedHolds, PTL

(* No thread is lost or scheduled twice, whatever the yields, preemptions,  *)
(* sleeps, wake-ups and resurfs.                                            *)
THEOREM SchedOnePlace == Spec => []OnePlace
<1>1. SchedInv => OnePlace
  <2> SUFFICES ASSUME SchedInv PROVE OnePlace
    OBVIOUS
  <2>1. Typed(queues, sleepers, cur_thread) /\ Apart(queues, sleepers, cur_thread)
        /\ AllIn(queues, sleepers, cur_thread, live)
    BY DEF SchedInv, Once
  <2> DEFINE InQueue(p) == \E k \in Qs : \E n \in DOMAIN queues[k] : p = <<"queue", k, n>>
             InList(p) == \E n \in DOMAIN sleepers : p = <<"sleepers", 0, n>>
             OnIt(p) == cur_thread # NoThread /\ p = <<"processor", 0, 0>>
  <2>2. \A p : p \in Places <=> InQueue(p) \/ InList(p) \/ OnIt(p)
    <3>1. \A p : p \in UNION {{<<"queue", k, n>> : n \in DOMAIN queues[k]} : k \in Qs}
                 <=> InQueue(p)
      OBVIOUS
    <3>2. \A p : p \in {<<"sleepers", 0, n>> : n \in DOMAIN sleepers} <=> InList(p)
      OBVIOUS
    <3>3. \A p : p \in (IF cur_thread = NoThread THEN {} ELSE {<<"processor", 0, 0>>}) <=> OnIt(p)
      OBVIOUS
    <3> DEFINE Sq == UNION {{<<"queue", k, n>> : n \in DOMAIN queues[k]} : k \in Qs}
               Sl == {<<"sleepers", 0, n>> : n \in DOMAIN sleepers}
               Sp == (IF cur_thread = NoThread THEN {} ELSE {<<"processor", 0, 0>>})
    <3>4. Places = Sq \cup Sl \cup Sp
      BY DEF Places
    <3> HIDE DEF InQueue, InList, OnIt, Sq, Sl, Sp
    <3>5. \A p : p \in Places <=> p \in Sq \/ p \in Sl \/ p \in Sp
      BY <3>4
    <3>6. \A p : (p \in Sq <=> InQueue(p)) /\ (p \in Sl <=> InList(p)) /\ (p \in Sp <=> OnIt(p))
      BY <3>1, <3>2, <3>3 DEF Sq, Sl, Sp
    <3> QED
      BY <3>5, <3>6
  <2>3. \A k, n : ThreadAt(<<"queue", k, n>>) = queues[k][n]
    BY DEF ThreadAt
  <2>4. \A n : ThreadAt(<<"sleepers", 0, n>>) = sleepers[n].tcb
    BY DEF ThreadAt
  <2>5. ThreadAt(<<"processor", 0, 0>>) = cur_thread
    BY DEF ThreadAt
  <2>6. ASSUME NEW p \in Places, NEW q \in Places, ThreadAt(p) = ThreadAt(q) PROVE p = q
    <3>1. CASE InQueue(p)
      BY <2>1, <2>2, <2>3, <2>4, <2>5, <2>6, <3>1 DEF Apart
    <3>2. CASE InList(p)
      BY <2>1, <2>2, <2>3, <2>4, <2>5, <2>6, <3>2 DEF Apart
    <3>3. CASE OnIt(p)
      BY <2>1, <2>2, <2>3, <2>4, <2>5, <2>6, <3>3 DEF Apart
    <3> QED
      BY <2>2, <3>1, <3>2, <3>3
  <2>7. ASSUME NEW t \in live PROVE \E p \in Places : ThreadAt(p) = t
    <3>1. t \in Threads /\ Somewhere(t, queues, sleepers, cur_thread) /\ t # NoThread
      BY <2>1, UserThreadsAssumption DEF AllIn
    <3>2. CASE \E k \in Qs : \E n \in DOMAIN queues[k] : queues[k][n] = t
      <4>1. PICK k \in Qs : \E n \in DOMAIN queues[k] : queues[k][n] = t
        BY <3>2
      <4>2. PICK n \in DOMAIN queues[k] : queues[k][n] = t
        BY <4>1
      <4>3. <<"queue", k, n>> \in Places
        BY <2>2
      <4> QED
        BY <2>3, <4>2, <4>3
    <3>3. CASE \E n \in DOMAIN sleepers : sleepers[n].tcb = t
      <4>1. PICK n \in DOMAIN sleepers : sleepers[n].tcb = t
        BY <3>3
      <4>2. <<"sleepers", 0, n>> \in Places
        BY <2>2
      <4> QED
        BY <2>4, <4>1, <4>2
    <3>4. CASE t = cur_thread
      <4>1. <<"processor", 0, 0>> \in Places
        BY <2>2, <3>1, <3>4
      <4> QED
        BY <2>5, <3>4, <4>1
    <3> QED
      BY <3>1, <3>2, <3>3, <3>4 DEF Somewhere
  <2>8. ASSUME NEW p \in Places PROVE ThreadAt(p) \in live
    <3>1. /\ \A k \in Qs : \A n \in DOMAIN queues[k] : queues[k][n] \in Threads
          /\ \A n \in DOMAIN sleepers : sleepers[n].tcb \in Threads
          /\ cur_thread # NoThread => cur_thread \in Threads
      BY <2>1, Queues, Sleepers DEF Typed
    <3>2. ThreadAt(p) \in Threads
      BY <2>2, <2>3, <2>4, <2>5, <3>1
    <3>3. Somewhere(ThreadAt(p), queues, sleepers, cur_thread)
      BY <2>2, <2>3, <2>4, <2>5 DEF Somewhere
    <3> QED
      BY <2>1, <3>2, <3>3 DEF AllIn
  <2>9. live = {ThreadAt(p) : p \in Places}
    BY <2>7, <2>8
  <2> QED
    BY <2>6, <2>9 DEF OnePlace
<1> QED
  BY <1>1, SchedHolds, PTL

(* The machine is not rebooted while a thread sleeps or waits on runq: the  *)
(* counter of the sleepers is exact.                                        *)
THEOREM SchedNoSleeperAbandoned == Spec => []NoSleeperAbandoned
<1>1. SchedInv => NoSleeperAbandoned
  BY DEF SchedInv, NoSleeperAbandoned
<1> QED
  BY <1>1, SchedHolds, PTL

(* The spin loop of threadSched has a sleeper or a thread on runq to end    *)
(* it.                                                                      *)
THEOREM SchedNeverStuck == Spec => []NeverStuck
<1>1. SchedInv => NeverStuck
  BY DEF SchedInv
<1> QED
  BY <1>1, SchedHolds, PTL
=============================================================================
