-------------------------- MODULE ApiGatewayProofs --------------------------
(***************************************************************************)
(* The API for every number of clients, alerts, pages and requests: the    *)
(* limiter lets through exactly what its window allows, the audit log      *)
(* tells the status of every alert, a walk through the pages misses        *)
(* nothing, and the shield blocks only what was contained; and the ledger  *)
(* behind it, for every number of assets, leases, alerts and half-lives.   *)
(***************************************************************************)
EXTENDS ApiServer, DataLemmas

(* The limiter: one bucket *)

\* Requests leave the window in the order they came.
Aging(s) == /\ s \in Seq(Nat)
            /\ \A i, j \in 1..Len(s) : i <= j => s[i] >= s[j]

Of(s, age) == {i \in 1..Len(s) : s[i] = age}

Counted(s, f) == /\ f \in [0..Window -> Nat]
                 /\ \A age \in 0..Window : f[age] = Cardinality(Of(s, age))

\* What waits is waiting for the head of the queue to leave.
Promised(s, p) == /\ p \in Int /\ p >= -1
                  /\ p >= 0 => s # <<>> /\ s[1] + p > Window

Bucket(s, f, p) ==
  Aging(s) /\ Len(s) <= Limit /\ Counted(s, f) /\ Promised(s, p)

LimiterInv ==
  /\ seen = [b \in Buckets |-> seen[b]]
  /\ came = [b \in Buckets |-> came[b]]
  /\ promise = [b \in Buckets |-> promise[b]]
  /\ \A b \in Buckets : Bucket(seen[b], came[b], promise[b])

\* t is what the while loop leaves of s, which has lost its first k.
Left(s, t, k) ==
  /\ k \in 0..Len(s) /\ Len(t) = Len(s) - k /\ t \in Seq(Nat)
  /\ \A i \in 1..k : s[i] > Window
  /\ \A i \in 1..Len(t) : t[i] = s[k + i] /\ t[i] <= Window

LEMMA LoopLeaves ==
  ASSUME NEW s, Aging(s)
  PROVE  \E k \in 0..Len(s) :
           Left(s, SubSeq(s, Cardinality(Expired(s)) + 1, Len(s)), k)
<1>1. PICK n \in Nat : n = Len(s) /\ DOMAIN s = 1..n
  BY DEF Aging
<1>2. Window \in Nat
  BY GatewayAssumption
<1>3. \E k \in 0..n : Expired(s) = 1..k
  <2>1. Expired(s) \in SUBSET (1..n)
    BY <1>1 DEF Expired
  <2>2. ASSUME NEW i \in Expired(s), NEW j \in 1..i PROVE j \in Expired(s)
    <3>1. i \in 1..n /\ \A m \in 1..i : s[m] > Window
      BY <1>1 DEF Expired
    <3>2. j \in 1..n /\ \A m \in 1..j : m \in 1..i
      BY <3>1
    <3>3. QED BY <1>1, <3>1, <3>2 DEF Expired
  <2>3. QED BY <2>1, <2>2, InitialSegments
<1>4. PICK k \in 0..n : Expired(s) = 1..k
  BY <1>3
<1>5. Cardinality(Expired(s)) = k
  BY <1>4, FS_Interval
<1>6. \A i \in 1..k : s[i] > Window
  <2>1. \A i \in 1..k : i \in Expired(s) /\ i \in 1..i
    BY <1>4
  <2>2. QED BY <2>1 DEF Expired
<1> DEFINE t == SubSeq(s, k + 1, n)
<1>7. /\ t \in Seq(Nat) /\ Len(t) = n - k
      /\ \A i \in 1..n - k : t[i] = s[k + i]
  <2>1. \A i \in k + 1..n : s[i] \in Nat
    BY <1>1 DEF Aging
  <2>2. /\ t \in Seq(Nat)
        /\ Len(t) = IF k + 1 <= n THEN n - (k + 1) + 1 ELSE 0
        /\ \A i \in 1..n - (k + 1) + 1 : t[i] = s[k + 1 + i - 1]
    <3> k + 1 \in Int /\ n \in Int
      OBVIOUS
    <3> QED BY <2>1, SubSeqProperties
  <2> HIDE DEF t
  <2>3. QED BY <2>2
<1>8. ASSUME NEW i \in 1..n - k PROVE s[k + i] <= Window
  <2>1. k + i \in 1..n /\ k + i \notin 1..k
    BY <1>4
  <2>2. PICK j \in 1..k + i : ~(s[j] > Window)
    BY <1>1, <1>4, <2>1 DEF Expired
  <2>3. s[j] >= s[k + i] /\ s[j] \in Nat /\ s[k + i] \in Nat
    BY <1>1, <2>1 DEF Aging
  <2>4. QED BY <1>2, <2>2, <2>3
<1> HIDE DEF t
<1>9. Left(s, t, k)
  BY <1>1, <1>6, <1>7, <1>8 DEF Left
<1>10. QED BY <1>1, <1>4, <1>5, <1>9 DEF t

LEMMA LeftAging ==
  ASSUME NEW s, Aging(s), NEW t, NEW k, Left(s, t, k)
  PROVE  Aging(t)
<1>1. PICK n \in Nat : n = Len(s) /\ k \in 0..n /\ Len(t) = n - k
  BY DEF Aging, Left
<1>2. ASSUME NEW i \in 1..n - k, NEW j \in 1..n - k, i <= j PROVE t[i] >= t[j]
  <2>1. k + i \in 1..n /\ k + j \in 1..n /\ k + i <= k + j
    BY <1>1, <1>2
  <2>2. s[k + i] >= s[k + j]
    BY <1>1, <2>1 DEF Aging
  <2>3. QED BY <1>1, <2>2 DEF Left
<1>3. QED BY <1>1, <1>2 DEF Aging, Left

\* What left was not in the window.
LEMMA LeftCounted ==
  ASSUME NEW s, Aging(s), NEW t, NEW k, Left(s, t, k),
         NEW f, Counted(s, f)
  PROVE  Counted(t, f)
<1>1. PICK n \in Nat : n = Len(s) /\ k \in 0..n /\ Len(t) = n - k
  BY DEF Aging, Left
<1>2. ASSUME NEW age \in 0..Window PROVE Cardinality(Of(t, age)) = Cardinality(Of(s, age))
  <2> DEFINE g == [i \in Of(t, age) |-> k + i]
  <2>1. IsFiniteSet(Of(t, age))
    <3>1. Of(t, age) \subseteq 1..n - k
      BY <1>1 DEF Of
    <3>2. IsFiniteSet(1..n - k)
      BY <1>1, FS_Interval
    <3>3. QED BY <3>1, <3>2, FS_Subset
  <2>2. g \in [Of(t, age) -> Of(s, age)]
    <3>1. \A i \in Of(t, age) : k + i \in 1..n /\ s[k + i] = age
      BY <1>1 DEF Of, Left
    <3>2. QED BY <1>1, <3>1 DEF Of
  <2>3. \A i, j \in Of(t, age) : g[i] = g[j] => i = j
    <3>1. Of(t, age) \subseteq 1..n - k
      BY <1>1 DEF Of
    <3>2. QED BY <1>1, <3>1
  <2>4. ASSUME NEW m \in Of(s, age) PROVE \E i \in Of(t, age) : g[i] = m
    <3>1. m \in 1..n /\ s[m] = age /\ ~(age > Window)
      BY <1>1, GatewayAssumption DEF Of
    <3>2. m \notin 1..k
      BY <3>1 DEF Left
    <3>3. m - k \in 1..n - k /\ k + (m - k) = m
      BY <1>1, <3>1, <3>2
    <3>4. m - k \in Of(t, age)
      BY <1>1, <3>1, <3>3 DEF Of, Left
    <3>5. g[m - k] = m
      BY <3>3, <3>4
    <3>6. QED BY <3>4, <3>5
  <2> HIDE DEF g
  <2>5. g \in Bijection(Of(t, age), Of(s, age))
    BY <2>2, <2>3, <2>4 DEF Bijection, Injection, Surjection, IsInjective
  <2>6. QED BY <2>1, <2>5, FS_Bijection DEF ExistsBijection
<1>3. QED BY <1>2 DEF Counted

\* What the history counts in the window is what the loop leaves.
LEMMA LeftAreInWindow ==
  ASSUME NEW s, Aging(s), NEW t, NEW k, Left(s, t, k),
         NEW f, Counted(s, f)
  PROVE  Len(t) = SumFunction(f)
<1>1. PICK n \in Nat : n = Len(t)
  <2>1. t \in Seq(Nat)
    BY DEF Left
  <2>2. QED BY <2>1
<1> DEFINE g == [i \in 1..n |-> t[i]]
<1>2. g \in [1..n -> 0..Window]
  <2>1. \A i \in 1..n : t[i] \in Nat /\ t[i] <= Window
    BY <1>1 DEF Left
  <2>2. QED BY <2>1, GatewayAssumption
<1>3. \A age \in 0..Window : f[age] = Cardinality(Part(1..n, g, age))
  <2>1. ASSUME NEW age \in 0..Window PROVE Part(1..n, g, age) = Of(t, age)
    BY <1>1 DEF Of, Part
  <2>2. Counted(t, f)
    BY LeftCounted
  <2>3. QED BY <2>1, <2>2 DEF Counted
<1>4. f \in [0..Window -> Nat]
  BY DEF Counted
<1>5. IsFiniteSet(1..n) /\ Cardinality(1..n) = n
  BY FS_Interval
<1>6. IsFiniteSet(0..Window)
  <2>1. Window \in Int
    BY GatewayAssumption
  <2>2. QED BY <2>1, FS_Interval
<1> DEFINE T == 0..Window
           U == 1..n
<1> HIDE DEF g, T, U
<1>7. g \in [U -> T] /\ f \in [T -> Nat] /\ IsFiniteSet(T) /\ IsFiniteSet(U)
  BY <1>2, <1>4, <1>5, <1>6 DEF T, U
<1>8. \A age \in T : f[age] = Cardinality(Part(U, g, age))
  BY <1>3 DEF T, U
<1>9. SumFunction(f) = Cardinality(U)
  BY <1>7, <1>8, SumOfSizes
<1>10. QED BY <1>1, <1>5, <1>9 DEF U

\* Letting a request through.
LEMMA LetThrough ==
  ASSUME NEW t, Aging(t), NEW f, Counted(t, f)
  PROVE  /\ Aging(Append(t, 0))
         /\ Counted(Append(t, 0), [f EXCEPT ![0] = f[0] + 1])
<1>1. PICK n \in Nat : n = Len(t)
  BY DEF Aging
<1> DEFINE a == Append(t, 0)
           h == [f EXCEPT ![0] = f[0] + 1]
<1>2. /\ a \in Seq(Nat) /\ Len(a) = n + 1 /\ a[n + 1] = 0
      /\ \A i \in 1..n : a[i] = t[i]
  BY <1>1 DEF Aging
<1>3. f \in [0..Window -> Nat] /\ 0 \in 0..Window
  BY GatewayAssumption DEF Counted
<1> HIDE DEF a
<1>4. Aging(a)
  <2> SUFFICES ASSUME NEW i \in 1..n + 1, NEW j \in 1..n + 1, i <= j
               PROVE  a[i] >= a[j]
    BY <1>2 DEF Aging
  <2>1. CASE j = n + 1
    <3>1. a[i] \in Nat
      BY <1>2
    <3>2. QED BY <1>2, <2>1, <3>1
  <2>2. CASE j # n + 1
    <3>1. i \in 1..n /\ j \in 1..n
      BY <2>2
    <3>2. t[i] >= t[j]
      BY <1>1, <3>1 DEF Aging
    <3>3. QED BY <1>2, <3>1, <3>2
  <2>3. QED BY <2>1, <2>2
<1>5. ASSUME NEW age \in 0..Window PROVE h[age] = Cardinality(Of(a, age))
  <2>1. f[age] = Cardinality(Of(t, age)) /\ f[age] \in Nat
    BY DEF Counted
  <2>2. CASE age = 0
    <3>1. Of(a, age) = Of(t, age) \union {n + 1} /\ n + 1 \notin Of(t, age)
      BY <1>1, <1>2, <2>2 DEF Of
    <3>2. IsFiniteSet(Of(t, age))
      <4>1. Of(t, age) \subseteq 1..n /\ IsFiniteSet(1..n)
        BY <1>1, FS_Interval DEF Of
      <4>2. QED BY <4>1, FS_Subset
    <3>3. Cardinality(Of(a, age)) = Cardinality(Of(t, age)) + 1
      BY <3>1, <3>2, FS_AddElement
    <3>4. h[age] = f[age] + 1
      BY <1>3, <2>2
    <3>5. QED BY <2>1, <3>3, <3>4
  <2>3. CASE age # 0
    <3>1. Of(a, age) = Of(t, age)
      BY <1>1, <1>2, <2>3 DEF Of
    <3>2. h[age] = f[age]
      BY <1>3, <2>3
    <3>3. QED BY <2>1, <3>1, <3>2
  <2>4. QED BY <2>2, <2>3
<1>6. h \in [0..Window -> Nat]
  BY <1>3
<1> HIDE DEF h
<1>7. Counted(a, h)
  BY <1>5, <1>6 DEF Counted
<1>8. QED BY <1>4, <1>7 DEF a, h

\* The limiter decides by what is in the window, and lets through whoever has
\* waited.
LEMMA BucketIsExact ==
  ASSUME NEW b, Bucket(seen[b], came[b], promise[b])
  PROVE  /\ Admits(b) <=> RequestsInWindow(b) < Limit
         /\ promise[b] = 0 => Admits(b)
<1> DEFINE s == seen[b]
           t == Fresh(b)
<1>1. Aging(s) /\ Len(s) <= Limit /\ Counted(s, came[b]) /\ Promised(s, promise[b])
  BY DEF Bucket
<1>2. PICK k \in 0..Len(s) : Left(s, t, k)
  BY <1>1, LoopLeaves DEF Fresh
<1>3. Len(t) = RequestsInWindow(b)
  <2>1. Len(t) = SumFunction(came[b])
    <3> HIDE DEF s, t
    <3>1. QED BY <1>1, <1>2, LeftAreInWindow
  <2>2. QED BY <2>1 DEF RequestsInWindow
<1>4. ASSUME promise[b] = 0 PROVE Len(t) < Limit
  <2>1. PICK n \in Nat : n = Len(s) /\ k \in 0..n /\ Len(t) = n - k
    BY <1>1, <1>2 DEF Aging, Left
  <2>2. s # <<>> /\ s[1] + 0 > Window
    BY <1>1, <1>4 DEF Promised
  <2>3. n # 0 /\ s[1] \in Nat /\ s[1] > Window
    BY <1>1, <2>1, <2>2 DEF Aging
  <2>4. k # 0
    <3>1. k = 0 => 1 \in 1..n - k /\ k + 1 = 1
      BY <2>1, <2>3
    <3>2. \A i \in 1..n - k : s[k + i] <= Window
      BY <1>2, <2>1 DEF Left
    <3>3. QED BY <2>3, <3>1, <3>2, GatewayAssumption
  <2>5. QED BY <1>1, <2>1, <2>4, GatewayAssumption
<1>5. QED BY <1>3, <1>4 DEF Admits

LEMMA BucketAsked ==
  ASSUME NEW b, Bucket(seen[b], came[b], promise[b])
  PROVE  IF Admits(b)
         THEN Bucket(Append(Fresh(b), 0), [came[b] EXCEPT ![0] = came[b][0] + 1], -1)
         ELSE Bucket(Fresh(b), came[b], RetryAfter(b))
<1> DEFINE s == seen[b]
           t == Fresh(b)
           f == came[b]
<1>1. Aging(s) /\ Counted(s, f) /\ Len(s) <= Limit
  BY DEF Bucket
<1>2. PICK k \in 0..Len(s) : Left(s, t, k)
  BY <1>1, LoopLeaves DEF Fresh
<1>3. Aging(t) /\ Counted(t, f)
  <2> HIDE DEF s, t, f
  <2>1. QED BY <1>1, <1>2, LeftAging, LeftCounted
<1>4. PICK n \in Nat : n = Len(t) /\ n <= Limit
  <2>1. PICK m \in Nat : m = Len(s) /\ k \in 0..m /\ Len(t) = m - k
    BY <1>1, <1>2 DEF Aging, Left
  <2>2. m <= Limit /\ Limit \in Nat
    BY <1>1, <2>1, GatewayAssumption
  <2>3. m - k \in Nat /\ m - k <= Limit
    BY <2>1, <2>2
  <2> HIDE DEF s, t
  <2>4. QED BY <2>1, <2>3
<1>5. CASE Admits(b)
  <2>1. n < Limit
    BY <1>4, <1>5 DEF Admits
  <2>2. Len(Append(t, 0)) = n + 1
    BY <1>3, <1>4 DEF Aging
  <2>3. Len(Append(t, 0)) <= Limit
    BY <2>1, <2>2, GatewayAssumption
  <2>4. Promised(Append(t, 0), -1)
    BY DEF Promised
  <2>5. /\ Aging(Append(t, 0))
        /\ Counted(Append(t, 0), [f EXCEPT ![0] = f[0] + 1])
    <3> HIDE DEF t, f
    <3>1. QED BY <1>3, LetThrough
  <2>6. QED BY <1>5, <2>3, <2>4, <2>5 DEF Bucket
<1>6. CASE ~Admits(b)
  <2>1. ~(n < Limit)
    BY <1>4, <1>6 DEF Admits
  <2>2. n >= 1 /\ t # <<>> /\ Head(t) = t[1] /\ 1 \in 1..n
    BY <1>3, <1>4, <2>1, GatewayAssumption DEF Aging
  <2>3. PICK a \in Nat : a = t[1] /\ a <= Window
    BY <1>2, <1>3, <1>4, <2>2 DEF Left, Aging
  <2>4. RetryAfter(b) = Window - a + 1
    BY <2>2, <2>3 DEF RetryAfter
  <2>5. Promised(t, Window - a + 1)
    <3>1. /\ Window - a + 1 \in Int /\ Window - a + 1 >= -1
          /\ a + (Window - a + 1) > Window
      BY <2>3, GatewayAssumption, SMTT(30)
    <3> HIDE DEF t
    <3>2. QED BY <2>2, <2>3, <3>1 DEF Promised
  <2>6. QED BY <1>3, <1>4, <1>6, <2>4, <2>5 DEF Bucket
<1>7. QED BY <1>5, <1>6

\* A tick.
Older(s) == [i \in DOMAIN s |-> IF s[i] > Window THEN s[i] ELSE s[i] + 1]
Shifted(f) == [age \in 0..Window |-> IF age = 0 THEN 0 ELSE f[age - 1]]
Nearer(p) == IF p > 0 THEN p - 1 ELSE p

LEMMA BucketTicks ==
  ASSUME NEW s, NEW f, NEW p, Bucket(s, f, p)
  PROVE  Bucket(Older(s), Shifted(f), Nearer(p))
<1>1. PICK n \in Nat : n = Len(s)
  BY DEF Bucket, Aging
<1>2. Window \in Nat /\ \A i \in 1..n : s[i] \in Nat
  BY <1>1, GatewayAssumption DEF Bucket, Aging
<1>3. PICK o : o = Older(s)
  OBVIOUS
<1>4. /\ o \in Seq(Nat) /\ Len(o) = n
      /\ \A i \in 1..n : o[i] = IF s[i] > Window THEN s[i] ELSE s[i] + 1
  <2>1. DOMAIN s = 1..n
    BY <1>1 DEF Bucket, Aging
  <2>2. \A i \in 1..n : (IF s[i] > Window THEN s[i] ELSE s[i] + 1) \in Nat
    BY <1>2
  <2>3. o = [i \in 1..n |-> IF s[i] > Window THEN s[i] ELSE s[i] + 1]
    BY <1>3, <2>1 DEF Older
  <2>4. QED BY <2>2, <2>3
<1>5. Aging(o)
  <2> SUFFICES ASSUME NEW i \in 1..n, NEW j \in 1..n, i <= j PROVE o[i] >= o[j]
    BY <1>4 DEF Aging
  <2>1. s[i] >= s[j]
    BY <1>1 DEF Bucket, Aging
  <2>2. PICK a \in Nat, c \in Nat : a = s[i] /\ c = s[j]
    BY <1>2
  <2>3. /\ o[i] = IF a > Window THEN a ELSE a + 1
        /\ o[j] = IF c > Window THEN c ELSE c + 1
    BY <1>4, <2>2
  <2>4. QED BY <1>2, <2>1, <2>2, <2>3
<1>6. Counted(o, Shifted(f))
  <2>1. f \in [0..Window -> Nat] /\ \A age \in 0..Window : f[age] = Cardinality(Of(s, age))
    BY DEF Bucket, Counted
  <2>2. Shifted(f) \in [0..Window -> Nat]
    <3>1. \A age \in 0..Window : age # 0 => age - 1 \in 0..Window
      BY <1>2
    <3>2. QED BY <2>1, <3>1 DEF Shifted
  <2>3. ASSUME NEW age \in 0..Window PROVE Shifted(f)[age] = Cardinality(Of(o, age))
    <3>1. CASE age = 0
      <4>1. \A i \in 1..n : o[i] # 0
        BY <1>2, <1>4
      <4>2. Of(o, age) = {}
        BY <1>4, <3>1, <4>1 DEF Of
      <4>3. QED BY <3>1, <4>2, FS_EmptySet DEF Shifted
    <3>2. CASE age # 0
      <4>1. age - 1 \in 0..Window
        BY <1>2, <3>2
      <4>2. \A i \in 1..n : o[i] = age <=> s[i] = age - 1
        BY <1>2, <1>4, <3>2
      <4>3. Of(o, age) = Of(s, age - 1)
        BY <1>1, <1>4, <4>2 DEF Of
      <4>4. QED BY <2>1, <3>2, <4>1, <4>3 DEF Shifted
    <3>3. QED BY <3>1, <3>2
  <2>4. QED BY <2>2, <2>3 DEF Counted
<1>7. Promised(o, Nearer(p))
  <2>1. p \in Int /\ p >= -1 /\ (p >= 0 => s # <<>> /\ s[1] + p > Window)
    BY DEF Bucket, Promised
  <2>2. CASE p < 0
    BY <2>1, <2>2 DEF Promised, Nearer
  <2>3. CASE p >= 0
    <3>1. s \in Seq(Nat) /\ s # <<>> /\ s[1] + p > Window
      BY <2>1, <2>3 DEF Bucket, Aging
    <3>2. 1 \in 1..n
      BY <1>1, <3>1
    <3>3. PICK a \in Nat : a = s[1]
      BY <1>2, <3>2
    <3>4. o[1] = IF a > Window THEN a ELSE a + 1
      BY <1>4, <3>2, <3>3
    <3>5. o # <<>>
      BY <1>4, <3>2
    <3>6. QED BY <1>2, <2>1, <2>3, <3>1, <3>3, <3>4, <3>5 DEF Promised, Nearer
  <2>4. QED BY <2>1, <2>2, <2>3
<1>8. QED BY <1>1, <1>3, <1>4, <1>5, <1>6, <1>7 DEF Bucket

LEMMA InitiallyLimited == Init => LimiterInv
<1> SUFFICES ASSUME Init PROVE LimiterInv
  OBVIOUS
<1> DEFINE none == [age \in 0..Window |-> 0]
<1>1. /\ seen = [b \in Buckets |-> <<>>] /\ came = [b \in Buckets |-> none]
      /\ promise = [b \in Buckets |-> -1]
  BY DEF Init
<1>2. Bucket(<<>>, none, -1)
  <2>1. Aging(<<>>)
    BY DEF Aging
  <2>2. Len(<<>>) <= Limit
    BY GatewayAssumption
  <2>3. Counted(<<>>, none)
    <3>1. \A age \in 0..Window : Of(<<>>, age) = {}
      BY DEF Of
    <3>2. QED BY <3>1, FS_EmptySet DEF Counted
  <2>4. Promised(<<>>, -1)
    BY DEF Promised
  <2>5. QED BY <2>1, <2>2, <2>3, <2>4 DEF Bucket
<1> HIDE DEF none
<1>3. QED BY <1>1, <1>2 DEF LimiterInv

LEMMA LimiterKeeps ==
  ASSUME LimiterInv, NEW b \in Buckets, Limiter(b)
  PROVE  LimiterInv'
<1> DEFINE s1 == IF Admits(b) THEN Append(Fresh(b), 0) ELSE Fresh(b)
           f1 == [came[b] EXCEPT ![0] = IF Admits(b) THEN @ + 1 ELSE @]
           p1 == IF Admits(b) THEN -1 ELSE RetryAfter(b)
<1>1. /\ seen' = [seen EXCEPT ![b] = s1] /\ came' = [came EXCEPT ![b] = f1]
      /\ promise' = [promise EXCEPT ![b] = p1]
  BY DEF Limiter
<1>2. Bucket(s1, f1, p1)
  <2>1. Bucket(seen[b], came[b], promise[b])
    BY DEF LimiterInv
  <2>2. IF Admits(b)
        THEN Bucket(Append(Fresh(b), 0), [came[b] EXCEPT ![0] = came[b][0] + 1], -1)
        ELSE Bucket(Fresh(b), came[b], RetryAfter(b))
    BY <2>1, BucketAsked
  <2>3. CASE Admits(b)
    <3>1. f1 = [came[b] EXCEPT ![0] = came[b][0] + 1]
      BY <2>3
    <3>2. QED BY <2>2, <2>3, <3>1
  <2>4. CASE ~Admits(b)
    <3>1. f1 = came[b]
      BY <2>1, <2>4 DEF Bucket, Counted
    <3>2. QED BY <2>2, <2>4, <3>1
  <2>5. QED BY <2>3, <2>4
<1> HIDE DEF s1, f1, p1
<1>3. /\ seen' = [c \in Buckets |-> seen'[c]] /\ came' = [c \in Buckets |-> came'[c]]
      /\ promise' = [c \in Buckets |-> promise'[c]]
  BY <1>1 DEF LimiterInv
<1>4. ASSUME NEW c \in Buckets PROVE Bucket(seen'[c], came'[c], promise'[c])
  <2>1. CASE c = b
    <3>1. seen'[c] = s1 /\ came'[c] = f1 /\ promise'[c] = p1
      BY <1>1, <2>1 DEF LimiterInv
    <3>2. QED BY <1>2, <3>1
  <2>2. CASE c # b
    <3>1. seen'[c] = seen[c] /\ came'[c] = came[c] /\ promise'[c] = promise[c]
      BY <1>1, <2>2 DEF LimiterInv
    <3>2. QED BY <3>1 DEF LimiterInv
  <2>3. QED BY <2>1, <2>2
<1>5. QED BY <1>3, <1>4 DEF LimiterInv

LEMMA TickKeepsLimiter ==
  ASSUME LimiterInv, Tick
  PROVE  LimiterInv'
<1>1. /\ seen' = [b \in Buckets |-> Older(seen[b])]
      /\ came' = [b \in Buckets |-> Shifted(came[b])]
      /\ promise' = [b \in Buckets |-> Nearer(promise[b])]
  BY DEF Tick, Older, Shifted, Nearer
<1>2. \A b \in Buckets : Bucket(Older(seen[b]), Shifted(came[b]), Nearer(promise[b]))
  BY BucketTicks DEF LimiterInv
<1>3. QED BY <1>1, <1>2 DEF LimiterInv

LEMMA RestKeepsLimiter ==
  ASSUME LimiterInv, UNCHANGED limiter
  PROVE  LimiterInv'
BY DEF LimiterInv, limiter

LEMMA LimiterStep == LimiterInv /\ [Next]_vars => LimiterInv'
<1> SUFFICES ASSUME LimiterInv, [Next]_vars PROVE LimiterInv'
  OBVIOUS
<1>1. CASE Tick
  BY <1>1, TickKeepsLimiter
<1>2. ASSUME NEW c \in Clients, NEW request, Ask(c, request) PROVE LimiterInv'
  <2>1. c.bucket \in Buckets /\ Limiter(c.bucket)
    BY <1>2 DEF Ask, Buckets
  <2>2. QED BY <2>1, LimiterKeeps
<1>3. CASE DeskNext
  <2>1. ASSUME NEW filter, AskPage(filter) PROVE LimiterInv'
    BY <1>2, <2>1, GatewayAssumption DEF AskPage
  <2>2. ASSUME NEW u \in Updates, NEW id, AskUpdate(u.client, id, u.status) PROVE LimiterInv'
    BY <1>2, <2>2, GatewayAssumption DEF AskUpdate
  <2>3. CASE Raise
    BY <2>3, RestKeepsLimiter DEF Raise
  <2>4. ASSUME NEW r, Answer(r) PROVE LimiterInv'
    BY <2>4, RestKeepsLimiter DEF Answer
  <2>5. QED BY <1>3, <2>1, <2>2, <2>3, <2>4 DEF DeskNext
<1>4. CASE ShieldNext
  <2>1. ASSUME NEW answer, Fetch(answer) PROVE LimiterInv'
    <3>1. ShieldBucket \in Buckets
      BY DEF Buckets
    <3>2. Limiter(ShieldBucket) \/ UNCHANGED limiter
      BY <2>1 DEF Fetch
    <3>3. QED BY <3>1, <3>2, LimiterKeeps, RestKeepsLimiter
  <2>2. ASSUME NEW ip, Contain(ip) \/ BlockIp(ip) \/ UnblockIp(ip) \/ Arrive(ip)
        PROVE  UNCHANGED limiter
    BY <2>2 DEF Contain, BlockIp, UnblockIp, Arrive
  <2>3. CASE Add
    BY <2>3, RestKeepsLimiter DEF Add
  <2>4. ASSUME NEW raises, NEW full, Finish(raises, full) PROVE LimiterInv'
    BY <2>4, RestKeepsLimiter DEF Finish
  <2>5. QED BY <1>4, <2>1, <2>2, <2>3, <2>4, RestKeepsLimiter DEF ShieldNext
<1>5. CASE UNCHANGED vars
  BY <1>5, RestKeepsLimiter DEF vars
<1>6. QED BY <1>1, <1>3, <1>4, <1>5 DEF Next

\* The limiter lets through exactly the requests that the window has room
\* for, and whoever waited as long as Retry-After says: for every limit,
\* window and number of clients (rate_limiter.py:46-64).
THEOREM LimiterAlwaysExact == Spec => []LimiterIsExact
<1>1. LimiterInv => LimiterIsExact
  BY BucketIsExact DEF LimiterInv, LimiterIsExact
<1>2. QED BY InitiallyLimited, LimiterStep, <1>1, PTL DEF Spec
-----------------------------------------------------------------------------
(* The audit log *)

Latest(a, id, n, k) ==
  k \in 1..n /\ a[k].id = id /\ \A j \in 1..n : a[j].id = id => j <= k

\* The first n entries tell that the alert id has this status.
Told(a, id, n, status, dropped) ==
  /\ \A k \in 1..n : Latest(a, id, n, k) => a[k].new = status
  /\ (\A j \in 1..n : a[j].id # id) /\ ~dropped => status = "NEW"

ByThoseWhoMay(e) == /\ e.role \in {"ADMIN", "ANALYST"}
                    /\ e.role # "ADMIN" => e.tenant \in {"*", "default"}

Tells(h, a, dropped) ==
  /\ \A i \in 1..Len(h) : Told(a, h[i].id, Len(a), h[i].status, dropped)
  /\ \A k \in 1..Len(a) : Told(a, a[k].id, k - 1, a[k].old, dropped)
  /\ \A k \in 1..Len(a) : ByThoseWhoMay(a[k])

LEMMA TellsIsAudit ==
  ASSUME DOMAIN history = 1..Len(history), DOMAIN audit = 1..Len(audit),
         Len(audit) \in Nat, Tells(history, audit, cut)
  PROVE  AuditTellsStatus
<1> DEFINE n == Len(audit)
<1>1. ASSUME NEW i \in DOMAIN history
      PROVE  LET of == {k \in DOMAIN audit : audit[k].id = history[i].id}
             IN /\ \A k \in of : (\A j \in of : j <= k) => audit[k].new = history[i].status
                /\ of = {} /\ ~cut => history[i].status = "NEW"
  <2>1. Told(audit, history[i].id, n, history[i].status, cut)
    BY DEF Tells
  <2>2. QED BY <2>1 DEF Told, Latest
<1>2. ASSUME NEW k \in DOMAIN audit
      PROVE  /\ \A j \in Before(k) :
                  (\A m \in Before(k) : m <= j) => audit[j].new = audit[k].old
             /\ Before(k) = {} /\ ~cut => audit[k].old = "NEW"
  <2>1. Told(audit, audit[k].id, k - 1, audit[k].old, cut)
    BY DEF Tells
  <2>2. QED BY <2>1 DEF Told, Latest, Before
<1>3. ASSUME NEW k \in DOMAIN audit PROVE ByThoseWhoMay(audit[k])
  BY DEF Tells
<1>4. QED BY <1>1, <1>2, <1>3 DEF AuditTellsStatus, ByThoseWhoMay

\* Entries that stay tell what they told.
LEMMA StillTold ==
  ASSUME NEW a, NEW b, NEW e, NEW d, PushedOut(a, b, e, d),
         NEW n \in Nat, n <= Len(a), d <= n, NEW id, NEW status, NEW cut1, NEW cut2,
         cut1 => cut2, d = 1 => cut2, Told(a, id, n, status, cut1)
  PROVE  Told(b, id, n - d, status, cut2)
<1>1. PICK m \in Nat : m = Len(a) /\ n <= m /\ Len(b) = m + 1 - d /\ d \in {0, 1}
  BY DEF PushedOut
<1>2. \A i \in 1..n - d : i + d \in 1..n /\ b[i] = a[i + d]
  <2>1. \A i \in 1..n - d : i \in 1..m + 1 - d /\ i + d <= m /\ i + d \in 1..n
    BY <1>1
  <2>2. QED BY <1>1, <2>1 DEF PushedOut
<1>3. ASSUME NEW k \in 1..n - d, Latest(b, id, n - d, k) PROVE b[k].new = status
  <2>1. Latest(a, id, n, k + d)
    <3>1. k + d \in 1..n /\ a[k + d].id = id
      BY <1>2, <1>3 DEF Latest
    <3>2. ASSUME NEW j \in 1..n, a[j].id = id PROVE j <= k + d
      <4>1. CASE j - d \in 1..n - d
        <5>1. j - d + d = j
          BY <1>1
        <5>2. b[j - d].id = id
          BY <1>2, <3>2, <4>1, <5>1
        <5>3. j - d <= k
          BY <1>3, <4>1, <5>2 DEF Latest
        <5>4. QED BY <1>1, <5>3
      <4>2. CASE j - d \notin 1..n - d
        BY <1>1, <4>2
      <4>3. QED BY <4>1, <4>2
    <3>3. QED BY <3>1, <3>2 DEF Latest
  <2>2. k + d \in 1..n
    BY <1>2
  <2>3. QED BY <1>2, <2>1, <2>2 DEF Told
<1>4. ASSUME \A j \in 1..n - d : b[j].id # id, ~cut2 PROVE status = "NEW"
  <2>1. d = 0 /\ ~cut1
    BY <1>1, <1>4
  <2>2. \A j \in 1..n : j \in 1..n - d /\ b[j] = a[j]
    <3>1. n - d = n /\ \A j \in 1..n : j + d = j
      BY <2>1
    <3>2. QED BY <1>2, <3>1
  <2>3. QED BY <1>4, <2>1, <2>2 DEF Told
<1>5. QED BY <1>3, <1>4 DEF Told

\* The newest entry tells the status that was set, of no other alert.
LEMMA NewestTells ==
  ASSUME NEW a, NEW b, NEW e, NEW d, PushedOut(a, b, e, d), NEW status, NEW cut1, NEW cut2,
         cut1 => cut2, d = 1 => cut2
  PROVE  /\ Told(b, e.id, Len(b), e.new, cut2)
         /\ \A id : id # e.id /\ Told(a, id, Len(a), status, cut1)
                      => Told(b, id, Len(b), status, cut2)
<1>1. PICK m \in Nat : m = Len(a) /\ Len(b) = m + 1 - d /\ d \in {0, 1} /\ d <= m
  BY DEF PushedOut
<1> DEFINE n == m + 1 - d
<1>2. n \in 1..n /\ n \in Nat /\ n - 1 = m - d /\ b[n] = e
  <2>1. n \in 1..n /\ n \in Nat /\ n - 1 = m - d /\ ~(n + d <= m)
    BY <1>1
  <2>2. QED BY <1>1, <2>1 DEF PushedOut
<1>3. Told(b, e.id, n, e.new, cut2)
  <2>1. ASSUME NEW k \in 1..n, Latest(b, e.id, n, k) PROVE k = n
    BY <1>2, <2>1 DEF Latest
  <2>2. b[n].id = e.id
    BY <1>2
  <2> HIDE DEF n
  <2>3. QED BY <1>2, <2>1, <2>2 DEF Told
<1>4. ASSUME NEW id, id # e.id, Told(a, id, m, status, cut1)
      PROVE  Told(b, id, n, status, cut2)
  <2>1. Told(b, id, m - d, status, cut2)
    BY <1>1, <1>4, StillTold
  <2>2. \A j \in 1..n : b[j].id = id => j \in 1..m - d
    <3>1. \A j \in 1..n : j = n \/ j \in 1..m - d
      BY <1>1
    <3>2. b[n].id # id
      BY <1>2, <1>4
    <3> HIDE DEF n
    <3>3. QED BY <3>1, <3>2
  <2>3. \A j \in 1..m - d : j \in 1..n
    BY <1>1
  <2> HIDE DEF n
  <2>4. QED BY <2>1, <2>2, <2>3 DEF Told, Latest
<1>5. QED BY <1>1, <1>3, <1>4

\* An update: the status of one alert is set, and an entry tells the old one.
Updated(h, h1, i, e) ==
  /\ Len(h) \in Nat /\ i \in 1..Len(h) /\ Len(h1) = Len(h)
  /\ \A j \in 1..Len(h) : /\ h1[j].id = h[j].id
                          /\ j # i => h1[j].status = h[j].status /\ h[j].id # h[i].id
  /\ e.id = h[i].id /\ e.old = h[i].status /\ e.new = h1[i].status /\ ByThoseWhoMay(e)

LEMMA TellsUpdate ==
  ASSUME NEW h, NEW h1, NEW i, NEW e, Updated(h, h1, i, e),
         NEW a, NEW b, NEW d, PushedOut(a, b, e, d),
         NEW cut1, NEW cut2, cut1 => cut2, d = 1 => cut2, Tells(h, a, cut1)
  PROVE  Tells(h1, b, cut2)
<1> USE DEF Updated
<1>1. PICK m \in Nat : m = Len(a) /\ Len(b) = m + 1 - d /\ d \in {0, 1} /\ d <= m
  BY DEF PushedOut
<1>2. \A k \in 1..m + 1 - d : IF k + d <= m THEN b[k] = a[k + d] ELSE b[k] = e
  BY <1>1 DEF PushedOut
<1>3. ASSUME NEW j \in 1..Len(h1) PROVE Told(b, h1[j].id, Len(b), h1[j].status, cut2)
  <2>1. Told(a, h[j].id, Len(a), h[j].status, cut1)
    BY DEF Tells
  <2>2. CASE j = i
    <3>1. Told(b, e.id, Len(b), e.new, cut2)
      BY NewestTells
    <3>2. h1[j].id = e.id /\ h1[j].status = e.new
      BY <2>2
    <3>3. QED BY <3>1, <3>2
  <2>3. CASE j # i
    <3>1. h1[j].id = h[j].id /\ h1[j].status = h[j].status /\ h[j].id # e.id
      BY <2>3
    <3>2. Told(b, h[j].id, Len(b), h[j].status, cut2)
      BY <2>1, <3>1, NewestTells
    <3>3. QED BY <3>1, <3>2
  <2>4. QED BY <2>2, <2>3
<1>4. ASSUME NEW k \in 1..Len(b)
      PROVE  Told(b, b[k].id, k - 1, b[k].old, cut2) /\ ByThoseWhoMay(b[k])
  <2>1. CASE k + d <= m
    <3>1. /\ k + d \in 1..m /\ b[k] = a[k + d] /\ k + d - 1 \in Nat /\ k + d - 1 <= m
          /\ d <= k + d - 1 /\ k + d - 1 - d = k - 1
      BY <1>1, <1>2, <2>1
    <3>2. Told(a, a[k + d].id, k + d - 1, a[k + d].old, cut1) /\ ByThoseWhoMay(a[k + d])
      BY <1>1, <3>1 DEF Tells
    <3>3. PICK n \in Nat : n = k + d - 1 /\ n <= m /\ d <= n /\ n - d = k - 1
      BY <1>1, <3>1
    <3>4. Told(a, a[k + d].id, n, a[k + d].old, cut1) /\ n <= Len(a)
      BY <1>1, <3>2, <3>3
    <3>5. Told(b, a[k + d].id, n - d, a[k + d].old, cut2)
      BY <3>3, <3>4, StillTold
    <3>6. QED BY <3>1, <3>2, <3>3, <3>5
  <2>2. CASE ~(k + d <= m)
    <3>1. b[k] = e /\ k - 1 = m - d
      BY <1>1, <1>2, <2>2
    <3>2. Told(a, h[i].id, m, h[i].status, cut1)
      BY <1>1 DEF Tells
    <3>3. m <= Len(a) /\ Told(a, e.id, m, e.old, cut1)
      BY <1>1, <3>2
    <3>4. PICK id, old : id = e.id /\ old = e.old
      OBVIOUS
    <3>5. Told(a, id, m, old, cut1) /\ m \in Nat /\ m <= Len(a) /\ d <= m
      BY <1>1, <3>3, <3>4
    <3>6. Told(b, id, m - d, old, cut2)
      BY <3>5, StillTold
    <3>7. QED BY <3>1, <3>4, <3>6
  <2>3. QED BY <2>1, <2>2
<1>5. QED BY <1>3, <1>4 DEF Tells

\* An alert is recorded: nothing tells of it yet.
LEMMA TellsRaise ==
  ASSUME NEW h, NEW h1, NEW e, NEW d, PushedOut(h, h1, e, d), e.status = "NEW",
         NEW a, Len(a) \in Nat, \A k \in 1..Len(a) : a[k].id # e.id,
         NEW dropped, Tells(h, a, dropped)
  PROVE  Tells(h1, a, dropped)
<1>1. ASSUME NEW i \in 1..Len(h1)
      PROVE  Told(a, h1[i].id, Len(a), h1[i].status, dropped)
  <2>1. CASE i + d <= Len(h)
    <3>1. i + d \in 1..Len(h) /\ h1[i] = h[i + d]
      BY <2>1 DEF PushedOut
    <3>2. QED BY <3>1 DEF Tells
  <2>2. CASE ~(i + d <= Len(h))
    <3>1. h1[i] = e
      BY <2>2 DEF PushedOut
    <3>2. QED BY <3>1 DEF Told, Latest
  <2>3. QED BY <2>1, <2>2
<1>2. QED BY <1>1 DEF Tells
-----------------------------------------------------------------------------
(* The pages *)

Above(L, x) == {n \in L : n > x}

\* Of an element that has newer ones, the next has one less.
LEMMA NextNewer ==
  ASSUME NEW L \in SUBSET Nat, IsFiniteSet(L), NEW x \in L
  PROVE  /\ Newer(L, x) \in Nat
         /\ Newer(L, x) > 0 => \E y \in L : Newer(L, y) = Newer(L, x) - 1
<1>1. /\ Newer(L, x) = Cardinality(Above(L, x)) /\ IsFiniteSet(Above(L, x))
      /\ Above(L, x) \subseteq Nat
  <2>1. Above(L, x) \in SUBSET L
    BY DEF Above
  <2>2. QED BY <2>1, FS_Subset DEF Above, Newer
<1>2. Newer(L, x) \in Nat
  BY <1>1, FS_CardinalityType
<1>3. ASSUME Newer(L, x) > 0 PROVE \E y \in L : Newer(L, y) = Newer(L, x) - 1
  <2>1. Above(L, x) # {}
    BY <1>1, <1>3, FS_EmptySet
  <2>2. PICK y \in Above(L, x) : \A z \in Above(L, x) : y <= z
    BY <1>1, <2>1, Least
  <2>3. y \in L /\ Above(L, y) = Above(L, x) \ {y}
    <3>1. y \in L /\ y > x /\ x \in Nat /\ y \in Nat
      BY <2>2 DEF Above
    <3>2. ASSUME NEW z \in L PROVE z > y <=> z > x /\ z # y
      <4>1. z \in Nat /\ (z > x => y <= z)
        BY <2>2 DEF Above
      <4>2. QED BY <3>1, <4>1
    <3>3. QED BY <3>1, <3>2 DEF Above
  <2>4. Cardinality(Above(L, x) \ {y}) = Cardinality(Above(L, x)) - 1
    BY <1>1, <2>2, FS_RemoveElement
  <2>5. Newer(L, y) = Cardinality(Above(L, y))
    BY DEF Newer, Above
  <2>6. QED BY <1>1, <2>3, <2>4, <2>5
<1>4. QED BY <1>2, <1>3

\* A page that is not full is the last one.
LEMMA LastPage ==
  ASSUME NEW L \in SUBSET Nat, IsFiniteSet(L), NEW m \in Nat, NEW size \in Nat \ {0},
         Cardinality({x \in L : Newer(L, x) \in m..m + size - 1}) < size,
         NEW id \in L
  PROVE  Newer(L, id) < m + size
<1> DEFINE page == {x \in L : Newer(L, x) \in m..m + size - 1}
           top == Newer(L, id)
           N == {k \in Nat : k <= top => \E x \in L : Newer(L, x) = top - k}
<1> SUFFICES ASSUME ~(Newer(L, id) < m + size) PROVE FALSE
  OBVIOUS
<1>1. top \in Nat /\ top >= m + size
  BY NextNewer
<1> HIDE DEF top
<1>2. 0 \in N
  BY <1>1 DEF top
<1>3. ASSUME NEW k \in Nat, k \in N PROVE k + 1 \in N
  <2> SUFFICES ASSUME k + 1 <= top PROVE \E x \in L : Newer(L, x) = top - (k + 1)
    OBVIOUS
  <2>1. PICK x \in L : Newer(L, x) = top - k
    BY <1>1, <1>3
  <2>2. PICK y \in L : Newer(L, y) = Newer(L, x) - 1
    BY <1>1, <2>1, NextNewer
  <2>3. QED BY <1>1, <2>1, <2>2
<1>4. Nat \subseteq N
  <2> HIDE DEF N
  <2>1. QED BY <1>2, <1>3, Induction
<1>5. \A r \in m..m + size - 1 : \E x \in L : Newer(L, x) = r
  <2> SUFFICES ASSUME NEW r \in m..m + size - 1 PROVE \E x \in L : Newer(L, x) = r
    OBVIOUS
  <2>1. top - r \in Nat /\ top - r <= top /\ top - (top - r) = r
    BY <1>1
  <2>2. top - r \in N
    BY <1>4, <2>1
  <2>3. QED BY <2>1, <2>2
<1> DEFINE R == m..m + size - 1
           f == [r \in R |-> CHOOSE x \in L : Newer(L, x) = r]
<1>6. \A r \in R : f[r] \in L /\ Newer(L, f[r]) = r
  BY <1>5
<1>7. IsFiniteSet(page)
  <2>1. page \in SUBSET L
    OBVIOUS
  <2>2. QED BY <2>1, FS_Subset
<1>8. f \in Injection(R, page)
  <2>1. f \in [R -> page]
    <3>1. \A r \in R : f[r] \in page
      BY <1>6
    <3> HIDE DEF page, R
    <3>2. QED BY <3>1
  <2>2. \A r, q \in R : f[r] = f[q] => r = q
    BY <1>6
  <2> HIDE DEF f, R, page
  <2>3. QED BY <2>1, <2>2 DEF Injection, IsInjective
<1>9. Cardinality(R) <= Cardinality(page)
  BY <1>7, <1>8, FS_Injection
<1>10. Cardinality(R) = size
  BY FS_Interval
<1>11. Cardinality(page) \in Nat
  BY <1>7, FS_CardinalityType
<1> HIDE DEF page, R
<1>12. ~(Cardinality(page) < size)
  BY <1>9, <1>10, <1>11
<1>13. QED BY <1>12 DEF page
-----------------------------------------------------------------------------
(* The desk: alerts, their audit and the walk through the pages *)

AlertOf(n) == [id : 1..n, status : Statuses]

\* Ids rise with the place.
Alerts(h, n) == /\ h \in Seq(AlertOf(n))
                /\ \A i, j \in 1..Len(h) : i < j => h[i].id < h[j].id

AuditInv == /\ IsSequence(audit) /\ cut \in BOOLEAN
            /\ \A k \in 1..Len(audit) : audit[k].id \in 1..raised
            /\ Tells(history, audit, cut)

Walks == [pc : {"off", "between", "done"}, filter : {"", "NEW"}, offset : Nat,
          must : SUBSET (1..raised), got : SUBSET (1..raised)]

\* What a walk must still see comes on its next pages.
StillToCome ==
  \A id \in walk.must \intersect Ids :
    /\ id \in Listed(Walker, walk.filter)
    /\ id \notin walk.got => Newer(Listed(Walker, walk.filter), id) >= walk.offset

WalkInv == /\ walk \in Walks
           /\ walk.pc = "between" => walk.offset > 0 /\ StillToCome
           /\ walk.pc = "done" => walk.must \intersect Ids \subseteq walk.got

\* The walker asks for the next page of its walk, or for the first one.
Asked(r) == /\ r.client = Walker /\ r.request.filter \in {"", "NEW"}
            /\ IF walk.pc = "between"
               THEN r.request.offset = walk.offset /\ r.request.filter = walk.filter
               ELSE r.request.offset = 0 /\ walk.pc = "off"

IsPage(r) == r.request.route = "page"

PageInv == /\ \A r \in inside : IsPage(r) => Asked(r)
           /\ \A r, q \in inside : IsPage(r) /\ IsPage(q) => r = q

DeskInv == /\ raised \in Nat /\ Alerts(history, raised)
           /\ AuditInv /\ WalkInv /\ PageInv

LEMMA InitiallyAtDesk == Init => DeskInv
<1> SUFFICES ASSUME Init PROVE DeskInv
  OBVIOUS
<1>1. /\ inside = {} /\ history = <<>> /\ raised = 0 /\ audit = <<>> /\ cut = FALSE
      /\ walk = NoWalk
  BY DEF Init
<1>2. Alerts(history, raised)
  BY <1>1 DEF Alerts
<1>3. AuditInv
  <2>1. <<>> \in Seq({})
    OBVIOUS
  <2>2. IsSequence(<<>>)
    BY <2>1, SequenceIs
  <2>3. Tells(<<>>, <<>>, FALSE)
    <3>1. 1..Len(<<>>) = {}
      OBVIOUS
    <3>2. QED BY <3>1, Zenon DEF Tells
  <2>4. Tells(history, audit, cut)
    BY <1>1, <2>3, Zenon
  <2>5. \A k \in 1..Len(audit) : audit[k].id \in 1..raised
    BY <1>1
  <2>6. IsSequence(audit) /\ cut \in BOOLEAN
    BY <1>1, <2>2
  <2>7. QED BY <2>4, <2>5, <2>6 DEF AuditInv
<1>4. WalkInv
  BY <1>1 DEF WalkInv, Walks, NoWalk
<1>5. PageInv
  BY <1>1 DEF PageInv
<1>6. QED BY <1>1, <1>2, <1>3, <1>4, <1>5 DEF DeskInv

LEMMA DeskRests ==
  ASSUME DeskInv, UNCHANGED desk,
         \A r \in inside' : r \in inside \/ ~IsPage(r) \/ (~WalkerBusy /\ Asked(r)),
         \A r, q \in inside' \ inside : r = q
  PROVE  DeskInv'
<1>1. /\ history' = history /\ raised' = raised /\ audit' = audit /\ cut' = cut
      /\ walk' = walk
  BY DEF desk
<1>2. Alerts(history, raised)'
  BY <1>1 DEF DeskInv, Alerts, AlertOf
<1>3. AuditInv'
  BY <1>1 DEF DeskInv, AuditInv, Tells, Told, Latest, ByThoseWhoMay, IsSequence
<1>4. WalkInv'
  <2>1. Ids' = Ids /\ Listed(Walker, walk.filter)' = Listed(Walker, walk.filter)
    BY <1>1 DEF Ids, Listed
  <2>2. StillToCome => StillToCome'
    BY <1>1, <2>1, Zenon DEF StillToCome, Newer
  <2>3. WalkInv
    BY DEF DeskInv
  <2>4. QED BY <1>1, <2>1, <2>2, <2>3 DEF WalkInv, Walks
<1>5. PageInv'
  <2>1. ASSUME NEW r \in inside', IsPage(r) PROVE Asked(r)'
    <3>1. Asked(r)
      BY <2>1 DEF DeskInv, PageInv
    <3>2. QED BY <1>1, <3>1 DEF Asked
  <2>2. ASSUME NEW r \in inside', NEW q \in inside', IsPage(r), IsPage(q) PROVE r = q
    <3>1. r \in inside \/ ~WalkerBusy
      BY <2>2
    <3>2. q \in inside \/ ~WalkerBusy
      BY <2>2
    <3>3. WalkerBusy <=> \E p \in inside : IsPage(p)
      BY DEF WalkerBusy, IsPage
    <3>4. CASE r \in inside /\ q \in inside
      BY <2>2, <3>4 DEF DeskInv, PageInv
    <3>5. CASE r \notin inside /\ q \notin inside
      BY <3>5
    <3>6. QED BY <2>2, <3>1, <3>2, <3>3, <3>4, <3>5
  <2>3. QED BY <2>1, <2>2 DEF PageInv, IsPage
<1>6. QED BY <1>1, <1>2, <1>3, <1>4, <1>5 DEF DeskInv

LEMMA AskAtDesk ==
  ASSUME DeskInv, NEW c, NEW request, Ask(c, request),
         request.route = "page" =>
           /\ ~WalkerBusy
           /\ \A n : Asked([n |-> n, client |-> c, request |-> request])
  PROVE  DeskInv'
<1> DEFINE new == [n |-> asked, client |-> c, request |-> request]
<1>1. UNCHANGED desk /\ inside' \subseteq inside \union {new}
  BY DEF Ask
<1>2. IsPage(new) => ~WalkerBusy /\ Asked(new)
  BY DEF IsPage
<1> HIDE DEF new
<1>3. QED BY <1>1, <1>2, DeskRests

LEMMA AskPageAtDesk ==
  ASSUME DeskInv, NEW filter \in {"", "NEW"}, AskPage(filter)
  PROVE  DeskInv'
<1> DEFINE request == [route |-> "page", filter |-> filter,
                       offset |-> IF walk.pc = "between" THEN walk.offset ELSE 0]
<1>1. /\ ~WalkerBusy /\ walk.pc # "done" /\ (walk.pc = "between" => filter = walk.filter)
      /\ Ask(Walker, request)
  BY DEF AskPage
<1>2. walk.pc \in {"off", "between", "done"}
  BY DEF DeskInv, WalkInv, Walks
<1>3. \A n : Asked([n |-> n, client |-> Walker, request |-> request])
  BY <1>1, <1>2 DEF Asked
<1> HIDE DEF request
<1>4. QED BY <1>1, <1>3, AskAtDesk

LEMMA AskUpdateAtDesk ==
  ASSUME DeskInv, NEW c, NEW id, NEW status, AskUpdate(c, id, status)
  PROVE  DeskInv'
<1> DEFINE request == [route |-> "status", id |-> id, status |-> status]
<1>1. Ask(c, request) /\ request.route # "page"
  BY DEF AskUpdate
<1> HIDE DEF request
<1>2. QED BY <1>1, AskAtDesk

LEMMA AlertIds ==
  ASSUME NEW n \in Nat, NEW h, Alerts(h, n)
  PROVE  \A i \in 1..Len(h) : h[i].id \in 1..n
<1>1. \A i \in 1..Len(h) : h[i] \in AlertOf(n)
  BY DEF Alerts
<1>2. \A r \in AlertOf(n) : r.id \in 1..n
  BY DEF AlertOf
<1>3. QED BY <1>1, <1>2

\* An alert is recorded, and the oldest may be dropped.
LEMMA AlertsRaised ==
  ASSUME NEW n \in Nat, NEW h, Alerts(h, n), NEW e, e.id = n + 1,
         NEW h1 \in Seq(AlertOf(n + 1)), NEW d, PushedOut(h, h1, e, d)
  PROVE  Alerts(h1, n + 1)
<1>1. PICK m \in Nat : m = Len(h) /\ Len(h1) = m + 1 - d /\ d \in {0, 1}
  BY DEF PushedOut
<1>2. ASSUME NEW i \in 1..m + 1 - d, NEW j \in 1..m + 1 - d, i < j
      PROVE  h1[i].id < h1[j].id
  <2>1. i + d \in 1..m /\ h1[i] = h[i + d]
    <3>1. i + d \in 1..m
      BY <1>1, <1>2
    <3>2. QED BY <1>1, <3>1 DEF PushedOut
  <2>2. h[i + d].id \in 1..n
    BY <1>1, <2>1, AlertIds
  <2>3. CASE j + d <= m
    <3>1. j + d \in 1..m /\ h1[j] = h[j + d] /\ i + d < j + d
      BY <1>1, <1>2, <2>3 DEF PushedOut
    <3>2. h[i + d].id < h[j + d].id
      BY <1>1, <2>1, <3>1 DEF Alerts
    <3>3. QED BY <2>1, <3>1, <3>2
  <2>4. CASE ~(j + d <= m)
    <3>1. h1[j] = e
      BY <1>1, <2>4 DEF PushedOut
    <3>2. QED BY <2>1, <2>2, <3>1
  <2>5. QED BY <2>3, <2>4
<1>3. QED BY <1>1, <1>2 DEF Alerts

Matching(h, c, filter) ==
  {h[i].id : i \in {j \in 1..Len(h) : /\ c.tenant \in {"*", "default"}
                                      /\ filter = "" \/ h[j].status = filter}}

\* An alert that is still there, and all that are newer, stay in the list.
LEMMA ListedRaised ==
  ASSUME NEW n \in Nat, NEW h, Alerts(h, n), NEW e, e.id = n + 1,
         NEW h1, NEW d, PushedOut(h, h1, e, d),
         NEW i \in 1..Len(h1), h1[i].id \in 1..n
  PROVE  /\ \E j \in 1..Len(h) : h[j].id = h1[i].id
         /\ \A c, filter : \A x \in Matching(h, c, filter) :
              x >= h1[i].id => x \in Matching(h1, c, filter)
<1>1. PICK m \in Nat : m = Len(h) /\ Len(h1) = m + 1 - d /\ d \in {0, 1}
  BY DEF PushedOut
<1>2. i + d \in 1..m /\ h1[i] = h[i + d]
  <2>1. h1[i] # e
    <3>1. n + 1 \notin 1..n
      OBVIOUS
    <3>2. QED BY <3>1
  <2>2. i + d <= m
    BY <1>1, <2>1 DEF PushedOut
  <2>3. QED BY <1>1, <2>2 DEF PushedOut
<1>3. ASSUME NEW c, NEW filter, NEW x \in Matching(h, c, filter), x >= h1[i].id
      PROVE  x \in Matching(h1, c, filter)
  <2>1. PICK k \in 1..m : /\ x = h[k].id /\ c.tenant \in {"*", "default"}
                          /\ filter = "" \/ h[k].status = filter
    BY <1>1 DEF Matching
  <2>2. ~(k < i + d)
    <3>1. h[k].id \in 1..n /\ h[i + d].id \in 1..n
      BY <1>1, <1>2, AlertIds
    <3>2. k < i + d => h[k].id < h[i + d].id
      BY <1>1, <1>2 DEF Alerts
    <3>3. PICK a \in Nat, b \in Nat : a = h[k].id /\ b = h[i + d].id
      BY <3>1
    <3>4. ~(a < b)
      <4>1. x = a /\ h1[i].id = b
        BY <1>2, <2>1, <3>3
      <4>2. a >= b
        BY <1>3, <4>1
      <4>3. QED BY <3>3, <4>2
    <3>5. QED BY <3>2, <3>3, <3>4
  <2>3. k - d \in 1..m + 1 - d /\ k - d + d = k /\ k <= m
    BY <1>1, <2>2
  <2>4. h1[k - d] = h[k]
    BY <1>1, <2>3 DEF PushedOut
  <2>5. QED BY <1>1, <2>1, <2>3, <2>4 DEF Matching
<1>4. QED BY <1>1, <1>2, <1>3

LEMMA MatchingIsFinite ==
  ASSUME NEW n \in Nat, NEW h, Alerts(h, n), NEW c, NEW filter
  PROVE  /\ IsFiniteSet(Matching(h, c, filter)) /\ Matching(h, c, filter) \subseteq Nat
         /\ Matching(h, c, filter) \subseteq 1..n
<1>1. Matching(h, c, filter) \subseteq 1..n
  <2>1. \A i \in 1..Len(h) : h[i].id \in 1..n
    BY AlertIds
  <2>2. QED BY <2>1 DEF Matching
<1>2. IsFiniteSet(1..n) /\ 1..n \subseteq Nat
  BY FS_Interval
<1>3. QED BY <1>1, <1>2, FS_Subset

LEMMA MoreAreNewer ==
  ASSUME NEW L, NEW M \in SUBSET Nat, IsFiniteSet(M), NEW x,
         \A y \in L : y > x => y \in M
  PROVE  /\ Newer(L, x) \in Nat /\ Newer(M, x) \in Nat /\ Newer(L, x) <= Newer(M, x)
<1>1. Above(M, x) \in SUBSET M /\ Above(L, x) \in SUBSET Above(M, x)
  BY DEF Above
<1>2. IsFiniteSet(Above(M, x)) /\ IsFiniteSet(Above(L, x))
  BY <1>1, FS_Subset
<1>3. Cardinality(Above(L, x)) <= Cardinality(Above(M, x))
  BY <1>1, <1>2, FS_Subset
<1>4. QED BY <1>2, <1>3, FS_CardinalityType DEF Newer, Above

LEMMA RaiseAtDesk ==
  ASSUME DeskInv, Raise
  PROVE  DeskInv'
<1> DEFINE e == [id |-> raised + 1, status |-> "NEW"]
           all == Append(history, e)
           h1 == IF Len(all) > MaxHistory THEN Tail(all) ELSE all
           d == IF Len(all) > MaxHistory THEN 1 ELSE 0
<1>1. /\ raised \in Nat /\ raised' = raised + 1 /\ history' = h1
      /\ audit' = audit /\ cut' = cut /\ walk' = walk /\ inside' = inside
  BY DEF Raise, DeskInv
<1>2. Alerts(history, raised)
  BY DEF DeskInv
<1>3. history \in Seq(AlertOf(raised + 1)) /\ e \in AlertOf(raised + 1)
  <2>1. AlertOf(raised) \subseteq AlertOf(raised + 1)
    BY <1>1 DEF AlertOf
  <2>2. history \in Seq(AlertOf(raised))
    BY <1>2 DEF Alerts
  <2>3. e \in AlertOf(raised + 1)
    BY <1>1 DEF AlertOf, Statuses
  <2>4. QED BY <2>1, <2>2, <2>3
<1> HIDE DEF e
<1>4. h1 \in Seq(AlertOf(raised + 1)) /\ PushedOut(history, h1, e, d)
  BY <1>3, PushAndDrop, GatewayAssumption
<1>5. e.id = raised + 1 /\ e.status = "NEW"
  BY DEF e
<1> HIDE DEF h1, d
<1>6. Alerts(history, raised)'
  BY <1>1, <1>2, <1>4, <1>5, AlertsRaised
<1>7. AuditInv'
  <2>1. /\ AuditInv /\ Len(audit) \in Nat
        /\ \A k \in 1..Len(audit) : audit[k].id \in 1..raised + 1 /\ audit[k].id # raised + 1
    <3>1. AuditInv
      BY DEF DeskInv
    <3>2. Len(audit) \in Nat
      BY <3>1 DEF AuditInv, IsSequence
    <3>3. QED BY <1>1, <3>1, <3>2 DEF AuditInv
  <2>2. Tells(h1, audit, cut)
    BY <1>4, <1>5, <2>1, TellsRaise DEF AuditInv
  <2>3. QED BY <1>1, <2>1, <2>2 DEF AuditInv
<1>8. WalkInv'
  <2>1. WalkInv
    BY DEF DeskInv
  <2>2. (walk \in Walks)'
    <3>1. SUBSET (1..raised) \subseteq SUBSET (1..raised + 1)
      BY <1>1
    <3>2. walk \in Walks
      BY <2>1 DEF WalkInv
    <3>3. QED BY <1>1, <3>1, <3>2 DEF Walks
  <2>3. ASSUME NEW id \in walk.must, id \in Ids'
        PROVE  /\ id \in Ids
               /\ \A c, filter : \A x \in Listed(c, filter) :
                    x >= id => x \in Listed(c, filter)'
    <3>1. id \in 1..raised
      BY <2>1 DEF WalkInv, Walks
    <3>2. DOMAIN h1 = 1..Len(h1) /\ DOMAIN history = 1..Len(history)
      BY <1>3, <1>4
    <3>3. PICK i \in 1..Len(h1) : id = h1[i].id
      BY <1>1, <2>3, <3>2 DEF Ids
    <3>4. /\ \E j \in 1..Len(history) : history[j].id = h1[i].id
          /\ \A c, filter : \A x \in Matching(history, c, filter) :
               x >= h1[i].id => x \in Matching(h1, c, filter)
      BY <1>1, <1>2, <1>4, <1>5, <3>1, <3>3, ListedRaised
    <3>5. \A c, filter : /\ Listed(c, filter) = Matching(history, c, filter)
                         /\ Listed(c, filter)' = Matching(h1, c, filter)
      BY <1>1, <3>2 DEF Listed, Matching
    <3>6. QED BY <3>2, <3>3, <3>4, <3>5 DEF Ids
  <2>4. StillToCome => StillToCome'
    <3> SUFFICES ASSUME StillToCome, NEW id \in walk.must, id \in Ids'
                 PROVE  /\ id \in Listed(Walker, walk.filter)'
                        /\ id \notin walk.got =>
                             Newer(Listed(Walker, walk.filter)', id) >= walk.offset
      BY <1>1 DEF StillToCome
    <3> DEFINE L == Listed(Walker, walk.filter)
               M == Listed(Walker, walk.filter)'
    <3>1. /\ id \in Ids /\ id \in L /\ id \in Nat
          /\ id \notin walk.got => Newer(L, id) >= walk.offset
      <4>1. id \in Nat
        <5>1. walk.must \subseteq 1..raised
          BY <2>1 DEF WalkInv, Walks
        <5>2. QED BY <1>1, <5>1
      <4>2. id \in walk.must \intersect Ids
        BY <2>3
      <4>3. QED BY <4>1, <4>2, Zenon DEF StillToCome
    <3>2. \A x \in L : x >= id => x \in M
      BY <1>1, <2>3
    <3>3. IsFiniteSet(M) /\ M \in SUBSET Nat /\ L \in SUBSET Nat
      <4>1. DOMAIN h1 = 1..Len(h1) /\ DOMAIN history = 1..Len(history)
        BY <1>3, <1>4
      <4>2. L = Matching(history, Walker, walk.filter)
        BY <4>1 DEF Listed, Matching
      <4>3. M = Matching(h1, Walker, walk.filter)
        BY <1>1, <4>1 DEF Listed, Matching
      <4>4. Alerts(h1, raised + 1)
        BY <1>1, <1>6
      <4>5. QED BY <1>1, <1>2, <4>2, <4>3, <4>4, MatchingIsFinite
    <3> HIDE DEF L, M
    <3>4. \A y \in L : y > id => y \in M
      BY <3>1, <3>2, <3>3
    <3>5. /\ Newer(L, id) \in Nat /\ Newer(M, id) \in Nat /\ Newer(L, id) <= Newer(M, id)
      BY <3>3, <3>4, MoreAreNewer
    <3>6. walk.offset \in Nat
      BY <2>1 DEF WalkInv, Walks
    <3>7. id \in M
      BY <3>1, <3>2
    <3>8. QED BY <3>1, <3>5, <3>6, <3>7 DEF L, M
  <2>5. walk.must \intersect Ids' \subseteq walk.must \intersect Ids
    BY <2>3
  <2>6. QED BY <1>1, <2>1, <2>2, <2>4, <2>5 DEF WalkInv
<1>9. PageInv'
  BY <1>1 DEF DeskInv, PageInv, Asked
<1>10. QED BY <1>1, <1>6, <1>7, <1>8, <1>9 DEF DeskInv

\* The next page of the walk is answered.
LEMMA PageAtDesk ==
  ASSUME DeskInv, NEW r \in inside, IsPage(r), Answer(r)
  PROVE  DeskInv'
<1> DEFINE L == Listed(Walker, r.request.filter)
           m == r.request.offset
           page == {id \in L : Newer(L, id) \in m..m + PageSize - 1}
           first == m = 0
           w == [pc     |-> IF Cardinality(page) < PageSize THEN "done" ELSE "between",
                 filter |-> r.request.filter,
                 offset |-> m + PageSize,
                 must   |-> IF first THEN L ELSE walk.must,
                 got    |-> IF first THEN page ELSE walk.got \union page]
<1>1. Asked(r)
  BY DEF DeskInv, PageInv
<1>2. Page(r.client, r.request.filter, r.request.offset) = page
  BY <1>1 DEF Page, Asked
<1>3. /\ walk' = w /\ history' = history /\ audit' = audit /\ cut' = cut
      /\ raised' = raised /\ inside' = inside \ {r}
  BY <1>1, <1>2 DEF Answer, AnswerPage, IsPage, Asked
<1>4. /\ walk \in Walks /\ PageSize \in Nat \ {0} /\ WalkInv
      /\ raised \in Nat /\ Alerts(history, raised)
  BY GatewayAssumption DEF DeskInv, WalkInv
<1>5. /\ m \in Nat
      /\ IF walk.pc = "between"
         THEN m = walk.offset /\ r.request.filter = walk.filter /\ ~first
         ELSE first /\ walk.pc = "off"
  <2>1. walk.offset \in Nat
    BY <1>4 DEF Walks
  <2>2. walk.pc = "between" => walk.offset > 0
    BY <1>4 DEF WalkInv
  <2>3. IF walk.pc = "between"
        THEN m = walk.offset /\ r.request.filter = walk.filter
        ELSE m = 0 /\ walk.pc = "off"
    BY <1>1 DEF Asked
  <2> HIDE DEF m
  <2>4. QED BY <2>1, <2>2, <2>3
<1>6. L = Matching(history, Walker, r.request.filter)
  <2>1. DOMAIN history = 1..Len(history)
    BY <1>4 DEF Alerts
  <2>2. QED BY <2>1 DEF Listed, Matching
<1>7. IsFiniteSet(L) /\ L \in SUBSET Nat /\ L \subseteq 1..raised /\ L \subseteq Ids
  <2>1. L \subseteq Ids
    BY DEF Listed, Ids
  <2> HIDE DEF L
  <2>2. QED BY <1>4, <1>6, <2>1, MatchingIsFinite
<1>8. Ids' = Ids /\ Listed(Walker, r.request.filter)' = L
  BY <1>3 DEF Ids, Listed
<1> HIDE DEF L, m
<1>9. w \in Walks
  <2>1. page \subseteq 1..raised
    BY <1>7
  <2>2. r.request.filter \in {"", "NEW"}
    BY <1>1 DEF Asked
  <2> DEFINE must == IF first THEN L ELSE walk.must
             got == IF first THEN page ELSE walk.got \union page
             pc == IF Cardinality(page) < PageSize THEN "done" ELSE "between"
  <2>3. walk.must \subseteq 1..raised /\ walk.got \subseteq 1..raised
    BY <1>4 DEF Walks
  <2> HIDE DEF page, first
  <2>4. must \in SUBSET (1..raised) /\ got \in SUBSET (1..raised)
    BY <1>7, <2>1, <2>3
  <2>5. pc \in {"off", "between", "done"} /\ m + PageSize \in Nat
    BY <1>4, <1>5
  <2> HIDE DEF must, got, pc
  <2>6. [pc |-> pc, filter |-> r.request.filter, offset |-> m + PageSize,
         must |-> must, got |-> got] \in Walks
    BY <2>2, <2>4, <2>5 DEF Walks
  <2>7. QED BY <2>6 DEF must, got, pc
\* What this page and those before it have not shown is further on.
<1>10. ASSUME NEW id \in w.must, id \in Ids
       PROVE  /\ id \in L
              /\ id \notin w.got => Newer(L, id) >= m + PageSize
  <2>1. id \in L /\ (first \/ id \in walk.got \/ Newer(L, id) >= m)
    <3>1. CASE first
      BY <1>10, <3>1
    <3>2. CASE ~first
      <4>1. id \in walk.must /\ walk.pc = "between" /\ m = walk.offset
            /\ r.request.filter = walk.filter
        BY <1>5, <1>10, <3>2
      <4>2. StillToCome /\ L = Listed(Walker, walk.filter)
        BY <1>4, <4>1 DEF WalkInv, L
      <4>3. QED BY <1>10, <4>1, <4>2 DEF StillToCome
    <3>3. QED BY <3>1, <3>2
  <2>2. ASSUME id \notin w.got PROVE Newer(L, id) >= m + PageSize
    <3>1. id \notin page /\ (first \/ Newer(L, id) >= m)
      BY <2>1, <2>2
    <3>2. Newer(L, id) \in Nat
      BY <1>7, <2>1, NextNewer
    <3>3. Newer(L, id) >= m
      BY <1>5, <3>1, <3>2
    <3>4. Newer(L, id) \notin m..m + PageSize - 1
      BY <2>1, <3>1
    <3>5. QED BY <1>4, <1>5, <3>2, <3>3, <3>4
  <2>3. QED BY <2>1, <2>2
<1>11. ASSUME Cardinality(page) < PageSize, NEW id \in w.must, id \in Ids
       PROVE  id \in w.got
  <2>1. id \in L
    BY <1>10, <1>11
  <2>2. Newer(L, id) < m + PageSize
    BY <1>4, <1>5, <1>7, <1>11, <2>1, LastPage
  <2>3. Newer(L, id) \in Nat
    BY <1>7, <2>1, NextNewer
  <2>4. ~(Newer(L, id) >= m + PageSize)
    BY <1>4, <1>5, <2>2, <2>3
  <2>5. QED BY <1>10, <1>11, <2>4
<1>12. WalkInv'
  <2>1. (walk \in Walks)'
    BY <1>3, <1>9 DEF Walks
  <2>2. ASSUME walk'.pc = "between" PROVE walk'.offset > 0 /\ StillToCome'
    <3>1. walk'.offset > 0
      BY <1>3, <1>4, <1>5
    <3>2. walk'.filter = r.request.filter /\ walk'.offset = m + PageSize
      BY <1>3
    <3>3. Listed(Walker, walk.filter)' = L
      BY <1>3, <3>2 DEF L, Listed
    <3>4. QED BY <1>3, <1>8, <1>10, <3>1, <3>2, <3>3 DEF StillToCome
  <2>3. ASSUME walk'.pc = "done" PROVE walk'.must \intersect Ids' \subseteq walk'.got
    <3>1. Cardinality(page) < PageSize
      BY <1>3, <2>3
    <3>2. QED BY <1>3, <1>8, <1>11, <3>1
  <2>4. QED BY <2>1, <2>2, <2>3 DEF WalkInv
<1>13. PageInv'
  <2>1. \A q \in inside' : ~IsPage(q)
    BY <1>3 DEF DeskInv, PageInv
  <2>2. QED BY <2>1 DEF PageInv
<1>14. AuditInv' /\ Alerts(history, raised)'
  BY <1>3 DEF DeskInv, AuditInv, Alerts, AlertOf, Tells, Told, Latest, ByThoseWhoMay, IsSequence
<1>15. QED BY <1>3, <1>4, <1>12, <1>13, <1>14 DEF DeskInv

\* What is listed after the i-th alert gets the status.
StaysListed(h, h1, i, status, f) ==
  LET u == h[i].id
      leaves == f \notin {"", status} /\ h[i].status = f
      L == Matching(h, Walker, f)
      M == Matching(h1, Walker, f)
  IN  \A x \in L : (leaves => x # u) => x \in M

\* An update is answered: refused, or the status is set and audited.
LEMMA RefusalAtDesk ==
  ASSUME DeskInv, NEW r, UNCHANGED desk, inside' = inside \ {r}
  PROVE  DeskInv'
<1>1. \A q \in inside' : q \in inside
  OBVIOUS
<1>2. QED BY <1>1, DeskRests

LEMMA StatusSet ==
  ASSUME NEW n \in Nat, NEW h, Alerts(h, n), NEW i \in 1..Len(h), NEW status \in Statuses,
         NEW h1, h1 = [h EXCEPT ![i].status = status]
  PROVE  /\ Alerts(h1, n) /\ Len(h1) = Len(h) /\ Len(h) \in Nat /\ h1[i].status = status
         /\ \A j \in 1..Len(h) : /\ h1[j].id = h[j].id
                                 /\ j # i => h1[j].status = h[j].status /\ h[j].id # h[i].id
<1>1. h \in Seq(AlertOf(n)) /\ \A j \in 1..Len(h) : h[j] \in AlertOf(n)
  BY DEF Alerts
<1> DEFINE e == [h[i] EXCEPT !.status = status]
<1>2. e \in AlertOf(n) /\ e.id = h[i].id /\ e.status = status
  <2>1. h[i] \in AlertOf(n)
    BY <1>1
  <2>2. QED BY <2>1 DEF AlertOf
<1>3. h1 = [h EXCEPT ![i] = e]
  OBVIOUS
<1> HIDE DEF e
<1>4. /\ h1 \in Seq(AlertOf(n)) /\ Len(h1) = Len(h) /\ Len(h) \in Nat
      /\ h1[i] = e /\ \A j \in 1..Len(h) : j # i => h1[j] = h[j]
  BY <1>1, <1>2, <1>3
<1>5. \A j \in 1..Len(h) : h1[j].id = h[j].id
  BY <1>2, <1>4
<1>6. ASSUME NEW j \in 1..Len(h), j # i PROVE h[j].id # h[i].id
  <2>1. h[j].id \in 1..n /\ h[i].id \in 1..n
    BY AlertIds
  <2>2. j < i \/ i < j
    BY <1>6, <1>4
  <2>3. h[j].id < h[i].id \/ h[i].id < h[j].id
    BY <2>2 DEF Alerts
  <2>4. QED BY <2>1, <2>3
<1>7. Alerts(h1, n)
  BY <1>4, <1>5 DEF Alerts
<1>8. QED BY <1>2, <1>4, <1>5, <1>6, <1>7

LEMMA StatusLeaves ==
  ASSUME NEW h, NEW h1, NEW i \in 1..Len(h), NEW status, NEW f,
         Len(h1) = Len(h), h1[i].status = status,
         \A j \in 1..Len(h) : /\ h1[j].id = h[j].id
                              /\ j # i => h1[j].status = h[j].status
  PROVE  StaysListed(h, h1, i, status, f)
<1> DEFINE leaves == f \notin {"", status} /\ h[i].status = f
<1> SUFFICES ASSUME NEW x \in Matching(h, Walker, f), leaves => x # h[i].id
             PROVE  x \in Matching(h1, Walker, f)
  BY DEF StaysListed
<1>1. PICK j \in 1..Len(h) : /\ x = h[j].id /\ Walker.tenant \in {"*", "default"}
                             /\ f = "" \/ h[j].status = f
  BY DEF Matching
<1>2. f = "" \/ h1[j].status = f
  <2>1. CASE j = i
    BY <1>1, <2>1
  <2>2. CASE j # i
    BY <1>1, <2>2
  <2>3. QED BY <2>1, <2>2
<1>3. QED BY <1>1, <1>2 DEF Matching

\* An alert that a walk must still see although the i-th leaves the list is newer,
\* or has been seen.
NotMissed(h, i, status, f, got, id) ==
  f \notin {"", status} /\ h[i].status = f =>
    id # h[i].id /\ (id > h[i].id \/ id \in got)

ToCome(L, id, got, offset) == id \in L /\ (id \notin got => Newer(L, id) >= offset)

\* What a walk must still see stays on its next pages.
LEMMA DueIsToCome ==
  ASSUME NEW n \in Nat, NEW h, Alerts(h, n), NEW h1, Alerts(h1, n),
         NEW i \in 1..Len(h), NEW status, NEW f, StaysListed(h, h1, i, status, f),
         NEW got, NEW offset \in Nat, NEW id,
         ToCome(Matching(h, Walker, f), id, got, offset),
         NotMissed(h, i, status, f, got, id)
  PROVE  ToCome(Matching(h1, Walker, f), id, got, offset)
<1> DEFINE L == Matching(h, Walker, f)
           M == Matching(h1, Walker, f)
<1>1. id \in M /\ id \in L
  BY DEF StaysListed, NotMissed, ToCome
<1>2. ASSUME id \notin got PROVE Newer(M, id) >= offset
  <2>1. IsFiniteSet(M) /\ M \in SUBSET Nat /\ L \in SUBSET Nat
    BY MatchingIsFinite
  <2>2. PICK a \in Nat, b \in Nat : a = h[i].id /\ b = id
    <3>1. h[i].id \in 1..n
      BY AlertIds
    <3>2. h[i].id \in Nat /\ id \in Nat
      BY <1>1, <2>1, <3>1
    <3>3. QED BY <3>2
  <2>3. ASSUME NEW y \in L, y > id PROVE y \in M
    <3>1. PICK c \in Nat : c = y
      BY <2>1
    <3>2. f \notin {"", status} /\ h[i].status = f => b # a /\ b > a
      BY <1>2, <2>2 DEF NotMissed
    <3>3. b > a => c # a
      BY <2>2, <2>3, <3>1
    <3>4. f \notin {"", status} /\ h[i].status = f => y # h[i].id
      BY <2>2, <3>1, <3>2, <3>3
    <3>5. QED BY <3>4 DEF StaysListed
  <2>4. Newer(L, id) >= offset
    BY <1>2 DEF ToCome
  <2> HIDE DEF L, M
  <2>5. Newer(L, id) \in Nat /\ Newer(M, id) \in Nat /\ Newer(L, id) <= Newer(M, id)
    BY <2>1, <2>3, MoreAreNewer
  <2>6. PICK x \in Nat, z \in Nat : x = Newer(L, id) /\ z = Newer(M, id)
    BY <2>5
  <2>7. x <= z /\ x >= offset
    BY <2>4, <2>5, <2>6
  <2>8. z >= offset
    BY <2>7
  <2>9. QED BY <2>6, <2>8
<1>3. QED BY <1>1, <1>2 DEF ToCome

LEMMA UpdateAtDesk ==
  ASSUME DeskInv, NEW r \in inside, ~IsPage(r), Answer(r)
  PROVE  DeskInv'
<1> DEFINE q == r.request
           found == {i \in DOMAIN history : history[i].id = q.id}
           fine == /\ MayUpdate(r.client) /\ q.status \in Statuses
                   /\ found # {} /\ MayAccess(r.client)
<1>1. inside' = inside \ {r} /\ raised' = raised /\ AnswerUpdate(r)
  BY DEF Answer, IsPage
<1>2. CASE ~fine
  <2>1. UNCHANGED <<history, audit, cut, walk>>
    BY <1>1, <1>2 DEF AnswerUpdate
  <2>2. QED BY <1>1, <2>1, RefusalAtDesk DEF desk
<1>3. CASE fine
  <2> DEFINE i == CHOOSE i \in found : TRUE
             e == [id |-> q.id, role |-> r.client.role, tenant |-> r.client.tenant,
                   old |-> OldStatus(i, q.status), new |-> q.status]
             all == Append(audit, e)
             b == IF Len(all) > MaxAudit THEN Tail(all) ELSE all
             d == IF Len(all) > MaxAudit THEN 1 ELSE 0
             h1 == [history EXCEPT ![i].status = q.status]
  <2>1. /\ history' = h1 /\ audit' = b /\ cut' = (cut \/ Len(all) > MaxAudit)
        /\ walk' = [walk EXCEPT !.must = StillDue(i, q.status)]
    BY <1>1, <1>3 DEF AnswerUpdate, Log
  <2>2. i \in found
    BY <1>3
  <2>3. raised \in Nat /\ Alerts(history, raised) /\ AuditInv /\ WalkInv
    BY DEF DeskInv
  <2>4. i \in 1..Len(history) /\ history[i].id = q.id /\ q.status \in Statuses
    <3>1. DOMAIN history = 1..Len(history)
      BY <2>3 DEF Alerts
    <3>2. QED BY <1>3, <2>2, <3>1
  <2>5. e.id = history[i].id /\ e.old = history[i].status /\ e.new = q.status
    BY <2>4 DEF OldStatus
  <2>6. ByThoseWhoMay(e)
    BY <1>3 DEF MayUpdate, MayAccess, ByThoseWhoMay
  <2>7. IsSequence(b) /\ PushedOut(audit, b, e, d)
    <3>1. PICK S : S = ToSet(audit) \union {e}
      OBVIOUS
    <3>2. audit \in Seq(S) /\ e \in S
      <4>1. audit \in Seq(ToSet(audit))
        BY <2>3 DEF AuditInv, IsSequence
      <4> HIDE DEF e
      <4>2. ToSet(audit) \subseteq S /\ e \in S
        BY <3>1
      <4>3. QED BY <4>1, <4>2
    <3> HIDE DEF e
    <3>3. b \in Seq(S) /\ PushedOut(audit, b, e, d)
      BY <3>2, PushAndDrop, GatewayAssumption
    <3>4. QED BY <3>3, SequenceIs
  <2>8. cut' \in BOOLEAN /\ (cut => cut') /\ (d = 1 => cut')
    <3>1. cut \in BOOLEAN
      BY <2>3 DEF AuditInv
    <3>2. cut' = (cut \/ Len(all) > MaxAudit)
      BY <2>1
    <3> HIDE DEF all
    <3>3. cut' \in BOOLEAN /\ (cut => cut') /\ (Len(all) > MaxAudit => cut')
      BY <3>1, <3>2, Zenon
    <3>4. d = 1 => Len(all) > MaxAudit
      OBVIOUS
    <3>5. QED BY <3>3, <3>4, Zenon
  <2> HIDE DEF i, e, all, b, d, h1
  <2>9. /\ Alerts(h1, raised) /\ Len(h1) = Len(history) /\ Len(history) \in Nat
        /\ h1[i].status = q.status
        /\ \A j \in 1..Len(history) :
             /\ h1[j].id = history[j].id
             /\ j # i => /\ h1[j].status = history[j].status
                         /\ history[j].id # history[i].id
    BY <2>3, <2>4, StatusSet DEF h1
  <2>10. Alerts(history, raised)'
    BY <1>1, <2>1, <2>9 DEF Alerts, AlertOf
  <2>11. AuditInv'
    <3>1. Tells(h1, b, cut')
      <4>1. Tells(history, audit, cut)
        BY <2>3 DEF AuditInv
      <4> HIDE DEF q
      <4>2. Updated(history, h1, i, e)
        BY <2>4, <2>5, <2>6, <2>9 DEF Updated
      <4>3. PICK cut2 : cut2 = cut'
        OBVIOUS
      <4>4. (cut => cut2) /\ (d = 1 => cut2)
        BY <2>8, <4>3
      <4>5. Tells(h1, b, cut2)
        BY <2>7, <4>1, <4>2, <4>4, TellsUpdate
      <4>6. QED BY <4>3, <4>5
    <3>2. ASSUME NEW k \in 1..Len(b) PROVE b[k].id \in 1..raised
      <4>1. e.id \in 1..raised
        BY <2>3, <2>4, <2>5, AlertIds
      <4>2. \A j \in 1..Len(audit) : audit[j].id \in 1..raised
        BY <2>3 DEF AuditInv
      <4>3. b[k] = e \/ \E j \in 1..Len(audit) : b[k] = audit[j]
        <5>1. k + d <= Len(audit) => k + d \in 1..Len(audit)
          BY <2>7 DEF PushedOut
        <5>2. QED BY <2>7, <5>1 DEF PushedOut
      <4>4. QED BY <4>1, <4>2, <4>3
    <3>3. QED BY <1>1, <2>1, <2>7, <2>8, <3>1, <3>2 DEF AuditInv
  <2>12. /\ walk' \in Walks /\ walk'.pc = walk.pc /\ walk'.offset = walk.offset
         /\ walk'.filter = walk.filter /\ walk'.got = walk.got
         /\ walk'.must = StillDue(i, q.status) /\ walk'.must \subseteq walk.must
    <3>1. walk \in Walks
      BY <2>3 DEF WalkInv
    <3>2. PICK must : must = StillDue(i, q.status)
      OBVIOUS
    <3>3. must \in SUBSET (1..raised) /\ must \subseteq walk.must
      BY <3>1, <3>2 DEF Walks, StillDue
    <3>4. walk' = [walk EXCEPT !.must = must]
      BY <2>1, <3>2
    <3>5. QED BY <3>1, <3>2, <3>3, <3>4 DEF Walks
  <2>13. /\ Ids' = Ids
         /\ Listed(Walker, walk.filter) = Matching(history, Walker, walk.filter)
         /\ Listed(Walker, walk.filter)' = Matching(h1, Walker, walk.filter)
    <3>1. DOMAIN history = 1..Len(history) /\ DOMAIN h1 = 1..Len(history)
      <4>1. history \in Seq(AlertOf(raised)) /\ h1 \in Seq(AlertOf(raised))
        BY <2>3, <2>9 DEF Alerts
      <4>2. DOMAIN history = 1..Len(history) /\ DOMAIN h1 = 1..Len(h1)
        BY <4>1
      <4>3. QED BY <2>9, <4>2, Zenon
    <3>2. \A j \in 1..Len(history) : h1[j].id = history[j].id
      BY <2>9
    <3>3. Len(h1) = Len(history)
      BY <2>9
    <3>4. QED BY <2>1, <2>12, <3>1, <3>2, <3>3 DEF Ids, Listed, Matching
  <2>14. WalkInv'
    <3>1. (walk \in Walks)'
      BY <1>1, <2>12 DEF Walks
    <3>2. ASSUME StillToCome PROVE StillToCome'
      <4> DEFINE L == Matching(history, Walker, walk.filter)
                 M == Matching(h1, Walker, walk.filter)
      <4> SUFFICES ASSUME NEW id \in walk'.must, id \in Ids
                   PROVE  ToCome(M, id, walk.got, walk.offset)
        BY <2>12, <2>13 DEF StillToCome, ToCome
      <4>1. ToCome(L, id, walk.got, walk.offset)
        BY <2>12, <2>13, <3>2 DEF StillToCome, ToCome
      <4>2. NotMissed(history, i, q.status, walk.filter, walk.got, id)
        BY <2>12 DEF StillDue, NotMissed
      <4>3. StaysListed(history, h1, i, q.status, walk.filter)
        BY <2>4, <2>9, StatusLeaves
      <4>4. walk.offset \in Nat
        BY <2>3 DEF WalkInv, Walks
      <4>5. PICK f, status, got, offset : /\ f = walk.filter /\ status = q.status
                                          /\ got = walk.got /\ offset = walk.offset
        OBVIOUS
      <4> HIDE DEF q
      <4>6. QED BY <2>3, <2>4, <2>9, <4>1, <4>2, <4>3, <4>4, <4>5, DueIsToCome
    <3>3. QED BY <2>3, <2>12, <2>13, <3>1, <3>2 DEF WalkInv
  <2>15. PageInv'
    <3>1. ASSUME NEW p \in inside', IsPage(p) PROVE Asked(p)'
      <4>1. Asked(p)
        BY <1>1, <3>1 DEF DeskInv, PageInv
      <4>2. QED BY <2>12, <4>1 DEF Asked
    <3>2. \A p, s \in inside' : IsPage(p) /\ IsPage(s) => p = s
      BY <1>1 DEF DeskInv, PageInv
    <3>3. QED BY <3>1, <3>2 DEF PageInv, IsPage
  <2>16. QED BY <1>1, <2>3, <2>10, <2>11, <2>14, <2>15 DEF DeskInv
<1>4. QED BY <1>2, <1>3

LEMMA DeskStep == DeskInv /\ [Next]_vars => DeskInv'
<1> SUFFICES ASSUME DeskInv, [Next]_vars PROVE DeskInv'
  OBVIOUS
<1>1. ASSUME UNCHANGED <<inside, desk>> PROVE DeskInv'
  BY <1>1, DeskRests
<1>2. CASE Tick
  BY <1>1, <1>2 DEF Tick
<1>3. CASE DeskNext
  <2>1. ASSUME NEW filter \in {"", "NEW"}, AskPage(filter) PROVE DeskInv'
    BY <2>1, AskPageAtDesk
  <2>2. ASSUME NEW c, NEW id, NEW status, AskUpdate(c, id, status) PROVE DeskInv'
    BY <2>2, AskUpdateAtDesk
  <2>3. CASE Raise
    BY <2>3, RaiseAtDesk
  <2>4. ASSUME NEW r \in inside, Answer(r) PROVE DeskInv'
    BY <2>4, PageAtDesk, UpdateAtDesk
  <2>5. QED BY <1>3, <2>1, <2>2, <2>3, <2>4 DEF DeskNext
<1>4. CASE ShieldNext
  <2>1. ASSUME NEW ip, Contain(ip) \/ BlockIp(ip) \/ UnblockIp(ip) \/ Arrive(ip)
        PROVE  UNCHANGED <<inside, desk>>
    BY <2>1 DEF Contain, BlockIp, UnblockIp, Arrive
  <2>2. ASSUME NEW answer, Fetch(answer) PROVE UNCHANGED <<inside, desk>>
    BY <2>2 DEF Fetch
  <2>3. ASSUME NEW raises, NEW full, Finish(raises, full) PROVE UNCHANGED <<inside, desk>>
    BY <2>3 DEF Finish
  <2>4. Add => UNCHANGED <<inside, desk>>
    BY DEF Add
  <2>5. QED BY <1>1, <1>4, <2>1, <2>2, <2>3, <2>4 DEF ShieldNext
<1>5. CASE UNCHANGED vars
  BY <1>1, <1>5 DEF vars
<1>6. QED BY <1>2, <1>3, <1>4, <1>5 DEF Next

\* The audit log tells the status of every alert, and goes from one to the
\* next without a gap, for every client, alert and update, and whatever falls
\* out of the two queues (alerts.py:91-139, audit.py).
THEOREM AuditAlwaysTells == Spec => []AuditTellsStatus
<1>1. DeskInv => AuditTellsStatus
  <2> SUFFICES ASSUME DeskInv PROVE AuditTellsStatus
    OBVIOUS
  <2>1. DOMAIN history = 1..Len(history)
    BY DEF DeskInv, Alerts
  <2>2. AuditInv
    BY DEF DeskInv
  <2>3. DOMAIN audit = 1..Len(audit) /\ Len(audit) \in Nat
    BY <2>2 DEF AuditInv, IsSequence
  <2>4. Tells(history, audit, cut)
    BY <2>2 DEF AuditInv
  <2>5. QED BY <2>1, <2>3, <2>4, TellsIsAudit
<1>2. QED BY InitiallyAtDesk, DeskStep, <1>1, PTL DEF Spec

\* A walk that ends has shown every alert that was there at its first page and
\* still is, for every page size, history and number of alerts recorded and
\* updated meanwhile (alerts.py:38-60).
THEOREM WalksNeverMiss == Spec => []WalksMissNothing
<1>1. DeskInv => WalksMissNothing
  BY DEF DeskInv, WalkInv, WalksMissNothing
<1>2. QED BY InitiallyAtDesk, DeskStep, <1>1, PTL DEF Spec
-----------------------------------------------------------------------------
(* The shield *)

Counts == [running : Nat, arrived : Nat, refused : Nat, reported : Nat, unheard : Nat]

\* What the thread still has to add is contained.
ShieldInv ==
  /\ sync \in [pc : {"sleep", "add"}, list : SUBSET contained]
  /\ app \in Counts
  /\ BlockedIsContained

LEMMA InitiallyShielded == Init => ShieldInv
BY DEF Init, ShieldInv, Counts, BlockedIsContained

LEMMA ShieldRests ==
  ASSUME ShieldInv, UNCHANGED <<contained, blocked, sync, hand, app>>
  PROVE  ShieldInv'
BY DEF ShieldInv, Counts, BlockedIsContained

LEMMA ContainShields ==
  ASSUME ShieldInv, NEW ip, Contain(ip)
  PROVE  ShieldInv'
<1>1. /\ contained \subseteq contained' /\ blocked' = blocked /\ sync' = sync
      /\ hand' = hand /\ app' = app
  BY DEF Contain
<1>2. QED BY <1>1 DEF ShieldInv, Counts, BlockedIsContained

LEMMA FetchShields ==
  ASSUME ShieldInv, NEW answer, Fetch(answer)
  PROVE  ShieldInv'
<1>1. /\ contained' = contained /\ blocked' = blocked /\ hand' = hand /\ app' = app
      /\ \/ sync' = [pc |-> "add", list |-> contained]
         \/ sync' = [pc |-> "sleep", list |-> {}]
  BY DEF Fetch, AfterError
<1>2. sync' \in [pc : {"sleep", "add"}, list : SUBSET contained]
  BY <1>1
<1>3. QED BY <1>1, <1>2 DEF ShieldInv, Counts, BlockedIsContained

LEMMA AddShields ==
  ASSUME ShieldInv, Add
  PROVE  ShieldInv'
<1>1. contained' = contained /\ hand' = hand /\ app' = app
  BY DEF Add
<1>2. sync \in [pc : {"sleep", "add"}, list : SUBSET contained]
  BY DEF ShieldInv
<1>3. CASE sync.list = {}
  <2>1. sync' = [sync EXCEPT !.pc = "sleep"] /\ blocked' = blocked
    BY <1>3 DEF Add
  <2>2. sync' \in [pc : {"sleep", "add"}, list : SUBSET contained]
    BY <1>2, <2>1
  <2>3. QED BY <1>1, <2>1, <2>2 DEF ShieldInv, Counts, BlockedIsContained
<1>4. CASE sync.list # {}
  <2>1. PICK ip \in sync.list : /\ blocked' = blocked \union {ip}
                                /\ sync' = [sync EXCEPT !.list = sync.list \ {ip}]
    BY <1>4 DEF Add
  <2>2. ip \in contained
    BY <1>2
  <2>3. sync' \in [pc : {"sleep", "add"}, list : SUBSET contained]
    <3>1. PICK rest \in SUBSET contained : rest = sync.list \ {ip}
      BY <1>2
    <3>2. QED BY <1>2, <2>1, <3>1
  <2>4. QED BY <1>1, <2>1, <2>2, <2>3 DEF ShieldInv, Counts, BlockedIsContained
<1>5. QED BY <1>3, <1>4

LEMMA ByHandShields ==
  ASSUME ShieldInv, NEW ip, BlockIp(ip) \/ UnblockIp(ip)
  PROVE  ShieldInv'
<1>1. /\ contained' = contained /\ sync' = sync /\ app' = app
      /\ \/ blocked' = blocked \union {ip} /\ hand' = hand \union {ip}
         \/ blocked' = blocked \ {ip} /\ hand' = hand \ {ip}
  BY DEF BlockIp, UnblockIp
<1>2. blocked' \subseteq contained \union hand'
  BY <1>1 DEF ShieldInv, BlockedIsContained
<1>3. QED BY <1>1, <1>2 DEF ShieldInv, Counts, BlockedIsContained

LEMMA RequestsAreCounted ==
  ASSUME ShieldInv, (\E ip : Arrive(ip)) \/ \E raises, full : Finish(raises, full)
  PROVE  ShieldInv'
<1>1. contained' = contained /\ sync' = sync /\ blocked' = blocked /\ hand' = hand
  BY DEF Arrive, Finish
<1>2. app \in Counts /\ app.arrived = app.refused + app.reported + app.unheard + app.running
  BY DEF ShieldInv, BlockedIsContained
<1>3. PICK n \in Nat, o \in Nat, p \in Nat, q \in Nat, m \in Nat :
        /\ app.running = n /\ app.arrived = o /\ app.refused = p
        /\ app.reported = q /\ app.unheard = m
  BY <1>2 DEF Counts
<1>4. /\ app' \in Counts
      /\ app'.arrived = app'.refused + app'.reported + app'.unheard + app'.running
  <2>1. \/ app' = [app EXCEPT !.arrived = o + 1, !.refused = p + 1]
        \/ app' = [app EXCEPT !.arrived = o + 1, !.running = n + 1]
        \/ n > 0 /\ app' = [app EXCEPT !.running = n - 1, !.reported = q + 1,
                                       !.unheard = m]
        \/ n > 0 /\ app' = [app EXCEPT !.running = n - 1, !.reported = q,
                                       !.unheard = m + 1]
    BY <1>3 DEF Arrive, Finish, Reports
  <2>2. o = p + q + m + n
    BY <1>2, <1>3
  <2>3. \E n1, o1, p1, q1, m1 \in Nat :
          /\ app' = [running |-> n1, arrived |-> o1, refused |-> p1, reported |-> q1,
                     unheard |-> m1]
          /\ o1 = p1 + q1 + m1 + n1
    <3>1. app = [running |-> n, arrived |-> o, refused |-> p, reported |-> q, unheard |-> m]
      BY <1>2, <1>3 DEF Counts
    <3>2. CASE app' = [app EXCEPT !.arrived = o + 1, !.refused = p + 1]
      <4>1. app' = [running |-> n, arrived |-> o + 1, refused |-> p + 1, reported |-> q,
                    unheard |-> m]
        BY <3>1, <3>2
      <4>2. o + 1 = p + 1 + q + m + n /\ o + 1 \in Nat /\ p + 1 \in Nat
        BY <2>2
      <4>3. QED BY <4>1, <4>2
    <3>3. CASE app' = [app EXCEPT !.arrived = o + 1, !.running = n + 1]
      <4>1. app' = [running |-> n + 1, arrived |-> o + 1, refused |-> p, reported |-> q,
                    unheard |-> m]
        BY <3>1, <3>3
      <4>2. o + 1 = p + q + m + (n + 1) /\ o + 1 \in Nat /\ n + 1 \in Nat
        BY <2>2
      <4>3. QED BY <4>1, <4>2
    <3>4. CASE /\ n > 0
               /\ app' = [app EXCEPT !.running = n - 1, !.reported = q + 1, !.unheard = m]
      <4>1. app' = [running |-> n - 1, arrived |-> o, refused |-> p, reported |-> q + 1,
                    unheard |-> m]
        BY <3>1, <3>4
      <4>2. o = p + (q + 1) + m + (n - 1) /\ q + 1 \in Nat /\ n - 1 \in Nat
        BY <2>2, <3>4
      <4>3. QED BY <4>1, <4>2
    <3>5. CASE /\ n > 0
               /\ app' = [app EXCEPT !.running = n - 1, !.reported = q, !.unheard = m + 1]
      <4>1. app' = [running |-> n - 1, arrived |-> o, refused |-> p, reported |-> q,
                    unheard |-> m + 1]
        BY <3>1, <3>5
      <4>2. o = p + q + (m + 1) + (n - 1) /\ m + 1 \in Nat /\ n - 1 \in Nat
        BY <2>2, <3>5
      <4>3. QED BY <4>1, <4>2
    <3>6. QED BY <2>1, <3>2, <3>3, <3>4, <3>5
  <2>4. QED BY <2>3 DEF Counts
<1>5. QED BY <1>1, <1>4 DEF ShieldInv, BlockedIsContained

LEMMA ShieldStep == ShieldInv /\ [Next]_vars => ShieldInv'
<1> SUFFICES ASSUME ShieldInv, [Next]_vars PROVE ShieldInv'
  OBVIOUS
<1>1. ASSUME UNCHANGED shield PROVE ShieldInv'
  BY <1>1, ShieldRests DEF shield
<1>2. CASE Tick
  BY <1>1, <1>2 DEF Tick
<1>3. CASE DeskNext
  <2>1. DeskNext => UNCHANGED shield
    BY DEF DeskNext, AskPage, AskUpdate, Ask, Raise, Answer
  <2>2. QED BY <1>1, <1>3, <2>1
<1>4. CASE ShieldNext
  BY <1>4, ContainShields, FetchShields, AddShields, ByHandShields, RequestsAreCounted
     DEF ShieldNext
<1>5. CASE UNCHANGED vars
  BY <1>1, <1>5 DEF vars
<1>6. QED BY <1>2, <1>3, <1>4, <1>5 DEF Next

\* The shield blocks only what is contained or was blocked by hand, and every
\* request to the application is accounted for: the safety part of
\* ShieldIsJust (saas_middleware.py:77-104, 145-205).
THEOREM AlwaysBlockedIsContained == Spec => []BlockedIsContained
<1>1. ShieldInv => BlockedIsContained
  BY DEF ShieldInv
<1>2. QED BY InitiallyShielded, ShieldStep, <1>1, PTL DEF Spec
-----------------------------------------------------------------------------
(* The ledger: powers of two and sums *)

\* A product divided by one of its factors is the other.
LEMMA ProductDivided ==
  ASSUME NEW a \in Nat, NEW d \in Nat \ {0}
  PROVE  (a * d) \div d = a
<1>1. PICK p \in Nat : p = a * d
  OBVIOUS
<1>2. PICK q \in Nat : q = p \div d
  BY <1>1
<1>3. q * d <= p /\ p < q * d + d
  BY <1>2
<1>4. ~(q < a)
  <2>1. q < a => (q + 1) * d <= a * d
    OBVIOUS
  <2>2. (q + 1) * d = q * d + d
    OBVIOUS
  <2>3. QED BY <1>1, <1>3, <2>1, <2>2
<1>5. ~(a < q)
  <2>1. a < q => (a + 1) * d <= q * d
    OBVIOUS
  <2>2. (a + 1) * d = a * d + d
    OBVIOUS
  <2>3. QED BY <1>1, <1>3, <2>1, <2>2
<1>6. QED BY <1>1, <1>2, <1>4, <1>5

\* The powers of two are what their definition says.
LEMMA TwoToIs ==
  /\ Ledger!TwoTo \in [0..MaxTime -> Nat \ {0}] /\ Ledger!TwoTo[0] = 1
  /\ \A k \in 1..MaxTime : Ledger!TwoTo[k] = 2 * Ledger!TwoTo[k - 1]
<1> DEFINE n == MaxTime
           A == Nat \ {0}
           step == [p \in A \X (1..n) |-> 2 * p[1]]
           Is(f) == f = [k \in 0..n |-> IF k = 0 THEN 1 ELSE 2 * f[k - 1]]
           two == CHOOSE f : Is(f)
<1>1. n \in Nat /\ 1 \in A
  BY LedgerAssumption
<1>2. \A a \in A : \A i \in 1..n : step[<<a, i>>] = 2 * a /\ 2 * a \in A
  OBVIOUS
<1>3. PICK f \in [0..n -> A] : Looped(f, n, 1, step)
  <2>1. \A a \in A : \A i \in 1..n : step[<<a, i>>] \in A
    BY <1>2
  <2> HIDE DEF n, A, step
  <2>2. QED BY <1>1, <2>1, LoopExists, Zenon
<1>4. \A k \in 0..n : f[k] = IF k = 0 THEN 1 ELSE 2 * f[k - 1]
  <2>1. \A k \in 0..n : k # 0 => k \in 1..n /\ k - 1 \in 0..n
    BY <1>1
  <2>2. \A k \in 0..n : k # 0 => f[k - 1] \in A
    BY <1>3, <2>1
  <2> HIDE DEF n, A, step
  <2>3. QED BY <1>2, <1>3, <2>1, <2>2 DEF Looped
<1>5. Is(f)
  <2>1. f = [k \in 0..n |-> f[k]]
    BY <1>3
  <2>2. QED BY <1>4, <2>1
<1>6. Is(two)
  <2> HIDE DEF Is
  <2>1. QED BY <1>5, Zenon
<1>7. Ledger!TwoTo = two
  BY Zenon DEF Ledger!TwoTo
<1>8. \A k \in 0..n : two[k] = IF k = 0 THEN 1 ELSE 2 * two[k - 1]
  <2> HIDE DEF n, two
  <2>1. QED BY <1>6
<1>9. \A k \in 0..n : two[k] = f[k]
  <2> HIDE DEF two
  <2> DEFINE N == {k \in Nat : k <= n => two[k] = f[k]}
  <2>1. 0 \in N
    <3>1. 0 \in 0..n
      BY <1>1
    <3>2. QED BY <1>4, <1>8, <3>1
  <2>2. ASSUME NEW k \in Nat, k \in N PROVE k + 1 \in N
    <3> SUFFICES ASSUME k + 1 <= n PROVE two[k + 1] = f[k + 1]
      OBVIOUS
    <3>1. k + 1 \in 0..n /\ k + 1 # 0 /\ k + 1 - 1 = k /\ k <= n
      BY <1>1
    <3>2. two[k] = f[k]
      BY <2>2, <3>1
    <3> HIDE DEF n
    <3>3. PICK i \in 0..n : i = k + 1 /\ i # 0 /\ i - 1 = k
      BY <3>1
    <3>4. two[i] = 2 * two[i - 1] /\ f[i] = 2 * f[i - 1]
      BY <1>4, <1>8, <3>3
    <3>5. QED BY <3>2, <3>3, <3>4
  <2>3. Nat \subseteq N
    <3> HIDE DEF N
    <3>1. QED BY <2>1, <2>2, Induction
  <2>4. \A k \in 0..n : k \in Nat /\ k <= n
    BY <1>1
  <2>5. QED BY <2>3, <2>4
<1>10. two = f
  <2>1. two = [k \in 0..n |-> two[k]]
    <3> HIDE DEF two
    <3>1. QED BY <1>6
  <2> HIDE DEF two
  <2>2. QED BY <1>3, <1>9, <2>1
<1> HIDE DEF two
<1>11. QED
  <2>1. 0 \in 0..n /\ \A k \in 1..n : k \in 0..n /\ k # 0
    BY <1>1
  <2>2. QED BY <1>3, <1>4, <1>7, <1>10, <2>1

\* The powers are multiplied by adding.
LEMMA PowersAdd ==
  ASSUME NEW j \in Nat, NEW k \in Nat, j + k <= MaxTime
  PROVE  Ledger!TwoTo[j + k] = Ledger!TwoTo[j] * Ledger!TwoTo[k]
<1> DEFINE f == Ledger!TwoTo
           N == {i \in Nat : j + i <= MaxTime => f[j + i] = f[j] * f[i]}
<1>1. /\ f \in [0..MaxTime -> Nat \ {0}] /\ f[0] = 1
      /\ \A i \in 1..MaxTime : f[i] = 2 * f[i - 1]
  BY TwoToIs
<1>2. MaxTime \in Nat
  BY LedgerAssumption
<1> HIDE DEF f
<1>3. 0 \in N
  <2> SUFFICES ASSUME j <= MaxTime PROVE f[j + 0] = f[j] * f[0]
    OBVIOUS
  <2>1. PICK a \in Nat : a = f[j]
    BY <1>1, <1>2
  <2>2. j + 0 = j /\ f[0] = 1 /\ a * 1 = a
    BY <1>1
  <2>3. QED BY <2>1, <2>2
<1>4. ASSUME NEW i \in Nat, i \in N PROVE i + 1 \in N
  <2> SUFFICES ASSUME j + (i + 1) <= MaxTime PROVE f[j + (i + 1)] = f[j] * f[i + 1]
    OBVIOUS
  <2>1. /\ j + (i + 1) \in 1..MaxTime /\ j + (i + 1) - 1 = j + i /\ j + i <= MaxTime
        /\ i + 1 \in 1..MaxTime /\ i + 1 - 1 = i /\ j \in 0..MaxTime /\ i \in 0..MaxTime
    BY <1>2
  <2>2. f[j + i] = f[j] * f[i]
    BY <1>4, <2>1
  <2>3. f[j + (i + 1)] = 2 * f[j + i] /\ f[i + 1] = 2 * f[i]
    <3>1. PICK p \in 1..MaxTime, q \in 1..MaxTime :
            p = j + (i + 1) /\ p - 1 = j + i /\ q = i + 1 /\ q - 1 = i
      BY <2>1
    <3>2. f[p] = 2 * f[p - 1] /\ f[q] = 2 * f[q - 1]
      BY <1>1
    <3>3. QED BY <3>1, <3>2
  <2>4. PICK a \in Nat, b \in Nat : a = f[j] /\ b = f[i]
    BY <1>1, <2>1
  <2>5. 2 * (a * b) = a * (2 * b)
    OBVIOUS
  <2>6. QED BY <2>2, <2>3, <2>4, <2>5
<1>5. Nat \subseteq N
  <2> HIDE DEF N
  <2>1. QED BY <1>3, <1>4, Induction
<1>6. k \in N
  <2> HIDE DEF N
  <2>1. QED BY <1>5
<1>7. QED BY <1>6 DEF f

Multiples(T, f, g, c) == \A x \in T : f[x] = g[x] * c

\* A sum of multiples is the multiple of the sum.
LEMMA SumOfMultiples ==
  ASSUME NEW T, IsFiniteSet(T), NEW f \in [T -> Nat], NEW g \in [T -> Nat],
         NEW c \in Nat, Multiples(T, f, g, c)
  PROVE  SumFunction(f) = SumFunction(g) * c /\ SumFunction(g) \in Nat
<1> DEFINE F(s) == [x \in s |-> f[x]]
           G(s) == [x \in s |-> g[x]]
           S == {s \in SUBSET T : SumFunction(F(s)) = SumFunction(G(s)) * c}
<1>1. \A s \in SUBSET T : IsFiniteSet(s) /\ F(s) \in [s -> Nat] /\ G(s) \in [s -> Nat]
  BY FS_Subset
<1>2. {} \in S
  <2>1. F({}) \in [{} -> Nat] /\ G({}) \in [{} -> Nat] /\ IsFiniteSet({})
    BY <1>1
  <2>2. SumFunction(F({})) = 0 /\ SumFunction(G({})) = 0
    <3> HIDE DEF F, G
    <3>1. QED BY <2>1, SumOfZeros
  <2>3. QED BY <2>2
<1>3. ASSUME NEW s \in SUBSET T, NEW x \in T, s \in S, x \notin s
      PROVE  s \union {x} \in S
  <2> DEFINE t == s \union {x}
  <2>1. t \in SUBSET T
    OBVIOUS
  <2>2. /\ \A y \in s : F(t)[y] = F(s)[y] /\ G(t)[y] = G(s)[y]
        /\ F(t)[x] = f[x] /\ G(t)[x] = g[x]
    OBVIOUS
  <2>3. /\ IsFiniteSet(s) /\ F(s) \in [s -> Nat] /\ G(s) \in [s -> Nat]
        /\ F(t) \in [t -> Nat] /\ G(t) \in [t -> Nat]
    BY <1>1, <2>1
  <2>4. SumFunction(F(s)) = SumFunction(G(s)) * c
    BY <1>3
  <2> HIDE DEF F, G
  <2>12. /\ \A y \in s : F(s \union {x})[y] = F(s)[y]
         /\ F(s \union {x}) \in [s \union {x} -> Nat] /\ x \notin s
    BY <1>3, <2>2, <2>3
  <2>13. /\ \A y \in s : G(s \union {x})[y] = G(s)[y]
         /\ G(s \union {x}) \in [s \union {x} -> Nat]
    BY <2>2, <2>3
  <2>5. SumFunction(F(t)) = SumFunction(F(s)) + F(t)[x]
    <3>1. PICK p, q : p = F(s) /\ q = F(s \union {x})
      OBVIOUS
    <3>2. /\ IsFiniteSet(s) /\ p \in [s -> Nat] /\ x \notin s
          /\ q \in [s \union {x} -> Nat] /\ \A y \in s : q[y] = p[y]
      BY <2>3, <2>12, <3>1
    <3>3. SumFunction(q) = SumFunction(p) + q[x]
      BY <3>2, SumOfOneMore
    <3>4. QED BY <3>1, <3>3
  <2>6. SumFunction(G(t)) = SumFunction(G(s)) + G(t)[x]
    <3>1. PICK p, q : p = G(s) /\ q = G(s \union {x})
      OBVIOUS
    <3>2. /\ IsFiniteSet(s) /\ p \in [s -> Nat] /\ x \notin s
          /\ q \in [s \union {x} -> Nat] /\ \A y \in s : q[y] = p[y]
      BY <2>3, <2>12, <2>13, <3>1
    <3>3. SumFunction(q) = SumFunction(p) + q[x]
      BY <3>2, SumOfOneMore
    <3>4. QED BY <3>1, <3>3
  <2>7. PICK a \in Nat, b \in Nat : a = SumFunction(G(s)) /\ b = g[x]
    BY <2>3, SumIsNatural
  <2>8. (a + b) * c = a * c + b * c
    OBVIOUS
  <2>9. f[x] = b * c
    BY <2>7 DEF Multiples
  <2>10. SumFunction(F(t)) = SumFunction(G(t)) * c
    BY <2>2, <2>4, <2>5, <2>6, <2>7, <2>8, <2>9
  <2>11. QED BY <2>1, <2>10
<1>4. SUBSET T \subseteq S
  <2> HIDE DEF S
  <2>1. QED BY <1>2, <1>3, InductionOnSets
<1>5. T \in S
  <2> HIDE DEF S
  <2>1. QED BY <1>4
<1>6. F(T) = f /\ G(T) = g
  OBVIOUS
<1>7. SumFunction(f) = SumFunction(g) * c
  <2>1. SumFunction(F(T)) = SumFunction(G(T)) * c
    BY <1>5
  <2> HIDE DEF F, G
  <2>2. QED BY <1>6, <2>1
<1>8. QED BY <1>7, SumIsNatural

-----------------------------------------------------------------------------
(* The ledger: what its operations keep *)

Entity == [ip : Ips, mac : Macs \union {None}, host : Hosts \union {None},
           past : Seq(Ips), raw : Nat, updated : 0..MaxTime, alerts : SUBSET Nat]

Ledgers == [entities : Seq(Entity), ip : [Ips -> Nat], mac : [Macs -> Nat],
            host : [Hosts -> Nat]]

InRange(l) == /\ \A i \in Ips : l.ip[i] <= Len(l.entities)
              /\ \A m \in Macs : l.mac[m] <= Len(l.entities)
              /\ \A h \in Hosts : l.host[h] <= Len(l.entities)

\* A MAC leads to one entity, and an entity has one MAC.
Identified(l) ==
  \A m \in Macs, n \in 1..Len(l.entities) : l.mac[m] = n <=> l.entities[n].mac = m

\* A host name leads to an entity whose MAC is known: so a lease whose MAC is
\* new cannot give its MAC to an entity found by the name.
Named(l) == \A h \in Hosts : l.host[h] # 0 => l.entities[l.host[h]].mac # None

Sound(l) == l \in Ledgers /\ InRange(l) /\ Identified(l) /\ Named(l)

\* The scores of k are those of l, and new entities have none.
SameScores(l, k) ==
  /\ Len(l.entities) <= Len(k.entities)
  /\ \A n \in 1..Len(l.entities) : /\ k.entities[n].raw = l.entities[n].raw
                                   /\ k.entities[n].updated = l.entities[n].updated
  /\ \A n \in 1..Len(k.entities) :
       n > Len(l.entities) => k.entities[n].raw = 0 /\ k.entities[n].updated = now

\* The index leads the IP to an entity that has left it.
Stale(l, i) == l.ip[i] # 0 /\ l.entities[l.ip[i]].ip # i

\* What a lease of ip to the machine mac, which got the entity id found by what
\* by says, leaves alone and brings about in the indexes.
Leased(l, k, ip, mac, id, by) ==
  /\ \A m \in Macs : m # mac => k.mac[m] = l.mac[m]
  /\ l.mac[mac] # 0 => k.mac[mac] = l.mac[mac]
  /\ \A i \in Ips : i # ip => k.ip[i] = l.ip[i] \/ (l.ip[i] = id /\ k.ip[i] = 0)
  /\ by \in {"mac", "new"} => k.mac[mac] = id
  /\ by # "host" => k.ip[ip] = id
  /\ \A i \in Ips : Stale(k, i) => \/ by = "host" /\ k.ip[i] = id
                                   \/ \E j \in Ips : Stale(l, j) /\ k.ip[i] = l.ip[j]

Moments == now \in 0..MaxTime

LEMMA EntityReplaced ==
  ASSUME NEW s \in Seq(Entity), NEW n \in 1..Len(s), NEW e \in Entity,
         NEW t, t = [s EXCEPT ![n] = e]
  PROVE  /\ t \in Seq(Entity) /\ Len(t) = Len(s) /\ t[n] = e
         /\ \A i \in 1..Len(s) : i # n => t[i] = s[i]
<1> HIDE DEF Entity
<1>1. QED OBVIOUS

\* record_ip changes the addresses of an entity.
LEMMA RecordIpIs ==
  ASSUME NEW e \in Entity, NEW ip \in Ips
  PROVE  /\ Ledger!RecordIp(e, ip) \in Entity
         /\ Ledger!RecordIp(e, ip).mac = e.mac /\ Ledger!RecordIp(e, ip).host = e.host
         /\ Ledger!RecordIp(e, ip).raw = e.raw /\ Ledger!RecordIp(e, ip).ip = ip
         /\ Ledger!RecordIp(e, ip).updated = e.updated
<1>1. CASE ip = e.ip
  BY <1>1 DEF Ledger!RecordIp
<1>2. CASE ip # e.ip
  <2> DEFINE p == Append(e.past, e.ip)
  <2>1. p \in Seq(Ips)
    BY DEF Entity
  <2>2. Ledger!RecordIp(e, ip) = [e EXCEPT !.ip = ip, !.past = p]
    BY <1>2 DEF Ledger!RecordIp
  <2> HIDE DEF p
  <2>3. [e EXCEPT !.ip = ip, !.past = p] \in Entity
    BY <2>1 DEF Entity
  <2>4. QED BY <2>2, <2>3 DEF Entity
<1>3. QED BY <1>1, <1>2

LEMMA NewEntityIs ==
  ASSUME Moments, NEW ip \in Ips, NEW mac \in Macs \union {None},
         NEW host \in Hosts \union {None}
  PROVE  LET e == Ledger!NewEntity(ip, mac, host)
         IN  e \in Entity /\ e.mac = mac /\ e.ip = ip /\ e.raw = 0 /\ e.updated = now
<1>1. <<>> \in Seq(Ips)
  OBVIOUS
<1>2. QED BY <1>1 DEF Ledger!NewEntity, Entity, Moments

\* get_or_create finds no entity.
Makes(l, ip, mac, host, r) ==
  /\ Sound(l) /\ mac \in Macs \union {None} /\ host \in Hosts \union {None}
  /\ mac # None => l.mac[mac] = 0
  /\ mac = None => host = None
  /\ Ledger!Find(l, ip, mac, host) = 0
  /\ r = Ledger!GetOrCreate(l, ip, mac, host)

Made(l, ip, mac, r) ==
  /\ Sound(r.ledger) /\ SameScores(l, r.ledger)
  /\ r.id \in 1..Len(r.ledger.entities)
  /\ r.id = Len(l.entities) + 1 /\ r.ledger.ip[ip] = r.id
  /\ \A i \in Ips : i # ip => r.ledger.ip[i] = l.ip[i]
  /\ \A m \in Macs : m # mac => r.ledger.mac[m] = l.mac[m]
  /\ mac # None => r.ledger.mac[mac] = r.id
  /\ r.ledger.entities[r.id].ip = ip
  /\ \A n \in 1..Len(l.entities) : r.ledger.entities[n] = l.entities[n]

\* A position of the longer list that is not its last is one of the shorter.
LEMMA BeforeLast ==
  ASSUME NEW m \in Nat, NEW n \in 1..(m + 1), n # m + 1
  PROVE  n \in 1..m
  OBVIOUS

\* get_or_create makes an entity when it finds none.
LEMMA CreateIs ==
  ASSUME Moments, NEW l, NEW ip \in Ips, NEW mac, NEW host, NEW r,
         Makes(l, ip, mac, host, r)
  PROVE  Made(l, ip, mac, r)
<1>0. /\ Sound(l) /\ mac \in Macs \union {None} /\ host \in Hosts \union {None}
      /\ mac # None => l.mac[mac] = 0
      /\ mac = None => host = None
      /\ Ledger!Find(l, ip, mac, host) = 0
      /\ r = Ledger!GetOrCreate(l, ip, mac, host)
  BY DEF Makes
<1> USE <1>0
<1> DEFINE new == Len(l.entities) + 1
           e == Ledger!NewEntity(ip, mac, host)
           es == Append(l.entities, e)
           k == r.ledger
<1>1. /\ l \in Ledgers /\ l.entities \in Seq(Entity) /\ Len(l.entities) \in Nat
      /\ l.ip \in [Ips -> Nat] /\ l.mac \in [Macs -> Nat] /\ l.host \in [Hosts -> Nat]
  <2>1. l \in Ledgers
    BY DEF Sound
  <2> HIDE DEF Entity
  <2>2. QED BY <2>1 DEF Ledgers
<1>2. e \in Entity /\ e.mac = mac /\ e.ip = ip /\ e.raw = 0 /\ e.updated = now
  BY NewEntityIs
<1>3. /\ r.id = new
      /\ k = [entities |-> es, ip |-> [l.ip EXCEPT ![ip] = new],
              mac |-> Ledger!SetIndex(l.mac, mac, new),
              host |-> Ledger!SetIndex(l.host, host, new)]
  BY DEF Ledger!GetOrCreate
<1> HIDE DEF e
<1>4. /\ es \in Seq(Entity) /\ Len(es) = new /\ es[new] = e
      /\ \A n \in 1..Len(l.entities) : es[n] = l.entities[n]
  BY <1>1, <1>2
<1> HIDE DEF es
<1>5. /\ k.entities = es /\ k.ip = [l.ip EXCEPT ![ip] = new]
      /\ k.mac = Ledger!SetIndex(l.mac, mac, new)
      /\ k.host = Ledger!SetIndex(l.host, host, new)
  BY <1>3
<1>6. /\ k.ip \in [Ips -> Nat] /\ k.ip[ip] = new
      /\ \A i \in Ips : i # ip => k.ip[i] = l.ip[i]
  BY <1>1, <1>5
<1>7. /\ k.mac \in [Macs -> Nat] /\ (mac # None => k.mac[mac] = new)
      /\ \A m \in Macs : m # mac => k.mac[m] = l.mac[m]
  BY <1>1, <1>5, LedgerAssumption DEF Ledger!SetIndex
<1>8. /\ k.host \in [Hosts -> Nat] /\ (host # None => k.host[host] = new)
      /\ \A h \in Hosts : h # host => k.host[h] = l.host[h]
  BY <1>1, <1>5, LedgerAssumption DEF Ledger!SetIndex
<1>9. k \in Ledgers
  <2> HIDE DEF Entity, k
  <2>1. /\ es \in Seq(Entity) /\ [l.ip EXCEPT ![ip] = new] \in [Ips -> Nat]
        /\ Ledger!SetIndex(l.mac, mac, new) \in [Macs -> Nat]
        /\ Ledger!SetIndex(l.host, host, new) \in [Hosts -> Nat]
    BY <1>4, <1>5, <1>6, <1>7, <1>8
  <2>2. QED BY <1>3, <2>1, Zenon DEF Ledgers
<1> HIDE DEF k
<1>10. InRange(k)
  <2>1. InRange(l)
    BY DEF Sound
  <2>2. ASSUME NEW i \in Ips PROVE k.ip[i] <= new
    <3>1. l.ip[i] \in Nat /\ l.ip[i] <= Len(l.entities)
      BY <1>1, <2>1 DEF InRange
    <3>2. i = ip \/ k.ip[i] = l.ip[i]
      BY <1>6
    <3>3. QED BY <1>1, <1>6, <3>1, <3>2
  <2>3. \A m \in Macs : k.mac[m] <= new
    BY <1>1, <1>7, <2>1, LedgerAssumption DEF InRange
  <2>4. ASSUME NEW h \in Hosts PROVE k.host[h] <= new
    <3>1. l.host[h] \in Nat /\ l.host[h] <= Len(l.entities)
      BY <1>1, <2>1 DEF InRange
    <3>2. h # None
      BY LedgerAssumption
    <3>3. QED BY <1>1, <1>8, <3>1, <3>2
  <2>5. QED BY <1>4, <1>5, <2>2, <2>3, <2>4 DEF InRange
<1>11. Identified(k)
  <2> SUFFICES ASSUME NEW m \in Macs, NEW n \in 1..new
               PROVE  k.mac[m] = n <=> es[n].mac = m
    BY <1>4, <1>5 DEF Identified
  <2>1. Identified(l) /\ InRange(l)
    BY DEF Sound
  <2>2. CASE n = new
    <3>1. es[n].mac = mac
      BY <1>2, <1>4, <2>2
    <3>2. CASE m = mac
      BY <1>7, <2>2, <3>1, <3>2, LedgerAssumption
    <3>3. CASE m # mac
      <4>1. k.mac[m] <= Len(l.entities)
        BY <1>7, <2>1, <3>3 DEF InRange
      <4>2. QED BY <1>1, <1>7, <2>2, <3>1, <3>3, <4>1
    <3>4. QED BY <3>2, <3>3
  <2>3. CASE n # new
    <3>1. n \in 1..Len(l.entities)
      BY <1>1, <2>3, BeforeLast, Zenon
    <3>2. es[n].mac = m <=> l.mac[m] = n
      BY <1>4, <2>1, <3>1 DEF Identified
    <3>3. CASE m = mac
      <4>1. l.mac[m] = 0 /\ k.mac[m] = new
        BY <1>7, <3>3, LedgerAssumption
      <4>2. QED BY <2>3, <3>1, <3>2, <4>1
    <3>4. CASE m # mac
      BY <1>7, <3>2, <3>4
    <3>5. QED BY <3>3, <3>4
  <2>4. QED BY <2>2, <2>3
<1>12. Named(k)
  <2> SUFFICES ASSUME NEW h \in Hosts, k.host[h] # 0
               PROVE  es[k.host[h]].mac # None
    BY <1>5 DEF Named
  <2>1. CASE h = host
    BY <1>2, <1>4, <1>8, <2>1, LedgerAssumption
  <2>2. CASE h # host
    <3>1. l.host[h] # 0 /\ k.host[h] = l.host[h]
      BY <1>8, <2>2
    <3>2. Named(l) /\ InRange(l)
      BY DEF Sound
    <3>3. l.host[h] \in 1..Len(l.entities)
      BY <1>1, <3>1, <3>2 DEF InRange
    <3>4. QED BY <1>4, <3>1, <3>2, <3>3 DEF Named
  <2>3. QED BY <2>1, <2>2
<1>13. SameScores(l, k)
  <2>1. /\ Len(l.entities) <= Len(es)
        /\ \A n \in 1..Len(l.entities) : es[n] = l.entities[n]
        /\ \A n \in 1..Len(es) : n > Len(l.entities) => n = new
    BY <1>1, <1>4
  <2>2. QED BY <1>2, <1>4, <1>5, <2>1 DEF SameScores
<1>14. Sound(k)
  BY <1>9, <1>10, <1>11, <1>12 DEF Sound
<1>15. r.id \in 1..Len(k.entities)
  BY <1>1, <1>3, <1>4, <1>5
<1>16. /\ k.entities[r.id].ip = ip
       /\ \A n \in 1..Len(l.entities) : k.entities[n] = l.entities[n]
  BY <1>2, <1>3, <1>4, <1>5
<1>17. QED BY <1>3, <1>6, <1>7, <1>13, <1>14, <1>15, <1>16 DEF k, Made

\* An entry that is stale after an entity is made was so before.
Adds(l, k, ip, id) ==
  /\ InRange(l) /\ l.ip \in [Ips -> Nat]
  /\ k.ip[ip] = id /\ \A i \in Ips : i # ip => k.ip[i] = l.ip[i]
  /\ k.entities[id].ip = ip
  /\ \A n \in 1..Len(l.entities) : k.entities[n] = l.entities[n]

LEMMA NewIsCurrent ==
  ASSUME NEW l, NEW k, NEW ip \in Ips, NEW id, Adds(l, k, ip, id)
  PROVE  \A i \in Ips : Stale(k, i) => Stale(l, i) /\ k.ip[i] = l.ip[i]
<1> USE DEF Adds
<1> SUFFICES ASSUME NEW i \in Ips, Stale(k, i) PROVE Stale(l, i) /\ k.ip[i] = l.ip[i]
  OBVIOUS
<1>1. i # ip
  BY DEF Stale
<1>2. k.ip[i] = l.ip[i] /\ l.ip[i] # 0
  BY <1>1 DEF Stale
<1>3. l.ip[i] \in 1..Len(l.entities)
  <2>1. l.ip[i] \in Nat /\ l.ip[i] <= Len(l.entities)
    BY DEF InRange
  <2>2. QED BY <1>2, <2>1
<1>4. QED BY <1>2, <1>3 DEF Stale

\* The parts of a sound ledger.
LEMMA SoundParts ==
  ASSUME NEW l, Sound(l)
  PROVE  /\ l \in Ledgers /\ l.entities \in Seq(Entity) /\ Len(l.entities) \in Nat
         /\ l.ip \in [Ips -> Nat] /\ l.mac \in [Macs -> Nat] /\ l.host \in [Hosts -> Nat]
         /\ l = [entities |-> l.entities, ip |-> l.ip, mac |-> l.mac, host |-> l.host]
         /\ InRange(l) /\ Identified(l) /\ Named(l)
<1>1. l \in Ledgers /\ InRange(l) /\ Identified(l) /\ Named(l)
  BY DEF Sound
<1> HIDE DEF Entity
<1>2. QED BY <1>1 DEF Ledgers

\* Entity n of l becomes e in k; learns says whether it learns its MAC.
Changed(l, n, mac, host, e, learns, k) ==
  /\ n \in 1..Len(l.entities) /\ host \in Hosts \union {None} /\ e \in Entity
  /\ learns \in BOOLEAN
  /\ learns => mac \in Macs /\ l.entities[n].mac = None /\ l.mac[mac] = 0
  /\ e.mac = IF learns THEN mac ELSE l.entities[n].mac
  /\ k = [entities |-> [l.entities EXCEPT ![n] = e], ip |-> k.ip,
          mac |-> k.mac, host |-> k.host]
  /\ k.ip \in [Ips -> Nat] /\ (\A i \in Ips : k.ip[i] <= Len(l.entities))
  /\ k.mac = IF learns THEN [l.mac EXCEPT ![mac] = n] ELSE l.mac
  /\ \/ k.host = l.host
     \/ k.host = Ledger!SetIndex(l.host, host, n) /\ e.mac # None

\* What the operations do to an entity that exists: it keeps its MAC, or learns
\* one that led nowhere.
LEMMA ChangeIs ==
  ASSUME NEW l, Sound(l), NEW n, NEW mac, NEW host, NEW e, NEW learns, NEW k,
         Changed(l, n, mac, host, e, learns, k)
  PROVE  /\ Sound(k) /\ Len(k.entities) = Len(l.entities)
         /\ k.entities[n] = e
         /\ \A i \in 1..Len(l.entities) : i # n => k.entities[i] = l.entities[i]
         /\ \A m \in Macs : m # mac => k.mac[m] = l.mac[m]
         /\ e.raw = l.entities[n].raw /\ e.updated = l.entities[n].updated
              => SameScores(l, k)
<1> USE DEF Changed
<1> DEFINE s == l.entities
           t == k.entities
<1>1. /\ s \in Seq(Entity) /\ Len(s) \in Nat /\ l.ip \in [Ips -> Nat]
      /\ l.mac \in [Macs -> Nat] /\ l.host \in [Hosts -> Nat]
      /\ InRange(l) /\ Identified(l) /\ Named(l)
  BY SoundParts
<1>2. /\ t \in Seq(Entity) /\ Len(t) = Len(s) /\ t[n] = e
      /\ \A i \in 1..Len(s) : i # n => t[i] = s[i]
  <2>1. s \in Seq(Entity) /\ n \in 1..Len(s) /\ e \in Entity /\ t = [s EXCEPT ![n] = e]
    BY <1>1
  <2> HIDE DEF Entity, s, t, Changed
  <2>2. QED BY <2>1, EntityReplaced
<1> HIDE DEF s, t
<1>3. /\ k.mac \in [Macs -> Nat]
      /\ \A m \in Macs : k.mac[m] = IF learns /\ m = mac THEN n ELSE l.mac[m]
  BY <1>1 DEF s
<1>4. k.host \in [Hosts -> Nat] /\ \A h \in Hosts : k.host[h] \in {n, l.host[h]}
  <2>1. n \in Nat /\ (k.host = l.host \/ k.host = Ledger!SetIndex(l.host, host, n))
    BY <1>1
  <2> HIDE DEF Changed
  <2>2. QED BY <1>1, <2>1 DEF Ledger!SetIndex
<1>5. k \in Ledgers
  <2>1. t \in Seq(Entity)
    BY <1>2
  <2> HIDE DEF Entity
  <2>2. QED BY <1>3, <1>4, <2>1, Zenon DEF Ledgers, t
<1>6. InRange(k)
  <2>1. ASSUME NEW m \in Macs PROVE k.mac[m] <= Len(t)
    <3>1. l.mac[m] <= Len(s) /\ n <= Len(s)
      BY <1>1 DEF InRange, s
    <3>2. QED BY <1>2, <1>3, <3>1
  <2>2. ASSUME NEW h \in Hosts PROVE k.host[h] <= Len(t)
    <3>1. l.host[h] <= Len(s) /\ n <= Len(s)
      BY <1>1 DEF InRange, s
    <3>2. QED BY <1>2, <1>4, <3>1
  <2>3. \A i \in Ips : k.ip[i] <= Len(t)
    BY <1>2 DEF s
  <2>4. QED BY <2>1, <2>2, <2>3 DEF InRange, t
<1>7. Identified(k)
  <2> SUFFICES ASSUME NEW m \in Macs, NEW i \in 1..Len(s)
               PROVE  k.mac[m] = i <=> t[i].mac = m
    BY <1>2 DEF Identified, t
  <2>1. \A x \in Macs, j \in 1..Len(s) : l.mac[x] = j <=> s[j].mac = x
    BY <1>1 DEF Identified, s
  <2>2. m # None /\ (learns => mac # None)
    BY LedgerAssumption
  <2>3. CASE ~learns
    <3>1. t[i].mac = s[i].mac
      BY <1>2, <2>3 DEF s
    <3>2. QED BY <1>3, <2>1, <2>3, <3>1
  <2>4. CASE learns
    <3>1. s[n].mac = None /\ l.mac[mac] = 0 /\ t[n].mac = mac
      BY <1>2, <2>4 DEF s
    <3>2. CASE i = n /\ m = mac
      BY <1>3, <2>4, <3>1, <3>2
    <3>3. CASE i = n /\ m # mac
      <4>1. k.mac[m] = l.mac[m] /\ l.mac[m] # n
        BY <1>3, <2>1, <2>2, <3>1, <3>3
      <4>2. QED BY <3>1, <3>3, <4>1
    <3>4. CASE i # n /\ m = mac
      <4>1. k.mac[m] = n /\ t[i] = s[i] /\ s[i].mac # mac
        <5>1. k.mac[m] = n /\ t[i] = s[i]
          BY <1>2, <1>3, <2>4, <3>4
        <5>2. l.mac[mac] # i
          BY <3>1
        <5>3. QED BY <2>1, <3>4, <5>1, <5>2
      <4>2. QED BY <3>4, <4>1
    <3>5. CASE i # n /\ m # mac
      <4>1. k.mac[m] = l.mac[m] /\ t[i] = s[i]
        BY <1>2, <1>3, <3>5
      <4>2. QED BY <2>1, <4>1
    <3>6. QED BY <3>2, <3>3, <3>4, <3>5
  <2>5. QED BY <2>3, <2>4
<1>8. Named(k)
  <2> SUFFICES ASSUME NEW h \in Hosts, k.host[h] # 0
               PROVE  t[k.host[h]].mac # None
    BY DEF Named, t
  <2>1. learns => mac # None
    BY LedgerAssumption
  <2>2. CASE k.host = l.host
    <3>1. l.host[h] \in 1..Len(s) /\ s[l.host[h]].mac # None
      BY <1>1, <2>2 DEF InRange, Named, s
    <3>2. CASE l.host[h] # n
      BY <1>2, <2>2, <3>1, <3>2
    <3>3. CASE l.host[h] = n
      BY <1>2, <2>1, <2>2, <3>1, <3>3 DEF s
    <3>4. QED BY <3>2, <3>3
  <2>3. CASE k.host # l.host
    <3>1. e.mac # None
      BY <2>3
    <3>2. CASE k.host[h] = n
      BY <1>2, <3>1, <3>2
    <3>3. CASE k.host[h] # n
      <4>1. k.host[h] = l.host[h]
        BY <1>4, <3>3
      <4>2. l.host[h] \in 1..Len(s) /\ s[l.host[h]].mac # None
        BY <1>1, <4>1 DEF InRange, Named, s
      <4>3. QED BY <1>2, <3>3, <4>1, <4>2
    <3>4. QED BY <3>2, <3>3
  <2>4. QED BY <2>2, <2>3
<1>9. ASSUME e.raw = l.entities[n].raw, e.updated = l.entities[n].updated
      PROVE  SameScores(l, k)
  <2>1. ASSUME NEW i \in 1..Len(s)
        PROVE  t[i].raw = s[i].raw /\ t[i].updated = s[i].updated
    BY <1>2, <1>9 DEF s
  <2>2. \A i \in 1..Len(t) : ~(i > Len(s))
    BY <1>1, <1>2
  <2>3. Len(s) <= Len(t)
    BY <1>1, <1>2
  <2>4. QED BY <2>1, <2>2, <2>3 DEF SameScores, s, t
<1>10. Sound(k)
  BY <1>5, <1>6, <1>7, <1>8 DEF Sound
<1>11. QED BY <1>2, <1>3, <1>9, <1>10 DEF s, t

\* get_or_create for a lease whose MAC leads nowhere.
LEMMA GetOrCreateIs ==
  ASSUME Moments, NEW l, Sound(l), NEW ip \in Ips, NEW mac \in Macs,
         NEW host \in Hosts \union {None}, l.mac[mac] = 0,
         NEW r, r = Ledger!GetOrCreate(l, ip, mac, host),
         NEW by, by = Ledger!FoundBy(l, ip, mac, host)
  PROVE  /\ Sound(r.ledger) /\ SameScores(l, r.ledger)
         /\ r.id \in 1..Len(r.ledger.entities)
         /\ Leased(l, r.ledger, ip, mac, r.id, by)
<1> DEFINE n == Ledger!Find(l, ip, mac, host)
           k == r.ledger
<1>1. /\ l.entities \in Seq(Entity) /\ Len(l.entities) \in Nat
      /\ l.ip \in [Ips -> Nat] /\ l.mac \in [Macs -> Nat] /\ l.host \in [Hosts -> Nat]
      /\ l = [entities |-> l.entities, ip |-> l.ip, mac |-> l.mac, host |-> l.host]
      /\ InRange(l) /\ Identified(l) /\ Named(l)
  BY SoundParts
<1>2. mac # None
  BY LedgerAssumption
<1>3. CASE n = 0
  <2>1. /\ Sound(k) /\ SameScores(l, k)
        /\ r.id \in 1..Len(k.entities) /\ k.ip[ip] = r.id
        /\ \A i \in Ips : i # ip => k.ip[i] = l.ip[i]
        /\ \A m \in Macs : m # mac => k.mac[m] = l.mac[m]
        /\ k.mac[mac] = r.id /\ k.entities[r.id].ip = ip
        /\ \A m \in 1..Len(l.entities) : k.entities[m] = l.entities[m]
    <3>1. Makes(l, ip, mac, host, r)
      BY <1>2, <1>3 DEF Makes
    <3>2. Made(l, ip, mac, r)
      BY <3>1, CreateIs
    <3>3. QED BY <1>2, <3>2 DEF Made
  <2>2. \A i \in Ips : Stale(k, i) => Stale(l, i) /\ k.ip[i] = l.ip[i]
    <3> HIDE DEF k
    <3>1. Adds(l, k, ip, r.id)
      BY <1>1, <2>1 DEF Adds
    <3>2. QED BY <3>1, NewIsCurrent
  <2>3. Leased(l, k, ip, mac, r.id, by)
    BY <2>1, <2>2 DEF Leased
  <2>4. QED BY <2>1, <2>3
<1>4. CASE n # 0
  <2> DEFINE e == l.entities[n]
             e1 == Ledger!RecordIp(e, ip)
             learns == Ledger!LearnsMac(e, mac)
             named == host # None /\ e.host = None
             macOf == IF learns THEN mac ELSE e.mac
             hostOf == IF named THEN host ELSE e.host
             e2 == [e1 EXCEPT !.mac = IF learns THEN mac ELSE @,
                              !.host = IF named THEN host ELSE @]
  <2>1. /\ n \in 1..Len(l.entities)
        /\ by = "host" \/ (by = "ip" /\ n = l.ip[ip])
    <3>1. by = IF host # None /\ l.host[host] # 0 THEN "host" ELSE "ip"
      BY <1>4 DEF Ledger!FoundBy
    <3>2. n = IF host # None /\ l.host[host] # 0 THEN l.host[host] ELSE l.ip[ip]
      BY DEF Ledger!Find
    <3>3. n \in 1..Len(l.entities)
      BY <1>1, <1>4, <3>2 DEF InRange
    <3>4. QED BY <3>1, <3>2, <3>3
  <2>2. /\ r.id = n
        /\ k = [l EXCEPT
               !.entities[n] = e2,
               !.mac = IF learns THEN Ledger!SetIndex(@, mac, n) ELSE @,
               !.host = IF named THEN Ledger!SetIndex(@, host, n) ELSE @]
    BY <1>4 DEF Ledger!GetOrCreate
  <2>3. e \in Entity
    <3> HIDE DEF Entity, n
    <3>1. QED BY <1>1, <2>1
  <2>4. /\ e1 \in Entity /\ e1.mac = e.mac /\ e1.host = e.host
        /\ e1.raw = e.raw /\ e1.updated = e.updated /\ e1.ip = ip
    <3> HIDE DEF e
    <3>1. QED BY <2>3, RecordIpIs
  <2>5. /\ e2 \in Entity /\ e2.mac = macOf
        /\ e2.raw = e.raw /\ e2.updated = e.updated /\ e2.ip = ip
    <3>1. macOf \in Macs \union {None} /\ hostOf \in Hosts \union {None}
      <4> HIDE DEF e, learns, named
      <4>1. e.mac \in Macs \union {None} /\ e.host \in Hosts \union {None}
        BY <2>3 DEF Entity
      <4>2. named => host \in Hosts
        BY DEF named
      <4>3. QED BY <4>1, <4>2
    <3>2. e2 = [e1 EXCEPT !.mac = macOf, !.host = hostOf]
      <4> HIDE DEF e, e1, learns, named
      <4>1. QED BY <2>4
    <3> HIDE DEF e1, e2, macOf, hostOf, e
    <3>3. QED BY <2>4, <3>1, <3>2 DEF Entity
  <2> HIDE DEF e2, e1, n
  <2>6. /\ k.entities = [l.entities EXCEPT ![n] = e2] /\ k.ip = l.ip
        /\ k.mac = (IF learns THEN Ledger!SetIndex(l.mac, mac, n) ELSE l.mac)
        /\ k.host = (IF named THEN Ledger!SetIndex(l.host, host, n) ELSE l.host)
        /\ k = [entities |-> k.entities, ip |-> k.ip, mac |-> k.mac, host |-> k.host]
    <3> HIDE DEF learns, named
    <3>1. QED BY <1>1, <2>2
  <2>7. learns \in BOOLEAN /\ (learns <=> e.mac = None)
    BY <1>2 DEF Ledger!LearnsMac
  <2>8. k.mac = IF learns THEN [l.mac EXCEPT ![mac] = n] ELSE l.mac
    BY <1>2, <2>6 DEF Ledger!SetIndex
  <2>9. k.host = l.host \/ (k.host = Ledger!SetIndex(l.host, host, n) /\ e2.mac # None)
    <3>1. e2.mac # None
      BY <1>2, <2>5, <2>7
    <3>2. QED BY <2>6, <3>1
  <2>10. k.ip \in [Ips -> Nat] /\ \A i \in Ips : k.ip[i] <= Len(l.entities)
    BY <1>1, <2>6 DEF InRange
  <2>11. /\ Sound(k) /\ SameScores(l, k) /\ Len(k.entities) = Len(l.entities)
         /\ \A m \in Macs : m # mac => k.mac[m] = l.mac[m]
         /\ k.entities[n] = e2
         /\ \A i \in 1..Len(l.entities) : i # n => k.entities[i] = l.entities[i]
    <3>1. PICK b \in BOOLEAN : b <=> learns
      BY <2>7
    <3>2. /\ b => l.entities[n].mac = None /\ l.mac[mac] = 0
          /\ e2.mac = IF b THEN mac ELSE l.entities[n].mac
          /\ k.mac = IF b THEN [l.mac EXCEPT ![mac] = n] ELSE l.mac
          /\ e2.raw = l.entities[n].raw /\ e2.updated = l.entities[n].updated
      BY <2>5, <2>7, <2>8, <3>1
    <3>3. Changed(l, n, mac, host, e2, b, k)
      <4> HIDE DEF Entity, k, learns, e
      <4>1. k = [entities |-> [l.entities EXCEPT ![n] = e2], ip |-> k.ip,
                mac |-> k.mac, host |-> k.host]
        BY <2>6
      <4>2. QED BY <2>1, <2>5, <2>9, <2>10, <3>2, <4>1 DEF Changed
    <3> HIDE DEF k
    <3>4. QED BY <3>2, <3>3, ChangeIs
  <2>12. ASSUME NEW i \in Ips, Stale(k, i)
         PROVE  \/ by = "host" /\ k.ip[i] = n
                \/ \E j \in Ips : Stale(l, j) /\ k.ip[i] = l.ip[j]
    <3> HIDE DEF k
    <3>1. k.ip[i] = l.ip[i] /\ l.ip[i] # 0 /\ l.ip[i] \in 1..Len(l.entities)
      <4>1. l.ip[i] \in Nat /\ l.ip[i] <= Len(l.entities)
        BY <1>1 DEF InRange
      <4>2. QED BY <2>6, <2>12, <4>1 DEF Stale
    <3>2. CASE l.ip[i] # n
      BY <2>11, <2>12, <3>1, <3>2 DEF Stale
    <3>3. CASE l.ip[i] = n
      <4>1. i # ip
        BY <2>5, <2>11, <2>12, <3>1, <3>3 DEF Stale
      <4>2. CASE by = "host"
        BY <3>1, <3>3, <4>2
      <4>3. CASE by # "host"
        <5>1. n = l.ip[ip] /\ k.ip[i] = l.ip[ip] /\ k.ip[i] = l.ip[i]
          BY <2>1, <3>1, <3>3, <4>3
        <5>2. Stale(l, ip) \/ Stale(l, i)
          BY <3>1, <3>3, <4>1, <5>1 DEF Stale
        <5>3. QED BY <5>1, <5>2
      <4>4. QED BY <4>2, <4>3
    <3>4. QED BY <3>2, <3>3
  <2>13. Leased(l, k, ip, mac, r.id, by)
    BY <2>1, <2>2, <2>6, <2>11, <2>12 DEF Leased
  <2>14. QED BY <2>1, <2>2, <2>11, <2>13
<1>5. QED BY <1>3, <1>4

\* reassign_ip_lease.
LEMMA ReassignIs ==
  ASSUME Moments, NEW l, Sound(l), NEW ip \in Ips, NEW mac \in Macs,
         NEW host \in Hosts \union {None},
         NEW r, r = Ledger!Reassign(l, mac, ip, host),
         NEW by, by = Ledger!FoundBy(l, ip, mac, host)
  PROVE  /\ Sound(r.ledger) /\ SameScores(l, r.ledger)
         /\ r.id \in 1..Len(r.ledger.entities)
         /\ Leased(l, r.ledger, ip, mac, r.id, by)
<1> DEFINE n == l.mac[mac]
           k == r.ledger
<1>1. /\ l.entities \in Seq(Entity) /\ Len(l.entities) \in Nat
      /\ l.ip \in [Ips -> Nat] /\ l.mac \in [Macs -> Nat] /\ l.host \in [Hosts -> Nat]
      /\ l = [entities |-> l.entities, ip |-> l.ip, mac |-> l.mac, host |-> l.host]
      /\ InRange(l) /\ Identified(l) /\ Named(l)
  BY SoundParts
<1>2. mac # None
  BY LedgerAssumption
<1>3. CASE n = 0
  <2>1. r = Ledger!GetOrCreate(l, ip, mac, host)
    BY <1>3 DEF Ledger!Reassign
  <2>2. QED BY <1>3, <2>1, GetOrCreateIs
<1>4. CASE n # 0
  <2> DEFINE e == l.entities[n]
             e1 == Ledger!RecordIp(e, ip)
             hostOf == IF host = None THEN e.host ELSE host
             e2 == [e1 EXCEPT !.host = IF host = None THEN @ ELSE host]
             old == Ledger!Releases(l, n)
             ips == [i \in Ips |-> IF i = ip THEN n ELSE IF i = old THEN 0 ELSE l.ip[i]]
  <2>1. n \in 1..Len(l.entities) /\ e.mac = mac
    BY <1>1, <1>4 DEF InRange, Identified
  <2>2. /\ r.id = n /\ k.entities = [l.entities EXCEPT ![n] = e2] /\ k.ip = ips
        /\ k.mac = l.mac /\ k.host = Ledger!SetIndex(l.host, host, n)
        /\ k = [entities |-> k.entities, ip |-> k.ip, mac |-> k.mac, host |-> k.host]
    <3>1. r = [id |-> n, ledger |-> [l EXCEPT !.entities[n] = e2, !.ip = ips,
                                             !.host = Ledger!SetIndex(@, host, n)]]
      BY <1>4 DEF Ledger!Reassign
    <3> HIDE DEF n, e2, ips
    <3>2. r.id = n /\ k = [l EXCEPT !.entities[n] = e2, !.ip = ips,
                                    !.host = Ledger!SetIndex(@, host, n)]
      BY <3>1
    <3> HIDE DEF k
    <3>3. QED BY <1>1, <3>2
  <2>3. e \in Entity
    <3> HIDE DEF Entity, n
    <3>1. QED BY <1>1, <2>1
  <2>4. /\ e1 \in Entity /\ e1.mac = e.mac /\ e1.host = e.host
        /\ e1.raw = e.raw /\ e1.updated = e.updated /\ e1.ip = ip
    <3> HIDE DEF e
    <3>1. QED BY <2>3, RecordIpIs
  <2>5. /\ e2 \in Entity /\ e2.mac = mac /\ e2.raw = e.raw /\ e2.updated = e.updated
        /\ e2.ip = ip
    <3>1. hostOf \in Hosts \union {None}
      BY <2>3 DEF Entity
    <3>2. e2 = [e1 EXCEPT !.host = hostOf]
      <4> HIDE DEF e, e1
      <4>1. QED BY <2>4
    <3> HIDE DEF e1, e2, hostOf, e
    <3>3. QED BY <2>1, <2>4, <3>1, <3>2 DEF Entity
  <2>6. \A i \in Ips : i = old => l.ip[i] = n
    BY LedgerAssumption DEF Ledger!Releases
  <2> HIDE DEF e2, e1, n, old
  <2>7. /\ ips \in [Ips -> Nat] /\ \A i \in Ips : ips[i] <= Len(l.entities)
        /\ ips[ip] = n
        /\ \A i \in Ips : i # ip => ips[i] = l.ip[i] \/ (l.ip[i] = n /\ ips[i] = 0)
        /\ \A i \in Ips : i # ip /\ i = old => ips[i] = 0
    BY <1>1, <2>1, <2>6 DEF InRange
  <2>8. by = "mac" /\ (l.ip[e.ip] = n => old = e.ip)
    BY <1>4 DEF Ledger!FoundBy, Ledger!Releases, n, old
  <2> HIDE DEF ips
  <2>9. /\ Sound(k) /\ SameScores(l, k) /\ Len(k.entities) = Len(l.entities)
        /\ \A m \in Macs : m # mac => k.mac[m] = l.mac[m]
        /\ k.entities[n] = e2
        /\ \A i \in 1..Len(l.entities) : i # n => k.entities[i] = l.entities[i]
    <3>1. PICK b \in BOOLEAN : b <=> FALSE
      OBVIOUS
    <3>2. /\ b => l.entities[n].mac = None /\ l.mac[mac] = 0
          /\ e2.mac = IF b THEN mac ELSE l.entities[n].mac
          /\ k.mac = IF b THEN [l.mac EXCEPT ![mac] = n] ELSE l.mac
          /\ e2.raw = l.entities[n].raw /\ e2.updated = l.entities[n].updated
      BY <2>1, <2>5, <2>2, <3>1
    <3>3. k.host = l.host \/ (k.host = Ledger!SetIndex(l.host, host, n) /\ e2.mac # None)
      BY <1>2, <2>5, <2>2
    <3>4. k.ip \in [Ips -> Nat] /\ \A i \in Ips : k.ip[i] <= Len(l.entities)
      BY <2>7, <2>2
    <3>5. Changed(l, n, mac, host, e2, b, k)
      <4> HIDE DEF Entity, k, e
      <4>1. k = [entities |-> [l.entities EXCEPT ![n] = e2], ip |-> k.ip,
                mac |-> k.mac, host |-> k.host]
        BY <2>2
      <4>2. QED BY <2>1, <2>5, <3>2, <3>3, <3>4, <4>1 DEF Changed
    <3> HIDE DEF k
    <3>6. QED BY <3>2, <3>5, ChangeIs
  <2>10. ASSUME NEW i \in Ips, Stale(k, i)
         PROVE  Stale(l, i) /\ k.ip[i] = l.ip[i]
    <3> HIDE DEF k
    <3>1. i # ip
      BY <2>2, <2>5, <2>7, <2>9, <2>10 DEF Stale
    <3>2. k.ip[i] = l.ip[i] /\ l.ip[i] # 0 /\ i # old
      BY <2>2, <2>7, <2>10, <3>1 DEF Stale
    <3>3. CASE l.ip[i] = n
      <4>1. e.ip # i
        BY <2>8, <3>2, <3>3
      <4>2. QED BY <3>2, <3>3, <4>1 DEF Stale
    <3>4. CASE l.ip[i] # n
      <4>1. l.ip[i] \in 1..Len(l.entities)
        <5>1. l.ip[i] \in Nat /\ l.ip[i] <= Len(l.entities)
          BY <1>1 DEF InRange
        <5>2. QED BY <3>2, <5>1
      <4>2. QED BY <2>9, <2>10, <3>2, <3>4, <4>1 DEF Stale
    <3>5. QED BY <3>3, <3>4
  <2>11. Leased(l, k, ip, mac, r.id, by)
    <3>1. k.mac[mac] = n /\ l.mac[mac] = n
      BY <2>2 DEF n
    <3>2. QED BY <2>2, <2>7, <2>8, <2>9, <2>10, <3>1 DEF Leased
  <2>12. QED BY <2>1, <2>2, <2>9, <2>11
<1>5. QED BY <1>3, <1>4

-----------------------------------------------------------------------------
(* The ledger: scores *)

Scorings == [ip : Ips, id : Nat, weight : Nat, time : Nat]
Logs == Seq(Scorings)

\* The alerts of entity n in a log of alerts, what alert b is worth at time t,
\* and what all of them are worth.
Own(log, n) == {b \in DOMAIN log : log[b].id = n}
Worth(log, b, t) == log[b].weight * Ledger!TwoTo[MaxTime - (t - log[b].time)]
ScoreOf(log, n, t) == SumFunction([b \in Own(log, n) |-> Worth(log, b, t)])

NotAfter(log, n, t) == \A b \in Own(log, n) : log[b].time <= t

LEMMA OwnIsFinite ==
  ASSUME NEW log \in Logs, NEW n
  PROVE  /\ IsFiniteSet(Own(log, n))
         /\ \A b \in Own(log, n) : /\ b \in 1..Len(log) /\ log[b].id = n
                                   /\ log[b].weight \in Nat /\ log[b].time \in Nat
<1>1. Own(log, n) \subseteq 1..Len(log) /\ Len(log) \in Nat
  BY DEF Own, Logs
<1>2. IsFiniteSet(1..Len(log))
  BY <1>1, FS_Interval
<1>3. IsFiniteSet(Own(log, n))
  BY <1>1, <1>2, FS_Subset
<1>4. ASSUME NEW b \in Own(log, n)
      PROVE  /\ b \in 1..Len(log) /\ log[b].id = n
             /\ log[b].weight \in Nat /\ log[b].time \in Nat
  <2>1. b \in 1..Len(log) /\ log[b].id = n
    BY <1>1 DEF Own
  <2>2. log[b] \in Scorings
    BY <2>1 DEF Logs
  <2>3. QED BY <2>1, <2>2 DEF Scorings
<1>5. QED BY <1>3, <1>4

LEMMA WorthIsNatural ==
  ASSUME NEW log \in Logs, NEW n, NEW t \in 0..MaxTime, NotAfter(log, n, t),
         NEW b \in Own(log, n)
  PROVE  Worth(log, b, t) \in Nat
<1>1. PICK w \in Nat, s \in Nat : w = log[b].weight /\ s = log[b].time
  BY OwnIsFinite
<1>2. s <= t
  BY <1>1 DEF NotAfter
<1>3. MaxTime - (t - s) \in 0..MaxTime
  BY <1>2, LedgerAssumption
<1>4. Ledger!TwoTo[MaxTime - (t - s)] \in Nat
  BY <1>3, TwoToIs
<1>5. QED BY <1>1, <1>4 DEF Worth

\* A score decayed to a later moment is what the alerts are worth then.
LEMMA ScoreDecays ==
  ASSUME NEW log \in Logs, NEW n, NEW u \in 0..MaxTime, NEW t \in 0..MaxTime,
         u <= t, NotAfter(log, n, u)
  PROVE  /\ ScoreOf(log, n, t) \in Nat
         /\ ScoreOf(log, n, u) \div Ledger!TwoTo[t - u] = ScoreOf(log, n, t)
<1> DEFINE own == Own(log, n)
           f == [b \in own |-> Worth(log, b, u)]
           g == [b \in own |-> Worth(log, b, t)]
           two == Ledger!TwoTo
<1>1. IsFiniteSet(own)
  BY OwnIsFinite
<1>2. NotAfter(log, n, t)
  BY OwnIsFinite DEF NotAfter
<1>3. f \in [own -> Nat] /\ g \in [own -> Nat]
  BY <1>2, WorthIsNatural
<1>4. t - u \in Nat /\ t - u \in 0..MaxTime /\ two[t - u] \in Nat \ {0}
  <2>1. t - u \in Nat /\ t - u \in 0..MaxTime
    BY LedgerAssumption
  <2>2. QED BY <2>1, TwoToIs
<1>5. Multiples(own, f, g, two[t - u])
  <2> SUFFICES ASSUME NEW b \in own
               PROVE  Worth(log, b, u) = Worth(log, b, t) * two[t - u]
    BY DEF Multiples
  <2>1. PICK w \in Nat, s \in Nat : w = log[b].weight /\ s = log[b].time
    BY OwnIsFinite
  <2>2. s <= u /\ MaxTime \in Nat
    BY <2>1, LedgerAssumption DEF NotAfter
  <2>3. PICK j \in Nat, k \in Nat : /\ j = MaxTime - (t - s) /\ k = t - u
                                    /\ j + k = MaxTime - (u - s) /\ j + k <= MaxTime
    BY <2>2
  <2>4. two[j + k] = two[j] * two[k]
    BY <2>3, PowersAdd
  <2>5. PICK x \in Nat, y \in Nat : x = two[j] /\ y = two[k]
    <3>1. j \in 0..MaxTime /\ k \in 0..MaxTime
      BY <2>2, <2>3
    <3>2. QED BY <3>1, TwoToIs
  <2>6. w * (x * y) = (w * x) * y
    OBVIOUS
  <2>7. Worth(log, b, u) = w * two[j + k] /\ Worth(log, b, t) = w * two[j]
    BY <2>1, <2>3 DEF Worth
  <2>8. two[t - u] = y
    BY <2>3, <2>5
  <2> HIDE DEF two
  <2>9. QED BY <2>4, <2>5, <2>6, <2>7, <2>8
<1>6. SumFunction(f) = SumFunction(g) * two[t - u] /\ SumFunction(g) \in Nat
  <2>1. PICK c \in Nat : c = two[t - u]
    BY <1>4
  <2> HIDE DEF f, g, own, two
  <2>2. QED BY <1>1, <1>3, <1>5, <2>1, SumOfMultiples
<1>7. PICK c \in Nat \ {0}, a \in Nat : c = two[t - u] /\ a = SumFunction(g)
  BY <1>4, <1>6
<1>8. (a * c) \div c = a
  BY ProductDivided
<1>9. ScoreOf(log, n, t) = SumFunction(g) /\ ScoreOf(log, n, u) = SumFunction(f)
  BY DEF ScoreOf
<1>10. QED
  <2> HIDE DEF f, g, two
  <2>1. ScoreOf(log, n, t) = a /\ ScoreOf(log, n, u) = a * c
    BY <1>6, <1>7, <1>9
  <2>2. QED BY <1>7, <1>8, <2>1 DEF two

\* What an alert is worth is its weight, halved once for every half-life since.
LEMMA WorthIsHalved ==
  ASSUME NEW log \in Logs, NEW n, NEW t \in 0..MaxTime, NotAfter(log, n, t),
         NEW b \in Own(log, n)
  PROVE  (log[b].weight * Ledger!TwoTo[MaxTime]) \div Ledger!TwoTo[t - log[b].time]
           = Worth(log, b, t)
<1> DEFINE two == Ledger!TwoTo
<1>1. PICK w \in Nat, s \in Nat : w = log[b].weight /\ s = log[b].time
  BY OwnIsFinite
<1>2. s <= t /\ MaxTime \in Nat
  BY <1>1, LedgerAssumption DEF NotAfter
<1>3. PICK j \in Nat, k \in Nat : j = MaxTime - (t - s) /\ k = t - s /\ j + k = MaxTime
  BY <1>2
<1>4. two[MaxTime] = two[j] * two[k]
  <2>1. two[j + k] = two[j] * two[k]
    BY <1>2, <1>3, PowersAdd
  <2>2. QED BY <1>3, <2>1
<1>5. PICK x \in Nat, y \in Nat \ {0} : x = two[j] /\ y = two[k]
  <2>1. j \in 0..MaxTime /\ k \in 0..MaxTime
    BY <1>2, <1>3
  <2>2. QED BY <2>1, TwoToIs
<1>6. w * (x * y) = (w * x) * y /\ w * x \in Nat
  OBVIOUS
<1>7. ((w * x) * y) \div y = w * x
  BY <1>6, ProductDivided
<1>8. Worth(log, b, t) = w * x
  BY <1>1, <1>3, <1>5 DEF Worth
<1> HIDE DEF two
<1>9. log[b].weight * two[MaxTime] = (w * x) * y /\ two[t - log[b].time] = y
  BY <1>1, <1>3, <1>4, <1>5, <1>6
<1>10. QED BY <1>7, <1>8, <1>9 DEF two

Extends(log, a, new) == new = Append(log, a)

\* One more alert counts for its entity and for no other.
LEMMA OneMoreAlert ==
  ASSUME NEW log \in Logs, NEW a \in Scorings, NEW new, Extends(log, a, new)
  PROVE  /\ new \in Logs
         /\ \A n : n # a.id =>
              Own(new, n) = Own(log, n) /\ \A b \in Own(log, n) : new[b] = log[b]
         /\ Own(new, a.id) = Own(log, a.id) \union {Len(log) + 1}
         /\ Len(log) + 1 \notin Own(log, a.id) /\ new[Len(log) + 1] = a
         /\ \A b \in Own(log, a.id) : new[b] = log[b]
<1> HIDE DEF Scorings
<1>1. /\ Len(log) \in Nat /\ new \in Logs /\ Len(new) = Len(log) + 1
      /\ new[Len(log) + 1] = a /\ \A b \in 1..Len(log) : new[b] = log[b]
      /\ DOMAIN log = 1..Len(log) /\ DOMAIN new = 1..Len(log) + 1
  BY DEF Extends, Logs
<1>2. \A n : \A b : b \in Own(log, n) <=> b \in 1..Len(log) /\ log[b].id = n
  BY <1>1 DEF Own
<1>3. \A n : \A b : b \in Own(new, n) <=> b \in 1..Len(log) + 1 /\ new[b].id = n
  BY <1>1 DEF Own
<1>4. \A b : b \in 1..Len(log) + 1 <=> b \in 1..Len(log) \/ b = Len(log) + 1
  BY <1>1
<1>5. Len(log) + 1 \notin 1..Len(log)
  BY <1>1
<1>6. ASSUME NEW n, n # a.id PROVE Own(new, n) = Own(log, n)
  <2>1. \A b : b \in Own(new, n) <=> b \in Own(log, n)
    <3> SUFFICES ASSUME NEW b PROVE b \in Own(new, n) <=> b \in Own(log, n)
      OBVIOUS
    <3>1. CASE b = Len(log) + 1
      <4>1. b \notin Own(log, n) /\ b \notin Own(new, n)
        BY <1>1, <1>2, <1>3, <1>5, <1>6, <3>1
      <4>2. QED BY <4>1
    <3>2. CASE b # Len(log) + 1
      <4>1. b \in Own(new, n) <=> b \in 1..Len(log) /\ new[b].id = n
        BY <1>3, <1>4, <3>2
      <4>2. b \in 1..Len(log) => new[b] = log[b]
        BY <1>1
      <4>3. QED BY <1>2, <4>1, <4>2
    <3>3. QED BY <3>1, <3>2
  <2>2. QED BY <2>1
<1>7. Own(new, a.id) = Own(log, a.id) \union {Len(log) + 1}
  BY <1>1, <1>2, <1>3, <1>4
<1>8. QED BY <1>1, <1>2, <1>5, <1>6, <1>7

LEMMA ScoreOfOthers ==
  ASSUME NEW log \in Logs, NEW a \in Scorings, NEW new, Extends(log, a, new),
         NEW n, n # a.id, NEW t
  PROVE  ScoreOf(new, n, t) = ScoreOf(log, n, t) /\ (NotAfter(log, n, t) => NotAfter(new, n, t))
<1>1. Own(new, n) = Own(log, n) /\ \A b \in Own(log, n) : new[b] = log[b]
  BY OneMoreAlert
<1>2. [b \in Own(new, n) |-> Worth(new, b, t)] = [b \in Own(log, n) |-> Worth(log, b, t)]
  BY <1>1 DEF Worth
<1>3. NotAfter(log, n, t) => NotAfter(new, n, t)
  BY <1>1 DEF NotAfter
<1>4. QED BY <1>2, <1>3 DEF ScoreOf

LEMMA ScoreWithAlert ==
  ASSUME NEW log \in Logs, NEW a \in Scorings, NEW new, Extends(log, a, new),
         NEW t \in 0..MaxTime, a.time = t, NotAfter(log, a.id, t)
  PROVE  /\ ScoreOf(new, a.id, t) = ScoreOf(log, a.id, t) + a.weight * Ledger!TwoTo[MaxTime]
         /\ NotAfter(new, a.id, t)
<1> DEFINE n == a.id
           x == Len(log) + 1
           f == [b \in Own(log, n) |-> Worth(log, b, t)]
           g == [b \in Own(new, n) |-> Worth(new, b, t)]
<1>1. /\ new \in Logs /\ Own(new, n) = Own(log, n) \union {x}
      /\ x \notin Own(log, n) /\ new[x] = a /\ \A b \in Own(log, n) : new[b] = log[b]
  BY OneMoreAlert
<1>2. NotAfter(new, n, t)
  <2> SUFFICES ASSUME NEW b \in Own(new, n) PROVE new[b].time <= t
    BY DEF NotAfter
  <2>1. CASE b = x
    BY <1>1, <2>1
  <2>2. CASE b # x
    <3>1. b \in Own(log, n) /\ new[b] = log[b]
      BY <1>1, <2>2
    <3>2. QED BY <3>1 DEF NotAfter
  <2>3. QED BY <2>1, <2>2
<1>3. IsFiniteSet(Own(log, n)) /\ f \in [Own(log, n) -> Nat]
  BY OwnIsFinite, WorthIsNatural
<1>4. g \in [Own(new, n) -> Nat]
  BY <1>1, <1>2, WorthIsNatural
<1>5. \A b \in Own(log, n) : g[b] = f[b]
  BY <1>1 DEF Worth
<1>6. g[x] = a.weight * Ledger!TwoTo[MaxTime]
  <2>1. MaxTime - (t - t) = MaxTime
    BY LedgerAssumption
  <2>2. Worth(new, x, t) = a.weight * Ledger!TwoTo[MaxTime]
    BY <1>1, <2>1 DEF Worth
  <2>3. QED BY <1>1, <2>2
<1>7. SumFunction(g) = SumFunction(f) + g[x]
  <2> HIDE DEF f, g, x
  <2>1. PICK s, p, q, y : s = Own(log, n) /\ p = f /\ q = g /\ y = x
    OBVIOUS
  <2>2. /\ IsFiniteSet(s) /\ p \in [s -> Nat] /\ y \notin s
        /\ q \in [s \union {y} -> Nat] /\ \A b \in s : q[b] = p[b]
    BY <1>1, <1>3, <1>4, <1>5, <2>1
  <2>3. SumFunction(q) = SumFunction(p) + q[y]
    BY <2>2, SumOfOneMore
  <2>4. QED BY <2>1, <2>3
<1>8. QED
  <2>1. ScoreOf(new, n, t) = SumFunction(g) /\ ScoreOf(log, n, t) = SumFunction(f)
    BY DEF ScoreOf
  <2> HIDE DEF f, g
  <2>2. QED BY <1>2, <1>6, <1>7, <2>1

\* Nothing recorded, nothing scored.
LEMMA NoScore ==
  ASSUME NEW log \in Logs, NEW n, Own(log, n) = {}, NEW t
  PROVE  ScoreOf(log, n, t) = 0 /\ NotAfter(log, n, t)
<1> DEFINE f == [b \in Own(log, n) |-> Worth(log, b, t)]
<1>1. f \in [Own(log, n) -> Nat] /\ \A b \in Own(log, n) : f[b] = 0
  OBVIOUS
<1>2. IsFiniteSet(Own(log, n))
  BY OwnIsFinite
<1>3. SumFunction(f) = 0
  <2> HIDE DEF f
  <2>1. QED BY <1>1, <1>2, SumOfZeros
<1>4. QED BY <1>3 DEF ScoreOf, NotAfter

-----------------------------------------------------------------------------
(* The ledger: its invariant *)

Ways == {"mac", "host", "ip", "new"}
Leasings == [mac : Macs, ip : Ips, id : Nat \ {0}, by : Ways]

\* Alerts are of entities that exist.
Known(l, log) == \A b \in DOMAIN log : log[b].id \in 1..Len(l.entities)

\* The score of an entity is that of its alerts when it was last updated.
Scored(l, log, t) ==
  \A n \in 1..Len(l.entities) :
    LET e == l.entities[n]
    IN  e.updated <= t /\ NotAfter(log, n, e.updated) /\ e.raw = ScoreOf(log, n, e.updated)

\* LeaseIsFound of any indexes and leases.
Found(mac, ip, log) ==
  \A i \in DOMAIN log :
    LET l == log[i]
    IN  /\ l.by \in {"mac", "new"} => mac[l.mac] = l.id
        /\ (l.by # "host" /\ \A j \in i + 1..Len(log) :
              log[j].ip # l.ip /\ log[j].id # l.id) => ip[l.ip] = l.id

\* IndexIsCurrent of any ledger and leases.
Current(l, log) ==
  \A i \in Ips :
    Stale(l, i) => \E j \in DOMAIN log : log[j].by = "host" /\ log[j].id = l.ip[i]

LedgerInv == /\ Moments /\ Sound(Ledger!Ledger) /\ alerts \in Logs
             /\ leases \in Seq(Leasings)
             /\ Known(Ledger!Ledger, alerts) /\ Scored(Ledger!Ledger, alerts, now)
             /\ Found(macIndex, ipIndex, leases)
             /\ Current(Ledger!Ledger, leases)

LEMMA ScoresAreKept ==
  ASSUME Moments, NEW l, Sound(l), NEW k, Sound(k), SameScores(l, k), NEW log \in Logs,
         Known(l, log), Scored(l, log, now)
  PROVE  Known(k, log) /\ Scored(k, log, now)
<1>1. Len(l.entities) \in Nat /\ Len(k.entities) \in Nat /\ Len(l.entities) <= Len(k.entities)
  BY SoundParts DEF SameScores
<1>2. Known(k, log)
  BY <1>1 DEF Known
<1>3. ASSUME NEW n \in 1..Len(k.entities)
      PROVE  LET e == k.entities[n]
             IN  /\ e.updated <= now /\ NotAfter(log, n, e.updated)
                 /\ e.raw = ScoreOf(log, n, e.updated)
  <2>1. CASE n \in 1..Len(l.entities)
    <3>1. /\ k.entities[n].raw = l.entities[n].raw
          /\ k.entities[n].updated = l.entities[n].updated
      BY <2>1 DEF SameScores
    <3>2. LET e == l.entities[n]
          IN  /\ e.updated <= now /\ NotAfter(log, n, e.updated)
              /\ e.raw = ScoreOf(log, n, e.updated)
      BY <2>1 DEF Scored
    <3>3. QED BY <3>1, <3>2
  <2>2. CASE n \notin 1..Len(l.entities)
    <3>1. n > Len(l.entities)
      BY <1>1, <2>2
    <3>2. k.entities[n].raw = 0 /\ k.entities[n].updated = now
      BY <3>1 DEF SameScores
    <3>3. Own(log, n) = {}
      BY <2>2 DEF Own, Known
    <3>4. ScoreOf(log, n, now) = 0 /\ NotAfter(log, n, now)
      BY <3>3, NoScore
    <3>5. now <= now
      BY DEF Moments
    <3>6. QED BY <3>2, <3>4, <3>5
  <2>3. QED BY <2>1, <2>2
<1>4. Scored(k, log, now)
  BY <1>3 DEF Scored
<1>5. QED BY <1>2, <1>4

LeaseAdded(log, new, ip, mac, id, by) ==
  log \in Seq(Leasings) /\ new = Append(log, [mac |-> mac, ip |-> ip, id |-> id, by |-> by])

LEMMA LeaseAddedIs ==
  ASSUME NEW log, NEW new, NEW ip \in Ips, NEW mac \in Macs, NEW id \in Nat \ {0},
         NEW by \in Ways, LeaseAdded(log, new, ip, mac, id, by)
  PROVE  LET n == Len(log)
         IN  /\ n \in Nat /\ new \in Seq(Leasings) /\ Len(new) = n + 1
             /\ new[n + 1].mac = mac /\ new[n + 1].ip = ip /\ new[n + 1].id = id
             /\ new[n + 1].by = by
             /\ DOMAIN new = 1..n + 1 /\ DOMAIN log = 1..n
             /\ \A i \in 1..n : new[i] = log[i] /\ log[i] \in Leasings
<1> DEFINE n == Len(log)
           r == [mac |-> mac, ip |-> ip, id |-> id, by |-> by]
<1>1. r \in Leasings /\ r.mac = mac /\ r.ip = ip /\ r.id = id /\ r.by = by
  BY DEF Leasings
<1>2. log \in Seq(Leasings) /\ new = Append(log, r)
  BY DEF LeaseAdded
<1> HIDE DEF Leasings, r
<1>3. /\ n \in Nat /\ new \in Seq(Leasings) /\ Len(new) = n + 1 /\ new[n + 1] = r
      /\ DOMAIN new = 1..n + 1 /\ DOMAIN log = 1..n
      /\ \A i \in 1..n : new[i] = log[i] /\ log[i] \in Leasings
  BY <1>1, <1>2
<1>4. QED BY <1>1, <1>3

\* A lease keeps the entities of earlier leases where they are found.
LEMMA LeasesAreFound ==
  ASSUME NEW l, Sound(l), NEW k, NEW ip \in Ips, NEW mac \in Macs,
         NEW id \in Nat \ {0}, NEW by \in Ways,
         Leased(l, k, ip, mac, id, by), NEW log, Found(l.mac, l.ip, log),
         NEW new, LeaseAdded(log, new, ip, mac, id, by)
  PROVE  new \in Seq(Leasings) /\ Found(k.mac, k.ip, new)
<1> DEFINE n == Len(log)
<1>1. /\ n \in Nat /\ new \in Seq(Leasings) /\ Len(new) = n + 1
      /\ new[n + 1].mac = mac /\ new[n + 1].ip = ip /\ new[n + 1].id = id
      /\ new[n + 1].by = by
      /\ DOMAIN new = 1..n + 1 /\ DOMAIN log = 1..n
      /\ \A i \in 1..n : new[i] = log[i] /\ log[i] \in Leasings
  BY LeaseAddedIs
<1> HIDE DEF n
<1>2. ASSUME NEW i \in 1..n + 1, new[i].by \in {"mac", "new"}
      PROVE  k.mac[new[i].mac] = new[i].id
  <2>1. CASE i = n + 1
    BY <1>1, <1>2, <2>1 DEF Leased
  <2>2. CASE i # n + 1
    <3>1. i \in 1..n
      BY <1>1, <2>2
    <3>2. PICK x \in Leasings : x = log[i] /\ x = new[i]
      BY <1>1, <3>1
    <3>3. x.mac \in Macs /\ x.id # 0
      BY DEF Leasings
    <3>4. l.mac[x.mac] = x.id
      BY <1>1, <1>2, <3>1, <3>2 DEF Found
    <3>5. k.mac[x.mac] = l.mac[x.mac]
      BY <3>3, <3>4 DEF Leased
    <3>6. QED BY <3>2, <3>4, <3>5
  <2>3. QED BY <2>1, <2>2
<1>3. ASSUME NEW i \in 1..n + 1, new[i].by # "host",
             \A j \in i + 1..n + 1 : new[j].ip # new[i].ip /\ new[j].id # new[i].id
      PROVE  k.ip[new[i].ip] = new[i].id
  <2>1. CASE i = n + 1
    BY <1>1, <1>3, <2>1 DEF Leased
  <2>2. CASE i # n + 1
    <3>1. i \in 1..n /\ n + 1 \in i + 1..n + 1
      BY <1>1, <2>2
    <3>2. PICK x \in Leasings : x = log[i] /\ x = new[i]
      BY <1>1, <3>1
    <3>3. ip # x.ip /\ id # x.id
      BY <1>1, <1>3, <3>1, <3>2
    <3>4. x.ip \in Ips
      BY DEF Leasings
    <3>5. \A j \in i + 1..n : log[j].ip # x.ip /\ log[j].id # x.id
      <4>1. ASSUME NEW j \in i + 1..n PROVE j \in i + 1..n + 1 /\ j \in 1..n
        BY <1>1, <3>1
      <4>2. QED BY <1>1, <1>3, <3>2, <4>1
    <3>6. l.ip[x.ip] = x.id
      BY <1>1, <1>3, <3>1, <3>2, <3>5 DEF Found, n
    <3>7. k.ip[x.ip] = l.ip[x.ip]
      BY <3>3, <3>4, <3>6 DEF Leased
    <3>8. QED BY <3>2, <3>6, <3>7
  <2>3. QED BY <2>1, <2>2
<1>4. Found(k.mac, k.ip, new)
  BY <1>1, <1>2, <1>3 DEF Found
<1>5. QED BY <1>1, <1>4

\* A lease leaves an entry behind only if it finds its entity by host name.
LEMMA LeasesExplainStale ==
  ASSUME NEW l, NEW k, NEW ip \in Ips, NEW mac \in Macs,
         NEW id \in Nat \ {0}, NEW by \in Ways,
         Leased(l, k, ip, mac, id, by), NEW log, Current(l, log),
         NEW new, LeaseAdded(log, new, ip, mac, id, by)
  PROVE  Current(k, new)
<1>1. /\ Len(log) \in Nat /\ new[Len(log) + 1].id = id /\ new[Len(log) + 1].by = by
      /\ DOMAIN new = 1..Len(log) + 1 /\ DOMAIN log = 1..Len(log)
      /\ \A i \in 1..Len(log) : new[i] = log[i]
  <2>1. LET n == Len(log)
        IN  /\ n \in Nat /\ new \in Seq(Leasings) /\ Len(new) = n + 1
            /\ new[n + 1].mac = mac /\ new[n + 1].ip = ip /\ new[n + 1].id = id
            /\ new[n + 1].by = by
            /\ DOMAIN new = 1..n + 1 /\ DOMAIN log = 1..n
            /\ \A i \in 1..n : new[i] = log[i] /\ log[i] \in Leasings
    BY LeaseAddedIs
  <2> HIDE DEF Leasings
  <2>2. QED BY <2>1
<1> SUFFICES ASSUME NEW i \in Ips, Stale(k, i)
             PROVE  \E j \in DOMAIN new : new[j].by = "host" /\ new[j].id = k.ip[i]
  BY DEF Current
<1>2. CASE by = "host" /\ k.ip[i] = id
  <2>1. Len(log) + 1 \in DOMAIN new
    BY <1>1
  <2>2. QED BY <1>1, <1>2, <2>1
<1>3. CASE \E j \in Ips : Stale(l, j) /\ k.ip[i] = l.ip[j]
  <2>1. PICK j \in Ips : Stale(l, j) /\ k.ip[i] = l.ip[j]
    BY <1>3
  <2>2. PICK x \in DOMAIN log : log[x].by = "host" /\ log[x].id = l.ip[j]
    BY <2>1 DEF Current
  <2>3. x \in DOMAIN new /\ new[x] = log[x]
    BY <1>1
  <2>4. QED BY <2>1, <2>2, <2>3
<1>4. QED BY <1>2, <1>3 DEF Leased

LEMMA InitialLedger == Ledger!Init => LedgerInv
<1> SUFFICES ASSUME Ledger!Init PROVE LedgerInv
  OBVIOUS
<1> USE DEF Ledger!Init
<1>1. Moments
  BY LedgerAssumption DEF Moments
<1>2. Sound(Ledger!Ledger)
  <2> DEFINE l == Ledger!Ledger
  <2>1. /\ l.entities = <<>> /\ l.ip = [i \in Ips |-> 0] /\ l.mac = [m \in Macs |-> 0]
        /\ l.host = [h \in Hosts |-> 0]
        /\ l = [entities |-> l.entities, ip |-> l.ip, mac |-> l.mac, host |-> l.host]
    BY DEF Ledger!Ledger
  <2> HIDE DEF l
  <2>2. l \in Ledgers
    <3>1. <<>> \in Seq(Entity)
      OBVIOUS
    <3>2. /\ l.entities \in Seq(Entity) /\ l.ip \in [Ips -> Nat]
          /\ l.mac \in [Macs -> Nat] /\ l.host \in [Hosts -> Nat]
      <4> HIDE DEF Entity
      <4>1. QED BY <2>1, <3>1
    <3>3. QED BY <2>1, <3>2, Zenon DEF Ledgers
  <2>3. InRange(l) /\ Identified(l) /\ Named(l)
    BY <2>1 DEF InRange, Identified, Named
  <2>4. Sound(l)
    BY <2>2, <2>3 DEF Sound
  <2>5. QED BY <2>4 DEF l
<1>3. alerts \in Logs /\ leases \in Seq(Leasings)
  BY DEF Logs
<1>4. Known(Ledger!Ledger, alerts) /\ Scored(Ledger!Ledger, alerts, now)
  BY DEF Known, Scored, Ledger!Ledger
<1>5. Found(macIndex, ipIndex, leases) /\ Current(Ledger!Ledger, leases)
  BY DEF Found, Current, Stale, Ledger!Ledger
<1>6. QED BY <1>1, <1>2, <1>3, <1>4, <1>5 DEF LedgerInv

LEMMA LeaseStep ==
  ASSUME LedgerInv, NEW mac \in Macs, NEW ip \in Ips, NEW host \in Hosts \union {None},
         Ledger!Lease(mac, ip, host)
  PROVE  LedgerInv'
<1> DEFINE led == Ledger!Ledger
           res == Ledger!Reassign(led, mac, ip, host)
           how == Ledger!FoundBy(led, ip, mac, host)
<1>1. PICK l, r, k, by : l = led /\ r = res /\ k = r.ledger /\ by = how
  OBVIOUS
<1>2. Moments /\ Sound(l) /\ alerts \in Logs /\ leases \in Seq(Leasings)
      /\ Known(l, alerts) /\ Scored(l, alerts, now)
  BY <1>1 DEF LedgerInv
<1>3. l.mac = macIndex /\ l.ip = ipIndex
  BY <1>1 DEF Ledger!Ledger
<1>4. /\ Ledger!Become(r.ledger) /\ now' = now /\ alerts' = alerts
      /\ leases' = Append(leases, [mac |-> mac, ip |-> ip, id |-> r.id, by |-> by])
  BY <1>1 DEF Ledger!Lease
<1> HIDE DEF led, res, how
<1>5. /\ r = Ledger!Reassign(l, mac, ip, host)
      /\ by = Ledger!FoundBy(l, ip, mac, host) /\ by \in Ways
  BY <1>1 DEF res, how, Ways, Ledger!FoundBy
<1>6. /\ Sound(k) /\ SameScores(l, k) /\ r.id \in 1..Len(k.entities)
      /\ Leased(l, k, ip, mac, r.id, by)
  BY <1>1, <1>2, <1>5, ReassignIs
<1>7. /\ k = [entities |-> k.entities, ip |-> k.ip, mac |-> k.mac, host |-> k.host]
      /\ Len(k.entities) \in Nat
  BY <1>6, SoundParts
<1>8. Ledger!Ledger' = k /\ macIndex' = k.mac /\ ipIndex' = k.ip
  BY <1>1, <1>4, <1>7 DEF Ledger!Become, Ledger!Ledger
<1>9. Known(k, alerts) /\ Scored(k, alerts, now)
  BY <1>2, <1>6, ScoresAreKept
<1>10. /\ leases' \in Seq(Leasings) /\ Found(k.mac, k.ip, leases')
       /\ Current(k, leases')
  <2>1. PICK log, new, id : log = leases /\ new = leases' /\ id = r.id
    OBVIOUS
  <2>2. id \in Nat \ {0} /\ LeaseAdded(log, new, ip, mac, id, by)
    BY <1>2, <1>4, <1>6, <1>7, <2>1 DEF LeaseAdded
  <2>3. Found(l.mac, l.ip, log) /\ Current(l, log)
    BY <1>1, <1>3, <2>1 DEF LedgerInv, led
  <2>4. Leased(l, k, ip, mac, id, by)
    BY <1>6, <2>1
  <2>5. new \in Seq(Leasings) /\ Found(k.mac, k.ip, new)
    BY <1>2, <1>5, <2>2, <2>3, <2>4, LeasesAreFound
  <2>6. Current(k, new)
    BY <1>5, <2>2, <2>3, <2>4, LeasesExplainStale
  <2>7. QED BY <2>1, <2>5, <2>6
<1>11. Moments'
  BY <1>2, <1>4 DEF Moments
<1>12. Known(Ledger!Ledger, alerts)' /\ Scored(Ledger!Ledger, alerts, now)'
  BY <1>4, <1>8, <1>9 DEF Known, Scored
<1>13. Found(macIndex, ipIndex, leases)' /\ Current(Ledger!Ledger, leases)'
  BY <1>8, <1>10 DEF Found, Current, Stale
<1>14. Sound(Ledger!Ledger)'
  BY <1>6, <1>8 DEF Sound, InRange, Identified, Named
<1>15. QED
  BY <1>2, <1>4, <1>10, <1>11, <1>12, <1>13, <1>14 DEF LedgerInv

Replaces(l, n, e, k) == k = [l EXCEPT !.entities[n] = e]

\* An alert of an entity changes its score only.
LEMMA ScoredEntity ==
  ASSUME Moments, NEW l, Sound(l), NEW n \in 1..Len(l.entities), NEW e \in Entity,
         e.mac = l.entities[n].mac, NEW k, Replaces(l, n, e, k)
  PROVE  /\ Sound(k) /\ Len(k.entities) = Len(l.entities) /\ k.entities[n] = e
         /\ k.mac = l.mac /\ k.ip = l.ip
         /\ \A i \in 1..Len(l.entities) : i # n => k.entities[i] = l.entities[i]
<1>1. /\ l.ip \in [Ips -> Nat] /\ InRange(l)
      /\ l = [entities |-> l.entities, ip |-> l.ip, mac |-> l.mac, host |-> l.host]
  BY SoundParts
<1>2. k = [entities |-> [l.entities EXCEPT ![n] = e], ip |-> l.ip, mac |-> l.mac,
           host |-> l.host]
  BY <1>1 DEF Replaces
<1>3. PICK b \in BOOLEAN : ~b
  OBVIOUS
<1>4. Changed(l, n, None, None, e, b, k)
  BY <1>1, <1>2, <1>3 DEF Changed, InRange
<1>5. QED
  <2>1. /\ Sound(k) /\ Len(k.entities) = Len(l.entities) /\ k.entities[n] = e
        /\ \A i \in 1..Len(l.entities) : i # n => k.entities[i] = l.entities[i]
    BY <1>4, ChangeIs
  <2>2. QED BY <1>2, <2>1

LEMMA AlertStep ==
  ASSUME LedgerInv, NEW ip \in Ips, NEW weight \in Weights,
         Ledger!RecordAlert(ip, weight)
  PROVE  LedgerInv'
<1> DEFINE led == Ledger!Ledger
           res == IF ipIndex[ip] # 0 THEN [id |-> ipIndex[ip], ledger |-> led]
                  ELSE Ledger!GetOrCreate(led, ip, None, None)
           two == Ledger!TwoTo
<1>1. PICK l, r, k : l = led /\ r = res /\ k = r.ledger
  OBVIOUS
<1>2. PICK n, e : n = r.id /\ e = k.entities[n]
  OBVIOUS
<1> DEFINE raw == Ledger!Decayed(e) + weight * two[MaxTime]
           scored == [e EXCEPT !.raw = raw, !.updated = now,
                               !.alerts = @ \union {Len(alerts) + 1}]
           entry == [ip |-> ip, id |-> n, weight |-> weight, time |-> now]
<1>3. /\ Moments /\ now \in 0..MaxTime /\ Sound(l) /\ alerts \in Logs
      /\ leases \in Seq(Leasings) /\ Known(l, alerts) /\ Scored(l, alerts, now)
      /\ Found(macIndex, ipIndex, leases) /\ l.mac = macIndex /\ l.ip = ipIndex
  BY <1>1 DEF LedgerInv, Ledger!Ledger, Moments
<1>4. PICK f : f = [k EXCEPT !.entities[n] = scored]
  OBVIOUS
<1>5. /\ Ledger!Become(f) /\ now' = now /\ leases' = leases
      /\ alerts' = Append(alerts, entry)
  BY <1>1, <1>2, <1>4 DEF Ledger!RecordAlert
<1> HIDE DEF led, scored
<1>6. /\ Sound(k) /\ SameScores(l, k) /\ n \in 1..Len(k.entities)
      /\ k.mac = l.mac /\ \A i \in Ips : k.ip[i] = l.ip[i] \/ (l.ip[i] = 0 /\ k.ip[i] # 0)
      /\ \A i \in Ips : Stale(k, i) => Stale(l, i) /\ k.ip[i] = l.ip[i]
  <2>1. /\ l.ip \in [Ips -> Nat] /\ InRange(l) /\ l.mac \in [Macs -> Nat]
        /\ Len(l.entities) \in Nat /\ l.host \in [Hosts -> Nat]
    BY <1>3, SoundParts
  <2>2. CASE ipIndex[ip] # 0
    <3>1. n = l.ip[ip] /\ k = l
      BY <1>1, <1>2, <1>3, <2>2
    <3>2. n \in 1..Len(l.entities)
      BY <1>3, <2>1, <2>2, <3>1 DEF InRange
    <3>3. SameScores(l, l)
      BY <2>1 DEF SameScores
    <3>4. QED BY <1>3, <3>1, <3>2, <3>3
  <2>3. CASE ipIndex[ip] = 0
    <3>1. r = Ledger!GetOrCreate(l, ip, None, None)
      BY <1>1, <2>3
    <3>2. Ledger!Find(l, ip, None, None) = 0
      BY <1>3, <2>3 DEF Ledger!Find
    <3>3. /\ Sound(k) /\ SameScores(l, k) /\ n \in 1..Len(k.entities)
          /\ n = Len(l.entities) + 1 /\ k.ip[ip] = n
          /\ \A i \in Ips : i # ip => k.ip[i] = l.ip[i]
          /\ \A m \in Macs : m # None => k.mac[m] = l.mac[m]
          /\ k.entities[n].ip = ip
          /\ \A m \in 1..Len(l.entities) : k.entities[m] = l.entities[m]
      <4>1. Makes(l, ip, None, None, r)
        BY <1>3, <3>1, <3>2 DEF Makes
      <4>2. Made(l, ip, None, r)
        BY <1>3, <4>1, CreateIs
      <4>3. QED BY <1>1, <1>2, <4>2 DEF Made
    <3>4. k.mac = l.mac
      <4>1. k.mac \in [Macs -> Nat]
        BY <3>3, SoundParts
      <4>2. \A m \in Macs : m # None
        BY LedgerAssumption
      <4>3. QED BY <2>1, <3>3, <4>1, <4>2
    <3>5. ASSUME NEW i \in Ips PROVE k.ip[i] = l.ip[i] \/ (l.ip[i] = 0 /\ k.ip[i] # 0)
      <4>1. CASE i = ip
        BY <1>3, <2>1, <2>3, <3>3, <4>1
      <4>2. CASE i # ip
        BY <3>3, <4>2
      <4>3. QED BY <4>1, <4>2
    <3>6. \A i \in Ips : Stale(k, i) => Stale(l, i) /\ k.ip[i] = l.ip[i]
      <4>1. Adds(l, k, ip, n)
        BY <2>1, <3>3 DEF Adds
      <4>2. QED BY <4>1, NewIsCurrent
    <3>7. QED BY <3>3, <3>4, <3>5, <3>6
  <2>4. QED BY <2>2, <2>3
<1>7. k.entities \in Seq(Entity) /\ Len(k.entities) \in Nat /\ e \in Entity
  <2>1. k.entities \in Seq(Entity) /\ Len(k.entities) \in Nat
    BY <1>6, SoundParts
  <2> HIDE DEF Entity
  <2>2. QED BY <1>2, <1>6, <2>1
<1>8. Known(k, alerts) /\ Scored(k, alerts, now)
  BY <1>3, <1>6, ScoresAreKept
<1>9. /\ e.updated <= now /\ NotAfter(alerts, n, e.updated)
      /\ e.raw = ScoreOf(alerts, n, e.updated) /\ e.updated \in 0..MaxTime
  BY <1>2, <1>6, <1>7, <1>8 DEF Scored, Entity
<1>10. /\ Ledger!Decayed(e) = ScoreOf(alerts, n, now)
       /\ ScoreOf(alerts, n, now) \in Nat
  BY <1>3, <1>9, ScoreDecays DEF Ledger!Decayed
<1>11. weight \in Nat /\ two[MaxTime] \in Nat /\ MaxTime \in Nat
  BY LedgerAssumption, TwoToIs
<1>12. PICK c \in Nat : c = weight * two[MaxTime]
  BY <1>11
<1>13. raw \in Nat /\ raw = ScoreOf(alerts, n, now) + c
  BY <1>10, <1>12
<1> HIDE DEF raw, two
<1>14. /\ scored \in Entity /\ scored.mac = e.mac /\ scored.raw = raw
       /\ scored.updated = now /\ scored.ip = e.ip
  <2>1. PICK set, h : set = e.alerts \union {Len(alerts) + 1} /\ h = raw
    OBVIOUS
  <2>2. Len(alerts) + 1 \in Nat
    BY <1>3 DEF Logs
  <2>3. set \in SUBSET Nat /\ h \in Nat
    BY <1>7, <1>13, <2>1, <2>2 DEF Entity
  <2>4. scored = [e EXCEPT !.raw = h, !.updated = now, !.alerts = set]
    BY <1>7, <2>1 DEF Entity, scored
  <2>5. QED BY <1>3, <1>7, <2>1, <2>3, <2>4 DEF Entity
<1>15. /\ Sound(f) /\ Len(f.entities) = Len(k.entities) /\ f.entities[n] = scored
       /\ f.mac = k.mac /\ f.ip = k.ip
       /\ \A i \in 1..Len(k.entities) : i # n => f.entities[i] = k.entities[i]
  <2>1. PICK x : x = scored
    OBVIOUS
  <2>2. x \in Entity /\ x.mac = k.entities[n].mac
    BY <1>2, <1>14, <2>1
  <2>3. Replaces(k, n, x, f)
    BY <1>4, <2>1 DEF Replaces
  <2>4. /\ Sound(f) /\ Len(f.entities) = Len(k.entities) /\ f.entities[n] = x
        /\ f.mac = k.mac /\ f.ip = k.ip
        /\ \A i \in 1..Len(k.entities) : i # n => f.entities[i] = k.entities[i]
    <3>1. Moments /\ Sound(k) /\ n \in 1..Len(k.entities)
      BY <1>3, <1>6
    <3>2. \A y \in Entity : y.mac = k.entities[n].mac /\ Replaces(k, n, y, f) =>
            /\ Sound(f) /\ Len(f.entities) = Len(k.entities) /\ f.entities[n] = y
            /\ f.mac = k.mac /\ f.ip = k.ip
            /\ \A i \in 1..Len(k.entities) : i # n => f.entities[i] = k.entities[i]
      BY <3>1, ScoredEntity
    <3>3. QED BY <2>2, <2>3, <3>2
  <2>5. QED BY <2>1, <2>4
<1>16. Ledger!Ledger' = f /\ macIndex' = f.mac /\ ipIndex' = f.ip
  <2>1. f = [entities |-> f.entities, ip |-> f.ip, mac |-> f.mac, host |-> f.host]
    BY <1>15, SoundParts
  <2>2. QED BY <1>5, <2>1 DEF Ledger!Become, Ledger!Ledger
<1>17. entry \in Scorings
  BY <1>3, <1>6, <1>11 DEF Scorings
<1>18. PICK log, new, a : log = alerts /\ new = alerts' /\ a = entry
  OBVIOUS
<1>19. Extends(log, a, new) /\ a \in Scorings /\ a.id = n /\ a.time = now /\ a.weight = weight
  BY <1>5, <1>17, <1>18 DEF Extends
<1>20. log \in Logs /\ Known(k, log) /\ Scored(k, log, now)
  BY <1>3, <1>8, <1>18
<1>21. new \in Logs
  BY <1>19, <1>20, OneMoreAlert
<1>22. Known(f, new)
  <2>1. \A m : m \in DOMAIN new => m \in DOMAIN log \/ m = Len(log) + 1
    BY <1>19, <1>20 DEF Extends, Logs
  <2>2. \A m \in DOMAIN log : new[m] = log[m]
    BY <1>19, <1>20 DEF Extends, Logs
  <2>3. new[Len(log) + 1] = a
    BY <1>19, <1>20, OneMoreAlert
  <2>4. QED BY <1>6, <1>15, <1>19, <1>20, <2>1, <2>2, <2>3 DEF Known
<1>23. Scored(f, new, now)
  <2> SUFFICES ASSUME NEW i \in 1..Len(k.entities)
               PROVE  LET x == f.entities[i]
                      IN  /\ x.updated <= now /\ NotAfter(new, i, x.updated)
                          /\ x.raw = ScoreOf(new, i, x.updated)
    BY <1>15 DEF Scored
  <2>1. CASE i = n
    <3>1. NotAfter(log, n, now)
      <4>1. \A b \in Own(log, n) : log[b].time \in Nat
        BY <1>20, OwnIsFinite
      <4>2. QED BY <1>3, <1>9, <1>18, <4>1 DEF NotAfter
    <3>2. /\ ScoreOf(new, n, now) = ScoreOf(log, n, now) + weight * Ledger!TwoTo[MaxTime]
          /\ NotAfter(new, n, now)
      BY <1>3, <1>19, <1>20, <3>1, ScoreWithAlert
    <3>3. now <= now
      BY <1>3
    <3>4. QED BY <1>12, <1>13, <1>14, <1>15, <1>18, <2>1, <3>2, <3>3 DEF two
  <2>2. CASE i # n
    <3>1. f.entities[i] = k.entities[i]
      BY <1>15, <2>2
    <3>2. LET x == k.entities[i]
          IN  /\ x.updated <= now /\ NotAfter(log, i, x.updated)
              /\ x.raw = ScoreOf(log, i, x.updated)
      BY <1>20 DEF Scored
    <3>3. \A t : /\ ScoreOf(new, i, t) = ScoreOf(log, i, t)
                 /\ NotAfter(log, i, t) => NotAfter(new, i, t)
      BY <1>19, <1>20, <2>2, ScoreOfOthers
    <3>4. QED BY <3>1, <3>2, <3>3
  <2>3. QED BY <2>1, <2>2
<1>24. Found(f.mac, f.ip, leases)
  <2>1. Found(l.mac, l.ip, leases)
    BY <1>3
  <2>2. \A i \in DOMAIN leases : leases[i].ip \in Ips
    <3>1. \A i \in DOMAIN leases : leases[i] \in Leasings
      BY <1>3
    <3>2. QED BY <3>1 DEF Leasings
  <2>3. \A i \in Ips : f.ip[i] = l.ip[i] \/ (l.ip[i] = 0 /\ f.ip[i] # 0)
    BY <1>6, <1>15
  <2>4. f.mac = l.mac
    BY <1>6, <1>15
  <2>5. ASSUME NEW i \in DOMAIN leases
        PROVE  l.ip[leases[i].ip] = leases[i].id => f.ip[leases[i].ip] = leases[i].id
    <3>1. leases[i].id # 0
      <4>1. leases[i] \in Leasings
        BY <1>3
      <4>2. QED BY <4>1 DEF Leasings
    <3>2. QED BY <2>2, <2>3, <3>1
  <2>6. QED BY <2>1, <2>4, <2>5 DEF Found
<1>32. Current(f, leases)
  <2>1. \A i \in Ips : Stale(f, i) => Stale(k, i) /\ f.ip[i] = k.ip[i]
    <3> SUFFICES ASSUME NEW i \in Ips, Stale(f, i) PROVE Stale(k, i) /\ f.ip[i] = k.ip[i]
      OBVIOUS
    <3>1. f.ip[i] = k.ip[i] /\ k.ip[i] # 0
      BY <1>15 DEF Stale
    <3>2. k.ip[i] \in 1..Len(k.entities)
      <4>1. k.ip[i] \in Nat /\ k.ip[i] <= Len(k.entities)
        BY <1>6, SoundParts DEF InRange
      <4>2. QED BY <1>7, <3>1, <4>1
    <3>3. f.entities[k.ip[i]].ip = k.entities[k.ip[i]].ip
      BY <1>2, <1>14, <1>15, <3>2
    <3>4. QED BY <3>1, <3>3 DEF Stale
  <2>2. Current(l, leases)
    BY <1>1 DEF LedgerInv, led
  <2>3. QED BY <1>6, <2>1, <2>2 DEF Current
<1>25. Moments'
  BY <1>3, <1>5 DEF Moments
<1>26. Known(Ledger!Ledger, alerts)' /\ Scored(Ledger!Ledger, alerts, now)'
  BY <1>5, <1>16, <1>18, <1>22, <1>23 DEF Known, Scored
<1>27. Found(macIndex, ipIndex, leases)' /\ Current(Ledger!Ledger, leases)'
  BY <1>5, <1>16, <1>24, <1>32 DEF Found, Current, Stale
<1>28. Sound(Ledger!Ledger)'
  BY <1>15, <1>16 DEF Sound, InRange, Identified, Named
<1>29. QED
  BY <1>3, <1>5, <1>18, <1>21, <1>25, <1>26, <1>27, <1>28 DEF LedgerInv

LEMMA HalfLifeStep == ASSUME LedgerInv, Ledger!HalfLife PROVE LedgerInv'
<1>1. /\ now < MaxTime /\ now' = now + 1 /\ now \in 0..MaxTime
      /\ alerts' = alerts /\ leases' = leases /\ Ledger!Ledger' = Ledger!Ledger
      /\ macIndex' = macIndex /\ ipIndex' = ipIndex
  BY DEF LedgerInv, Moments, Ledger!HalfLife, Ledger!Ledger
<1>2. now <= now' /\ now' \in 0..MaxTime
  BY <1>1, LedgerAssumption
<1>3. Moments'
  BY <1>2 DEF Moments
<1>4. Sound(Ledger!Ledger)' /\ Known(Ledger!Ledger, alerts)' /\ (alerts \in Logs)'
      /\ (leases \in Seq(Leasings))' /\ Found(macIndex, ipIndex, leases)'
      /\ Current(Ledger!Ledger, leases)'
  BY <1>1 DEF LedgerInv, Sound, InRange, Identified, Named, Known, Found, Current, Stale
<1>5. Scored(Ledger!Ledger, alerts, now)'
  <2>1. PICK l, log, t, u : l = Ledger!Ledger /\ log = alerts /\ t = now /\ u = now'
    OBVIOUS
  <2>2. Scored(l, log, t) /\ Sound(l) /\ t \in Nat /\ u \in Nat /\ t <= u
    BY <1>1, <1>2, <2>1 DEF LedgerInv
  <2>3. l.entities \in Seq(Entity) /\ Len(l.entities) \in Nat
    BY <2>2, SoundParts
  <2>4. ASSUME NEW n \in 1..Len(l.entities)
        PROVE  LET e == l.entities[n]
               IN  /\ e.updated <= u /\ NotAfter(log, n, e.updated)
                   /\ e.raw = ScoreOf(log, n, e.updated)
    <3>1. LET e == l.entities[n]
          IN  /\ e.updated <= t /\ NotAfter(log, n, e.updated)
              /\ e.raw = ScoreOf(log, n, e.updated)
      BY <2>2 DEF Scored
    <3>2. l.entities[n].updated \in Nat
      <4>1. l.entities[n] \in Entity
        BY <2>3
      <4>2. QED BY <4>1 DEF Entity
    <3>3. QED BY <2>2, <3>1, <3>2
  <2>5. Scored(l, log, u)
    BY <2>4 DEF Scored
  <2>6. QED BY <1>1, <2>1, <2>5 DEF Scored
<1>6. QED BY <1>3, <1>4, <1>5 DEF LedgerInv

LEMMA LedgerStep == LedgerInv /\ [Ledger!Next]_ledger => LedgerInv'
<1> SUFFICES ASSUME LedgerInv, [Ledger!Next]_ledger PROVE LedgerInv'
  OBVIOUS
<1>1. CASE Ledger!Next
  <2>1. CASE \E m \in Macs, i \in Ips, h \in Hosts \union {None} : Ledger!Lease(m, i, h)
    BY <2>1, LeaseStep
  <2>2. CASE \E i \in Ips, w \in Weights : Ledger!RecordAlert(i, w)
    BY <2>2, AlertStep
  <2>3. CASE Ledger!HalfLife
    BY <2>3, HalfLifeStep
  <2>4. QED BY <1>1, <2>1, <2>2, <2>3 DEF Ledger!Next
<1>2. CASE UNCHANGED ledger
  BY <1>2 DEF ledger, LedgerInv, Moments, Ledger!Ledger, Sound, InRange, Identified,
              Named, Known, Scored, Found, Current, Stale
<1>3. QED BY <1>1, <1>2

LEMMA SameSums == ASSUME NEW f PROVE Ledger!SumFunction(f) = SumFunction(f)
BY Zenon DEF SumFunction, SumFunctionOnSet, FoldFunctionOnSet, MapThenFoldSet,
             Ledger!SumFunction, Ledger!SumFunctionOnSet, Ledger!FoldFunctionOnSet,
             Ledger!MapThenFoldSet

\* The score of an entity, decayed to the present, is the sum of its alerts,
\* each halved once for every half-life since.
LEMMA ScoresAreSums == LedgerInv => Ledger!ScoreIsDecayedSum
<1> SUFFICES ASSUME LedgerInv PROVE Ledger!ScoreIsDecayedSum
  OBVIOUS
<1>0. DOMAIN entities = 1..Len(entities)
  <2>1. PICK l : l = Ledger!Ledger
    OBVIOUS
  <2>2. Sound(l) /\ l.entities = entities
    BY <2>1 DEF LedgerInv, Ledger!Ledger
  <2>3. QED BY <2>2, SoundParts
<1> SUFFICES ASSUME NEW n \in 1..Len(entities)
             PROVE  Ledger!Decayed(entities[n]) =
                      SumFunction([a \in {b \in DOMAIN alerts : alerts[b].id = n} |->
                        (alerts[a].weight * Ledger!TwoTo[MaxTime])
                          \div Ledger!TwoTo[now - alerts[a].time]])
  <2>1. \A f : Ledger!SumFunction(f) = SumFunction(f)
    BY SameSums
  <2>2. QED BY <1>0, <2>1 DEF Ledger!ScoreIsDecayedSum, Ledger!Ids
<1> DEFINE f == [a \in Own(alerts, n) |-> (alerts[a].weight * Ledger!TwoTo[MaxTime])
                                            \div Ledger!TwoTo[now - alerts[a].time]]
           g == [a \in Own(alerts, n) |-> Worth(alerts, a, now)]
<1>1. PICK l, e : l = Ledger!Ledger /\ e = entities[n]
  OBVIOUS
<1>2. l.entities = entities /\ Sound(l) /\ Scored(l, alerts, now)
      /\ now \in 0..MaxTime /\ alerts \in Logs
  BY <1>1 DEF LedgerInv, Ledger!Ledger, Moments
<1>3. e.updated <= now /\ NotAfter(alerts, n, e.updated)
      /\ e.raw = ScoreOf(alerts, n, e.updated)
  BY <1>1, <1>2 DEF Scored
<1>4. e.updated \in 0..MaxTime
  <2>1. l.entities \in Seq(Entity)
    BY <1>2, SoundParts
  <2>2. e \in Entity
    BY <1>1, <1>2, <2>1
  <2>3. QED BY <2>2 DEF Entity
<1>5. Ledger!Decayed(e) = ScoreOf(alerts, n, now)
  BY <1>2, <1>3, <1>4, ScoreDecays DEF Ledger!Decayed
<1>6. NotAfter(alerts, n, now)
  <2>1. \A b \in Own(alerts, n) : alerts[b].time \in Nat
    BY <1>2, OwnIsFinite
  <2>2. QED BY <1>2, <1>3, <1>4, <2>1 DEF NotAfter
<1>7. \A a \in Own(alerts, n) :
        (alerts[a].weight * Ledger!TwoTo[MaxTime]) \div Ledger!TwoTo[now - alerts[a].time]
          = Worth(alerts, a, now)
  BY <1>2, <1>6, WorthIsHalved
<1>8. f = g
  BY <1>7
<1>9. ScoreOf(alerts, n, now) = SumFunction(g)
  BY DEF ScoreOf
<1>10. SumFunction(f) = SumFunction([a \in {b \in DOMAIN alerts : alerts[b].id = n} |->
                        (alerts[a].weight * Ledger!TwoTo[MaxTime])
                          \div Ledger!TwoTo[now - alerts[a].time]])
  BY DEF Own
<1> HIDE DEF f, g
<1>11. QED BY <1>1, <1>5, <1>8, <1>9, <1>10

LEMMA LedgerInvIsEnough == LedgerInv => LedgerIsExact
<1> SUFFICES ASSUME LedgerInv PROVE LedgerIsExact
  OBVIOUS
<1>1. Sound(Ledger!Ledger) /\ Found(macIndex, ipIndex, leases)
  BY DEF LedgerInv
<1>2. Ledger!MacIsIdentity
  <2>1. PICK l : l = Ledger!Ledger
    OBVIOUS
  <2>2. DOMAIN entities = 1..Len(entities)
    <3>1. l.entities = entities /\ Sound(l)
      BY <1>1, <2>1 DEF Ledger!Ledger
    <3>2. QED BY <3>1, SoundParts
  <2>3. QED BY <1>1, <2>2 DEF Sound, Identified, Ledger!Ledger, Ledger!MacIsIdentity,
                              Ledger!Ids
<1>3. Ledger!LeaseIsFound
  BY <1>1 DEF Found, Ledger!LeaseIsFound
<1>4. Ledger!IndexIsCurrent
  <2>1. \A i \in Ips : ipIndex[i] # 0 /\ entities[ipIndex[i]].ip # i =>
          \E j \in DOMAIN leases : leases[j].by = "host" /\ leases[j].id = ipIndex[i]
    BY DEF LedgerInv, Current, Stale, Ledger!Ledger
  <2>2. QED BY <2>1 DEF Ledger!IndexIsCurrent
<1>5. QED BY <1>2, <1>3, <1>4, ScoresAreSums DEF LedgerIsExact

(***************************************************************************)
(* LedgerIsExact, for any addresses, names, weights and number of          *)
(* half-lives.                                                             *)
(***************************************************************************)
THEOREM LedgerStaysExact == ServerSpec => []LedgerIsExact
<1>1. ServerInit => LedgerInv
  BY InitialLedger DEF ServerInit
<1>2. LedgerInv /\ [ServerNext]_<<vars, ledger>> => LedgerInv'
  <2>1. [ServerNext]_<<vars, ledger>> => [Ledger!Next]_ledger
    BY DEF ServerNext, LedgerRests
  <2>2. QED BY <2>1, LedgerStep
<1>3. QED BY <1>1, <1>2, LedgerInvIsEnough, PTL DEF ServerSpec

=============================================================================
