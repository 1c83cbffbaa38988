-------------------------- MODULE ShardRecoveryProofs --------------------------
(***************************************************************************)
(* Proofs about a shard process and its checkpoint (ShardRecovery), for    *)
(* any domains, quotas, limits, strides, and any number of restarts.       *)
(*                                                                         *)
(* The pool holds no seed twice because a request begins above all tasks   *)
(* of the earlier ones (SeedsBelow: its frontier is the begin of its seed  *)
(* range, that of a checkpoint the begin of the round after the one it was *)
(* written in), and its own tasks, in whatever order their candidates      *)
(* end, come from offsets it will not use again (Spent).  The pool never   *)
(* holds too many irrelevance tasks because those of the running request   *)
(* are within what the earlier ones left (WithinTarget).  A checkpoint is  *)
(* a prefix of what the process that wrote or loaded it holds (Saved), so  *)
(* the next one extends it.                                                *)
(***************************************************************************)
EXTENDS ShardRecovery, FiniteSetTheorems, SequenceTheorems, TLAPS

TaskSet ==
  [kind : {"normal", "irrelevance"}, domain : Domains \union {All},
   seed : Nat, counts : BOOLEAN]

RequestSet == [domain : Domains \union {All}, count : Sizes]

(* Requests a round may make: their seed ranges fit into its own.          *)
Fits(requests) ==
  requests \in Seq(RequestSet) /\ Len(requests) <= Len(RequestedDomains)

(* t goes on where s ends. *)
Continues(s, t) == Len(s) <= Len(t) /\ \A i \in 1 .. Len(s) : t[i] = s[i]

Distinct(ts) ==
  \A i, j \in 1 .. Len(ts) : ts[i].kind = ts[j].kind /\ ts[i].seed = ts[j].seed => i = j

(* The seeds of ts lie below n, those of irrelevance tasks below m.        *)
SeedsBelow(ts, n, m) ==
  \A i \in 1 .. Len(ts) : ts[i].seed < IF ts[i].kind = "normal" THEN n ELSE m

(* The tasks of a kind lie below a seed, or come from the given offsets    *)
(* of it.                                                                  *)
From(ts, kind, first, offsets) ==
  \A i \in 1 .. Len(ts) :
    ts[i].kind = kind => ts[i].seed < first \/ \E k \in offsets : ts[i].seed = first + k

Working == {"round", "normal", "irrelevance"}
Asking  == {"normal", "irrelevance"}

Typed ==
  /\ allTasks \in Seq(TaskSet) /\ roundTasks \in Seq(TaskSet) /\ tasks \in Seq(TaskSet)
  /\ normals \in Nat /\ irrelevants \in Nat /\ used \in SUBSET (0 .. RequestStride - 1)
  /\ recoveryRound \in Nat
  /\ Fits(roundRequests) /\ requestIndex \in 1 .. Len(roundRequests) + 1

(* What is empty where: between requests, and outside of a round.          *)
Places ==
  /\ pc \notin {"normal", "irrelevance"} =>
       tasks = << >> /\ normals = 0 /\ irrelevants = 0 /\ used = {}
  /\ pc \notin Working \union {"failed"} => roundTasks = << >>
  /\ pc \in {"normal", "irrelevance"} => requestIndex <= Len(roundRequests)
  /\ pc = "normal" => irrelevants = 0
  /\ normals + irrelevants = 0 => tasks = << >>

(* The first seed the request tries for its tasks of this kind.            *)
First == IF pc = "normal" THEN Seed ELSE Seed + RequestStride - 1

NormalFrontier == IF pc \in Asking THEN Seed + RequestStride ELSE Seed

IrrelevanceFrontier ==
  IF pc = "irrelevance" THEN Seed + RequestStride + RequestStride - 1
                        ELSE Seed + RequestStride - 1

SeedsOrdered ==
  /\ Distinct(Held)
  /\ pc \in Working => SeedsBelow(Held, NormalFrontier, IrrelevanceFrontier)

Spent == pc \in Asking => From(Held, pc, First, used)

WithinTarget ==
  /\ IrrelevanceCount(Held) <= IrrelevanceCount(Prefix) + irrelevants
  /\ IrrelevanceCount(Prefix) + irrelevants <= IrrelevanceTarget

Saved == pc \in Working => Continues(checkpoint.tasks, Held)

CheckpointSound(c) ==
  /\ c.requests # << >> /\ Fits(c.requests)
  /\ c.completed \in Nat
  /\ c.tasks \in Seq(TaskSet)
  /\ Distinct(c.tasks)
  /\ SeedsBelow(c.tasks, c.completed * RoundStride,
                c.completed * RoundStride + RequestStride - 1)
  /\ IrrelevanceCount(c.tasks) <= IrrelevanceTarget

Written == checkpoint # NoCheckpoint => CheckpointSound(checkpoint)

IInv == Typed /\ Places /\ SeedsOrdered /\ Spent /\ WithinTarget /\ Saved /\ Written

-----------------------------------------------------------------------------
(* Numbers. *)

LEMMA MaxOfTwo ==
  ASSUME NEW a \in Int, NEW b \in Int
  PROVE  Max({a, b}) = IF a >= b THEN a ELSE b
<1>1. CASE a >= b
  BY <1>1 DEF Max
<1>2. CASE a < b
  BY <1>2 DEF Max
<1>3. QED
  BY <1>1, <1>2

LEMMA MinOfTwo ==
  ASSUME NEW a \in Int, NEW b \in Int
  PROVE  Min({a, b}) = IF a <= b THEN a ELSE b
<1>1. CASE a <= b
  BY <1>1 DEF Min
<1>2. CASE a > b
  BY <1>2 DEF Min
<1>3. QED
  BY <1>1, <1>2

LEMMA RecoveryCountGrows ==
  ASSUME NEW m \in Nat, NEW n \in Nat, m <= n
  PROVE  RecoveryCount(m) \in Nat /\ RecoveryCount(m) <= RecoveryCount(n)
BY DEF RecoveryCount, Ceil

(* A count a request may have bounds the seeds it tries.                   *)
LEMMA SizesFit ==
  ASSUME NEW n \in Sizes
  PROVE  /\ n \in Nat
         /\ \A m \in 0 .. n : m \in Sizes /\ Attempts(m) \in Nat /\ Attempts(m) <= RequestStride
<1>1. ASSUME NEW m \in Nat
      PROVE  Attempts(m) \in Nat
  <2> DEFINE ones == Min({m, Strata}) - 1
  <2>1. CASE m = 0
    BY <2>1 DEF Attempts
  <2>2. CASE m # 0
    <3>1. Min({m, Strata}) = IF m <= Strata THEN m ELSE Strata
      BY MinOfTwo, LimitsAssumption
    <3>2. ones \in Nat /\ m - ones \in Nat
      BY <2>2, <3>1, LimitsAssumption
    <3>3. Attempts(m) = m + 2 * ones + Max({Ceil(m - ones, 2), 2})
      BY <2>2 DEF Attempts
    <3> HIDE DEF ones
    <3>4. Ceil(m - ones, 2) \in Nat
      BY <3>2 DEF Ceil
    <3>5. Max({Ceil(m - ones, 2), 2}) \in Nat
      BY <3>4, MaxOfTwo
    <3>6. QED
      BY <3>2, <3>3, <3>5
  <2>3. QED
    BY <2>1, <2>2
<1>2. n \in Nat /\ \A m \in 0 .. n : m \in Sizes
  <2>1. CASE n \in 0 .. PoolTarget
    BY <2>1, TargetsAssumption DEF Sizes
  <2>2. ASSUME NEW d \in Domains, n \in 0 .. RecoveryCount(Quota[d])
        PROVE  n \in Nat /\ \A m \in 0 .. n : m \in Sizes
    <3>1. RecoveryCount(Quota[d]) \in Nat
      BY RecoveryCountGrows, DomainsAssumption
    <3>2. \A m \in 0 .. n : m \in 0 .. RecoveryCount(Quota[d])
      BY <2>2, <3>1
    <3>3. QED
      BY <2>2, <3>1, <3>2 DEF Sizes
  <2>3. QED
    BY <2>1, <2>2 DEF Sizes
<1>3. ASSUME NEW m \in 0 .. n
      PROVE  m \in Sizes /\ Attempts(m) \in Nat /\ Attempts(m) <= RequestStride
  <2>1. m \in Sizes /\ m \in Nat
    BY <1>2
  <2>2. Attempts(m) \in Nat
    BY <1>1, <2>1
  <2>3. RequestStride \in Nat /\ RequestStride >= Attempts(m)
    BY <2>1, StridesAssumption
  <2>4. QED
    BY <2>1, <2>2, <2>3
<1>4. QED
  BY <1>2, <1>3

(* Where the seeds of the i-th request of round r begin: the ranges follow *)
(* each other, and all of them lie before the next round.                  *)
SeedAt(r, i) == r * RoundStride + (i - 1) * RequestStride

LEMMA SeedsOfRound ==
  ASSUME NEW r \in Nat, NEW i \in 1 .. Len(RequestedDomains) + 1
  PROVE  /\ SeedAt(r, i) \in Nat
         /\ SeedAt(r, i + 1) = SeedAt(r, i) + RequestStride
         /\ SeedAt(r, i) <= (r + 1) * RoundStride
         /\ SeedAt(r, 1) = r * RoundStride
         /\ (r + 1) * RoundStride \in Nat
<1>1. /\ RoundStride \in Nat /\ RequestStride \in Nat
      /\ Len(RequestedDomains) \in Nat
      /\ RoundStride >= RequestStride * Len(RequestedDomains)
  BY StridesAssumption, DomainsAssumption
<1>2. (r + 1) * RoundStride = r * RoundStride + RoundStride
  BY <1>1
<1>3. i * RequestStride = (i - 1) * RequestStride + RequestStride
  BY <1>1
<1>4. (i - 1) * RequestStride <= RequestStride * Len(RequestedDomains)
  BY <1>1
<1>5. r * RoundStride \in Nat /\ (i - 1) * RequestStride \in Nat
  BY <1>1
<1>6. (i + 1) - 1 = i /\ (1 - 1) * RequestStride = 0
  BY <1>1
<1> DEFINE a == r * RoundStride
           b == (i - 1) * RequestStride
           c == i * RequestStride
           e == RequestStride * Len(RequestedDomains)
           f == (r + 1) * RoundStride
<1>7. /\ a \in Nat /\ b \in Nat /\ e \in Int
      /\ c = b + RequestStride /\ b <= e /\ f = a + RoundStride /\ RoundStride >= e
  BY <1>1, <1>2, <1>3, <1>4, <1>5
<1>8. SeedAt(r, i) = a + b /\ SeedAt(r, i + 1) = a + c /\ SeedAt(r, 1) = a + 0
  BY <1>6 DEF SeedAt
<1> HIDE DEF a, b, c, e, f
<1>9. /\ a + b \in Nat /\ a + c = a + b + RequestStride /\ a + b <= f
      /\ a + 0 = a /\ f \in Nat
  BY <1>1, <1>7
<1>10. QED
  BY <1>8, <1>9 DEF a, f

-----------------------------------------------------------------------------
(* Sequences of tasks. *)

LEMMA PrefixContinues ==
  ASSUME NEW S, NEW s \in Seq(S), NEW t \in Seq(S)
  PROVE  IsPrefix(s, t) <=> Continues(s, t)
<1>1. Len(s) \in Nat /\ Len(t) \in Nat /\ SubSeq(s, 1, Len(s)) = s
  BY SubSeqFull
<1>2. CASE Len(s) <= Len(t)
  <2> DEFINE u == SubSeq(t, 1, Len(s))
  <2>1. u \in Seq(S) /\ Len(u) = Len(s) /\ \A i \in 1 .. Len(s) : u[i] = t[i]
    BY <1>1, <1>2
  <2> HIDE DEF u
  <2>2. s = u <=> \A i \in 1 .. Len(s) : t[i] = s[i]
    BY <2>1, SeqEqual
  <2>3. QED
    BY <1>1, <1>2, <2>2 DEF IsPrefix, Continues, u
<1>3. CASE ~ (Len(s) <= Len(t))
  BY <1>3 DEF IsPrefix, Continues
<1>4. QED
  BY <1>2, <1>3

LEMMA AppendedTask ==
  ASSUME NEW S, NEW s \in Seq(S), NEW x \in S, NEW t, t = Append(s, x)
  PROVE  /\ t \in Seq(S) /\ Len(s) \in Nat /\ Len(t) = Len(s) + 1
         /\ t[Len(s) + 1] = x /\ \A i \in 1 .. Len(s) : t[i] = s[i]
OBVIOUS

LEMMA AppendContinues ==
  ASSUME NEW S, NEW s \in Seq(S), NEW c \in Seq(S), NEW x \in S, Continues(c, s)
  PROVE  Continues(c, Append(s, x))
<1> DEFINE t == Append(s, x)
<1>1. /\ Len(s) \in Nat /\ Len(t) = Len(s) + 1 /\ \A i \in 1 .. Len(s) : t[i] = s[i]
  BY AppendedTask
<1>2. Len(c) \in Nat
  OBVIOUS
<1> HIDE DEF t
<1>3. Continues(c, t)
  BY <1>1, <1>2 DEF Continues
<1>4. QED
  BY <1>3 DEF t

LEMMA AppendToConcat ==
  ASSUME NEW S, NEW s \in Seq(S), NEW t \in Seq(S), NEW x \in S
  PROVE  s \o Append(t, x) = Append(s \o t, x)
<1>1. << x >> \in Seq(S)
  OBVIOUS
<1>2. Append(t, x) = t \o << x >> /\ Append(s \o t, x) = (s \o t) \o << x >>
  BY AppendIsConcat, ConcatProperties
<1>3. QED
  BY <1>1, <1>2, ConcatAssociative

LEMMA DistinctAppended ==
  ASSUME NEW s \in Seq(TaskSet), NEW x \in TaskSet, NEW n \in Int, NEW m \in Int,
         Distinct(s), SeedsBelow(s, n, m),
         \A i \in 1 .. Len(s) : s[i].kind = x.kind => s[i].seed # x.seed,
         NEW n1 \in Int, NEW m1 \in Int, n <= n1, m <= m1,
         x.seed < IF x.kind = "normal" THEN n1 ELSE m1
  PROVE  Distinct(Append(s, x)) /\ SeedsBelow(Append(s, x), n1, m1)
<1> DEFINE t == Append(s, x)
<1>1. /\ t \in Seq(TaskSet) /\ Len(s) \in Nat /\ Len(t) = Len(s) + 1
      /\ t[Len(s) + 1] = x /\ \A i \in 1 .. Len(s) : t[i] = s[i] /\ s[i] \in TaskSet
  BY AppendedTask, ElementOfSeq
<1> HIDE DEF t
<1>2. x.seed \in Int /\ \A i \in 1 .. Len(s) : s[i].seed \in Int
  BY <1>1 DEF TaskSet
<1>3. \A i \in 1 .. Len(s) : s[i].kind = x.kind => s[i].seed # x.seed
  OBVIOUS
<1>4. Distinct(t)
  <2> SUFFICES ASSUME NEW i \in 1 .. Len(t), NEW j \in 1 .. Len(t),
                      t[i].kind = t[j].kind, t[i].seed = t[j].seed
               PROVE  i = j
    BY DEF Distinct
  <2>1. CASE i \in 1 .. Len(s) /\ j \in 1 .. Len(s)
    BY <1>1, <2>1 DEF Distinct
  <2>2. CASE i = Len(s) + 1 /\ j \in 1 .. Len(s)
    BY <1>1, <1>2, <1>3, <2>2
  <2>3. CASE i \in 1 .. Len(s) /\ j = Len(s) + 1
    BY <1>1, <1>2, <1>3, <2>3
  <2>4. QED
    BY <1>1, <2>1, <2>2, <2>3
<1>5. SeedsBelow(t, n1, m1)
  <2> SUFFICES ASSUME NEW i \in 1 .. Len(t)
               PROVE  t[i].seed < IF t[i].kind = "normal" THEN n1 ELSE m1
    BY DEF SeedsBelow
  <2>1. CASE i = Len(s) + 1
    BY <1>1, <2>1
  <2>2. CASE i \in 1 .. Len(s)
    BY <1>1, <1>2, <2>2 DEF SeedsBelow
  <2>3. QED
    BY <1>1, <2>1, <2>2
<1>6. QED
  BY <1>4, <1>5 DEF t

LEMMA FrontierRises ==
  ASSUME NEW s \in Seq(TaskSet), NEW n \in Int, NEW m \in Int, SeedsBelow(s, n, m),
         NEW n1 \in Int, NEW m1 \in Int, n <= n1, m <= m1
  PROVE  SeedsBelow(s, n1, m1)
<1>1. ASSUME NEW i \in 1 .. Len(s)
      PROVE  s[i].seed < IF s[i].kind = "normal" THEN n1 ELSE m1
  <2> DEFINE x == s[i]
  <2>0. x \in TaskSet
    BY ElementOfSeq
  <2> HIDE DEF x
  <2>1. x.seed \in Int
    BY <2>0 DEF TaskSet
  <2>2. s[i].seed < IF s[i].kind = "normal" THEN n ELSE m
    BY DEF SeedsBelow
  <2>3. QED
    BY <2>1, <2>2 DEF x
<1>2. QED
  BY <1>1 DEF SeedsBelow

-----------------------------------------------------------------------------
(* Counting. *)

LEMMA SubsetCount ==
  ASSUME NEW n \in Nat, NEW I \in SUBSET (1 .. n)
  PROVE  IsFiniteSet(I) /\ Cardinality(I) \in 0 .. n
<1>1. IsFiniteSet(1 .. n) /\ Cardinality(1 .. n) = n
  BY FS_Interval
<1>2. IsFiniteSet(I) /\ Cardinality(I) <= n
  BY <1>1, FS_Subset
<1>3. Cardinality(I) \in Nat
  BY <1>2, FS_CardinalityType
<1>4. QED
  BY <1>2, <1>3

LEMMA CountsAreNat ==
  ASSUME NEW ts \in Seq(TaskSet)
  PROVE  /\ Counted(ts) \in Nat /\ IrrelevanceCount(ts) \in Nat
         /\ \A d \in Domains : DomainCount(ts, d) \in Nat
<1>1. DOMAIN ts = 1 .. Len(ts) /\ Len(ts) \in Nat
  OBVIOUS
<1>2. \A I \in SUBSET (1 .. Len(ts)) : Cardinality(I) \in Nat
  BY <1>1, SubsetCount
<1>3. QED
  BY <1>1, <1>2 DEF Counted, IrrelevanceCount, DomainCount

LEMMA IrrelevanceOfAppend ==
  ASSUME NEW s \in Seq(TaskSet), NEW x \in TaskSet
  PROVE  IrrelevanceCount(Append(s, x))
           = IrrelevanceCount(s) + IF x.kind = "irrelevance" THEN 1 ELSE 0
<1> DEFINE t == Append(s, x)
           I == {i \in 1 .. Len(s) : s[i].kind = "irrelevance"}
           J == {i \in 1 .. Len(t) : t[i].kind = "irrelevance"}
<1>1. /\ Len(s) \in Nat /\ Len(t) = Len(s) + 1 /\ t \in Seq(TaskSet)
      /\ t[Len(s) + 1] = x /\ \A i \in 1 .. Len(s) : t[i] = s[i]
      /\ DOMAIN s = 1 .. Len(s) /\ DOMAIN t = 1 .. Len(t)
  BY AppendedTask, LenProperties
<1> HIDE DEF t
<1>2. IrrelevanceCount(s) = Cardinality(I) /\ IrrelevanceCount(t) = Cardinality(J)
  BY <1>1 DEF IrrelevanceCount
<1>3. IsFiniteSet(I) /\ Cardinality(I) \in Nat
  BY <1>1, SubsetCount
<1>4. J = IF x.kind = "irrelevance" THEN I \union {Len(s) + 1} ELSE I
  BY <1>1
<1>5. Len(s) + 1 \notin I
  BY <1>1
<1> HIDE DEF I, J
<1>6. Cardinality(I \union {Len(s) + 1}) = Cardinality(I) + 1
  BY <1>3, <1>5, FS_AddElement
<1>7. QED
  BY <1>2, <1>3, <1>4, <1>6 DEF t

LEMMA IrrelevanceOfPrefix ==
  ASSUME NEW s \in Seq(TaskSet), NEW t \in Seq(TaskSet), Continues(s, t)
  PROVE  IrrelevanceCount(s) <= IrrelevanceCount(t)
<1> DEFINE I == {i \in 1 .. Len(s) : s[i].kind = "irrelevance"}
           J == {i \in 1 .. Len(t) : t[i].kind = "irrelevance"}
<1>1. Len(s) \in Nat /\ Len(t) \in Nat /\ DOMAIN s = 1 .. Len(s) /\ DOMAIN t = 1 .. Len(t)
  OBVIOUS
<1>2. IrrelevanceCount(s) = Cardinality(I) /\ IrrelevanceCount(t) = Cardinality(J)
  BY <1>1 DEF IrrelevanceCount
<1>3. I \subseteq J
  BY <1>1 DEF Continues
<1>4. IsFiniteSet(J)
  BY <1>1, SubsetCount
<1> HIDE DEF I, J
<1>5. QED
  BY <1>2, <1>3, <1>4, FS_Subset

LEMMA LeastNumber ==
  ASSUME NEW T \in SUBSET Nat, T # {}
  PROVE  \E m \in T : \A l \in T : ~ (l < m)
<1>1. IsWellFoundedOn(OpToRel(<, Nat), Nat)
  BY NatLessThanWellFounded
<1>2. PICK m \in T : \A l \in T : << l, m >> \notin OpToRel(<, Nat)
  BY <1>1, WFMin
<1>3. QED
  BY <1>2 DEF OpToRel

(* The k-th position is one of the set.                                    *)
LEMMA NthThere ==
  ASSUME NEW n \in Nat, NEW I \in SUBSET (1 .. n), NEW k \in 1 .. Cardinality(I)
  PROVE  Nth(I, k) \in I
<1> DEFINE U == [m \in 0 .. n |-> {j \in I : j <= m}]
           C == [m \in 0 .. n |-> Cardinality(U[m])]
           T == {m \in 0 .. n : C[m] >= k}
<1>1. ASSUME NEW m \in 0 .. n
      PROVE  /\ U[m] = {j \in I : j <= m} /\ C[m] = Cardinality(U[m])
             /\ IsFiniteSet(U[m]) /\ C[m] \in Nat
  <2>1. U[m] = {j \in I : j <= m} /\ C[m] = Cardinality(U[m])
    OBVIOUS
  <2>2. U[m] \in SUBSET (1 .. n)
    BY <2>1
  <2> HIDE DEF U
  <2>3. IsFiniteSet(U[m]) /\ Cardinality(U[m]) \in 0 .. n
    BY <2>2, SubsetCount
  <2>4. QED
    BY <2>1, <2>3
<1>2. k \in Nat /\ k >= 1 /\ Cardinality(I) \in Nat
  BY SubsetCount
<1>3. n \in 0 .. n /\ 0 \in 0 .. n /\ U[n] = I /\ U[0] = {}
  <2>1. n \in 0 .. n /\ 0 \in 0 .. n /\ \A j \in I : j <= n /\ ~ (j <= 0)
    OBVIOUS
  <2>2. U[n] = {j \in I : j <= n} /\ U[0] = {j \in I : j <= 0}
    BY <1>1, <2>1
  <2>3. QED
    BY <2>1, <2>2
<1>4. C[n] >= k /\ C[0] = 0
  BY <1>1, <1>2, <1>3, FS_EmptySet
<1> HIDE DEF U, C
<1>5. PICK m \in T : \A l \in T : ~ (l < m)
  <2>1. T \in SUBSET Nat /\ T # {}
    BY <1>3, <1>4
  <2> HIDE DEF T
  <2>2. QED
    BY <2>1, LeastNumber
<1>6. m \in 1 .. n /\ m - 1 \in 0 .. n /\ C[m] >= k /\ ~ (C[m - 1] >= k)
  BY <1>2, <1>4, <1>5
<1>7. m \in I /\ U[m] = U[m - 1] \union {m} /\ m \notin U[m - 1]
  <2>1. m \in I
    <3> SUFFICES ASSUME m \notin I
                 PROVE  FALSE
      OBVIOUS
    <3>0. U[m] = {j \in I : j <= m} /\ U[m - 1] = {j \in I : j <= m - 1}
      BY <1>1, <1>6
    <3>1. \A j \in I : j <= m <=> j <= m - 1
      BY <1>6
    <3>2. U[m] = U[m - 1]
      BY <3>0, <3>1
    <3>3. C[m] = C[m - 1]
      BY <1>1, <1>6, <3>2
    <3>4. QED
      BY <1>6, <3>3
  <2>2. U[m] = {j \in I : j <= m} /\ U[m - 1] = {j \in I : j <= m - 1}
    BY <1>1, <1>6
  <2>3. \A j \in I : j <= m <=> j <= m - 1 \/ j = m
    BY <1>6
  <2>4. ~ (m <= m - 1)
    BY <1>6
  <2>5. QED
    BY <2>1, <2>2, <2>3, <2>4
<1>8. C[m] = C[m - 1] + 1
  BY <1>1, <1>6, <1>7, FS_AddElement
<1>9. C[m] = k /\ C[m] = Cardinality({j \in I : j <= m})
  <2>1. m \in 0 .. n /\ C[m] \in Nat /\ C[m - 1] \in Nat
    BY <1>1, <1>6
  <2>2. C[m] = k
    BY <1>2, <1>6, <1>8, <2>1
  <2>3. C[m] = Cardinality(U[m]) /\ U[m] = {j \in I : j <= m}
    BY <1>1, <2>1
  <2>4. QED
    BY <2>2, <2>3
<1>10. QED
  BY <1>7, <1>9 DEF Nth

(* Whatever the pool holds, the requests it lacks fit into a round.        *)
LEMMA RequestsFit ==
  ASSUME NEW ts \in Seq(TaskSet)
  PROVE  Fits(Requests(ts)) /\ Fits(Asked(Requests(ts))) /\ Asked(Requests(ts)) # << >>
<1>1. Len(RequestedDomains) \in Nat /\ Len(RequestedDomains) >= 1
  BY DomainsAssumption
<1>2. 0 \in Sizes
  BY TargetsAssumption DEF Sizes
<1>3. ASSUME NEW d \in Domains \union {All}, NEW n \in Sizes
      PROVE  Fits(<< Request(d, n) >>)
  <2>1. Request(d, n) \in RequestSet
    BY DEF Request, RequestSet
  <2>2. QED
    BY <1>1, <2>1 DEF Fits
<1>4. Fits(<< >>)
  BY <1>1 DEF Fits
<1>5. Fits(ShardRequests(ts))
  <2>1. CASE Counted(ts) < Total
    <3>1. Total - Counted(ts) \in Sizes
      BY <2>1, CountsAreNat, TargetsAssumption DEF Sizes
    <3>2. QED
      BY <1>3, <2>1, <3>1 DEF ShardRequests
  <2>2. CASE ~ (Counted(ts) < Total)
    BY <1>4, <2>2 DEF ShardRequests
  <2>3. QED
    BY <2>1, <2>2
<1>6. Fits(DomainRequests(ts))
  <2> DEFINE n == Cardinality(Short(ts))
             e(k) == LET d == RequestedDomains[Nth(Short(ts), k)]
                     IN  Request(d, RecoveryCount(Missing(ts, d)))
  <2>1. Short(ts) \in SUBSET (1 .. Len(RequestedDomains))
    BY DomainsAssumption DEF Short
  <2>2. n \in Nat /\ n <= Len(RequestedDomains)
    BY <1>1, <2>1, SubsetCount
  <2>3. ASSUME NEW k \in 1 .. n
        PROVE  e(k) \in RequestSet
    <3>1. Nth(Short(ts), k) \in Short(ts)
      BY <1>1, <2>1, NthThere
    <3> DEFINE d == RequestedDomains[Nth(Short(ts), k)]
    <3>2. d \in Domains /\ Missing(ts, d) > 0
      BY <2>1, <3>1, DomainsAssumption DEF Short
    <3> HIDE DEF d
    <3>3. Missing(ts, d) \in Nat /\ Missing(ts, d) <= Quota[d] /\ Quota[d] \in Nat
      BY <3>2, CountsAreNat, DomainsAssumption DEF Missing
    <3>4. RecoveryCount(Missing(ts, d)) \in 0 .. RecoveryCount(Quota[d])
      BY <3>3, RecoveryCountGrows
    <3>5. RecoveryCount(Missing(ts, d)) \in Sizes
      BY <3>2, <3>4 DEF Sizes
    <3>6. Request(d, RecoveryCount(Missing(ts, d))) \in RequestSet
      BY <3>2, <3>5 DEF Request, RequestSet
    <3>7. QED
      BY <3>6 DEF d
  <2>4. DomainRequests(ts) = [k \in 1 .. n |-> e(k)]
    BY DEF DomainRequests
  <2> HIDE DEF n, e
  <2>5. DomainRequests(ts) \in Seq(RequestSet) /\ Len(DomainRequests(ts)) = n
    BY <2>2, <2>3, <2>4
  <2>6. QED
    BY <2>2, <2>5 DEF Fits
<1>7. Fits(Requests(ts))
  BY <1>5, <1>6 DEF Requests
<1>8. Fits(Asked(Requests(ts))) /\ Asked(Requests(ts)) # << >>
  BY <1>2, <1>3, <1>7 DEF Asked
<1>9. QED
  BY <1>7, <1>8

-----------------------------------------------------------------------------
(* What a state of the invariant offers each step. *)

LEMMA PoolFacts ==
  ASSUME Typed
  PROVE  /\ Prefix \in Seq(TaskSet) /\ Held \in Seq(TaskSet)
         /\ Continues(allTasks, Held) /\ Continues(Prefix, Held)
         /\ IrrelevanceCount(Prefix) \in Nat /\ IrrelevanceCount(Held) \in Nat
<1>1. /\ Prefix \in Seq(TaskSet) /\ Held \in Seq(TaskSet)
      /\ Len(Prefix) = Len(allTasks) + Len(roundTasks)
      /\ Len(Held) = Len(Prefix) + Len(tasks)
      /\ Len(allTasks) \in Nat /\ Len(roundTasks) \in Nat /\ Len(tasks) \in Nat
  BY ConcatProperties DEF Typed, Prefix, Held
<1>2. \A i \in 1 .. Len(allTasks) : Prefix[i] = allTasks[i]
  BY <1>1, ConcatProperties DEF Typed, Prefix
<1>3. \A i \in 1 .. Len(Prefix) : Held[i] = Prefix[i]
  <2>1. \A i \in 1 .. Len(Prefix) + Len(tasks) :
          (Prefix \o tasks)[i] = IF i <= Len(Prefix) THEN Prefix[i] ELSE tasks[i - Len(Prefix)]
    BY <1>1, ConcatProperties DEF Typed
  <2>2. QED
    BY <1>1, <2>1 DEF Held
<1>4. Continues(Prefix, Held)
  BY <1>1, <1>3 DEF Continues
<1>5. Continues(allTasks, Held)
  BY <1>1, <1>2, <1>3 DEF Continues
<1>6. QED
  BY <1>1, <1>4, <1>5, CountsAreNat

LEMMA NumberFacts ==
  ASSUME Typed
  PROVE  /\ RequestStride \in Nat
         /\ requestIndex \in 1 .. Len(RequestedDomains) + 1
         /\ Seed = SeedAt(recoveryRound, requestIndex) /\ Seed \in Nat
         /\ NormalFrontier \in Int /\ IrrelevanceFrontier \in Int /\ First \in Int
<1>1. RequestStride \in Nat /\ Len(RequestedDomains) \in Nat
  BY StridesAssumption, DomainsAssumption
<1>2. requestIndex \in 1 .. Len(RequestedDomains) + 1
  BY <1>1 DEF Typed, Fits
<1>3. Seed = SeedAt(recoveryRound, requestIndex) /\ Seed \in Nat
  BY <1>2, SeedsOfRound DEF Typed, Seed, SeedAt
<1>4. First \in Int
  BY <1>1, <1>3 DEF First
<1>5. QED
  BY <1>1, <1>2, <1>3, <1>4 DEF NormalFrontier, IrrelevanceFrontier

(* A request and the irrelevance tasks it asks for.                        *)
LEMMA RequestFacts ==
  ASSUME Typed, requestIndex <= Len(roundRequests),
         IrrelevanceCount(Prefix) <= IrrelevanceTarget
  PROVE  /\ Current.count \in Sizes /\ Current.count \in Nat
         /\ Irrelevance \in 0 .. Current.count /\ Irrelevance \in 0 .. IrrelevanceTarget
         /\ Irrelevance <= IrrelevanceTarget - IrrelevanceCount(Prefix)
         /\ Attempts(Current.count - Irrelevance) \in Nat
         /\ Attempts(Current.count - Irrelevance) <= RequestStride
<1>1. Current.count \in Sizes
  <2>1. Current \in RequestSet
    BY ElementOfSeq DEF Typed, Fits, Current
  <2>2. QED
    BY <2>1 DEF RequestSet
<1>2. Current.count \in Nat
  BY <1>1, SizesFit
<1>3. IrrelevanceTarget \in Nat /\ IrrelevanceCount(Prefix) \in Nat /\ Deficit \in Nat
  BY PoolFacts, TargetsAssumption DEF Deficit
<1>4. Max({0, Deficit}) = Deficit
  BY <1>3, MaxOfTwo
<1>5. Irrelevance = IF Current.count <= Deficit THEN Current.count ELSE Deficit
  <2>1. Irrelevance = Min({Current.count, Deficit})
    BY <1>4 DEF Irrelevance
  <2>2. QED
    BY <1>2, <1>3, <2>1, MinOfTwo
<1>6. /\ Irrelevance \in 0 .. Current.count /\ Irrelevance \in 0 .. IrrelevanceTarget
      /\ Irrelevance <= IrrelevanceTarget - IrrelevanceCount(Prefix)
  BY <1>2, <1>3, <1>5 DEF Deficit
<1>7. Current.count - Irrelevance \in 0 .. Current.count
  BY <1>2, <1>6
<1>8. QED
  BY <1>1, <1>2, <1>6, <1>7, SizesFit

(* The next accepted seed of a schedule that fits.                         *)
LEMMA AcceptedSeed ==
  ASSUME NEW n \in Nat, n <= RequestStride, used \in SUBSET (0 .. RequestStride - 1),
         RequestStride \in Nat, NEW passed \in Nat, NEW k \in Candidates(n, passed)
  PROVE  k \in 0 .. RequestStride - 1 /\ k \notin used
<1>1. Cardinality(used) + passed \in Nat
  <2>1. IsFiniteSet(0 .. RequestStride - 1)
    BY FS_Interval
  <2>2. Cardinality(used) \in Nat
    BY <2>1, FS_Subset, FS_CardinalityType
  <2>3. QED
    BY <2>2
<1> DEFINE m == Cardinality(used) + passed
<1>2. Min({n - 1, m}) = IF n - 1 <= m THEN n - 1 ELSE m
  BY <1>1, MinOfTwo
<1>3. k \in 0 .. Min({n - 1, m}) /\ k \notin used
  BY DEF Candidates
<1> HIDE DEF m
<1>4. QED
  BY <1>1, <1>2, <1>3 DEF m

LEMMA CheckpointWritten ==
  ASSUME NEW c \in Nat, NEW ts \in Seq(TaskSet), NEW requests,
         Fits(requests), requests # << >>, Distinct(ts),
         SeedsBelow(ts, c * RoundStride, c * RoundStride + RequestStride - 1),
         IrrelevanceCount(ts) <= IrrelevanceTarget
  PROVE  CheckpointSound(Checkpoint(c, requests, ts))
BY DEF CheckpointSound, Checkpoint

LEMMA CheckpointIsNotMissing ==
  ASSUME NEW c, NEW ts, NEW requests
  PROVE  Checkpoint(c, requests, ts) # NoCheckpoint
<1>1. "completed" \in DOMAIN Checkpoint(c, requests, ts)
  BY DEF Checkpoint
<1>2. "completed" \notin DOMAIN NoCheckpoint
  BY DEF NoCheckpoint
<1>3. QED
  BY <1>1, <1>2

(* A step that keeps what the pool holds and moves the frontier forward.   *)
LEMMA FrontierMoves ==
  ASSUME Typed, SeedsOrdered, Typed', Held' = Held,
         pc' \in Working =>
           pc \in Working /\ NormalFrontier <= NormalFrontier'
             /\ IrrelevanceFrontier <= IrrelevanceFrontier'
  PROVE  SeedsOrdered'
<1>1. Held \in Seq(TaskSet) /\ NormalFrontier \in Int /\ IrrelevanceFrontier \in Int
  BY PoolFacts, NumberFacts
<1>2. NormalFrontier' \in Int /\ IrrelevanceFrontier' \in Int
  <2>1. RequestStride \in Nat
    BY NumberFacts
  <2>2. requestIndex' \in 1 .. Len(RequestedDomains) + 1
    BY DomainsAssumption DEF Typed, Fits
  <2>3. Seed' = SeedAt(recoveryRound', requestIndex') /\ Seed' \in Nat
    BY <2>2, SeedsOfRound DEF Typed, Seed, SeedAt
  <2>4. QED
    BY <2>1, <2>3 DEF NormalFrontier, IrrelevanceFrontier
<1>3. pc' \in Working => SeedsBelow(Held', NormalFrontier', IrrelevanceFrontier')
  BY <1>1, <1>2, FrontierRises DEF SeedsOrdered
<1>4. QED
  BY <1>3 DEF SeedsOrdered

-----------------------------------------------------------------------------
(* Starting. *)

LEMMA EmptyPool ==
  /\ Distinct(<< >>)
  /\ \A n, m : SeedsBelow(<< >>, n, m)
  /\ IrrelevanceCount(<< >>) = 0
<1>1. Len(<< >>) = 0 /\ DOMAIN << >> = {}
  OBVIOUS
<1>2. Distinct(<< >>) /\ \A n, m : SeedsBelow(<< >>, n, m)
  BY <1>1 DEF Distinct, SeedsBelow
<1>3. IrrelevanceCount(<< >>) = Cardinality({})
  BY <1>1 DEF IrrelevanceCount
<1>4. QED
  BY <1>2, <1>3, FS_EmptySet

(* A process that holds the given tasks before its first request.          *)
LEMMA Fresh ==
  ASSUME NEW ts \in Seq(TaskSet), NEW r \in Nat,
         allTasks' = ts, roundTasks' = << >>, tasks' = << >>,
         normals' = 0, irrelevants' = 0, used' = {},
         recoveryRound' = r, Fits(roundRequests'), requestIndex' = 1,
         pc' \notin {"normal", "irrelevance"},
         Distinct(ts), SeedsBelow(ts, r * RoundStride, r * RoundStride + RequestStride - 1),
         IrrelevanceCount(ts) <= IrrelevanceTarget
  PROVE  Typed' /\ Places' /\ SeedsOrdered' /\ Spent' /\ WithinTarget' /\ Held' = ts
<1>1. Prefix' = ts /\ Held' = ts
  BY ConcatEmptySeq DEF Prefix, Held
<1>2. Seed' = r * RoundStride
  <2>1. Seed' = SeedAt(r, 1)
    BY DEF Seed, SeedAt
  <2>2. 1 \in 1 .. Len(RequestedDomains) + 1
    BY DomainsAssumption
  <2>3. QED
    BY <2>1, <2>2, SeedsOfRound
<1>3. Typed'
  <2>1. Len(roundRequests') \in Nat /\ RequestStride \in Nat
    BY StridesAssumption DEF Fits
  <2>2. << >> \in Seq(TaskSet)
    OBVIOUS
  <2>3. QED
    BY <2>1, <2>2 DEF Typed, Fits
<1>4. Places' /\ Spent'
  BY DEF Places, Working, Spent, Asking
<1>5. SeedsOrdered'
  BY <1>1, <1>2 DEF SeedsOrdered, NormalFrontier, IrrelevanceFrontier, Asking
<1>6. WithinTarget'
  <2>1. IrrelevanceCount(ts) \in Nat
    BY CountsAreNat
  <2>2. QED
    BY <1>1, <2>1 DEF WithinTarget
<1>7. QED
  BY <1>1, <1>3, <1>4, <1>5, <1>6

LEMMA StartFreshIInv ==
  ASSUME IInv, StartFresh
  PROVE  IInv'
<1>1. roundTasks = << >> /\ tasks = << >> /\ normals = 0 /\ irrelevants = 0 /\ used = {}
  BY DEF IInv, Places, StartFresh, Working
<1>2. Fits(roundRequests')
  <2>1. Request(All, PoolTarget) \in RequestSet
    BY TargetsAssumption DEF Request, RequestSet, Sizes
  <2>2. Len(RequestedDomains) \in Nat /\ Len(RequestedDomains) >= 1
    BY DomainsAssumption
  <2>3. QED
    BY <2>1, <2>2 DEF StartFresh, Fits
<1>3. /\ Typed' /\ Places' /\ SeedsOrdered' /\ Spent' /\ WithinTarget' /\ Held' = << >>
  <2>1. 0 \in Nat /\ << >> \in Seq(TaskSet) /\ 0 <= IrrelevanceTarget
    BY TargetsAssumption
  <2>2. /\ allTasks' = << >> /\ roundTasks' = << >> /\ tasks' = << >>
        /\ normals' = 0 /\ irrelevants' = 0 /\ used' = {}
        /\ recoveryRound' = 0 /\ requestIndex' = 1 /\ pc' \notin {"normal", "irrelevance"}
    BY <1>1 DEF StartFresh, request
  <2>3. QED
    BY <1>2, <2>1, <2>2, EmptyPool, Fresh
<1>4. checkpoint' = NoCheckpoint
  BY DEF StartFresh
<1>5. Saved'
  <2>1. checkpoint'.tasks = << >>
    BY <1>4 DEF NoCheckpoint
  <2>2. Len(<< >>) = 0
    OBVIOUS
  <2>3. QED
    BY <1>3, <2>1, <2>2 DEF Saved, Continues
<1>6. QED
  BY <1>3, <1>4, <1>5 DEF IInv, Written

LEMMA ResumeIInv ==
  ASSUME IInv, Resume
  PROVE  IInv'
<1>1. roundTasks = << >> /\ tasks = << >> /\ normals = 0 /\ irrelevants = 0 /\ used = {}
  BY DEF IInv, Places, Resume, Working
<1>2. CheckpointSound(checkpoint)
  BY DEF IInv, Written, Resume
<1>3. Typed' /\ Places' /\ SeedsOrdered' /\ Spent' /\ WithinTarget' /\ Held' = checkpoint.tasks
  <2>1. /\ allTasks' = checkpoint.tasks /\ roundTasks' = << >> /\ tasks' = << >>
        /\ normals' = 0 /\ irrelevants' = 0 /\ used' = {}
        /\ recoveryRound' = checkpoint.completed /\ requestIndex' = 1
        /\ roundRequests' = checkpoint.requests
        /\ pc' \notin {"normal", "irrelevance"}
    BY <1>1 DEF Resume, request
  <2>2. QED
    BY <1>2, <2>1, Fresh DEF CheckpointSound
<1>4. checkpoint' = checkpoint
  BY DEF Resume
<1>5. Saved'
  BY <1>3, <1>4 DEF Saved, Continues
<1>6. QED
  BY <1>2, <1>3, <1>4, <1>5 DEF IInv, Written

(* Outside of a round nothing moves but the place.                         *)
LEMMA OutsideIInv ==
  ASSUME IInv, pc' \notin Working, pc \notin Working, pc # "failed",
         UNCHANGED << checkpoint, pool, request, round >>
  PROVE  IInv'
<1> USE DEF IInv, pool, request, round
<1>1. Held' = Held /\ Prefix' = Prefix
  BY DEF Held, Prefix
<1>2. Typed'
  BY DEF Typed
<1>3. Places' /\ Spent'
  BY DEF Places, Working, Spent, Asking
<1>4. SeedsOrdered'
  BY <1>1 DEF SeedsOrdered
<1>5. WithinTarget'
  BY <1>1 DEF WithinTarget
<1>6. Saved' /\ Written'
  BY DEF Saved, Written
<1>7. QED
  BY <1>2, <1>3, <1>4, <1>5, <1>6

-----------------------------------------------------------------------------
(* Requests. *)

(* The next request: what was held stays, the range of the one before is   *)
(* used up.                                                                *)
LEMMA NextRequestIInv ==
  ASSUME IInv, pc \in Working, requestIndex <= Len(roundRequests),
         requestIndex' = requestIndex + 1, pc' = "round",
         roundTasks' = roundTasks \o tasks,
         tasks' = << >>, normals' = 0, irrelevants' = 0, used' = {},
         UNCHANGED << checkpoint, allTasks, recoveryRound, roundRequests >>
  PROVE  IInv'
<1> USE DEF IInv
<1>1. Typed'
  <2>1. roundTasks \o tasks \in Seq(TaskSet) /\ << >> \in Seq(TaskSet)
    BY ConcatProperties DEF Typed
  <2>2. requestIndex + 1 \in 1 .. Len(roundRequests) + 1
    BY DEF Typed, Fits
  <2>3. RequestStride \in Nat
    BY NumberFacts
  <2>4. QED
    BY <2>1, <2>2, <2>3 DEF Typed
<1>2. Held' = Held /\ Prefix' = Held
  <2>1. Prefix' = allTasks \o (roundTasks \o tasks) /\ Held' = Prefix' \o << >>
    BY DEF Prefix, Held
  <2>2. Prefix' = Held
    <3>1. allTasks \in Seq(TaskSet) /\ roundTasks \in Seq(TaskSet) /\ tasks \in Seq(TaskSet)
      BY DEF Typed
    <3>2. (allTasks \o roundTasks) \o tasks = allTasks \o (roundTasks \o tasks)
      BY <3>1, ConcatAssociative
    <3>3. QED
      BY <2>1, <3>2 DEF Prefix, Held
  <2>3. QED
    BY <2>1, <2>2, PoolFacts, ConcatEmptySeq
<1>3. Places' /\ Spent'
  BY DEF Places, Working, Spent, Asking
<1>4. Seed' = Seed + RequestStride
  <2>1. Seed' = SeedAt(recoveryRound, requestIndex + 1)
    BY DEF Seed, SeedAt
  <2>2. QED
    BY <2>1, NumberFacts, SeedsOfRound DEF Typed
<1>5. SeedsOrdered'
  <2>1. RequestStride \in Nat /\ Seed \in Nat
    BY NumberFacts
  <2>2. NormalFrontier' = Seed + RequestStride
        /\ IrrelevanceFrontier' = Seed + RequestStride + RequestStride - 1
    BY <1>4 DEF NormalFrontier, IrrelevanceFrontier, Asking
  <2>3. NormalFrontier <= NormalFrontier' /\ IrrelevanceFrontier <= IrrelevanceFrontier'
    BY <2>1, <2>2 DEF NormalFrontier, IrrelevanceFrontier, Asking
  <2>4. QED
    BY <1>1, <1>2, <2>3, FrontierMoves
<1>6. WithinTarget'
  <2>1. IrrelevanceCount(Held) <= IrrelevanceTarget /\ IrrelevanceCount(Held) \in Nat
    BY PoolFacts, TargetsAssumption DEF WithinTarget, Typed
  <2>2. QED
    BY <1>2, <2>1 DEF WithinTarget
<1>7. Saved' /\ Written'
  BY <1>2 DEF Saved, Written
<1>8. QED
  BY <1>1, <1>3, <1>5, <1>6, <1>7

LEMMA SkipRequestIInv ==
  ASSUME IInv, SkipRequest
  PROVE  IInv'
<1>1. pc = "round" /\ pc' = "round" /\ requestIndex <= Len(roundRequests)
  BY DEF SkipRequest, AtRequest
<1>2. tasks = << >> /\ normals = 0 /\ irrelevants = 0 /\ used = {}
  BY <1>1 DEF IInv, Places
<1>3. roundTasks \o tasks = roundTasks
  BY <1>2, ConcatEmptySeq DEF IInv, Typed
<1>4. pc \in Working
  BY <1>1 DEF Working
<1>5. QED
  BY <1>1, <1>2, <1>3, <1>4, NextRequestIInv DEF SkipRequest, pool, request

LEMMA RequestEndsIInv ==
  ASSUME IInv, RequestReturns
  PROVE  IInv'
<1>1. pc \in Working /\ requestIndex <= Len(roundRequests)
  BY DEF IInv, Places, RequestReturns, Working
<1>2. QED
  BY <1>1, NextRequestIInv DEF RequestReturns, Cleared

LEMMA ZeroYieldIInv ==
  ASSUME IInv, ZeroYield
  PROVE  IInv'
<1> USE DEF IInv
<1>1. pc \in Working /\ requestIndex <= Len(roundRequests)
  BY DEF Places, ZeroYield, Working
<1>2. tasks = << >> /\ irrelevants = 0
  BY DEF ZeroYield, Typed, Places
<1>3. roundTasks \o tasks = roundTasks
  BY <1>2, ConcatEmptySeq DEF Typed
<1>4. CASE pc' = "round"
  BY <1>1, <1>3, <1>4, NextRequestIInv DEF ZeroYield, Cleared, pool
<1>5. CASE pc' = "failed"
  <2>1. /\ UNCHANGED << checkpoint, allTasks, roundTasks, recoveryRound, roundRequests, requestIndex >>
        /\ tasks' = << >> /\ normals' = 0 /\ irrelevants' = 0 /\ used' = {}
    BY <1>5 DEF ZeroYield, Cleared, pool
  <2>2. Held' = Held /\ Prefix' = Prefix
    BY <1>2, <2>1 DEF Held, Prefix
  <2>3. Typed'
    BY <1>2, <2>1, NumberFacts DEF Typed
  <2>4. Places' /\ Spent'
    BY <1>5, <2>1 DEF Places, Working, Spent, Asking
  <2>5. SeedsOrdered'
    BY <1>5, <2>2 DEF SeedsOrdered, Working
  <2>6. WithinTarget'
    BY <1>2, <2>1, <2>2 DEF WithinTarget
  <2>7. Saved' /\ Written'
    BY <1>5, <2>1 DEF Saved, Written, Working
  <2>8. QED
    BY <2>3, <2>4, <2>5, <2>6, <2>7
<1>6. pc' \in {"round", "failed"}
  BY DEF ZeroYield
<1>7. QED
  BY <1>4, <1>5, <1>6

LEMMA BeginRequestIInv ==
  ASSUME IInv, BeginRequest
  PROVE  IInv'
<1> USE DEF IInv
<1>1. /\ pc = "round" /\ pc' = "normal" /\ requestIndex <= Len(roundRequests)
      /\ UNCHANGED << checkpoint, allTasks, roundTasks, tasks, normals, irrelevants, used,
                      recoveryRound, roundRequests, requestIndex >>
  BY DEF BeginRequest, AtRequest, pool, round
<1>2. irrelevants = 0 /\ tasks = << >> /\ used = {}
  BY <1>1 DEF Places
<1>3. Held' = Held /\ Prefix' = Prefix /\ Seed' = Seed
  BY <1>1 DEF Held, Prefix, Seed
<1>4. Typed'
  BY <1>1 DEF Typed
<1>5. Places'
  BY <1>1, <1>2 DEF Places, Working
<1>6. SeedsOrdered'
  <2>1. Seed \in Nat /\ RequestStride \in Nat
    BY NumberFacts
  <2>2. /\ pc \in Working
        /\ NormalFrontier = Seed /\ NormalFrontier' = Seed + RequestStride
        /\ IrrelevanceFrontier' = IrrelevanceFrontier
        /\ IrrelevanceFrontier \in Int
    BY <1>1, <1>2, <1>3, NumberFacts DEF NormalFrontier, IrrelevanceFrontier, Working, Asking
  <2>3. NormalFrontier <= NormalFrontier' /\ IrrelevanceFrontier <= IrrelevanceFrontier'
    BY <2>1, <2>2
  <2>4. QED
    BY <1>3, <1>4, <2>2, <2>3, FrontierMoves
<1>7. Spent'
  <2>1. SeedsBelow(Held, Seed, IrrelevanceFrontier) /\ First' = Seed
    BY <1>1, <1>3 DEF SeedsOrdered, NormalFrontier, Asking, Working, First
  <2>2. From(Held, "normal", Seed, used)
    BY <2>1 DEF From, SeedsBelow
  <2>3. QED
    BY <1>1, <1>3, <2>1, <2>2 DEF Spent
<1>8. WithinTarget'
  BY <1>1, <1>3 DEF WithinTarget
<1>9. Saved' /\ Written'
  BY <1>1, <1>3 DEF Saved, Written, Working
<1>10. QED
  BY <1>4, <1>5, <1>6, <1>7, <1>8, <1>9

LEMMA FromAppended ==
  ASSUME NEW ts \in Seq(TaskSet), NEW x \in TaskSet, NEW kind, NEW first \in Int,
         NEW offsets, NEW k, From(ts, kind, first, offsets),
         x.kind = kind, x.seed = first + k
  PROVE  /\ From(ts, kind, first, offsets \union {k})
         /\ From(Append(ts, x), kind, first, offsets \union {k})
<1> DEFINE t == Append(ts, x)
<1>1. /\ Len(ts) \in Nat /\ Len(t) = Len(ts) + 1
      /\ t[Len(ts) + 1] = x /\ \A i \in 1 .. Len(ts) : t[i] = ts[i]
  BY AppendedTask
<1> HIDE DEF t
<1>2. From(ts, kind, first, offsets \union {k})
  BY DEF From
<1>3. From(t, kind, first, offsets \union {k})
  <2> SUFFICES ASSUME NEW i \in 1 .. Len(t), t[i].kind = kind
               PROVE  \/ t[i].seed < first
                      \/ \E l \in offsets \union {k} : t[i].seed = first + l
    BY DEF From
  <2>1. CASE i = Len(ts) + 1
    BY <1>1, <2>1
  <2>2. CASE i \in 1 .. Len(ts)
    BY <1>1, <1>2, <2>2 DEF From
  <2>3. QED
    BY <1>1, <2>1, <2>2
<1>4. QED
  BY <1>2, <1>3 DEF t

(* What holds after a step of a request that may have added a task.        *)
Grown(count) ==
  /\ tasks' \in Seq(TaskSet) /\ Held' \in Seq(TaskSet)
  /\ used' \in SUBSET (0 .. RequestStride - 1)
  /\ Distinct(Held') /\ SeedsBelow(Held', NormalFrontier, IrrelevanceFrontier)
  /\ SeedsOrdered' /\ Spent'
  /\ Continues(Held, Held') /\ Continues(checkpoint.tasks, Held')
  /\ IrrelevanceCount(Held') <= count

LEMMA TaskAdded ==
  ASSUME IInv, pc \in Asking,
         UNCHANGED << pc, allTasks, roundTasks, recoveryRound, requestIndex >>,
         checkpoint.tasks \in Seq(TaskSet),
         NEW k \in 0 .. RequestStride - 1, k \notin used, used' = used \union {k},
         NEW d \in Domains \union {All}, NEW counts \in BOOLEAN,
         tasks' = tasks \/ tasks' = Append(tasks, Task(pc, d, First + k, counts))
  PROVE  Grown(IrrelevanceCount(Held) + IF pc = "irrelevance" THEN 1 ELSE 0)
<1> USE DEF IInv
<1> DEFINE x == Task(pc, d, First + k, counts)
           n == NormalFrontier
           m == IrrelevanceFrontier
           count == IrrelevanceCount(Held) + IF pc = "irrelevance" THEN 1 ELSE 0
<1>1. /\ Held \in Seq(TaskSet) /\ Prefix \in Seq(TaskSet) /\ tasks \in Seq(TaskSet)
      /\ IrrelevanceCount(Held) \in Nat /\ count \in Nat
      /\ n \in Int /\ m \in Int /\ First \in Int /\ Seed \in Nat
      /\ RequestStride \in Nat /\ k \in Nat
  <2>1. RequestStride \in Nat /\ k \in Nat
    BY NumberFacts
  <2>2. IrrelevanceCount(Held) \in Nat /\ count \in Nat
    BY PoolFacts
  <2>3. tasks \in Seq(TaskSet)
    BY DEF Typed
  <2>4. QED
    BY <2>1, <2>2, <2>3, PoolFacts, NumberFacts
<1>2. /\ Distinct(Held) /\ SeedsBelow(Held, n, m) /\ From(Held, pc, First, used)
      /\ Continues(checkpoint.tasks, Held)
  BY DEF SeedsOrdered, Spent, Saved, Working, Asking
<1>3. x \in TaskSet /\ x.kind = pc /\ x.seed = First + k
  <2>1. First \in Nat
    <3>1. RequestStride >= 1
      BY <1>1
    <3>2. QED
      BY <1>1, <3>1 DEF First
  <2>2. First + k \in Nat /\ pc \in {"normal", "irrelevance"}
    BY <1>1, <2>1 DEF Asking
  <2>3. QED
    BY <2>2 DEF Task, TaskSet
<1>4. x.seed < IF x.kind = "normal" THEN n ELSE m
  BY <1>1, <1>3 DEF First, NormalFrontier, IrrelevanceFrontier, Asking
<1>5. \A i \in 1 .. Len(Held) : Held[i].kind = x.kind => Held[i].seed # x.seed
  <2> SUFFICES ASSUME NEW i \in 1 .. Len(Held), Held[i].kind = pc
               PROVE  Held[i].seed # First + k
    BY <1>3
  <2>1. Held[i].seed < First \/ \E l \in used : Held[i].seed = First + l
    BY <1>2 DEF From
  <2>2. used \in SUBSET (0 .. RequestStride - 1)
    BY DEF Typed
  <2>3. QED
    BY <1>1, <2>1, <2>2
<1>6. Prefix' = Prefix /\ Held' = Prefix \o tasks' /\ Seed' = Seed
  BY DEF Prefix, Held, Seed
<1>7. n' = n /\ m' = m /\ First' = First
  BY <1>6 DEF NormalFrontier, IrrelevanceFrontier, First
<1>8. used' \in SUBSET (0 .. RequestStride - 1)
  BY DEF Typed
<1>9. tasks' = tasks \/ tasks' = Append(tasks, x)
  OBVIOUS
<1>10. From(Held, pc, First, used') /\ From(Append(Held, x), pc, First, used')
  <2> HIDE DEF x
  <2>1. QED
    BY <1>1, <1>2, <1>3, FromAppended
<1>11. Continues(Held, Held)
  <2>1. Len(Held) \in Nat
    BY <1>1
  <2>2. QED
    BY <2>1 DEF Continues
<1> DEFINE Good(ts) ==
      /\ ts \in Seq(TaskSet) /\ Distinct(ts) /\ SeedsBelow(ts, n, m)
      /\ From(ts, pc, First, used')
      /\ Continues(Held, ts) /\ Continues(checkpoint.tasks, ts)
      /\ IrrelevanceCount(ts) <= count
<1>12. ASSUME NEW ts, Held' = ts, Good(ts), tasks' \in Seq(TaskSet)
       PROVE  Grown(count)
  BY <1>6, <1>7, <1>8, <1>12 DEF Grown, SeedsOrdered, Spent
<1>13. CASE tasks' = tasks
  <2>1. Held' = Held
    BY <1>6, <1>13 DEF Held
  <2>2. Good(Held)
    BY <1>1, <1>2, <1>10, <1>11
  <2>3. QED
    BY <1>1, <1>12, <1>13, <2>1, <2>2
<1>14. CASE tasks' = Append(tasks, x)
  <2> HIDE DEF x
  <2>1. Held' = Append(Held, x)
    BY <1>1, <1>3, <1>6, <1>14, AppendToConcat DEF Held
  <2>2. tasks' \in Seq(TaskSet) /\ Append(Held, x) \in Seq(TaskSet)
    BY <1>1, <1>3, <1>14
  <2>3. Distinct(Append(Held, x)) /\ SeedsBelow(Append(Held, x), n, m)
    <3> HIDE DEF n, m
    <3>1. n <= n /\ m <= m
      BY <1>1
    <3>2. QED
      BY <1>1, <1>2, <1>3, <1>4, <1>5, <3>1, DistinctAppended
  <2>4. Continues(checkpoint.tasks, Append(Held, x)) /\ Continues(Held, Append(Held, x))
    BY <1>1, <1>2, <1>3, <1>11, AppendContinues
  <2>5. IrrelevanceCount(Append(Held, x)) <= count
    BY <1>1, <1>3, <2>2, IrrelevanceOfAppend, CountsAreNat
  <2>6. Good(Append(Held, x))
    BY <1>10, <2>2, <2>3, <2>4, <2>5
  <2> HIDE DEF Good
  <2>7. QED
    BY <1>12, <2>1, <2>2, <2>6
<1>15. QED
  BY <1>9, <1>13, <1>14

LEMMA CheckpointTasks ==
  ASSUME Written
  PROVE  checkpoint.tasks \in Seq(TaskSet)
<1>1. CASE checkpoint = NoCheckpoint
  <2>1. checkpoint.tasks = << >>
    BY <1>1 DEF NoCheckpoint
  <2>2. QED
    BY <2>1
<1>2. CASE checkpoint # NoCheckpoint
  BY <1>2 DEF Written, CheckpointSound
<1>3. QED
  BY <1>1, <1>2

LEMMA CandidateIInv ==
  ASSUME IInv, CandidateAccepted
  PROVE  IInv' /\ Continues(checkpoint.tasks, Held')
<1> USE DEF IInv
<1>1. /\ pc = "normal" /\ pc' = "normal" /\ requestIndex <= Len(roundRequests)
      /\ normals' = normals + 1
      /\ UNCHANGED << allTasks, roundTasks, irrelevants, recoveryRound, roundRequests, requestIndex >>
  BY DEF CandidateAccepted, Places, pool, round
<1>2. /\ RequestStride \in Nat /\ Seed \in Nat /\ used \in SUBSET (0 .. RequestStride - 1)
      /\ IrrelevanceCount(Prefix) \in Nat /\ IrrelevanceCount(Held) \in Nat
      /\ irrelevants = 0 /\ IrrelevanceTarget \in Nat
  BY <1>1, NumberFacts, PoolFacts, TargetsAssumption DEF Typed, Places
<1>3. IrrelevanceCount(Prefix) <= IrrelevanceTarget /\ IrrelevanceCount(Held) <= IrrelevanceCount(Prefix)
  BY <1>2 DEF WithinTarget
<1> DEFINE n == Attempts(Current.count - Irrelevance)
<1>4. PICK k \in Candidates(n, MaxOvertaken) :
        /\ used' = used \union {k}
        /\ \/ tasks' = tasks
           \/ \E d \in Domains \union {All}, counts \in BOOLEAN :
                tasks' = Append(tasks, Task("normal", d, Seed + k, counts))
  BY DEF CandidateAccepted
<1>5. k \in 0 .. RequestStride - 1 /\ k \notin used
  <2>1. n \in Nat /\ n <= RequestStride
    BY <1>1, <1>3, RequestFacts
  <2> HIDE DEF n
  <2>2. QED
    BY <1>2, <2>1, LimitsAssumption, AcceptedSeed
<1> HIDE DEF n
<1>6. PICK d \in Domains \union {All}, counts \in BOOLEAN :
        tasks' = tasks \/ tasks' = Append(tasks, Task("normal", d, Seed + k, counts))
  BY <1>4
<1>7. pc \in Asking /\ checkpoint.tasks \in Seq(TaskSet) /\ First = Seed
  BY <1>1, CheckpointTasks DEF Asking, First
<1> DEFINE N == NormalFrontier
           M == IrrelevanceFrontier
<1>8. N = Seed + RequestStride /\ M = Seed + RequestStride - 1 /\ N \in Int /\ M \in Int
  BY <1>1, <1>2 DEF NormalFrontier, IrrelevanceFrontier, Asking
<1>12. Grown(IrrelevanceCount(Held))
  <2>1. tasks' = tasks \/ tasks' = Append(tasks, Task(pc, d, First + k, counts))
    BY <1>1, <1>6, <1>7
  <2>2. UNCHANGED << pc, allTasks, roundTasks, recoveryRound, requestIndex >>
    BY <1>1
  <2>3. Grown(IrrelevanceCount(Held) + IF pc = "irrelevance" THEN 1 ELSE 0)
    BY <1>4, <1>5, <1>7, <2>1, <2>2, TaskAdded
  <2>4. IrrelevanceCount(Held) + (IF pc = "irrelevance" THEN 1 ELSE 0) = IrrelevanceCount(Held)
    BY <1>1, <1>2
  <2>5. QED
    BY <2>3, <2>4
<1> HIDE DEF N, M
<1>13. Held' = Prefix \o tasks' /\ Prefix' = Prefix /\ Seed' = Seed
  BY <1>1 DEF Held, Prefix, Seed
<1>14. Typed'
  BY <1>1, <1>12 DEF Typed, Grown
<1>15. Places'
  BY <1>1, <1>2 DEF Places, Working, Typed
<1>16. SeedsOrdered' /\ Spent'
  BY <1>12 DEF Grown
<1>17. IrrelevanceCount(Held') <= IrrelevanceCount(Prefix) /\ IrrelevanceCount(Held') \in Nat
  BY <1>2, <1>3, <1>12, CountsAreNat DEF Grown
<1>18. WithinTarget'
  BY <1>1, <1>2, <1>3, <1>13, <1>17 DEF WithinTarget
<1>19. \/ UNCHANGED checkpoint
       \/ checkpoint' = Checkpoint(recoveryRound + 1, Asked(Requests(Held')), Held')
  BY <1>13 DEF CandidateAccepted, Progress
<1>20. Continues(checkpoint.tasks, Held')
  BY <1>12 DEF Grown
<1>21. CASE UNCHANGED checkpoint
  BY <1>14, <1>15, <1>16, <1>18, <1>20, <1>21 DEF Saved, Written
<1>22. CASE checkpoint' = Checkpoint(recoveryRound + 1, Asked(Requests(Held')), Held')
  <2> DEFINE c == recoveryRound + 1
             ts == Held'
  <2>1. /\ c \in Nat /\ ts \in Seq(TaskSet) /\ Distinct(ts)
        /\ IrrelevanceCount(ts) <= IrrelevanceTarget
    BY <1>2, <1>3, <1>12, <1>17 DEF Typed, Grown
  <2>2. N <= c * RoundStride /\ M <= c * RoundStride + RequestStride - 1
        /\ c * RoundStride \in Nat
    <3>1. requestIndex \in 1 .. Len(RequestedDomains) /\ Len(RequestedDomains) \in Nat
      BY <1>1, DomainsAssumption DEF Typed, Fits
    <3>2. /\ SeedAt(recoveryRound, requestIndex + 1) = Seed + RequestStride
          /\ SeedAt(recoveryRound, requestIndex + 1) <= c * RoundStride
          /\ c * RoundStride \in Nat
      <4>1. /\ requestIndex \in 1 .. Len(RequestedDomains) + 1
            /\ requestIndex + 1 \in 1 .. Len(RequestedDomains) + 1
        BY <3>1
      <4>2. recoveryRound \in Nat /\ Seed = SeedAt(recoveryRound, requestIndex)
        BY NumberFacts DEF Typed
      <4>3. SeedAt(recoveryRound, requestIndex + 1) = Seed + RequestStride
        BY <4>1, <4>2, SeedsOfRound
      <4>4. QED
        BY <4>1, <4>2, <4>3, SeedsOfRound
    <3> HIDE DEF c
    <3> DEFINE e == c * RoundStride
    <3>3. e \in Nat /\ Seed + RequestStride <= e
      BY <3>2
    <3> HIDE DEF e
    <3>4. N <= e /\ M <= e + RequestStride - 1
      BY <1>2, <1>8, <3>3
    <3>5. QED
      BY <3>2, <3>4 DEF e
  <2>3. SeedsBelow(ts, c * RoundStride, c * RoundStride + RequestStride - 1)
    <3> DEFINE e == c * RoundStride
               f == c * RoundStride + RequestStride - 1
    <3>1. e \in Int /\ f \in Int /\ N <= e /\ M <= f
      BY <1>2, <2>2
    <3>2. SeedsBelow(ts, N, M)
      BY <1>12 DEF Grown, N, M
    <3> HIDE DEF c, e, f, ts
    <3>3. SeedsBelow(ts, e, f)
      BY <1>8, <2>1, <3>1, <3>2, FrontierRises
    <3>4. QED
      BY <3>3 DEF e, f
  <2>4. Fits(Asked(Requests(ts))) /\ Asked(Requests(ts)) # << >>
    BY <2>1, RequestsFit
  <2>5. CheckpointSound(checkpoint')
    <3>1. checkpoint' = Checkpoint(c, Asked(Requests(ts)), ts)
      BY <1>22
    <3> HIDE DEF c, ts
    <3>2. QED
      BY <2>1, <2>3, <2>4, <3>1, CheckpointWritten
  <2>6. checkpoint'.tasks = Held'
    BY <1>22 DEF Checkpoint
  <2>7. Saved'
    <3>1. Len(Held') \in Nat
      BY <1>12 DEF Grown
    <3>2. QED
      BY <2>6, <3>1 DEF Saved, Continues
  <2>8. QED
    BY <1>14, <1>15, <1>16, <1>18, <1>20, <2>5, <2>7 DEF Written
<1>23. QED
  BY <1>19, <1>21, <1>22

LEMMA CandidatesEndIInv ==
  ASSUME IInv, CandidatesEnd
  PROVE  IInv'
<1> USE DEF IInv
<1>1. /\ pc = "normal" /\ pc' = "irrelevance" /\ used' = {}
      /\ UNCHANGED << checkpoint, allTasks, roundTasks, tasks, normals, irrelevants,
                      recoveryRound, roundRequests, requestIndex >>
  BY DEF CandidatesEnd, pool, round
<1>2. Held' = Held /\ Prefix' = Prefix /\ Seed' = Seed
  BY <1>1 DEF Held, Prefix, Seed
<1>3. RequestStride \in Nat /\ Seed \in Nat
  BY NumberFacts
<1>4. Typed'
  BY <1>1 DEF Typed
<1>5. Places'
  BY <1>1 DEF Places, Working
<1>6. SeedsOrdered'
  <2>1. /\ NormalFrontier = Seed + RequestStride /\ NormalFrontier' = Seed + RequestStride
        /\ IrrelevanceFrontier = Seed + RequestStride - 1
        /\ IrrelevanceFrontier' = Seed + RequestStride + RequestStride - 1
    BY <1>1, <1>2 DEF NormalFrontier, IrrelevanceFrontier, Asking
  <2>2. NormalFrontier <= NormalFrontier' /\ IrrelevanceFrontier <= IrrelevanceFrontier'
    BY <1>3, <2>1
  <2>3. pc \in Working
    BY <1>1 DEF Working
  <2>4. QED
    BY <1>2, <1>4, <2>2, <2>3, FrontierMoves
<1>7. Spent'
  <2>1. SeedsBelow(Held, NormalFrontier, Seed + RequestStride - 1)
    BY <1>1 DEF SeedsOrdered, IrrelevanceFrontier, Working
  <2>2. From(Held, "irrelevance", Seed + RequestStride - 1, {})
    BY <2>1 DEF From, SeedsBelow
  <2>3. QED
    BY <1>1, <1>2, <2>2 DEF Spent, First
<1>8. WithinTarget'
  BY <1>1, <1>2 DEF WithinTarget
<1>9. Saved' /\ Written'
  BY <1>1, <1>2 DEF Saved, Written, Working
<1>10. QED
  BY <1>4, <1>5, <1>6, <1>7, <1>8, <1>9

LEMMA IrrelevanceIInv ==
  ASSUME IInv, IrrelevanceAccepted
  PROVE  IInv'
<1> USE DEF IInv
<1>1. /\ pc = "irrelevance" /\ pc' = "irrelevance" /\ requestIndex <= Len(roundRequests)
      /\ irrelevants < Irrelevance /\ irrelevants' = irrelevants + 1
      /\ UNCHANGED << checkpoint, allTasks, roundTasks, normals, recoveryRound, roundRequests,
                      requestIndex >>
  BY DEF IrrelevanceAccepted, Places, pool, round
<1>2. /\ RequestStride \in Nat /\ Seed \in Nat /\ used \in SUBSET (0 .. RequestStride - 1)
      /\ IrrelevanceCount(Prefix) \in Nat /\ IrrelevanceCount(Held) \in Nat
      /\ irrelevants \in Nat /\ normals \in Nat /\ IrrelevanceTarget \in Nat
  BY <1>1, NumberFacts, PoolFacts, TargetsAssumption DEF Typed
<1>3. /\ IrrelevanceCount(Prefix) <= IrrelevanceTarget
      /\ IrrelevanceCount(Held) <= IrrelevanceCount(Prefix) + irrelevants
  BY <1>2 DEF WithinTarget
<1>4. /\ Irrelevance \in 0 .. IrrelevanceTarget
      /\ Irrelevance <= IrrelevanceTarget - IrrelevanceCount(Prefix)
  BY <1>1, <1>3, RequestFacts
<1> DEFINE n == IrrelevanceAttempts(Irrelevance)
<1>5. PICK k \in Candidates(n, MaxRejected) :
        /\ used' = used \union {k}
        /\ \/ tasks' = tasks
           \/ \E d \in Domains \union {All}, counts \in BOOLEAN :
                tasks' = Append(tasks,
                           Task("irrelevance", d, Seed + RequestStride - 1 + k, counts))
  BY DEF IrrelevanceAccepted
<1>6. k \in 0 .. RequestStride - 1 /\ k \notin used
  <2>1. n \in Nat /\ n <= RequestStride
    <3>1. 5 * Irrelevance \in Nat /\ Irrelevance + 4 \in Nat
      BY <1>4
    <3>2. n \in Nat
      BY <3>1, MaxOfTwo DEF IrrelevanceAttempts
    <3>3. RequestStride >= n
      BY <1>4, StridesAssumption
    <3> HIDE DEF n
    <3>4. QED
      BY <1>2, <3>2, <3>3
  <2> HIDE DEF n
  <2>2. QED
    BY <1>2, <2>1, LimitsAssumption, AcceptedSeed
<1> HIDE DEF n
<1>7. PICK d \in Domains \union {All}, counts \in BOOLEAN :
        \/ tasks' = tasks
        \/ tasks' = Append(tasks, Task("irrelevance", d, Seed + RequestStride - 1 + k, counts))
  BY <1>5
<1>8. pc \in Asking /\ checkpoint.tasks \in Seq(TaskSet) /\ First = Seed + RequestStride - 1
  BY <1>1, CheckpointTasks DEF Asking, First
<1>13. Grown(IrrelevanceCount(Held) + 1)
  <2>1. tasks' = tasks \/ tasks' = Append(tasks, Task(pc, d, First + k, counts))
    BY <1>1, <1>7, <1>8
  <2>2. UNCHANGED << pc, allTasks, roundTasks, recoveryRound, requestIndex >>
    BY <1>1
  <2>3. Grown(IrrelevanceCount(Held) + IF pc = "irrelevance" THEN 1 ELSE 0)
    BY <1>5, <1>6, <1>8, <2>1, <2>2, TaskAdded
  <2>4. QED
    BY <1>1, <2>3
<1>14. Prefix' = Prefix /\ Seed' = Seed
  BY <1>1 DEF Prefix, Seed
<1>15. Typed'
  BY <1>1, <1>2, <1>13 DEF Typed, Grown
<1>16. Places'
  BY <1>1, <1>2 DEF Places, Working
<1>17. SeedsOrdered' /\ Spent'
  BY <1>13 DEF Grown
<1>18. WithinTarget'
  <2>1. IrrelevanceCount(Held') <= IrrelevanceCount(Held) + 1 /\ IrrelevanceCount(Held') \in Nat
    BY <1>13, CountsAreNat DEF Grown
  <2>2. /\ IrrelevanceCount(Held') <= IrrelevanceCount(Prefix) + (irrelevants + 1)
        /\ IrrelevanceCount(Prefix) + (irrelevants + 1) <= IrrelevanceTarget
    BY <1>1, <1>2, <1>3, <1>4, <2>1
  <2>3. QED
    BY <1>1, <1>14, <2>2 DEF WithinTarget
<1>19. Saved' /\ Written'
  BY <1>1, <1>13 DEF Saved, Written, Grown
<1>20. QED
  BY <1>15, <1>16, <1>17, <1>18, <1>19

-----------------------------------------------------------------------------
(* The end of a round, failures and restarts. *)

LEMMA EndRoundIInv ==
  ASSUME IInv, EndRound
  PROVE  /\ IInv'
         /\ UNCHANGED checkpoint \/ (checkpoint'.tasks = Held /\ checkpoint' # NoCheckpoint)
<1> USE DEF IInv
<1>1. /\ pc = "round" /\ requestIndex > Len(roundRequests)
      /\ allTasks' = Prefix /\ roundTasks' = << >>
      /\ UNCHANGED << tasks, normals, irrelevants, used >>
  BY DEF EndRound, request
<1>2. tasks = << >> /\ normals = 0 /\ irrelevants = 0 /\ used = {}
  BY <1>1 DEF Places
<1>3. Prefix \in Seq(TaskSet) /\ Held = Prefix
  BY <1>2, PoolFacts, ConcatEmptySeq DEF Held
<1>4. Held' = Held /\ Prefix' = Prefix
  BY <1>1, <1>2, <1>3, ConcatEmptySeq DEF Held, Prefix
<1>5. IrrelevanceCount(Held) <= IrrelevanceTarget /\ Distinct(Held)
  <2>1. IrrelevanceCount(Prefix) \in Nat /\ IrrelevanceTarget \in Nat
    BY PoolFacts, TargetsAssumption
  <2>2. QED
    BY <1>2, <1>3, <2>1 DEF WithinTarget, SeedsOrdered
<1>6. CASE Requests(Prefix) = << >>
  <2>1. pc' = "split" /\ UNCHANGED << checkpoint, recoveryRound, roundRequests, requestIndex >>
    BY <1>6 DEF EndRound, round
  <2>2. Typed'
    BY <1>1, <1>3, <2>1 DEF Typed
  <2>3. Places' /\ Spent'
    BY <1>1, <1>2, <2>1 DEF Places, Working, Spent, Asking
  <2>4. SeedsOrdered'
    BY <1>4, <2>1 DEF SeedsOrdered, Working
  <2>5. WithinTarget'
    BY <1>1, <1>4 DEF WithinTarget
  <2>6. Saved' /\ Written'
    BY <2>1 DEF Saved, Written, Working
  <2>7. QED
    BY <2>1, <2>2, <2>3, <2>4, <2>5, <2>6
<1>7. CASE Requests(Prefix) # << >>
  <2> DEFINE c == recoveryRound + 1
  <2>1. /\ checkpoint' = Checkpoint(c, Requests(Prefix), Prefix)
        /\ roundRequests' = Requests(Prefix) /\ requestIndex' = 1 /\ recoveryRound' = c
        /\ pc' \in {"round", "final"}
    BY <1>7 DEF EndRound
  <2>2. c \in Nat /\ Fits(Requests(Prefix))
    BY <1>3, RequestsFit DEF Typed
  <2>3. Seed \in Nat /\ RequestStride \in Nat /\ Seed <= c * RoundStride /\ c * RoundStride \in Nat
    BY NumberFacts, SeedsOfRound DEF Typed
  <2>4. SeedsBelow(Prefix, Seed, Seed + RequestStride - 1)
    BY <1>1, <1>3 DEF SeedsOrdered, NormalFrontier, IrrelevanceFrontier, Working, Asking
  <2>5. SeedsBelow(Prefix, c * RoundStride, c * RoundStride + RequestStride - 1)
    <3> DEFINE e == c * RoundStride
               f == c * RoundStride + RequestStride - 1
               m == Seed + RequestStride - 1
    <3>1. e \in Int /\ f \in Int /\ m \in Int /\ Seed <= e /\ m <= f /\ Seed \in Int
      BY <2>3
    <3>2. SeedsBelow(Prefix, Seed, m)
      BY <2>4
    <3> HIDE DEF c, e, f, m
    <3>3. SeedsBelow(Prefix, e, f)
      BY <1>3, <3>1, <3>2, FrontierRises
    <3>4. QED
      BY <3>3 DEF e, f
  <2>6. /\ tasks' = << >> /\ normals' = 0 /\ irrelevants' = 0 /\ used' = {}
        /\ pc' \notin {"normal", "irrelevance"} /\ Fits(roundRequests')
    BY <1>1, <1>2, <2>1, <2>2
  <2> HIDE DEF c
  <2>7. Typed' /\ Places' /\ SeedsOrdered' /\ Spent' /\ WithinTarget' /\ Held' = Prefix
    BY <1>1, <1>3, <1>5, <2>1, <2>2, <2>5, <2>6, Fresh
  <2>8. CheckpointSound(checkpoint')
    BY <1>3, <1>5, <1>7, <2>1, <2>2, <2>5, CheckpointWritten
  <2>9. checkpoint'.tasks = Held /\ checkpoint' # NoCheckpoint
    BY <1>3, <2>1, CheckpointIsNotMissing DEF Checkpoint
  <2>10. Saved'
    <3>1. Len(Held) \in Nat
      BY <1>3
    <3>2. QED
      BY <1>4, <2>9, <3>1 DEF Saved, Continues
  <2>11. QED
    BY <2>7, <2>8, <2>9, <2>10 DEF Written
<1>8. QED
  BY <1>6, <1>7

LEMMA RaisesIInv ==
  ASSUME IInv, Raises
  PROVE  IInv'
<1> USE DEF IInv
<1>1. /\ pc' = "failed" /\ roundTasks' = << >> /\ tasks' = << >>
      /\ normals' = 0 /\ irrelevants' = 0 /\ used' = {}
      /\ UNCHANGED << checkpoint, allTasks, recoveryRound, roundRequests, requestIndex >>
  BY DEF Raises, Cleared, round
<1>2. allTasks \in Seq(TaskSet)
  BY DEF Typed
<1>3. Prefix' = allTasks /\ Held' = allTasks
  BY <1>1, <1>2, ConcatEmptySeq DEF Held, Prefix
<1>4. Typed'
  BY <1>1, NumberFacts DEF Typed
<1>5. Places' /\ Spent'
  BY <1>1 DEF Places, Working, Spent, Asking
<1>6. Continues(allTasks, Held) /\ Held \in Seq(TaskSet)
  BY PoolFacts
<1>7. SeedsOrdered'
  <2>1. Distinct(allTasks)
    BY <1>2, <1>6 DEF Continues, Distinct, SeedsOrdered
  <2>2. QED
    BY <1>1, <1>3, <2>1 DEF SeedsOrdered, Working
<1>8. WithinTarget'
  <2>1. IrrelevanceCount(allTasks) <= IrrelevanceCount(Held)
    BY <1>2, <1>6, IrrelevanceOfPrefix
  <2>2. /\ IrrelevanceCount(allTasks) \in Nat /\ IrrelevanceCount(Held) \in Nat
        /\ IrrelevanceCount(Prefix) \in Nat /\ irrelevants \in Nat /\ IrrelevanceTarget \in Nat
    BY <1>2, CountsAreNat, PoolFacts, TargetsAssumption DEF Typed
  <2>3. IrrelevanceCount(allTasks) <= IrrelevanceTarget
    BY <2>1, <2>2 DEF WithinTarget
  <2>4. QED
    BY <1>1, <1>3, <2>2, <2>3 DEF WithinTarget
<1>9. Saved' /\ Written'
  BY <1>1 DEF Saved, Written, Working
<1>10. QED
  BY <1>4, <1>5, <1>7, <1>8, <1>9

LEMMA NoRequestsFit == Fits(<< >>)
<1>1. Len(RequestedDomains) \in Nat
  BY DomainsAssumption
<1>2. QED
  BY <1>1 DEF Fits

LEMMA RestartIInv ==
  ASSUME IInv, Restart
  PROVE  IInv'
<1>1. /\ allTasks' = << >> /\ roundTasks' = << >> /\ tasks' = << >>
      /\ normals' = 0 /\ irrelevants' = 0 /\ used' = {}
      /\ recoveryRound' = 0 /\ roundRequests' = << >> /\ requestIndex' = 1
      /\ pc' = "down" /\ checkpoint' = checkpoint
  BY DEF Restart, Cleared
<1>2. 0 \in Nat /\ << >> \in Seq(TaskSet) /\ 0 <= IrrelevanceTarget
  BY TargetsAssumption
<1>3. Typed' /\ Places' /\ SeedsOrdered' /\ Spent' /\ WithinTarget'
  BY <1>1, <1>2, EmptyPool, NoRequestsFit, Fresh
<1>4. Saved' /\ Written'
  BY <1>1 DEF IInv, Saved, Written, Working
<1>5. QED
  BY <1>3, <1>4 DEF IInv

-----------------------------------------------------------------------------
LEMMA InitIInv == Init => IInv
<1> SUFFICES ASSUME Init
             PROVE  IInv
  OBVIOUS
<1>1. Prefix = << >> /\ Held = << >>
  BY ConcatEmptySeq DEF Init, Prefix, Held
<1>2. Typed
  <2>1. RequestStride \in Nat /\ << >> \in Seq(TaskSet) /\ Len(<< >>) = 0
    BY StridesAssumption
  <2>2. QED
    BY <2>1, NoRequestsFit DEF Init, Typed
<1>3. Places /\ Spent
  BY DEF Init, Places, Working, Spent, Asking
<1>4. SeedsOrdered
  BY <1>1, EmptyPool DEF Init, SeedsOrdered, Working
<1>5. WithinTarget
  BY <1>1, EmptyPool, TargetsAssumption DEF Init, WithinTarget
<1>6. Saved /\ Written
  BY DEF Init, Saved, Written, Working
<1>7. QED
  BY <1>2, <1>3, <1>4, <1>5, <1>6 DEF IInv

LEMMA StutterIInv ==
  ASSUME IInv, UNCHANGED vars
  PROVE  IInv'
BY DEF vars, pool, request, round, IInv, Typed, Places, SeedsOrdered, Spent, WithinTarget, Saved,
       Written, First, NormalFrontier, IrrelevanceFrontier, Seed, Held, Prefix

LEMMA OutsideSteps ==
  ASSUME IInv, ResumeRefused \/ FinalSplit \/ Publish
  PROVE  IInv'
<1>1. /\ pc \notin Working /\ pc # "failed" /\ pc' \notin Working
      /\ UNCHANGED << checkpoint, pool, request, round >>
  BY DEF ResumeRefused, FinalSplit, Publish, Working
<1>2. QED
  BY <1>1, OutsideIInv

LEMMA NextIInv == IInv /\ [Next]_vars => IInv'
<1> SUFFICES ASSUME IInv, [Next]_vars
             PROVE  IInv'
  OBVIOUS
<1>1. CASE UNCHANGED vars
  BY <1>1, StutterIInv
<1>2. CASE StartFresh
  BY <1>2, StartFreshIInv
<1>3. CASE Resume
  BY <1>3, ResumeIInv
<1>4. CASE ResumeRefused \/ FinalSplit \/ Publish
  BY <1>4, OutsideSteps
<1>5. CASE SkipRequest
  BY <1>5, SkipRequestIInv
<1>6. CASE BeginRequest
  BY <1>6, BeginRequestIInv
<1>7. CASE CandidateAccepted
  BY <1>7, CandidateIInv
<1>8. CASE CandidatesEnd
  BY <1>8, CandidatesEndIInv
<1>9. CASE IrrelevanceAccepted
  BY <1>9, IrrelevanceIInv
<1>10. CASE RequestReturns
  BY <1>10, RequestEndsIInv
<1>11. CASE ZeroYield
  BY <1>11, ZeroYieldIInv
<1>12. CASE EndRound
  BY <1>12, EndRoundIInv
<1>13. CASE Raises
  BY <1>13, RaisesIInv
<1>14. CASE Restart
  BY <1>14, RestartIInv
<1>15. QED
  BY <1>1, <1>2, <1>3, <1>4, <1>5, <1>6, <1>7, <1>8, <1>9, <1>10, <1>11, <1>12, <1>13, <1>14
  DEF Next, Work

THEOREM Invariance == Spec => []IInv
<1>1. QED
  BY InitIInv, NextIInv, PTL DEF Spec

-----------------------------------------------------------------------------
(* No candidate seed gives the pool two tasks, however often the process   *)
(* was killed and resumed, for any strides large enough for the requests   *)
(* (the seed arithmetic of generate_data and of the checkpoint's completed *)
(* rounds).                                                                *)
THEOREM NoSeedTwice == Spec => []SeedsDistinct
<1>1. IInv => SeedsDistinct
  <2> SUFFICES ASSUME IInv
               PROVE  SeedsDistinct
    OBVIOUS
  <2>1. DOMAIN Held = 1 .. Len(Held)
    BY PoolFacts, LenProperties DEF IInv
  <2>2. QED
    BY <2>1 DEF IInv, SeedsOrdered, Distinct, SeedsDistinct
<1>2. QED
  BY Invariance, <1>1, PTL

(* The pool never holds more irrelevance tasks than the target, neither    *)
(* after recovery rounds nor after resumes (_accepted_generation_deficits).*)
THEOREM IrrelevanceCapped == Spec => []IrrelevanceWithinTarget
<1>1. IInv => IrrelevanceWithinTarget
  <2> SUFFICES ASSUME IInv
               PROVE  IrrelevanceWithinTarget
    OBVIOUS
  <2>1. /\ IrrelevanceCount(Held) \in Nat /\ IrrelevanceCount(Prefix) \in Nat
        /\ irrelevants \in Nat /\ IrrelevanceTarget \in Nat
    BY PoolFacts, TargetsAssumption DEF IInv, Typed
  <2>2. QED
    BY <2>1 DEF IInv, WithinTarget, IrrelevanceWithinTarget
<1>2. QED
  BY Invariance, <1>1, PTL

(* A checkpoint can be loaded with the arguments that wrote it, whenever   *)
(* the process was killed: it always asks for a request                    *)
(* (_maybe_checkpoint_generation_progress, _load_generation_checkpoint).   *)
THEOREM Loadable == Spec => []CheckpointLoadable
<1>1. IInv => CheckpointLoadable
  BY DEF IInv, Written, CheckpointSound, CheckpointLoadable, Refused
<1>2. QED
  BY Invariance, <1>1, PTL

(* A task once saved is in every later checkpoint, at the same place.      *)
THEOREM NothingSavedIsLost == Spec => SavedTasksKept
<1> DEFINE Keeps ==
      checkpoint # NoCheckpoint =>
        checkpoint' # NoCheckpoint /\ IsPrefix(checkpoint.tasks, checkpoint'.tasks)
<1>1. ASSUME IInv, [Next]_vars
      PROVE  [Keeps]_vars
  <2>1. checkpoint.tasks \in Seq(TaskSet)
    BY <1>1, CheckpointTasks DEF IInv
  <2>2. CASE UNCHANGED checkpoint
    <3>1. Len(checkpoint.tasks) \in Nat
      BY <2>1
    <3>2. Continues(checkpoint.tasks, checkpoint.tasks)
      BY <3>1 DEF Continues
    <3>3. IsPrefix(checkpoint.tasks, checkpoint.tasks)
      BY <2>1, <3>2, PrefixContinues
    <3>4. QED
      BY <2>2, <3>3
  <2>3. ASSUME NEW ts \in Seq(TaskSet), checkpoint'.tasks = ts, checkpoint' # NoCheckpoint,
               Continues(checkpoint.tasks, ts)
        PROVE  Keeps
    <3>1. IsPrefix(checkpoint.tasks, ts)
      BY <2>1, <2>3, PrefixContinues
    <3>2. QED
      BY <2>3, <3>1
  <2>4. CASE CandidateAccepted
    <3>1. IInv' /\ Continues(checkpoint.tasks, Held')
      BY <1>1, <2>4, CandidateIInv
    <3>2. Held' \in Seq(TaskSet)
      BY <3>1, ConcatProperties DEF IInv, Typed, Held, Prefix
    <3>3. \/ UNCHANGED checkpoint
          \/ checkpoint' = Checkpoint(recoveryRound + 1, Asked(Requests(Held')), Held')
      BY <2>4 DEF CandidateAccepted, Progress, Held, Prefix, pool
    <3>4. CASE checkpoint' = Checkpoint(recoveryRound + 1, Asked(Requests(Held')), Held')
      <4>1. checkpoint'.tasks = Held' /\ checkpoint' # NoCheckpoint
        BY <3>4, CheckpointIsNotMissing DEF Checkpoint
      <4>2. QED
        BY <2>3, <3>1, <3>2, <4>1
    <3>5. QED
      BY <2>2, <3>3, <3>4
  <2>5. CASE EndRound
    <3>1. \/ UNCHANGED checkpoint
          \/ checkpoint'.tasks = Held /\ checkpoint' # NoCheckpoint
      BY <1>1, <2>5, EndRoundIInv
    <3>2. Continues(checkpoint.tasks, Held) /\ Held \in Seq(TaskSet)
      BY <1>1, <2>5, PoolFacts DEF IInv, Saved, EndRound, Working
    <3>3. QED
      BY <2>2, <2>3, <3>1, <3>2
  <2>6. CandidateAccepted \/ EndRound \/ UNCHANGED checkpoint
    BY <1>1 DEF Next, Work, vars, StartFresh, Resume, ResumeRefused, SkipRequest, BeginRequest,
       CandidatesEnd, IrrelevanceAccepted, RequestReturns, ZeroYield, FinalSplit, Publish,
       Raises, Restart
  <2>7. QED
    BY <2>2, <2>4, <2>5, <2>6
<1>2. QED
  BY Invariance, <1>1, PTL DEF Spec, SavedTasksKept

-----------------------------------------------------------------------------
(* The rounds are bounded. *)

(* What the counters are bounded by: a process works only in a round it    *)
(* may still make, and a request stays within what it asks for.            *)
Bounded ==
  /\ mode \in Modes /\ args \in Configs
  /\ restarts \in 0 .. MaxRestarts /\ savedSize \in Nat
  /\ pc \in Running \union {"down", "failed", "done"}
  /\ recoveryRound \in 0 .. MaxRounds
  /\ pc \in Working => recoveryRound < MaxRounds
  /\ pc \in Asking =>
       normals <= Current.count - Irrelevance /\ irrelevants <= Irrelevance
  /\ checkpoint # NoCheckpoint =>
       checkpoint.config \in Configs /\ checkpoint.completed \in 1 .. MaxRounds

LEMMA CheckpointBounded ==
  ASSUME Bounded, IInv, pc \in Working, NEW requests, NEW ts,
         checkpoint' = Checkpoint(recoveryRound + 1, requests, ts)
  PROVE  checkpoint'.config \in Configs /\ checkpoint'.completed \in 1 .. MaxRounds
<1>1. recoveryRound \in Nat /\ recoveryRound < MaxRounds /\ MaxRounds \in Nat
  BY LimitsAssumption DEF Bounded
<1>2. checkpoint'.config = args /\ checkpoint'.completed = recoveryRound + 1
  BY DEF Checkpoint
<1>3. QED
  BY <1>1, <1>2 DEF Bounded

LEMMA SizeKept ==
  ASSUME Typed
  PROVE  Len(Prefix \o tasks) \in Nat /\ Len(Prefix) \in Nat
BY PoolFacts DEF Held

LEMMA NextBounded ==
  ASSUME IInv, Bounded, [Next]_vars
  PROVE  Bounded'
<1> USE DEF Bounded
<1>0. /\ MaxRounds \in Nat \ {0} /\ MaxRestarts \in Nat
      /\ "round" \notin Asking /\ "normal" \in Asking /\ "irrelevance" \in Asking
      /\ Asking \subseteq Working
      /\ Working = {"round", "normal", "irrelevance"}
  BY LimitsAssumption DEF Asking, Working
<1>1. CASE UNCHANGED vars
  BY <1>1 DEF vars, pool, request, round, Current, Irrelevance, Deficit, Prefix
<1>2. CASE StartFresh
  BY <1>0, <1>2 DEF StartFresh, request, Running, Asking
<1>3. CASE Resume
  BY <1>0, <1>3 DEF Resume, request, Running, Asking
<1>4. CASE ResumeRefused
  BY <1>0, <1>4 DEF ResumeRefused, request, round, Running, Asking, Working
<1>5. CASE SkipRequest
  BY <1>0, <1>5 DEF SkipRequest, AtRequest, request, Running, Asking, Working
<1>6. CASE BeginRequest
  <2>1. normals = 0 /\ irrelevants = 0
    BY <1>6, <1>0 DEF IInv, Places, BeginRequest, AtRequest
  <2>2. requestIndex <= Len(roundRequests) /\ IrrelevanceCount(Prefix) <= IrrelevanceTarget
    <3>1. IrrelevanceCount(Prefix) \in Nat /\ IrrelevanceTarget \in Nat /\ irrelevants \in Nat
      BY PoolFacts, TargetsAssumption DEF IInv, Typed
    <3>2. QED
      BY <1>6, <3>1 DEF BeginRequest, AtRequest, IInv, WithinTarget
  <2>3. Current.count \in Nat /\ Irrelevance \in 0 .. Current.count
    BY <2>2, RequestFacts DEF IInv
  <2>4. Current' = Current /\ Irrelevance' = Irrelevance
    BY <1>6 DEF BeginRequest, pool, round, Current, Irrelevance, Deficit, Prefix
  <2>5. normals' <= Current'.count - Irrelevance' /\ irrelevants' <= Irrelevance'
    BY <1>6, <2>1, <2>3, <2>4 DEF BeginRequest
  <2>6. savedSize' \in Nat
    BY <1>6, SizeKept DEF BeginRequest, IInv
  <2>7. QED
    BY <1>0, <1>6, <2>5, <2>6 DEF BeginRequest, AtRequest, round, Running
<1>7. CASE CandidateAccepted
  <2>1. /\ pc = "normal" /\ pc' = "normal" /\ normals < Current.count - Irrelevance
        /\ normals' = normals + 1 /\ normals \in Nat
        /\ UNCHANGED << mode, args, allTasks, roundTasks, irrelevants, recoveryRound,
                        roundRequests, requestIndex, restarts >>
    BY <1>7 DEF CandidateAccepted, pool, round, IInv, Typed
  <2>2. Current' = Current /\ Irrelevance' = Irrelevance /\ Prefix' = Prefix
    BY <2>1 DEF Current, Irrelevance, Deficit, Prefix
  <2>3. Current.count \in Nat /\ Irrelevance \in 0 .. Current.count
    <3>1. requestIndex <= Len(roundRequests)
      BY <2>1 DEF IInv, Places
    <3>2. IrrelevanceCount(Prefix) \in Nat /\ IrrelevanceTarget \in Nat /\ irrelevants \in Nat
      BY PoolFacts, TargetsAssumption DEF IInv, Typed
    <3>3. IrrelevanceCount(Prefix) <= IrrelevanceTarget
      BY <3>2 DEF IInv, WithinTarget
    <3>4. QED
      BY <3>1, <3>3, RequestFacts DEF IInv
  <2>4. normals' <= Current'.count - Irrelevance' /\ irrelevants' <= Irrelevance'
    BY <1>0, <2>1, <2>2, <2>3
  <2>5. savedSize' \in Nat
    <3>1. IInv'
      BY <1>7, CandidateIInv
    <3>2. Len(Prefix \o tasks') \in Nat
      <4>1. Held' \in Seq(TaskSet)
        BY <3>1, ConcatProperties DEF IInv, Typed, Held, Prefix
      <4>2. QED
        BY <2>2, <4>1 DEF Held
    <3>3. QED
      BY <1>7, <3>2 DEF CandidateAccepted, Progress
  <2>6. \/ UNCHANGED checkpoint
        \/ \E requests, ts : checkpoint' = Checkpoint(recoveryRound + 1, requests, ts)
    BY <1>7 DEF CandidateAccepted, Progress
  <2>7. checkpoint' # NoCheckpoint =>
          checkpoint'.config \in Configs /\ checkpoint'.completed \in 1 .. MaxRounds
    BY <1>0, <2>1, <2>6, CheckpointBounded
  <2>8. QED
    BY <1>0, <2>1, <2>4, <2>5, <2>7
<1>8. CASE CandidatesEnd
  <2>1. /\ pc = "normal" /\ pc' = "irrelevance"
        /\ UNCHANGED << mode, args, checkpoint, pool, round, normals, irrelevants, savedSize, restarts >>
    BY <1>8 DEF CandidatesEnd
  <2>2. Current' = Current /\ Irrelevance' = Irrelevance
    BY <2>1 DEF pool, round, Current, Irrelevance, Deficit, Prefix
  <2>3. QED
    BY <1>0, <2>1, <2>2 DEF round, Running
<1>9. CASE IrrelevanceAccepted
  <2>1. /\ pc = "irrelevance" /\ pc' = "irrelevance" /\ irrelevants < Irrelevance
        /\ irrelevants' = irrelevants + 1 /\ irrelevants \in Nat
        /\ UNCHANGED << mode, args, checkpoint, pool, round, normals, savedSize, restarts >>
    BY <1>9 DEF IrrelevanceAccepted, IInv, Typed
  <2>2. Current' = Current /\ Irrelevance' = Irrelevance
    BY <2>1 DEF pool, round, Current, Irrelevance, Deficit, Prefix
  <2>3. Irrelevance \in Nat
    <3>1. requestIndex <= Len(roundRequests)
      BY <2>1 DEF IInv, Places
    <3>2. IrrelevanceCount(Prefix) \in Nat /\ IrrelevanceTarget \in Nat
      BY PoolFacts, TargetsAssumption DEF IInv
    <3>3. IrrelevanceCount(Prefix) <= IrrelevanceTarget
      BY <2>1, <3>2 DEF IInv, WithinTarget
    <3>4. QED
      BY <3>1, <3>3, RequestFacts DEF IInv
  <2>4. normals' <= Current'.count - Irrelevance' /\ irrelevants' <= Irrelevance'
    BY <1>0, <2>1, <2>2, <2>3
  <2>5. QED
    BY <1>0, <2>1, <2>4 DEF round
<1>10. CASE RequestReturns
  BY <1>0, <1>10 DEF RequestReturns, Cleared, Running
<1>11. CASE ZeroYield
  BY <1>0, <1>11 DEF ZeroYield, Cleared, Running, Asking, Working
<1>12. CASE EndRound
  <2>1. /\ pc = "round" /\ UNCHANGED << mode, args, savedSize, restarts >>
        /\ \/ pc' = "split" /\ UNCHANGED << checkpoint, recoveryRound >>
           \/ /\ \E requests, ts : checkpoint' = Checkpoint(recoveryRound + 1, requests, ts)
              /\ recoveryRound' = recoveryRound + 1
              /\ pc' = IF recoveryRound + 1 < MaxRounds THEN "round" ELSE "final"
    BY <1>12 DEF EndRound, request, round
  <2>2. checkpoint' # NoCheckpoint =>
          checkpoint'.config \in Configs /\ checkpoint'.completed \in 1 .. MaxRounds
    BY <1>0, <2>1, CheckpointBounded
  <2>3. pc' \in {"split", "round", "final"} /\ recoveryRound < MaxRounds
    BY <1>0, <2>1
  <2>4. QED
    BY <1>0, <2>1, <2>2, <2>3 DEF Running, Asking, Working
<1>13. CASE FinalSplit \/ Publish
  BY <1>0, <1>13 DEF FinalSplit, Publish, request, round, Running, Asking, Working
<1>14. CASE Raises
  BY <1>0, <1>14 DEF Raises, Cleared, round, Running, Asking, Working
<1>15. CASE Restart
  BY <1>0, <1>15 DEF Restart, Cleared, Running, Asking, Working
<1>16. QED
  BY <1>1, <1>2, <1>3, <1>4, <1>5, <1>6, <1>7, <1>8, <1>9, <1>10, <1>11, <1>12, <1>13, <1>14,
     <1>15
  DEF Next, Work

LEMMA InitBounded == Init => Bounded
BY LimitsAssumption DEF Init, Bounded, Running, Working, Asking

LEMMA BoundsInvariance == Spec => [](IInv /\ Bounded)
<1>1. Init => IInv /\ Bounded
  BY InitIInv, InitBounded
<1>2. (IInv /\ Bounded) /\ [Next]_vars => (IInv /\ Bounded)'
  BY NextIInv, NextBounded
<1>3. QED
  BY <1>1, <1>2, PTL DEF Spec

LEMMA TasksTyped ==
  ASSUME NEW ts \in Seq(TaskSet), NEW i \in DOMAIN ts
  PROVE  TaskType(ts[i])
<1>1. ts[i] \in TaskSet
  BY ElementOfSeq
<1>2. QED
  BY <1>1 DEF TaskSet, TaskType

LEMMA RequestsTyped ==
  ASSUME NEW requests, Fits(requests), NEW i \in DOMAIN requests
  PROVE  RequestType(requests[i])
<1>1. requests[i] \in RequestSet
  BY ElementOfSeq DEF Fits
<1>2. QED
  BY <1>1, SizesFit DEF RequestSet, RequestType

(* In a request the tasks generated are as many as it may have.            *)
LEMMA CountsFit ==
  ASSUME IInv, Bounded
  PROVE  /\ normals \in Sizes /\ irrelevants \in 0 .. IrrelevanceTarget
         /\ normals + irrelevants \in Sizes
<1> USE DEF IInv, Bounded
<1>1. IrrelevanceTarget \in Nat /\ 0 \in Sizes /\ normals \in Nat /\ irrelevants \in Nat
  BY TargetsAssumption DEF Sizes, Typed
<1>2. CASE pc \notin Asking
  BY <1>1, <1>2 DEF Places, Asking
<1>3. CASE pc \in Asking
  <2>1. requestIndex <= Len(roundRequests)
    BY <1>3 DEF Places, Asking
  <2>2. IrrelevanceCount(Prefix) \in Nat
    BY PoolFacts
  <2>3. IrrelevanceCount(Prefix) <= IrrelevanceTarget
    BY <1>1, <2>2 DEF WithinTarget
  <2>4. /\ Current.count \in Sizes /\ Current.count \in Nat
        /\ Irrelevance \in 0 .. Current.count /\ Irrelevance \in 0 .. IrrelevanceTarget
    BY <2>1, <2>3, RequestFacts
  <2>5. /\ normals \in 0 .. Current.count /\ irrelevants \in 0 .. IrrelevanceTarget
        /\ normals + irrelevants \in 0 .. Current.count
    BY <1>1, <1>3, <2>4
  <2>6. \A m \in 0 .. Current.count : m \in Sizes
    BY <2>4, SizesFit
  <2>7. QED
    BY <2>5, <2>6
<1>4. QED
  BY <1>2, <1>3

(* Every variable keeps its type: a request never counts more tasks than   *)
(* it asked for, a checkpoint never completes more rounds than there are,  *)
(* and no round is worked on past the last, in any run of any restart.     *)
THEOREM TypeCorrect == Spec => []TypeOK
<1>1. IInv /\ Bounded => TypeOK
  <2> SUFFICES ASSUME IInv, Bounded
               PROVE  TypeOK
    OBVIOUS
  <2>1. \A i \in DOMAIN Held : TaskType(Held[i])
    BY PoolFacts, TasksTyped DEF IInv
  <2>2. \A i \in DOMAIN roundRequests : RequestType(roundRequests[i])
    BY RequestsTyped DEF IInv, Typed
  <2>3. checkpoint # NoCheckpoint =>
          /\ \A i \in DOMAIN checkpoint.requests : RequestType(checkpoint.requests[i])
          /\ \A i \in DOMAIN checkpoint.tasks : TaskType(checkpoint.tasks[i])
    BY RequestsTyped, TasksTyped DEF IInv, Written, CheckpointSound
  <2>4. normals \in Sizes /\ irrelevants \in 0 .. IrrelevanceTarget
    BY CountsFit
  <2>5. used \subseteq 0 .. RequestStride - 1 /\ requestIndex \in 1 .. Len(roundRequests) + 1
    BY DEF IInv, Typed
  <2>6. QED
    BY <2>1, <2>2, <2>3, <2>4, <2>5 DEF TypeOK, Bounded
<1>2. QED
  BY BoundsInvariance, <1>1, PTL

(* Where a process stands: what comes later in its run is larger.          *)
StageOf(p) ==
  CASE p = "down" -> 0 [] p \in Working -> 1 [] p = "final" -> 2 [] p = "split" -> 3
    [] p \in {"done", "failed"} -> 4
PhaseOf(p) == CASE p = "normal" -> 1 [] p = "irrelevance" -> 2 [] OTHER -> 0

Standing ==
  << StageOf(pc), recoveryRound, requestIndex, PhaseOf(pc), normals + irrelevants >>
Standings ==
  (0 .. 4) \X (0 .. MaxRounds) \X (1 .. Len(RequestedDomains) + 1) \X (0 .. 2) \X Sizes

Later(x, y) == \E i \in 1 .. 5 : x[i] < y[i] /\ \A j \in 1 .. i - 1 : x[j] = y[j]

(* Every step of the process brings it further in an order of finitely     *)
(* many places: this, with weak fairness, is why every run ends.           *)
WorkAdvances == [][Work => Standing' \in Standings /\ Later(Standing, Standing')]_vars

LEMMA StandingBounded ==
  ASSUME IInv, Bounded
  PROVE  Standing \in Standings
<1>1. StageOf(pc) \in 0 .. 4 /\ PhaseOf(pc) \in 0 .. 2
  BY DEF Bounded, StageOf, PhaseOf, Running, Working
<1>2. recoveryRound \in 0 .. MaxRounds
  BY DEF Bounded
<1>3. requestIndex \in 1 .. Len(RequestedDomains) + 1
  BY NumberFacts DEF IInv
<1>4. normals + irrelevants \in Sizes
  BY CountsFit
<1>5. QED
  BY <1>1, <1>2, <1>3, <1>4 DEF Standing, Standings

LEMMA LaterAt ==
  /\ \A x, y : x[1] < y[1] => Later(x, y)
  /\ \A x, y : x[1] = y[1] /\ x[2] < y[2] => Later(x, y)
  /\ \A x, y : x[1] = y[1] /\ x[2] = y[2] /\ x[3] < y[3] => Later(x, y)
  /\ \A x, y : x[1] = y[1] /\ x[2] = y[2] /\ x[3] = y[3] /\ x[4] < y[4] => Later(x, y)
  /\ \A x, y : x[1] = y[1] /\ x[2] = y[2] /\ x[3] = y[3] /\ x[4] = y[4] /\ x[5] < y[5]
                => Later(x, y)
<1> SUFFICES ASSUME NEW x, NEW y
             PROVE  /\ x[1] < y[1] => Later(x, y)
                    /\ x[1] = y[1] /\ x[2] < y[2] => Later(x, y)
                    /\ x[1] = y[1] /\ x[2] = y[2] /\ x[3] < y[3] => Later(x, y)
                    /\ x[1] = y[1] /\ x[2] = y[2] /\ x[3] = y[3] /\ x[4] < y[4] => Later(x, y)
                    /\ x[1] = y[1] /\ x[2] = y[2] /\ x[3] = y[3] /\ x[4] = y[4] /\ x[5] < y[5]
                         => Later(x, y)
  OBVIOUS
<1>1. /\ 1 .. 0 = {} /\ 1 .. 1 = {1} /\ 1 .. 2 = {1, 2} /\ 1 .. 3 = {1, 2, 3}
      /\ 1 .. 4 = {1, 2, 3, 4} /\ 1 .. 5 = {1, 2, 3, 4, 5}
  OBVIOUS
<1>2. 1 - 1 = 0 /\ 2 - 1 = 1 /\ 3 - 1 = 2 /\ 4 - 1 = 3 /\ 5 - 1 = 4
  OBVIOUS
<1>3. QED
  BY <1>1, <1>2 DEF Later

LEMMA WorkStep ==
  ASSUME IInv, Bounded, Work
  PROVE  Later(Standing, Standing')
<1>0. PICK x, y : x = Standing /\ y = Standing'
  OBVIOUS
<1>01. PICK a, b, c, d :
         a = StageOf(pc) /\ b = StageOf(pc)' /\ c = PhaseOf(pc) /\ d = PhaseOf(pc)'
  OBVIOUS
<1>02. b = StageOf(pc') /\ d = PhaseOf(pc')
  BY <1>01 DEF StageOf, PhaseOf, Working
<1>03. PICK m, n, i, j, r, s :
         /\ m = normals + irrelevants /\ n = normals' + irrelevants'
         /\ i = requestIndex /\ j = requestIndex'
         /\ r = recoveryRound /\ s = recoveryRound'
  OBVIOUS
<1>04. x = << a, r, i, c, m >> /\ y = << b, s, j, d, n >>
  BY <1>0, <1>01, <1>03 DEF Standing
<1>1. /\ x[1] = StageOf(pc) /\ x[2] = recoveryRound /\ x[3] = requestIndex
      /\ x[4] = PhaseOf(pc) /\ x[5] = normals + irrelevants
      /\ y[1] = StageOf(pc') /\ y[2] = recoveryRound' /\ y[3] = requestIndex'
      /\ y[4] = PhaseOf(pc') /\ y[5] = normals' + irrelevants'
  <2>1. /\ x[1] = a /\ x[2] = r /\ x[3] = i /\ x[4] = c /\ x[5] = m
        /\ y[1] = b /\ y[2] = s /\ y[3] = j /\ y[4] = d /\ y[5] = n
    BY <1>04
  <2>2. QED
    BY <2>1, <1>01, <1>02, <1>03
<1>2. /\ normals \in Nat /\ irrelevants \in Nat /\ recoveryRound \in Nat /\ requestIndex \in Nat
  BY NumberFacts DEF IInv, Typed
<1>3. /\ StageOf("down") = 0 /\ StageOf("final") = 2 /\ StageOf("split") = 3
      /\ StageOf("round") = 1 /\ StageOf("normal") = 1 /\ StageOf("irrelevance") = 1
      /\ StageOf("done") = 4 /\ StageOf("failed") = 4
      /\ PhaseOf("round") = 0 /\ PhaseOf("normal") = 1 /\ PhaseOf("irrelevance") = 2
  BY DEF StageOf, PhaseOf, Working
<1> SUFFICES Later(x, y)
  BY <1>0
<1>4. ASSUME x[1] < y[1]
      PROVE  Later(x, y)
  BY <1>4, LaterAt
<1>5. ASSUME x[1] = y[1], x[2] < y[2] \/ (x[2] = y[2] /\ x[3] < y[3])
      PROVE  Later(x, y)
  BY <1>5, LaterAt
<1>6. ASSUME x[1] = y[1], x[2] = y[2], x[3] = y[3],
             x[4] < y[4] \/ (x[4] = y[4] /\ x[5] < y[5])
      PROVE  Later(x, y)
  BY <1>6, LaterAt
<1>7. CASE StartFresh \/ ResumeRefused \/ Publish
  BY <1>1, <1>3, <1>4, <1>7 DEF StartFresh, ResumeRefused, Publish
<1>8. CASE Resume
  <2>1. pc = "down" /\ pc' \in {"round", "final"}
    BY <1>8 DEF Resume
  <2>2. QED
    BY <1>1, <1>3, <1>4, <2>1
<1>9. CASE SkipRequest
  <2>1. pc = "round" /\ pc' = pc /\ recoveryRound' = recoveryRound /\ requestIndex' = requestIndex + 1
    BY <1>9 DEF SkipRequest, AtRequest
  <2>2. QED
    BY <1>1, <1>2, <1>5, <2>1
<1>10. CASE BeginRequest \/ CandidatesEnd
  <2>1. /\ recoveryRound' = recoveryRound /\ requestIndex' = requestIndex
        /\ \/ pc = "round" /\ pc' = "normal"
           \/ pc = "normal" /\ pc' = "irrelevance"
    BY <1>10 DEF BeginRequest, AtRequest, CandidatesEnd, round
  <2>2. QED
    BY <1>1, <1>3, <1>6, <2>1
<1>11. CASE CandidateAccepted \/ IrrelevanceAccepted
  <2>1. /\ recoveryRound' = recoveryRound /\ requestIndex' = requestIndex /\ pc' = pc
        /\ normals' + irrelevants' = normals + irrelevants + 1
    BY <1>2, <1>11 DEF CandidateAccepted, IrrelevanceAccepted, round
  <2>2. QED
    BY <1>1, <1>2, <1>6, <2>1
<1>12. CASE RequestReturns
  <2>1. /\ pc = "irrelevance" /\ pc' = "round" /\ recoveryRound' = recoveryRound
        /\ requestIndex' = requestIndex + 1
    BY <1>12 DEF RequestReturns
  <2>2. QED
    BY <1>1, <1>2, <1>3, <1>5, <2>1
<1>13. CASE ZeroYield
  <2>1. pc = "irrelevance" /\ recoveryRound' = recoveryRound
    BY <1>13 DEF ZeroYield
  <2>2. pc' = "failed" \/ (pc' = "round" /\ requestIndex' = requestIndex + 1)
    BY <1>13 DEF ZeroYield
  <2>3. QED
    BY <1>1, <1>2, <1>3, <1>4, <1>5, <2>1, <2>2
<1>14. CASE EndRound
  <2>1. pc = "round"
    BY <1>14 DEF EndRound
  <2>2. \/ pc' \in {"split", "final"}
        \/ pc' = "round" /\ recoveryRound' = recoveryRound + 1
    BY <1>14 DEF EndRound
  <2>3. QED
    BY <1>1, <1>2, <1>3, <1>4, <1>5, <2>1, <2>2
<1>15. CASE FinalSplit \/ Raises
  <2>1. \/ pc = "final" /\ pc' \in {"split", "failed"}
        \/ pc \in {"normal", "irrelevance", "split"} /\ pc' = "failed"
    BY <1>15 DEF FinalSplit, Raises
  <2>2. QED
    BY <1>1, <1>3, <1>4, <2>1
<1>16. QED
  BY <1>7, <1>8, <1>9, <1>10, <1>11, <1>12, <1>13, <1>14, <1>15 DEF Work

THEOREM Advances == Spec => WorkAdvances
<1>1. IInv /\ Bounded => Standing \in Standings
  BY StandingBounded
<1>2. ASSUME IInv, Bounded, (Standing \in Standings)', [Next]_vars
      PROVE  [Work => Standing' \in Standings /\ Later(Standing, Standing')]_vars
  <2>1. Standing' \in Standings
    BY <1>2 DEF Standings
  <2>2. QED
    BY <1>2, <2>1, WorkStep
<1>3. QED
  BY BoundsInvariance, <1>1, <1>2, PTL DEF Spec, WorkAdvances

=============================================================================
