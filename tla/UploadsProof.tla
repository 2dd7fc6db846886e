---------------------------- MODULE UploadsProof ----------------------------
(***************************************************************************)
(* What holds of uploads for any number of registrations, files, scopes    *)
(* and tables: of the capacity they reserve (UploadQuota) and of the life  *)
(* of the files (UploadFiles).                                             *)
(*                                                                         *)
(* What a registration measured stays true until it inserts because it     *)
(* holds the lock of every scope of its own, and whoever raises a sum      *)
(* holds that lock; deletions only lower it.                               *)
(*                                                                         *)
(* A maintenance pass deletes on the strength of what it read some time    *)
(* ago.  It may: what it judged old enough belongs to a request that is    *)
(* over, and such a file is never written again.                           *)
(***************************************************************************)
EXTENDS UploadQuota, UploadFiles, FiniteSetTheorems, WellFoundedInduction, TLAPS

-----------------------------------------------------------------------------
(* Recursion and induction on finite sets, by a least counterexample.      *)

LEMMA SmallestNumber ==
  ASSUME NEW B \in SUBSET Nat, B # {}
  PROVE  \E n \in B : \A m \in B : n <= m
<1> DEFINE R == {p \in Nat \X Nat : p[1] < p[2]}
<1>1. R = OpToRel(<, Nat)
  BY DEF OpToRel
<1>2. IsWellFoundedOn(R, Nat)
  BY <1>1, NatLessThanWellFounded
<1>3. PICK n \in B : \A m \in B : ~(<<m, n>> \in R)
  <2> HIDE DEF R
  <2>. QED
    BY <1>2, WFMin
<1>4. ASSUME NEW m \in B PROVE n <= m
  <2>1. m \in Nat /\ n \in Nat /\ <<m, n>> \in Nat \X Nat
    OBVIOUS
  <2>2. ~(<<m, n>>[1] < <<m, n>>[2])
    BY <1>3, <2>1
  <2>. QED
    BY <2>1, <2>2
<1>. QED
  BY <1>4

LEMMA SmallestSubset ==
  ASSUME NEW S, IsFiniteSet(S), NEW B \in SUBSET (SUBSET S), B # {}
  PROVE  \E T \in B : \A W \in B : W \subseteq T => W = T
<1>1. IsWellFoundedOn(StrictSubsetOrdering(S), FiniteSubsetsOf(S))
  BY FS_StrictSubsetOrderingWellFounded
<1>2. B \subseteq FiniteSubsetsOf(S)
  BY FS_FiniteSubsetsOfFinite
<1>3. PICK T \in B : \A W \in B : ~(<<W, T>> \in StrictSubsetOrdering(S))
  BY <1>1, <1>2, WFMin
<1>4. ASSUME NEW W \in B, W \subseteq T, W # T PROVE FALSE
  <2>1. <<W, T>> \in (SUBSET S) \X (SUBSET S)
    OBVIOUS
  <2>2. <<W, T>>[1] = W /\ <<W, T>>[2] = T
    OBVIOUS
  <2>. QED
    BY <1>3, <1>4, <2>1, <2>2 DEF StrictSubsetOrdering
<1>. QED
  BY <1>4

Pick(T) == CHOOSE f \in T : TRUE
IsSum(sum, D) == sum = [T \in D |-> IF T = {} THEN 0 ELSE Size[Pick(T)] + sum[T \ {Pick(T)}]]
Total(S) == MapThenSumSet(LAMBDA f : Size[f], S)

LEMMA Picked == \A T : T # {} => Pick(T) \in T
  BY DEF Pick

LEMMA SumExists ==
  ASSUME NEW S, IsFiniteSet(S)
  PROVE  \E sum : IsSum(sum, SUBSET S)
<1> DEFINE D(n) == {T \in SUBSET S : Cardinality(T) <= n}
           B == {n \in Nat : ~ \E sum : IsSum(sum, D(n))}
<1>0. \A T \in SUBSET S : IsFiniteSet(T) /\ Cardinality(T) \in Nat
  BY FS_Subset, FS_CardinalityType
<1>1. B = {}
  <2> SUFFICES ASSUME B # {} PROVE FALSE
    OBVIOUS
  <2>1. B \in SUBSET Nat
    OBVIOUS
  <2>2. PICK n \in B : \A m \in B : n <= m
    <3> HIDE DEF B
    <3>. QED
      BY <2>1, SmallestNumber
  <2>3. n \in Nat /\ ~ \E sum : IsSum(sum, D(n))
    OBVIOUS
  <2>4. CASE n = 0
    <3> DEFINE h == [T \in D(n) |-> 0]
    <3>1. \A T \in D(n) : T = {}
      BY <1>0, <2>4, FS_EmptySet
    <3>2. IsSum(h, D(n))
      BY <3>1 DEF IsSum
    <3>. QED
      BY <2>3, <3>2
  <2>5. CASE n # 0
    <3>1. n - 1 \in Nat /\ ~(n <= n - 1)
      BY <2>3, <2>5
    <3>2. n - 1 \notin B
      <4> HIDE DEF B
      <4>. QED
        BY <2>2, <3>1
    <3>3. PICK g : IsSum(g, D(n - 1))
      BY <3>1, <3>2
    <3> DEFINE h == [T \in D(n) |-> IF T = {} THEN 0 ELSE Size[Pick(T)] + g[T \ {Pick(T)}]]
    <3>4. ASSUME NEW T \in D(n), T # {}
          PROVE  T \ {Pick(T)} \in D(n - 1) /\ T \ {Pick(T)} \in D(n)
      <4>1. Pick(T) \in T /\ IsFiniteSet(T) /\ Cardinality(T) \in Nat /\ Cardinality(T) <= n
        BY <1>0, <3>4, Picked
      <4>2. Cardinality(T \ {Pick(T)}) = Cardinality(T) - 1
        BY <4>1, FS_RemoveElement
      <4>. QED
        BY <2>3, <4>1, <4>2
    <3>5. D(n - 1) \subseteq D(n)
      BY <1>0, <2>3
    <3> HIDE DEF D
    <3>6. \A T \in D(n - 1) : h[T] = g[T]
      BY <3>3, <3>5 DEF IsSum
    <3>7. \A T \in D(n) : T # {} => h[T \ {Pick(T)}] = g[T \ {Pick(T)}]
      BY <3>4, <3>6
    <3>8. IsSum(h, D(n))
      BY <3>7 DEF IsSum
    <3>. QED
      BY <2>3, <3>8
  <2>. QED
    BY <2>4, <2>5
<1>2. Cardinality(S) \in Nat /\ D(Cardinality(S)) = SUBSET S
  BY <1>0, FS_Subset
<1>. QED
  BY <1>1, <1>2

LEMMA SumUnique ==
  ASSUME NEW S, IsFiniteSet(S), NEW g, NEW W, NEW h, S \subseteq W,
         IsSum(g, SUBSET S), IsSum(h, SUBSET W)
  PROVE  \A T \in SUBSET S : g[T] = h[T]
<1> DEFINE B == {T \in SUBSET S : g[T] # h[T]}
<1> SUFFICES ASSUME B # {} PROVE FALSE
  OBVIOUS
<1>1. PICK T \in B : \A V \in B : V \subseteq T => V = T
  <2>1. B \in SUBSET (SUBSET S)
    OBVIOUS
  <2> HIDE DEF B
  <2>. QED
    BY <2>1, SmallestSubset
<1>2. T \in SUBSET S /\ T \in SUBSET W /\ T # {} /\ Pick(T) \in T
  BY Picked DEF IsSum
<1>3. g[T \ {Pick(T)}] = h[T \ {Pick(T)}]
  BY <1>1, <1>2
<1>4. g[T] = h[T]
  BY <1>2, <1>3 DEF IsSum
<1>. QED
  BY <1>1, <1>4

LEMMA TotalIs ==
  ASSUME NEW S, NEW W, IsFiniteSet(W), S \subseteq W, NEW sum, IsSum(sum, SUBSET W)
  PROVE  Total(S) = sum[S]
<1>1. IsFiniteSet(S)
  BY FS_Subset
<1> DEFINE g == CHOOSE g : IsSum(g, SUBSET S)
<1>2. IsSum(g, SUBSET S)
  BY <1>1, SumExists
<1>3. Total(S) = g[S]
  BY DEF Total, MapThenSumSet, MapThenFoldSet, IsSum, Pick
<1> HIDE DEF g
<1>. QED
  BY <1>1, <1>2, <1>3, SumUnique

(* It does not matter which file is taken off first.                       *)
LEMMA SumSplits ==
  ASSUME NEW S, S \subseteq Files, IsFiniteSet(S), NEW g, IsSum(g, SUBSET S)
  PROVE  g[S] \in Nat /\ \A f \in S : g[S] = Size[f] + g[S \ {f}]
<1> DEFINE Good(T) == g[T] \in Nat /\ \A f \in T : g[T] = Size[f] + g[T \ {f}]
           B == {T \in SUBSET S : ~Good(T)}
<1> SUFFICES ASSUME B # {} PROVE FALSE
  <2>1. B = {} => Good(S)
    OBVIOUS
  <2>. QED
    BY <2>1
<1>1. PICK T \in B : \A V \in B : V \subseteq T => V = T
  <2>1. B \in SUBSET (SUBSET S)
    OBVIOUS
  <2> HIDE DEF B
  <2>. QED
    BY <2>1, SmallestSubset
<1>2. T \in SUBSET S /\ ~Good(T)
  OBVIOUS
<1>3. \A V \in SUBSET T : V # T => Good(V)
  BY <1>1, <1>2
<1> HIDE DEF B
<1>4. \A f \in T : Size[f] \in Nat
  BY <1>2, QuotaConstants
<1>5. T # {} /\ Pick(T) \in T
  BY <1>2, Picked DEF IsSum
<1>6. g[T] = Size[Pick(T)] + g[T \ {Pick(T)}] /\ g[T \ {Pick(T)}] \in Nat
  BY <1>2, <1>3, <1>5 DEF IsSum
<1>7. ASSUME NEW f \in T PROVE g[T] = Size[f] + g[T \ {f}]
  <2>1. CASE f = Pick(T)
    BY <1>6, <2>1
  <2>2. CASE f # Pick(T)
    <3>1. g[T \ {Pick(T)}] = Size[f] + g[(T \ {Pick(T)}) \ {f}]
      BY <1>3, <1>5, <2>2
    <3>2. g[T \ {f}] = Size[Pick(T)] + g[(T \ {f}) \ {Pick(T)}]
      BY <1>3, <1>5, <2>2
    <3>3. (T \ {f}) \ {Pick(T)} = (T \ {Pick(T)}) \ {f}
      OBVIOUS
    <3>4. g[(T \ {Pick(T)}) \ {f}] \in Nat
      BY <1>3, <1>5
    <3>5. Size[f] \in Nat /\ Size[Pick(T)] \in Nat
      BY <1>4, <1>5
    <3> HIDE DEF Good
    <3>6. \A a, b, c \in Nat : a + (b + c) = b + (a + c)
      OBVIOUS
    <3> DEFINE rest == g[(T \ {Pick(T)}) \ {f}]
    <3>7. g[T] = Size[Pick(T)] + (Size[f] + rest) /\ g[T \ {f}] = Size[Pick(T)] + rest
      BY <1>6, <3>1, <3>2, <3>3
    <3> HIDE DEF rest
    <3>8. rest \in Nat
      BY <3>4 DEF rest
    <3>. QED
      BY <3>5, <3>6, <3>7, <3>8
  <2>. QED
    BY <2>1, <2>2
<1>. QED
  BY <1>2, <1>4, <1>5, <1>6, <1>7

(* The sum of the sizes of no file, of one file more, of one file less.    *)
LEMMA TotalOf ==
  ASSUME NEW S \in SUBSET Files, IsFiniteSet(S)
  PROVE  /\ Total(S) \in Nat /\ (S = {} => Total(S) = 0)
         /\ \A f \in Files \ S : Total(S \union {f}) = Total(S) + Size[f]
         /\ \A f \in S : Total(S \ {f}) = Total(S) - Size[f]
<1>1. ASSUME NEW f \in S PROVE Total(S) = Size[f] + Total(S \ {f})
  <2>1. PICK g : IsSum(g, SUBSET S)
    BY SumExists
  <2>2. Total(S) = g[S] /\ Total(S \ {f}) = g[S \ {f}]
    BY <2>1, TotalIs
  <2>3. g[S] = Size[f] + g[S \ {f}]
    BY <2>1, SumSplits
  <2>. QED
    BY <2>2, <2>3
<1>2. ASSUME NEW W, W \subseteq Files, IsFiniteSet(W) PROVE Total(W) \in Nat /\ (W = {} => Total(W) = 0)
  <2>1. PICK g : IsSum(g, SUBSET W)
    BY <1>2, SumExists
  <2>2. Total(W) = g[W]
    BY <1>2, <2>1, TotalIs
  <2>3. g[W] \in Nat
    BY <1>2, <2>1, SumSplits
  <2>4. W = {} => g[W] = 0
    BY <2>1 DEF IsSum
  <2>. QED
    BY <2>2, <2>3, <2>4
<1>3. ASSUME NEW f \in Files \ S PROVE Total(S \union {f}) = Total(S) + Size[f]
  <2> DEFINE W == S \union {f}
  <2>1. W \subseteq Files /\ IsFiniteSet(W) /\ f \in W /\ W \ {f} = S
    BY FS_AddElement
  <2>2. PICK g : IsSum(g, SUBSET W)
    BY <2>1, SumExists
  <2> HIDE DEF W
  <2>3. Total(W) = g[W] /\ Total(S) = g[S]
    BY <2>1, <2>2, TotalIs
  <2>4. g[W] = Size[f] + g[W \ {f}]
    BY <2>1, <2>2, SumSplits
  <2>5. Size[f] \in Nat
    BY QuotaConstants
  <2>6. Total(S) \in Nat
    BY <1>2
  <2>7. Total(W) = Size[f] + Total(S)
    BY <2>1, <2>3, <2>4
  <2>. QED
    BY <2>5, <2>6, <2>7 DEF W
<1>4. ASSUME NEW f \in S PROVE Total(S \ {f}) = Total(S) - Size[f]
  <2>1. Total(S \ {f}) \in Nat /\ Size[f] \in Nat
    BY <1>2, FS_RemoveElement, QuotaConstants
  <2>. QED
    BY <1>1, <2>1
<1>. QED
  BY <1>2, <1>3, <1>4

-----------------------------------------------------------------------------
(* The capacity: UploadQuota. *)
(* A transaction that measures holds all its locks; one that still locks   *)
(* holds those it is through with.                                         *)
LocksHeld ==
  \A r \in Registrations :
    /\ tx[r].left \subseteq tx[r].scopes
    /\ tx[r].missing \subseteq tx[r].scopes
    /\ tx[r].phase # "idle" => tx[r].file \in Files
    /\ tx[r].phase = "locking" => \A s \in tx[r].scopes \ tx[r].left : holder[s] = r
    /\ tx[r].phase = "measuring" => \A s \in tx[r].scopes : holder[s] = r

(* What was found missing is missing still, and still fits. *)
MeasuresValid ==
  \A r \in Registrations : \A s \in tx[r].missing :
    /\ tx[r].phase = "measuring"
    /\ tx[r].file \notin granted[s]
    /\ used[s] + Size[tx[r].file] <= Quota

QuotaIInv == QuotaTypeOK /\ LocksHeld /\ MeasuresValid /\ WithinQuota

LEMMA QuotaInitIInv == QuotaInit => QuotaIInv
  BY QuotaConstants
  DEF QuotaInit, QuotaIInv, QuotaTypeOK, LocksHeld, MeasuresValid, WithinQuota, Idle, Transaction

LEMMA BeginKeeps ==
  ASSUME QuotaIInv, NEW r \in Registrations, NEW f \in Files, NEW S \in SUBSET Scopes, Begin(r, f, S)
  PROVE  QuotaIInv'
  BY DEF Begin, QuotaIInv, QuotaTypeOK, LocksHeld, MeasuresValid, WithinQuota, Transaction

LEMMA LockKeeps ==
  ASSUME QuotaIInv, NEW r \in Registrations, Lock(r)
  PROVE  QuotaIInv'
<1>1. PICK s \in tx[r].left :
        /\ holder[s] = None
        /\ holder' = [holder EXCEPT ![s] = r]
        /\ tx' = [tx EXCEPT ![r].left = @ \ {s}]
  BY DEF Lock
<1>2. tx[r].phase = "locking" /\ UNCHANGED <<granted, used>> /\ s \in Scopes
  BY DEF Lock, QuotaIInv, QuotaTypeOK, Transaction
<1>3. QuotaTypeOK'
  <2> DEFINE next == [tx[r] EXCEPT !.left = @ \ {s}]
  <2>1. tx[r] \in Transaction /\ tx[r].left \ {s} \in SUBSET Scopes
    BY DEF QuotaIInv, QuotaTypeOK, Transaction
  <2>2. next \in Transaction
    BY <2>1 DEF Transaction
  <2>3. tx' = [tx EXCEPT ![r] = next]
    BY <1>1
  <2> HIDE DEF next
  <2>. QED
    BY <1>1, <1>2, <2>2, <2>3 DEF QuotaIInv, QuotaTypeOK
<1>4. LocksHeld'
  BY <1>1, <1>2, QuotaConstants DEF QuotaIInv, QuotaTypeOK, LocksHeld, Transaction
<1>5. MeasuresValid' /\ WithinQuota'
  BY <1>1, <1>2 DEF QuotaIInv, QuotaTypeOK, MeasuresValid, WithinQuota, Transaction
<1>. QED
  BY <1>3, <1>4, <1>5 DEF QuotaIInv

LEMMA StartMeasuringKeeps ==
  ASSUME QuotaIInv, NEW r \in Registrations, StartMeasuring(r)
  PROVE  QuotaIInv'
<1> DEFINE next == [tx[r] EXCEPT !.phase = "measuring", !.left = tx[r].scopes]
<1>a. next \in Transaction
  <2>1. tx[r] \in Transaction /\ tx[r].scopes \in SUBSET Scopes
    BY DEF QuotaIInv, QuotaTypeOK, Transaction
  <2>. QED
    BY <2>1 DEF Transaction
<1>b. tx' = [tx EXCEPT ![r] = next] /\ UNCHANGED <<granted, used, holder>>
  BY DEF StartMeasuring, QuotaIInv, QuotaTypeOK, Transaction
<1>1. QuotaTypeOK'
  <2> HIDE DEF next
  <2>. QED
    BY <1>a, <1>b DEF QuotaIInv, QuotaTypeOK
<1>2. LocksHeld'
  BY DEF StartMeasuring, QuotaIInv, QuotaTypeOK, LocksHeld, Transaction
<1>3. MeasuresValid' /\ WithinQuota'
  BY DEF StartMeasuring, QuotaIInv, QuotaTypeOK, MeasuresValid, WithinQuota, Transaction
<1>. QED
  BY <1>1, <1>2, <1>3 DEF QuotaIInv

LEMMA MeasureKeeps ==
  ASSUME QuotaIInv, NEW r \in Registrations, NEW s \in Scopes, Measure(r, s)
  PROVE  QuotaIInv'
<1> DEFINE found == IF IsMissing(r, s) THEN tx[r].missing \union {s} ELSE tx[r].missing
           next  == [tx[r] EXCEPT !.left = @ \ {s}, !.missing = found]
<1>a. tx[r] \in Transaction /\ found \in SUBSET Scopes
  BY DEF QuotaIInv, QuotaTypeOK, Transaction
<1>b. /\ next \in Transaction
      /\ next.phase = tx[r].phase /\ next.file = tx[r].file /\ next.scopes = tx[r].scopes
      /\ next.left \subseteq tx[r].left /\ next.missing = found
  <2> HIDE DEF found
  <2>. QED
    BY <1>a DEF Transaction
<1>c. tx' = [tx EXCEPT ![r] = next] /\ UNCHANGED <<granted, used, holder>>
  BY DEF Measure, QuotaIInv, QuotaTypeOK, Transaction
<1>d. /\ tx[r].phase = "measuring" /\ s \in tx[r].scopes
      /\ s \in found \ tx[r].missing => IsMissing(r, s) /\ Fits(r, s)
      /\ found \subseteq tx[r].missing \union {s}
  BY DEF Measure, QuotaIInv, LocksHeld
<1> HIDE DEF next, found
<1>1. QuotaTypeOK'
  BY <1>b, <1>c DEF QuotaIInv, QuotaTypeOK
<1>2. LocksHeld'
  BY <1>b, <1>c, <1>d DEF QuotaIInv, QuotaTypeOK, LocksHeld
<1>3. MeasuresValid' /\ WithinQuota'
  BY <1>b, <1>c, <1>d DEF IsMissing, Fits, QuotaIInv, QuotaTypeOK, MeasuresValid, WithinQuota
<1>. QED
  BY <1>1, <1>2, <1>3 DEF QuotaIInv

(* Ending without a trace: the locks of r go, those of the others stay. *)
LEMMA RollbackKeeps ==
  ASSUME QuotaIInv, NEW r \in Registrations,
         holder' = Unlocked(r), tx' = [tx EXCEPT ![r] = Idle], UNCHANGED <<granted, used>>
  PROVE  QuotaIInv'
<1>1. QuotaTypeOK'
  BY DEF Unlocked, Idle, QuotaIInv, QuotaTypeOK, Transaction
<1>2. LocksHeld'
  BY DEF Unlocked, Idle, QuotaIInv, QuotaTypeOK, LocksHeld, Transaction
<1>3. MeasuresValid' /\ WithinQuota'
  BY DEF Idle, QuotaIInv, QuotaTypeOK, MeasuresValid, WithinQuota, Transaction
<1>. QED
  BY <1>1, <1>2, <1>3 DEF QuotaIInv

LEMMA SaveKeeps ==
  ASSUME QuotaIInv, NEW r \in Registrations, Save(r)
  PROVE  QuotaIInv'
<1>1. tx[r].phase = "measuring" /\ tx[r].file \in Files /\ Size[tx[r].file] \in Nat
  BY QuotaConstants DEF Save, QuotaIInv, LocksHeld
<1>2. QuotaTypeOK'
  BY <1>1 DEF Save, Unlocked, Idle, QuotaIInv, QuotaTypeOK, Transaction
<1>3. LocksHeld'
  BY DEF Save, Unlocked, Idle, QuotaIInv, QuotaTypeOK, LocksHeld, Transaction
<1>4. MeasuresValid'
  <2> SUFFICES ASSUME NEW q \in Registrations, NEW s \in tx'[q].missing
               PROVE  /\ tx'[q].phase = "measuring"
                      /\ tx'[q].file \notin granted'[s]
                      /\ used'[s] + Size[tx'[q].file] <= Quota
    BY DEF MeasuresValid
  <2>1. q # r /\ tx'[q] = tx[q] /\ s \in Scopes
    BY DEF Save, Idle, QuotaIInv, QuotaTypeOK, Transaction
  <2>2. holder[s] = q /\ s \notin tx[r].missing
    BY <1>1, <2>1 DEF QuotaIInv, LocksHeld, MeasuresValid
  <2>. QED
    BY <2>1, <2>2 DEF Save, QuotaIInv, MeasuresValid
<1>5. WithinQuota'
  BY <1>1 DEF Save, QuotaIInv, QuotaTypeOK, MeasuresValid, WithinQuota
<1>. QED
  BY <1>2, <1>3, <1>4, <1>5 DEF QuotaIInv

LEMMA DeleteKeeps ==
  ASSUME QuotaIInv, NEW f \in Files, NEW S \in SUBSET Scopes, Delete(f, S)
  PROVE  QuotaIInv'
<1>1. Size[f] \in Nat
  BY QuotaConstants
<1>2. \A s \in Scopes : used'[s] \in Int /\ used'[s] <= used[s] /\ granted'[s] \subseteq granted[s]
  BY <1>1 DEF Delete, QuotaIInv, QuotaTypeOK
<1>3. QuotaTypeOK'
  BY <1>1 DEF Delete, QuotaIInv, QuotaTypeOK
<1>4. LocksHeld'
  BY DEF Delete, QuotaIInv, LocksHeld
<1>5. MeasuresValid'
  <2> SUFFICES ASSUME NEW q \in Registrations, NEW s \in tx[q].missing
               PROVE  /\ tx[q].phase = "measuring"
                      /\ tx[q].file \notin granted'[s]
                      /\ used'[s] + Size[tx[q].file] <= Quota
    BY DEF Delete, MeasuresValid
  <2>1. s \in Scopes /\ used[s] \in Int
    BY DEF QuotaIInv, QuotaTypeOK, Transaction
  <2>2. tx[q].file \in Files /\ Size[tx[q].file] \in Nat
    BY QuotaConstants DEF QuotaIInv, LocksHeld, MeasuresValid
  <2>. QED
    BY <1>2, <2>1, <2>2, QuotaConstants DEF QuotaIInv, MeasuresValid
<1>6. WithinQuota'
  BY <1>2, QuotaConstants DEF QuotaIInv, QuotaTypeOK, WithinQuota
<1>. QED
  BY <1>3, <1>4, <1>5, <1>6 DEF QuotaIInv

LEMMA QuotaStepKeeps == QuotaIInv /\ [QuotaNext]_quotaVars => QuotaIInv'
<1> SUFFICES ASSUME QuotaIInv, [QuotaNext]_quotaVars PROVE QuotaIInv'
  OBVIOUS
<1>1. CASE UNCHANGED quotaVars
  BY <1>1 DEF quotaVars, QuotaIInv, QuotaTypeOK, LocksHeld, MeasuresValid, WithinQuota
<1>2. ASSUME NEW r \in Registrations, NEW f \in Files, NEW S \in SUBSET Scopes, Begin(r, f, S)
      PROVE  QuotaIInv'
  BY <1>2, BeginKeeps
<1>3. ASSUME NEW r \in Registrations, Progress(r)
      PROVE  QuotaIInv'
  <2>1. CASE Lock(r)
    BY <2>1, LockKeeps
  <2>2. CASE StartMeasuring(r)
    BY <2>2, StartMeasuringKeeps
  <2>3. ASSUME NEW s \in Scopes, Measure(r, s)
        PROVE  QuotaIInv'
    BY <2>3, MeasureKeeps
  <2>4. ASSUME NEW s \in Scopes, Refuse(r, s)
        PROVE  QuotaIInv'
    BY <2>4, RollbackKeeps DEF Refuse
  <2>5. CASE Save(r)
    BY <2>5, SaveKeeps
  <2>. QED
    BY <1>3, <2>1, <2>2, <2>3, <2>4, <2>5 DEF Progress
<1>4. ASSUME NEW r \in Registrations, Abort(r)
      PROVE  QuotaIInv'
  BY <1>4, RollbackKeeps DEF Abort
<1>5. ASSUME NEW f \in Files, UnregisterAll(f)
      PROVE  QuotaIInv'
  BY <1>5, DeleteKeeps DEF UnregisterAll
<1>6. ASSUME NEW f \in Files, NEW s \in Scopes, DeleteRecord(f, s)
      PROVE  QuotaIInv'
  BY <1>6, DeleteKeeps DEF DeleteRecord
<1>. QED
  BY <1>1, <1>2, <1>3, <1>4, <1>5, <1>6 DEF QuotaNext

LEMMA QuotaInvariance == QuotaSpec => []QuotaIInv
  BY QuotaInitIInv, QuotaStepKeeps, PTL DEF QuotaSpec

(* The variables keep their types. *)
THEOREM QuotaTypeCorrect == QuotaSpec => []QuotaTypeOK
<1>1. QuotaIInv => QuotaTypeOK
  BY DEF QuotaIInv
<1>. QED
  BY QuotaInvariance, <1>1, PTL

(* No scope is ever taken beyond its quota by registrations that overlap   *)
(* in time (UploadsService.register).                                      *)
THEOREM QuotaKept == QuotaSpec => []WithinQuota
<1>1. QuotaIInv => WithinQuota
  BY DEF QuotaIInv
<1>. QED
  BY QuotaInvariance, <1>1, PTL

(* The sums are those of the rows: a grant is inserted only where there is *)
(* none, and what a deletion gives back is what was charged.               *)
Charged ==
  \A s \in Scopes : IsFiniteSet(granted[s]) /\ used[s] = Total(granted[s])

LEMMA ChargedStart == QuotaInit => Charged
<1> SUFFICES ASSUME QuotaInit, NEW s \in Scopes
             PROVE  IsFiniteSet(granted[s]) /\ used[s] = Total(granted[s])
  BY DEF Charged
<1>1. granted[s] = {} /\ used[s] = 0
  BY DEF QuotaInit
<1>2. IsFiniteSet({}) /\ Total({}) = 0
  BY TotalOf, FS_EmptySet
<1>. QED
  BY <1>1, <1>2

LEMMA SaveCharges ==
  ASSUME QuotaIInv, Charged, NEW r \in Registrations, Save(r)
  PROVE  Charged'
<1> SUFFICES ASSUME NEW s \in Scopes
             PROVE  IsFiniteSet(granted'[s]) /\ used'[s] = Total(granted'[s])
  BY DEF Charged
<1>1. tx[r].file \in Files /\ granted[s] \subseteq Files
  BY DEF Save, QuotaIInv, QuotaTypeOK, LocksHeld
<1>2. IsFiniteSet(granted[s]) /\ used[s] = Total(granted[s])
  BY DEF Charged
<1>3. CASE s \in tx[r].missing
  <2>1. tx[r].file \notin granted[s]
    BY <1>3 DEF QuotaIInv, MeasuresValid
  <2>2. granted'[s] = granted[s] \union {tx[r].file} /\ used'[s] = used[s] + Size[tx[r].file]
    BY <1>3 DEF Save
  <2>3. Total(granted[s] \union {tx[r].file}) = Total(granted[s]) + Size[tx[r].file]
    BY <1>1, <1>2, <2>1, TotalOf
  <2>4. IsFiniteSet(granted[s] \union {tx[r].file})
    BY <1>2, FS_AddElement
  <2>. QED
    BY <1>2, <2>2, <2>3, <2>4
<1>4. CASE s \notin tx[r].missing
  BY <1>2, <1>4 DEF Save
<1>. QED
  BY <1>3, <1>4

LEMMA DeleteCharges ==
  ASSUME QuotaIInv, Charged, NEW f \in Files, NEW S \in SUBSET Scopes, Delete(f, S)
  PROVE  Charged'
<1> SUFFICES ASSUME NEW s \in Scopes
             PROVE  IsFiniteSet(granted'[s]) /\ used'[s] = Total(granted'[s])
  BY DEF Charged
<1>1. granted[s] \subseteq Files
  BY DEF QuotaIInv, QuotaTypeOK
<1>2. IsFiniteSet(granted[s]) /\ used[s] = Total(granted[s])
  BY DEF Charged
<1>3. CASE s \in S /\ f \in granted[s]
  <2>1. granted'[s] = granted[s] \ {f} /\ used'[s] = used[s] - Size[f]
    BY <1>3 DEF Delete
  <2>2. Total(granted[s] \ {f}) = Total(granted[s]) - Size[f]
    BY <1>1, <1>2, <1>3, TotalOf
  <2>3. IsFiniteSet(granted[s] \ {f})
    BY <1>2, FS_RemoveElement
  <2>. QED
    BY <1>2, <2>1, <2>2, <2>3
<1>4. CASE ~(s \in S /\ f \in granted[s])
  <2>1. granted'[s] = granted[s] /\ used'[s] = used[s]
    BY <1>4 DEF Delete
  <2>. QED
    BY <1>2, <2>1
<1>. QED
  BY <1>3, <1>4

LEMMA ChargedStays == QuotaIInv /\ Charged /\ [QuotaNext]_quotaVars => Charged'
<1> SUFFICES ASSUME QuotaIInv, Charged, [QuotaNext]_quotaVars PROVE Charged'
  OBVIOUS
<1>1. CASE UNCHANGED <<granted, used>>
  BY <1>1 DEF Charged
<1>2. ASSUME NEW r \in Registrations, Save(r) PROVE Charged'
  BY <1>2, SaveCharges
<1>3. ASSUME NEW f \in Files, UnregisterAll(f) \/ \E s \in Scopes : DeleteRecord(f, s)
      PROVE  Charged'
  <2>1. PICK S \in SUBSET Scopes : Delete(f, S)
    BY <1>3 DEF UnregisterAll, DeleteRecord
  <2>. QED
    BY <2>1, DeleteCharges
<1>. QED
  BY <1>1, <1>2, <1>3
  DEF QuotaNext, quotaVars, Begin, Progress, Lock, StartMeasuring, Measure, Refuse, Abort

(* A scope pays once for a file, however many registrations grant it at    *)
(* the same time, and a deletion gives back what was charged               *)
(* (UploadsService.register and unregister, UploadMaintenanceService).     *)
THEOREM PaidOnce == QuotaSpec => []ChargedOnce
<1>1. Charged => ChargedOnce
  BY DEF Charged, ChargedOnce, Total
<1>. QED
  BY <1>1, ChargedStart, ChargedStays, QuotaInvariance, PTL DEF QuotaSpec

(* The insert of a registration never meets a grant of its file: the       *)
(* unique index of stored_uploads is not violated.                         *)
InsertsAreNew ==
  \A r \in Registrations : \A s \in tx[r].missing : tx[r].file \notin granted[s]

THEOREM NoDuplicateInsert == QuotaSpec => []InsertsAreNew
<1>1. QuotaIInv => InsertsAreNew
  BY DEF QuotaIInv, MeasuresValid, InsertsAreNew
<1>. QED
  BY QuotaInvariance, <1>1, PTL

-----------------------------------------------------------------------------
(* The files: UploadFiles. *)
Open == {"new", "reserved", "writing"}
InProgress == {"reserved", "writing", "failed", "cleaned", "stuck"}

(* All grants of f are within the grace period; f is spared for its grants. *)
AllYoung(f) == \A s \in ScopesOf(f) : ~Old(grants[f][s])
Spared(f) == ScopesOf(f) = {} \/ \E s \in ScopesOf(f) : ~Old(grants[f][s])

(* What the phase of a request says about its file and its grants.         *)
Requests ==
  \A f \in Files :
    /\ phase[f] = "new" => ScopesOf(f) = {}
    /\ phase[f] \in {"new", "reserved", "cleaned"} => disk[f] = None
    /\ phase[f] \in InProgress => AllYoung(f)
    /\ deleting[f] # "no" => phase[f] = "kept"
    /\ deleting[f] = "unlinked" => disk[f] = None

(* What a pass is about to delete belongs to a request that is over.       *)
Judgement ==
  /\ \A f \in Files : pass.scan[f] # None => phase[f] # "new"
  /\ \A f \in pass.doomed : phase[f] \notin Open
  /\ \A f \in pass.resize : pass.scan[f] # None
  /\ pass.phase = "collecting" => pass.resize = {}
  /\ pass.orphan # None => phase[pass.orphan] \notin Open /\ disk[pass.orphan] = None
  /\ \A f \in Files, s \in Scopes :
       <<f, s>> \in pass.expired => phase[f] \notin Open /\ disk[f] = None
  /\ pass.phase = "scanned" =>
       \A f \in Files : pass.scan[f] = None /\ disk[f] # None => AllYoung(f)

(* A table that did not hold f when it was read is noted, unless f is too  *)
(* young to be removed and will stay so until the records are loaded.      *)
Young(found) == found = None \/ ~Old(found.age)

Reading ==
  /\ pass.read <= Len(Tables)
  /\ pass.phase = "collecting" =>
       \A i \in 1 .. pass.read : \A f \in Files \ pass.seen :
         <<f, Tables[i]>> \in lapsed \/ Young(disk[f]) \/ Spared(f)
  /\ pass.phase = "scanned" =>
       /\ pass.read = Len(Tables)
       /\ \A i \in 1 .. pass.read : \A f \in Files \ pass.seen :
            <<f, Tables[i]>> \in lapsed \/ Young(pass.scan[f]) \/ Spared(f)
  /\ \A f \in pass.doomed : \A t \in Holders : <<f, t>> \in lapsed

Accounted == InFlightReserved /\ NoUnaccountedFile

IInv == TypeOK /\ Requests /\ Accounted /\ Judgement /\ Reading

(* The history only grows.                                                 *)
Grows == lapsed \subseteq lapsed' /\ lapsed' \subseteq Files \X Holders

LEMMA NotedGrows == TypeOK /\ Noted => Grows
  BY DEF TypeOK, Noted, Grows

LEMMA NoPassTyped == NoPass \in Pass
  BY DEF NoPass, Pass

LEMMA InitIInv == Init => IInv
<1>. SUFFICES ASSUME Init PROVE IInv
  OBVIOUS
<1>1. TypeOK
  BY FileConstants, NoPassTyped DEF Init, TypeOK, NoGrants
<1>2. Requests /\ Accounted
  BY DEF Init, Requests, Accounted, InFlightReserved, NoUnaccountedFile, NoGrants, ScopesOf,
         InProgress, OnDisk, AllYoung
<1>3. Judgement /\ Reading
  BY FileConstants DEF Init, NoPass, Judgement, Reading
<1>. QED
  BY <1>1, <1>2, <1>3 DEF IInv

-----------------------------------------------------------------------------
(* Upload requests.                                                        *)

(* What other requests do to the grants and files leaves a pass as sound   *)
(* as it was: they write no file of a request that is over, and make no    *)
(* grant old.                                                              *)
LEMMA JudgementStays ==
  ASSUME TypeOK, Judgement, UNCHANGED pass,
         \A g \in Files : phase[g] # "new" => phase'[g] # "new",
         \A g \in Files : phase[g] \notin Open =>
           phase'[g] \notin Open /\ (disk[g] = None => disk'[g] = None),
         \A g \in Files : disk'[g] # None =>
           AllYoung(g)' \/ (disk[g] # None /\ (AllYoung(g) => AllYoung(g)'))
  PROVE  Judgement'
  BY DEF TypeOK, Judgement, Pass, Open

LEMMA ReadingStays ==
  ASSUME TypeOK, Reading, Grows, UNCHANGED pass,
         \A g \in Files : Young(disk[g]) => Young(disk[g])',
         \A g \in Files : Spared(g) => Spared(g)'
  PROVE  Reading'
  BY DEF TypeOK, Reading, Grows, Pass, Young

-----------------------------------------------------------------------------
(* Upload requests.                                                        *)

LEMMA RegisterKeeps ==
  ASSUME IInv, Grows, NEW f \in Files, NEW S \in SUBSET Scopes, Register(f, S)
  PROVE  IInv'
<1>1. TypeOK'
  BY FileConstants DEF Register, Grows, IInv, TypeOK, Ages
<1>2. \A g \in Files :
        /\ phase[g] # "new" => phase'[g] # "new"
        /\ phase[g] \notin Open => phase'[g] \notin Open /\ (disk[g] = None => disk'[g] = None)
        /\ Young(disk[g]) => Young(disk[g])'
        /\ Spared(g) => Spared(g)'
        /\ disk'[g] # None => AllYoung(g)' \/ (disk[g] # None /\ (AllYoung(g) => AllYoung(g)'))
  BY FileConstants DEF Register, IInv, TypeOK, Requests, Open, InProgress, ScopesOf, AllYoung,
     Spared, Young, Old
<1>3. Requests' /\ Accounted'
  BY FileConstants DEF Register, IInv, TypeOK, Requests, InProgress, ScopesOf, AllYoung, Old,
     Accounted, InFlightReserved, NoUnaccountedFile, OnDisk
<1>4. UNCHANGED pass
  BY DEF Register
<1>5. Judgement' /\ Reading'
  BY <1>2, <1>4, JudgementStays, ReadingStays DEF IInv
<1>. QED
  BY <1>1, <1>3, <1>5 DEF IInv

LEMMA StartWriteKeeps ==
  ASSUME IInv, Grows, NEW f \in Files, StartWrite(f)
  PROVE  IInv'
<1>0. [age |-> 0, whole |-> FALSE] \in Entry /\ [age |-> 0, whole |-> TRUE] \in Entry
  BY FileConstants DEF Entry, Ages
<1>1. TypeOK'
  BY <1>0, FileConstants DEF StartWrite, Grows, IInv, TypeOK
<1>2. \A g \in Files :
        /\ phase[g] # "new" => phase'[g] # "new"
        /\ phase[g] \notin Open => phase'[g] \notin Open /\ (disk[g] = None => disk'[g] = None)
        /\ Young(disk[g]) => Young(disk[g])'
        /\ Spared(g) => Spared(g)'
        /\ disk'[g] # None => AllYoung(g)' \/ (disk[g] # None /\ (AllYoung(g) => AllYoung(g)'))
  BY <1>0, FileConstants DEF StartWrite, IInv, TypeOK, Requests, Open, InProgress, ScopesOf, AllYoung,
     Spared, Young, Old
<1>3. Requests' /\ Accounted'
  BY <1>0, FileConstants DEF StartWrite, IInv, TypeOK, Requests, InProgress, ScopesOf, AllYoung, Old,
     Accounted, InFlightReserved, NoUnaccountedFile, OnDisk
<1>4. UNCHANGED pass
  BY DEF StartWrite
<1>5. Judgement' /\ Reading'
  BY <1>2, <1>4, JudgementStays, ReadingStays DEF IInv
<1>. QED
  BY <1>1, <1>3, <1>5 DEF IInv

LEMMA FinishWriteKeeps ==
  ASSUME IInv, Grows, NEW f \in Files, FinishWrite(f)
  PROVE  IInv'
<1>0. [age |-> 0, whole |-> FALSE] \in Entry /\ [age |-> 0, whole |-> TRUE] \in Entry
  BY FileConstants DEF Entry, Ages
<1>1. TypeOK'
  BY <1>0, FileConstants DEF FinishWrite, Grows, IInv, TypeOK
<1>2. \A g \in Files :
        /\ phase[g] # "new" => phase'[g] # "new"
        /\ phase[g] \notin Open => phase'[g] \notin Open /\ (disk[g] = None => disk'[g] = None)
        /\ Young(disk[g]) => Young(disk[g])'
        /\ Spared(g) => Spared(g)'
        /\ disk'[g] # None => AllYoung(g)' \/ (disk[g] # None /\ (AllYoung(g) => AllYoung(g)'))
  BY <1>0, FileConstants DEF FinishWrite, IInv, TypeOK, Requests, Open, InProgress, ScopesOf, AllYoung,
     Spared, Young, Old
<1>3. Requests' /\ Accounted'
  BY <1>0, FileConstants DEF FinishWrite, IInv, TypeOK, Requests, InProgress, ScopesOf, AllYoung, Old,
     Accounted, InFlightReserved, NoUnaccountedFile, OnDisk
<1>4. UNCHANGED pass
  BY DEF FinishWrite
<1>5. Judgement' /\ Reading'
  BY <1>2, <1>4, JudgementStays, ReadingStays DEF IInv
<1>. QED
  BY <1>1, <1>3, <1>5 DEF IInv

LEMMA WriteFailsKeeps ==
  ASSUME IInv, Grows, NEW f \in Files, WriteFails(f)
  PROVE  IInv'
<1>1. TypeOK'
  BY FileConstants DEF WriteFails, Grows, IInv, TypeOK
<1>2. \A g \in Files :
        /\ phase[g] # "new" => phase'[g] # "new"
        /\ phase[g] \notin Open => phase'[g] \notin Open /\ (disk[g] = None => disk'[g] = None)
        /\ Young(disk[g]) => Young(disk[g])'
        /\ Spared(g) => Spared(g)'
        /\ disk'[g] # None => AllYoung(g)' \/ (disk[g] # None /\ (AllYoung(g) => AllYoung(g)'))
  BY FileConstants DEF WriteFails, IInv, TypeOK, Requests, Open, InProgress, ScopesOf, AllYoung,
     Spared, Young, Old
<1>3. Requests' /\ Accounted'
  BY FileConstants DEF WriteFails, IInv, TypeOK, Requests, InProgress, ScopesOf, AllYoung, Old,
     Accounted, InFlightReserved, NoUnaccountedFile, OnDisk
<1>4. UNCHANGED pass
  BY DEF WriteFails
<1>5. Judgement' /\ Reading'
  BY <1>2, <1>4, JudgementStays, ReadingStays DEF IInv
<1>. QED
  BY <1>1, <1>3, <1>5 DEF IInv

LEMMA CleanUpKeeps ==
  ASSUME IInv, Grows, NEW f \in Files, NEW ok \in BOOLEAN, CleanUp(f, ok)
  PROVE  IInv'
<1>1. TypeOK'
  BY FileConstants DEF CleanUp, Grows, IInv, TypeOK
<1>2. \A g \in Files :
        /\ phase[g] # "new" => phase'[g] # "new"
        /\ phase[g] \notin Open => phase'[g] \notin Open /\ (disk[g] = None => disk'[g] = None)
        /\ Young(disk[g]) => Young(disk[g])'
        /\ Spared(g) => Spared(g)'
        /\ disk'[g] # None => AllYoung(g)' \/ (disk[g] # None /\ (AllYoung(g) => AllYoung(g)'))
  BY FileConstants DEF CleanUp, IInv, TypeOK, Requests, Open, InProgress, ScopesOf, AllYoung,
     Spared, Young, Old
<1>3. Requests' /\ Accounted'
  BY FileConstants DEF CleanUp, IInv, TypeOK, Requests, InProgress, ScopesOf, AllYoung, Old,
     Accounted, InFlightReserved, NoUnaccountedFile, OnDisk
<1>4. UNCHANGED pass
  BY DEF CleanUp
<1>5. Judgement' /\ Reading'
  BY <1>2, <1>4, JudgementStays, ReadingStays DEF IInv
<1>. QED
  BY <1>1, <1>3, <1>5 DEF IInv

LEMMA UnregisterKeeps ==
  ASSUME IInv, Grows, NEW f \in Files, NEW ok \in BOOLEAN, Unregister(f, ok)
  PROVE  IInv'
<1>1. TypeOK'
  BY FileConstants DEF Unregister, NoGrants, Grows, IInv, TypeOK
<1>2. \A g \in Files :
        /\ phase[g] # "new" => phase'[g] # "new"
        /\ phase[g] \notin Open => phase'[g] \notin Open /\ (disk[g] = None => disk'[g] = None)
        /\ Young(disk[g]) => Young(disk[g])'
        /\ Spared(g) => Spared(g)'
        /\ disk'[g] # None => AllYoung(g)' \/ (disk[g] # None /\ (AllYoung(g) => AllYoung(g)'))
  BY FileConstants DEF Unregister, NoGrants, IInv, TypeOK, Requests, Open, InProgress, ScopesOf, AllYoung,
     Spared, Young, Old
<1>3. Requests' /\ Accounted'
  BY FileConstants DEF Unregister, NoGrants, IInv, TypeOK, Requests, InProgress, ScopesOf, AllYoung, Old,
     Accounted, InFlightReserved, NoUnaccountedFile, OnDisk
<1>4. UNCHANGED pass
  BY DEF Unregister, NoGrants
<1>5. Judgement' /\ Reading'
  BY <1>2, <1>4, JudgementStays, ReadingStays DEF IInv
<1>. QED
  BY <1>1, <1>3, <1>5 DEF IInv

-----------------------------------------------------------------------------
(* References and administration.                                          *)

LEMMA ReferKeeps ==
  ASSUME IInv, Grows, NEW f \in Files, NEW t \in Holders, Refer(f, t) \/ Unrefer(f, t)
  PROVE  IInv'
<1>1. TypeOK'
  BY FileConstants DEF Refer, Unrefer, Grows, IInv, TypeOK
<1>2. \A g \in Files :
        /\ phase[g] # "new" => phase'[g] # "new"
        /\ phase[g] \notin Open => phase'[g] \notin Open /\ (disk[g] = None => disk'[g] = None)
        /\ Young(disk[g]) => Young(disk[g])'
        /\ Spared(g) => Spared(g)'
        /\ disk'[g] # None => AllYoung(g)' \/ (disk[g] # None /\ (AllYoung(g) => AllYoung(g)'))
  BY FileConstants DEF Refer, Unrefer, IInv, TypeOK, Requests, Open, InProgress, ScopesOf, AllYoung,
     Spared, Young, Old
<1>3. Requests' /\ Accounted'
  BY FileConstants DEF Refer, Unrefer, IInv, TypeOK, Requests, InProgress, ScopesOf, AllYoung, Old,
     Accounted, InFlightReserved, NoUnaccountedFile, OnDisk
<1>4. UNCHANGED pass
  BY DEF Refer, Unrefer
<1>5. Judgement' /\ Reading'
  BY <1>2, <1>4, JudgementStays, ReadingStays DEF IInv
<1>. QED
  BY <1>1, <1>3, <1>5 DEF IInv

LEMMA RetainKeeps ==
  ASSUME IInv, Grows, NEW f \in Files, NEW s \in Scopes, RetainProjectImage(f, s)
  PROVE  IInv'
<1>0. /\ phase[f] = "kept" /\ UNCHANGED <<phase, disk, whole, refs, deleting, pass, crashes>>
      /\ saving' \subseteq Files
  BY DEF RetainProjectImage, IInv, TypeOK
<1>1. \/ UNCHANGED grants
      \/ /\ grants' = [grants EXCEPT ![f] = [grants[f] EXCEPT ![s] = 0]]
         /\ ScopesOf(f) # {}
  BY DEF RetainProjectImage, ScopesOf
<1>2. 0 \in Ages /\ ~Old(0) /\ 0 # None
  BY FileConstants DEF Ages, Old
<1>3. TypeOK'
  <2>1. grants' \in [Files -> [Scopes -> Ages \union {None}]]
    <3>1. grants[f] \in [Scopes -> Ages \union {None}] /\ grants \in [Files -> [Scopes -> Ages \union {None}]]
      BY DEF IInv, TypeOK
    <3>2. [grants[f] EXCEPT ![s] = 0] \in [Scopes -> Ages \union {None}]
      BY <3>1, <1>2
    <3>. QED
      BY <3>1, <3>2, <1>1
  <2>. QED
    BY <2>1, <1>0 DEF Grows, IInv, TypeOK
<1>4. \A g \in Files :
        \/ ScopesOf(g)' = ScopesOf(g) /\ grants'[g] = grants[g]
        \/ /\ g = f /\ ScopesOf(f) # {} /\ ScopesOf(f)' = ScopesOf(f) \union {s}
           /\ grants'[f][s] = 0 /\ \A r \in Scopes \ {s} : grants'[f][r] = grants[f][r]
  <2>1. CASE UNCHANGED grants
    BY <2>1 DEF ScopesOf
  <2>2. CASE /\ grants' = [grants EXCEPT ![f] = [grants[f] EXCEPT ![s] = 0]]
             /\ ScopesOf(f) # {}
    <3>1. grants \in [Files -> [Scopes -> Ages \union {None}]]
      BY DEF IInv, TypeOK
    <3>2. /\ \A g \in Files \ {f} : grants'[g] = grants[g]
          /\ grants'[f][s] = 0 /\ \A r \in Scopes \ {s} : grants'[f][r] = grants[f][r]
      BY <2>2, <3>1
    <3>3. \A g \in Files \ {f} : ScopesOf(g)' = ScopesOf(g)
      BY <3>2 DEF ScopesOf
    <3>4. ScopesOf(f)' = ScopesOf(f) \union {s}
      BY <3>2, <1>2 DEF ScopesOf
    <3>5. ASSUME NEW g \in Files, g # f
          PROVE  ScopesOf(g)' = ScopesOf(g) /\ grants'[g] = grants[g]
      BY <3>2, <3>3, <3>5
    <3>. QED
      BY <2>2, <3>2, <3>4, <3>5
  <2>. QED
    BY <1>1, <2>1, <2>2
<1>5. \A g \in Files : (AllYoung(g) => AllYoung(g)') /\ (Spared(g) => Spared(g)')
                      /\ (ScopesOf(g) # {} => ScopesOf(g)' # {})
  BY <1>4, <1>2 DEF AllYoung, Spared, ScopesOf
<1>6. Requests' /\ Accounted'
  BY <1>0, <1>4, <1>5 DEF IInv, Requests, InProgress, Accounted, InFlightReserved, NoUnaccountedFile, OnDisk
<1>7. Judgement' /\ Reading'
  <2>1. \A g \in Files : Young(disk[g]) => Young(disk[g])'
    BY <1>0
  <2>. QED
    BY <2>1, <1>0, <1>5, JudgementStays, ReadingStays DEF IInv
<1>. QED
  BY <1>3, <1>6, <1>7 DEF IInv

LEMMA SaveProjectKeeps ==
  ASSUME IInv, Grows, NEW f \in Files, SaveProject(f)
  PROVE  IInv'
<1>1. TypeOK'
  BY FileConstants DEF SaveProject, Grows, IInv, TypeOK, Holders
<1>2. \A g \in Files :
        /\ phase[g] # "new" => phase'[g] # "new"
        /\ phase[g] \notin Open => phase'[g] \notin Open /\ (disk[g] = None => disk'[g] = None)
        /\ Young(disk[g]) => Young(disk[g])'
        /\ Spared(g) => Spared(g)'
        /\ disk'[g] # None => AllYoung(g)' \/ (disk[g] # None /\ (AllYoung(g) => AllYoung(g)'))
  BY FileConstants DEF SaveProject, IInv, TypeOK, Requests, Open, InProgress, ScopesOf, AllYoung,
     Spared, Young, Old
<1>3. Requests' /\ Accounted'
  BY FileConstants DEF SaveProject, IInv, TypeOK, Requests, InProgress, ScopesOf, AllYoung, Old,
     Accounted, InFlightReserved, NoUnaccountedFile, OnDisk
<1>4. UNCHANGED pass
  BY DEF SaveProject
<1>5. Judgement' /\ Reading'
  BY <1>2, <1>4, JudgementStays, ReadingStays DEF IInv
<1>. QED
  BY <1>1, <1>3, <1>5 DEF IInv

LEMMA ClearKeeps ==
  ASSUME IInv, Grows, NEW f \in Files, ClearReferences(f)
  PROVE  IInv'
<1>1. TypeOK'
  BY FileConstants DEF ClearReferences, Grows, IInv, TypeOK
<1>2. \A g \in Files :
        /\ phase[g] # "new" => phase'[g] # "new"
        /\ phase[g] \notin Open => phase'[g] \notin Open /\ (disk[g] = None => disk'[g] = None)
        /\ Young(disk[g]) => Young(disk[g])'
        /\ Spared(g) => Spared(g)'
        /\ disk'[g] # None => AllYoung(g)' \/ (disk[g] # None /\ (AllYoung(g) => AllYoung(g)'))
  BY FileConstants DEF ClearReferences, IInv, TypeOK, Requests, Open, InProgress, ScopesOf, AllYoung,
     Spared, Young, Old
<1>3. Requests' /\ Accounted'
  BY FileConstants DEF ClearReferences, IInv, TypeOK, Requests, InProgress, ScopesOf, AllYoung, Old,
     Accounted, InFlightReserved, NoUnaccountedFile, OnDisk
<1>4. UNCHANGED pass
  BY DEF ClearReferences
<1>5. Judgement' /\ Reading'
  BY <1>2, <1>4, JudgementStays, ReadingStays DEF IInv
<1>. QED
  BY <1>1, <1>3, <1>5 DEF IInv

LEMMA UnlinkUploadKeeps ==
  ASSUME IInv, Grows, NEW f \in Files, UnlinkUpload(f)
  PROVE  IInv'
<1>1. TypeOK'
  BY FileConstants DEF UnlinkUpload, Grows, IInv, TypeOK
<1>2. \A g \in Files :
        /\ phase[g] # "new" => phase'[g] # "new"
        /\ phase[g] \notin Open => phase'[g] \notin Open /\ (disk[g] = None => disk'[g] = None)
        /\ Young(disk[g]) => Young(disk[g])'
        /\ Spared(g) => Spared(g)'
        /\ disk'[g] # None => AllYoung(g)' \/ (disk[g] # None /\ (AllYoung(g) => AllYoung(g)'))
  BY FileConstants DEF UnlinkUpload, IInv, TypeOK, Requests, Open, InProgress, ScopesOf, AllYoung,
     Spared, Young, Old
<1>3. Requests' /\ Accounted'
  BY FileConstants DEF UnlinkUpload, IInv, TypeOK, Requests, InProgress, ScopesOf, AllYoung, Old,
     Accounted, InFlightReserved, NoUnaccountedFile, OnDisk
<1>4. UNCHANGED pass
  BY DEF UnlinkUpload
<1>5. Judgement' /\ Reading'
  BY <1>2, <1>4, JudgementStays, ReadingStays DEF IInv
<1>. QED
  BY <1>1, <1>3, <1>5 DEF IInv

LEMMA DeleteGrantsKeeps ==
  ASSUME IInv, Grows, NEW f \in Files, DeleteGrants(f)
  PROVE  IInv'
<1>1. TypeOK'
  BY FileConstants DEF DeleteGrants, NoGrants, Grows, IInv, TypeOK
<1>2. \A g \in Files :
        /\ phase[g] # "new" => phase'[g] # "new"
        /\ phase[g] \notin Open => phase'[g] \notin Open /\ (disk[g] = None => disk'[g] = None)
        /\ Young(disk[g]) => Young(disk[g])'
        /\ Spared(g) => Spared(g)'
        /\ disk'[g] # None => AllYoung(g)' \/ (disk[g] # None /\ (AllYoung(g) => AllYoung(g)'))
  BY FileConstants DEF DeleteGrants, NoGrants, IInv, TypeOK, Requests, Open, InProgress, ScopesOf, AllYoung,
     Spared, Young, Old
<1>3. Requests' /\ Accounted'
  BY FileConstants DEF DeleteGrants, NoGrants, IInv, TypeOK, Requests, InProgress, ScopesOf, AllYoung, Old,
     Accounted, InFlightReserved, NoUnaccountedFile, OnDisk
<1>4. UNCHANGED pass
  BY DEF DeleteGrants, NoGrants
<1>5. Judgement' /\ Reading'
  BY <1>2, <1>4, JudgementStays, ReadingStays DEF IInv
<1>. QED
  BY <1>1, <1>3, <1>5 DEF IInv

-----------------------------------------------------------------------------
(* The maintenance pass.                                                   *)

LEMMA StartPassKeeps ==
  ASSUME IInv, Grows, StartPass
  PROVE  IInv'
<1>1. pass' = [NoPass EXCEPT !.phase = "collecting"]
      /\ UNCHANGED <<phase, disk, grants, whole, refs, saving, deleting, crashes>>
  BY DEF StartPass
<1>2. TypeOK'
  BY <1>1, NoPassTyped DEF Grows, IInv, TypeOK, Pass
<1>3. Requests' /\ Accounted'
  BY <1>1 DEF IInv, Requests, Accounted, InFlightReserved, NoUnaccountedFile, OnDisk, ScopesOf, AllYoung
<1>4. Judgement' /\ Reading'
  BY <1>1, FileConstants DEF NoPass, Judgement, Reading
<1>. QED
  BY <1>2, <1>3, <1>4 DEF IInv

LEMMA ReadTableKeeps ==
  ASSUME IInv, Grows, Noted, ReadTable
  PROVE  IInv'
<1>a. /\ pass \in Pass /\ pass.phase = "collecting" /\ pass.read \in Nat /\ pass.seen \subseteq Files
      /\ pass.read < Len(Tables) /\ Len(Tables) \in Nat /\ refs \in [Holders -> SUBSET Files]
  BY FileConstants DEF ReadTable, IInv, TypeOK, Pass
<1>b. PICK n \in 1 .. Len(Tables) : n = pass.read + 1
  BY <1>a
<1>c. PICK t \in Holders : t = Tables[n]
  BY DEF Holders
<1>0. /\ pass.phase = "collecting" /\ pass.read \in Nat /\ n = pass.read + 1 /\ n \in Nat
      /\ refs[t] \subseteq Files /\ pass.seen \subseteq Files /\ pass \in Pass
  BY <1>a, <1>b
<1>1. /\ pass' = [pass EXCEPT !.read = n, !.seen = pass.seen \union refs[t]]
      /\ UNCHANGED <<phase, disk, grants, whole, refs, saving, deleting, crashes>>
  BY <1>0, <1>c DEF ReadTable, Pass
<1>2. /\ pass' \in Pass /\ pass'.phase = "collecting" /\ pass'.read = n
      /\ pass'.seen = pass.seen \union refs[t] /\ pass'.scan = pass.scan
      /\ pass'.doomed = pass.doomed /\ pass'.resize = pass.resize
      /\ pass'.expired = pass.expired /\ pass'.orphan = pass.orphan
  <2>1. pass.seen \union refs[t] \in SUBSET Files
    BY <1>0
  <2>. QED
    BY <2>1, <1>0, <1>1 DEF Pass
<1>3. TypeOK' /\ Requests' /\ Accounted'
  BY <1>1, <1>2 DEF Grows, IInv, TypeOK, Requests, Accounted, InFlightReserved, NoUnaccountedFile,
     OnDisk, ScopesOf, AllYoung
<1>4. Judgement'
  BY <1>0, <1>1, <1>2 DEF IInv, Judgement
<1>5. ASSUME NEW f \in Files \ pass'.seen
      PROVE  <<f, t>> \in lapsed' \/ Young(disk[f])' \/ Spared(f)'
  <2>1. f \notin refs'[t] /\ UNCHANGED <<disk, grants>>
    BY <1>1, <1>2, <1>5
  <2>2. Young(disk[f])' \/ Spared(f)' \/ Abandoned(f, t)'
    BY <2>1 DEF Abandoned, Young, Spared
  <2>3. Abandoned(f, t)' => <<f, t>> \in lapsed'
    BY <1>0 DEF Noted
  <2>. QED
    BY <2>2, <2>3
<1>6. ASSUME NEW i \in 1 .. n, NEW f \in Files \ pass'.seen
      PROVE  <<f, Tables[i]>> \in lapsed' \/ Young(disk[f])' \/ Spared(f)'
  <2>1. CASE i = n
    BY <2>1, <1>5, <1>6, <1>c
  <2>2. CASE i # n
    <3>1. i \in 1 .. pass.read /\ f \in Files \ pass.seen
      BY <2>2, <1>0, <1>2, <1>6
    <3>2. <<f, Tables[i]>> \in lapsed \/ Young(disk[f]) \/ Spared(f)
      BY <3>1, <1>0 DEF IInv, Reading
    <3>. QED
      BY <3>2, <1>1 DEF Grows, Young, Spared, ScopesOf
  <2>. QED
    BY <2>1, <2>2
<1>7. \A f \in pass'.doomed : \A h \in Holders : <<f, h>> \in lapsed'
  BY <1>2 DEF IInv, Reading, Grows
<1>8. Reading'
  BY <1>a, <1>0, <1>2, <1>6, <1>7 DEF Reading
<1>. QED
  BY <1>3, <1>4, <1>8 DEF IInv

LEMMA ScanUploadsKeeps ==
  ASSUME IInv, Grows, ScanUploads
  PROVE  IInv'
<1>0. pass \in Pass /\ disk \in [Files -> Entry \union {None}]
      /\ pass.phase = "collecting" /\ pass.read = Len(Tables)
  BY DEF ScanUploads, IInv, TypeOK
<1>1. /\ pass' = [pass EXCEPT !.phase = "scanned", !.scan = disk]
      /\ UNCHANGED <<phase, disk, grants, whole, refs, saving, deleting, crashes>>
  BY DEF ScanUploads
<1>2. /\ pass' \in Pass /\ pass'.phase = "scanned" /\ pass'.read = pass.read
      /\ pass'.seen = pass.seen /\ pass'.scan = disk
      /\ pass'.doomed = pass.doomed /\ pass'.resize = pass.resize
      /\ pass'.expired = pass.expired /\ pass'.orphan = pass.orphan
  BY <1>0, <1>1 DEF Pass
<1>3. TypeOK' /\ Requests' /\ Accounted'
  BY <1>1, <1>2 DEF Grows, IInv, TypeOK, Requests, Accounted, InFlightReserved, NoUnaccountedFile,
     OnDisk, ScopesOf, AllYoung
<1>4. Judgement'
  BY <1>0, <1>1, <1>2 DEF IInv, Requests, Judgement
<1>5. Reading'
  BY <1>0, <1>1, <1>2 DEF IInv, Reading, Grows, Young, Spared, ScopesOf
<1>. QED
  BY <1>3, <1>4, <1>5 DEF IInv

(* What is judged old enough belongs to a request that is over: the grants *)
(* of one under way are young, and one that has not begun has none.        *)
LEMMA LoadRecordsKeeps ==
  ASSUME IInv, Grows, LoadRecords
  PROVE  IInv'
<1> DEFINE todo    == {f \in Files : pass.scan[f] # None}
           doomed  == {f \in Files : Doomed(f)}
           resize  == {f \in Files : Resized(f)}
           expired == {g \in Files \X Scopes : Expired(g[1], g[2])}
<1>0. pass \in Pass /\ pass.phase = "scanned" /\ pass.read = Len(Tables)
  BY DEF LoadRecords, IInv, TypeOK, Reading
<1>1. /\ pass' = [pass EXCEPT !.phase = "judging", !.todo = todo, !.doomed = doomed,
                              !.resize = resize, !.expired = expired]
      /\ UNCHANGED <<phase, disk, grants, whole, refs, saving, deleting, crashes>>
  BY DEF LoadRecords
<1>2. \A f \in doomed : phase[f] \notin Open
  BY DEF IInv, Requests, Judgement, InProgress, Open, Doomed, IsOld, AllYoung
<1>3. \A f \in doomed : \A t \in Holders : <<f, t>> \in lapsed
  <2>1. SUFFICES ASSUME NEW f \in Files, Doomed(f), NEW t \in Holders
                 PROVE  <<f, t>> \in lapsed
    OBVIOUS
  <2>2. PICK i \in 1 .. Len(Tables) : t = Tables[i]
    BY DEF Holders
  <2>3. f \notin pass.seen /\ ~Young(pass.scan[f]) /\ ~Spared(f)
    BY <2>1 DEF Doomed, IsOld, Young, Spared
  <2>. QED
    BY <1>0, <2>2, <2>3 DEF IInv, Reading
<1>4. \A f \in resize : pass.scan[f] # None
  BY DEF Resized
<1>5. ASSUME NEW f \in Files, NEW s \in Scopes, <<f, s>> \in expired
      PROVE  phase[f] \notin Open /\ disk[f] = None
  <2>1. pass.scan[f] = None /\ s \in ScopesOf(f) /\ Old(grants[f][s])
    BY <1>5 DEF Expired
  <2>2. ~AllYoung(f) /\ ScopesOf(f) # {}
    BY <2>1 DEF AllYoung
  <2>. QED
    BY <1>0, <2>1, <2>2 DEF IInv, Requests, Judgement, InProgress, Open
<1>6. /\ todo \in SUBSET Files /\ doomed \in SUBSET Files /\ resize \in SUBSET Files
      /\ expired \in SUBSET (Files \X Scopes)
  OBVIOUS
<1> HIDE DEF todo, doomed, resize, expired
<1>7. pass' \in Pass
  BY <1>0, <1>1, <1>6 DEF Pass
<1>8. /\ pass'.phase = "judging" /\ pass'.read = pass.read
      /\ pass'.seen = pass.seen /\ pass'.scan = pass.scan
      /\ pass'.doomed = doomed /\ pass'.resize = resize
      /\ pass'.expired = expired /\ pass'.orphan = pass.orphan
  BY <1>0, <1>1 DEF Pass
<1>9. TypeOK' /\ Requests' /\ Accounted'
  BY <1>1, <1>7 DEF Grows, IInv, TypeOK, Requests, Accounted, InFlightReserved, NoUnaccountedFile,
     OnDisk, ScopesOf, AllYoung
<1>10. Judgement'
  BY <1>1, <1>2, <1>4, <1>5, <1>8 DEF IInv, Judgement
<1>11. Reading'
  BY <1>3, <1>8 DEF IInv, Reading, Grows
<1>. QED
  BY <1>9, <1>10, <1>11 DEF IInv

LEMMA KeepFileKeeps ==
  ASSUME IInv, Grows, NEW f \in Files, KeepFile(f)
  PROVE  IInv'
<1>0. pass \in Pass /\ pass.phase = "judging" /\ pass.todo \ {f} \in SUBSET Files
  BY DEF KeepFile, ToJudge, IInv, TypeOK, Pass
<1>1. /\ pass' = [pass EXCEPT !.todo = pass.todo \ {f}]
      /\ UNCHANGED <<phase, disk, grants, refs, saving, deleting, crashes>>
  BY <1>0 DEF KeepFile, Pass
<1>2. pass' \in Pass
      /\ pass'.phase = pass.phase /\ pass'.read = pass.read
      /\ pass'.seen = pass.seen /\ pass'.scan = pass.scan
      /\ pass'.doomed = pass.doomed /\ pass'.resize = pass.resize
      /\ pass'.expired = pass.expired /\ pass'.orphan = pass.orphan
  BY <1>0, <1>1 DEF Pass
<1>3. whole' \in [Files -> BOOLEAN]
  <2>1. f \in pass.resize => pass.scan[f].whole \in BOOLEAN
    BY <1>0 DEF IInv, Judgement, Pass, Entry
  <2>. QED
    BY <2>1 DEF KeepFile, IInv, TypeOK
<1>4. TypeOK' /\ Requests' /\ Accounted'
  BY <1>1, <1>2, <1>3 DEF Grows, IInv, TypeOK, Requests, Accounted, InFlightReserved, NoUnaccountedFile,
     OnDisk, ScopesOf, AllYoung
<1>5. Judgement' /\ Reading'
  BY <1>0, <1>1, <1>2 DEF IInv, Judgement, Reading, Grows
<1>. QED
  BY <1>4, <1>5 DEF IInv

LEMMA UnlinkOrphanKeeps ==
  ASSUME IInv, Grows, NEW f \in Files, UnlinkOrphan(f)
  PROVE  IInv'
<1>0. /\ pass \in Pass /\ pass.phase = "judging" /\ pass.todo \ {f} \in SUBSET Files
      /\ f \in pass.doomed /\ disk \in [Files -> Entry \union {None}]
  BY DEF UnlinkOrphan, ToJudge, IInv, TypeOK, Pass
<1>1. /\ pass' = [pass EXCEPT !.todo = pass.todo \ {f}, !.orphan = f]
      /\ disk' = [disk EXCEPT ![f] = None]
      /\ UNCHANGED <<phase, grants, whole, refs, saving, deleting, crashes>>
  BY <1>0 DEF UnlinkOrphan, Pass
<1>2. pass' \in Pass
      /\ pass'.phase = pass.phase /\ pass'.read = pass.read
      /\ pass'.seen = pass.seen /\ pass'.scan = pass.scan
      /\ pass'.doomed = pass.doomed /\ pass'.resize = pass.resize
      /\ pass'.expired = pass.expired /\ pass'.orphan = f
  BY <1>0, <1>1 DEF Pass
<1>3. phase[f] \notin Open /\ disk'[f] = None /\ \A g \in Files : disk'[g] \in {disk[g], None}
  BY <1>0, <1>1 DEF IInv, Judgement
<1>4. TypeOK' /\ Requests' /\ Accounted'
  BY <1>0, <1>1, <1>2, <1>3 DEF Grows, IInv, TypeOK, Requests, Accounted, InFlightReserved,
     NoUnaccountedFile, OnDisk, ScopesOf, AllYoung
<1>5. Judgement' /\ Reading'
  BY <1>0, <1>1, <1>2, <1>3 DEF IInv, Judgement, Reading, Grows
<1>. QED
  BY <1>4, <1>5 DEF IInv

LEMMA DropOrphanGrantsKeeps ==
  ASSUME IInv, Grows, DropOrphanGrants
  PROVE  IInv'
<1>a. pass \in Pass /\ pass.orphan # None /\ pass.orphan \in Files
  BY DEF DropOrphanGrants, IInv, TypeOK, Pass
<1>b. PICK f \in Files : f = pass.orphan
  BY <1>a
<1>1. /\ pass' = [pass EXCEPT !.orphan = None] /\ grants' = [grants EXCEPT ![f] = NoGrants]
      /\ UNCHANGED <<phase, disk, whole, refs, saving, deleting, crashes>>
  BY <1>b DEF DropOrphanGrants
<1>2. pass' \in Pass
      /\ pass'.phase = pass.phase /\ pass'.read = pass.read
      /\ pass'.seen = pass.seen /\ pass'.scan = pass.scan
      /\ pass'.doomed = pass.doomed /\ pass'.resize = pass.resize
      /\ pass'.expired = pass.expired /\ pass'.orphan = None
  BY <1>a, <1>1 DEF Pass
<1>3. phase[f] \notin Open /\ disk[f] = None
  BY <1>a, <1>b DEF IInv, Judgement
<1>4. ScopesOf(f)' = {} /\ \A g \in Files \ {f} : ScopesOf(g)' = ScopesOf(g) /\ grants'[g] = grants[g]
  BY <1>1 DEF IInv, TypeOK, ScopesOf, NoGrants
<1>5. TypeOK'
  BY <1>1, <1>2 DEF Grows, IInv, TypeOK, NoGrants
<1>6. \A g \in Files : (AllYoung(g) => AllYoung(g)') /\ (Spared(g) => Spared(g)')
  BY <1>4 DEF AllYoung, Spared
<1>7. Requests' /\ Accounted'
  BY <1>1, <1>3, <1>4, <1>6 DEF IInv, Requests, InProgress, Accounted, InFlightReserved,
     NoUnaccountedFile, OnDisk, Open
<1>8. Judgement' /\ Reading'
  BY <1>1, <1>2, <1>6 DEF IInv, Judgement, Reading, Grows
<1>. QED
  BY <1>5, <1>7, <1>8 DEF IInv

LEMMA DropExpiredKeeps ==
  ASSUME IInv, Grows, NEW f \in Files, NEW s \in Scopes, DropExpired(f, s)
  PROVE  IInv'
<1>0. /\ pass \in Pass /\ pass.phase = "judging" /\ <<f, s>> \in pass.expired
      /\ pass.expired \ {<<f, s>>} \in SUBSET (Files \X Scopes)
      /\ grants \in [Files -> [Scopes -> Ages \union {None}]]
  BY DEF DropExpired, IInv, TypeOK, Pass
<1>1. /\ pass' = [pass EXCEPT !.expired = pass.expired \ {<<f, s>>}]
      /\ grants' = [grants EXCEPT ![f] = [grants[f] EXCEPT ![s] = None]]
      /\ UNCHANGED <<phase, disk, whole, refs, saving, deleting, crashes>>
  BY <1>0 DEF DropExpired, Pass
<1>2. pass' \in Pass
      /\ pass'.phase = pass.phase /\ pass'.read = pass.read
      /\ pass'.seen = pass.seen /\ pass'.scan = pass.scan
      /\ pass'.doomed = pass.doomed /\ pass'.resize = pass.resize
      /\ pass'.expired = pass.expired \ {<<f, s>>} /\ pass'.orphan = pass.orphan
  BY <1>0, <1>1 DEF Pass
<1>3. phase[f] \notin Open /\ disk[f] = None
  BY <1>0 DEF IInv, Judgement
<1>a. \A g \in Files : ScopesOf(g) \subseteq Scopes
  BY DEF ScopesOf
<1>4. /\ \A g \in Files \ {f} : grants'[g] = grants[g]
      /\ grants'[f][s] = None /\ \A r \in Scopes \ {s} : grants'[f][r] = grants[f][r]
  BY <1>0, <1>1
<1>5. /\ ScopesOf(f)' = ScopesOf(f) \ {s}
      /\ \A g \in Files \ {f} : ScopesOf(g)' = ScopesOf(g)
  BY <1>4 DEF ScopesOf
<1>6. TypeOK'
  <2>1. [grants[f] EXCEPT ![s] = None] \in [Scopes -> Ages \union {None}]
    BY <1>0
  <2>. QED
    BY <2>1, <1>0, <1>1, <1>2 DEF Grows, IInv, TypeOK
<1>7. \A g \in Files : AllYoung(g) => AllYoung(g)'
  BY <1>a, <1>4, <1>5 DEF AllYoung
<1>8. Requests' /\ Accounted'
  BY <1>1, <1>3, <1>5, <1>7 DEF IInv, Requests, InProgress, Accounted, InFlightReserved,
     NoUnaccountedFile, OnDisk, Open
<1>9. Judgement' /\ Reading'
  BY <1>0, <1>1, <1>2 DEF IInv, Judgement, Reading, Grows
<1>. QED
  BY <1>6, <1>8, <1>9 DEF IInv

(* A pass that ends or gives up is as if it had not begun.                 *)
LEMMA EndKeeps ==
  ASSUME IInv, Grows, pass' = NoPass,
         UNCHANGED <<phase, disk, grants, whole, refs, saving, deleting, crashes>>
  PROVE  IInv'
<1>1. TypeOK' /\ Requests' /\ Accounted'
  BY NoPassTyped DEF Grows, IInv, TypeOK, Requests, Accounted, InFlightReserved, NoUnaccountedFile,
     OnDisk, ScopesOf, AllYoung
<1>2. Judgement' /\ Reading'
  BY FileConstants DEF NoPass, Judgement, Reading
<1>. QED
  BY <1>1, <1>2 DEF IInv

-----------------------------------------------------------------------------
(* Time and crashes.                                                       *)

LEMMA OlderTyped ==
  ASSUME NEW age \in Ages \union {None}
  PROVE  /\ Older(age) \in Ages \union {None}
         /\ age = None <=> Older(age) = None
         /\ age # None => Older(age) \in Ages /\ (age < Grace => ~Old(Older(age)))
         /\ Old(age) /\ age # None => Older(age) = age
  BY FileConstants DEF Older, Old, Ages

LEMMA TickKeeps ==
  ASSUME IInv, Grows, Tick
  PROVE  IInv'
<1>0. /\ pass \in Pass /\ pass.phase \notin {"collecting", "scanned"}
      /\ disk \in [Files -> Entry \union {None}]
      /\ grants \in [Files -> [Scopes -> Ages \union {None}]]
      /\ UNCHANGED <<phase, whole, refs, saving, deleting, pass, crashes>>
  BY DEF Tick, IInv, TypeOK
<1>1. disk' \in [Files -> Entry \union {None}] /\ \A f \in Files : disk'[f] = None <=> disk[f] = None
  <2>1. ASSUME NEW f \in Files, disk[f] # None
        PROVE  [disk[f] EXCEPT !.age = Older(@)] \in Entry /\ [disk[f] EXCEPT !.age = Older(@)] # None
    <3>1. disk[f] \in Entry /\ disk[f].age \in Ages /\ disk[f].age # None
      BY <1>0, <2>1, FileConstants DEF Entry, Ages
    <3>2. Older(disk[f].age) \in Ages
      BY <3>1, OlderTyped
    <3>. QED
      BY <3>1, <3>2, FileConstants DEF Entry, Ages
  <2>. QED
    BY <1>0, <2>1 DEF Tick
<1>2. /\ grants' \in [Files -> [Scopes -> Ages \union {None}]]
      /\ \A f \in Files, s \in Scopes : grants'[f][s] = Older(grants[f][s])
  <2>1. \A f \in Files, s \in Scopes : Older(grants[f][s]) \in Ages \union {None}
    BY <1>0, OlderTyped
  <2>. QED
    BY <2>1 DEF Tick
<1>3. \A f \in Files : ScopesOf(f)' = ScopesOf(f)
  BY <1>0, <1>2, OlderTyped DEF ScopesOf
<1>4. \A f \in Files : phase[f] \in InProgress => AllYoung(f)'
  <2>1. SUFFICES ASSUME NEW f \in Files, phase[f] \in InProgress, NEW s \in ScopesOf(f)
                 PROVE  ~Old(grants'[f][s])
    BY <1>3 DEF AllYoung
  <2>2. s \in Scopes /\ grants[f][s] # None /\ grants[f][s] < Grace
    BY <2>1 DEF Tick, ScopesOf, InProgress
  <2>3. grants[f][s] \in Ages \union {None}
    BY <1>0, <2>2
  <2>. QED
    BY <1>2, <2>2, <2>3, OlderTyped
<1>5. TypeOK'
  BY <1>0, <1>1, <1>2 DEF Grows, IInv, TypeOK
<1>6. Requests' /\ Accounted'
  BY <1>0, <1>1, <1>3, <1>4 DEF IInv, Requests, Accounted, InFlightReserved, NoUnaccountedFile, OnDisk
<1>7. Judgement' /\ Reading'
  BY <1>0, <1>1 DEF IInv, TypeOK, Pass, Judgement, Reading, Grows
<1>. QED
  BY <1>5, <1>6, <1>7 DEF IInv

LEMMA CrashKeeps ==
  ASSUME IInv, Grows, Crash
  PROVE  IInv'
<1>1. /\ pass' = NoPass /\ UNCHANGED <<disk, grants, whole, refs>>
      /\ \A f \in Files : /\ deleting'[f] = "no"
                          /\ \/ phase'[f] = "over" /\ phase[f] # "stuck"
                             \/ phase[f] = "stuck" /\ phase'[f] = "left"
                             \/ phase'[f] = phase[f]
                          /\ phase'[f] \notin InProgress
                          /\ phase'[f] = "new" => phase[f] = "new"
                          /\ phase[f] = "left" => phase'[f] = "left"
  BY DEF Crash, InProgress
<1>2. TypeOK'
  BY NoPassTyped, FileConstants DEF Crash, Grows, IInv, TypeOK
<1>3. Requests'
  BY <1>1 DEF IInv, Requests, InProgress, ScopesOf
<1>4. Accounted'
  BY <1>1 DEF IInv, Accounted, InFlightReserved, NoUnaccountedFile, OnDisk, InProgress, ScopesOf
<1>5. Judgement' /\ Reading'
  BY <1>1, FileConstants DEF NoPass, Judgement, Reading
<1>. QED
  BY <1>2, <1>3, <1>4, <1>5 DEF IInv

-----------------------------------------------------------------------------
LEMMA NextKeeps == IInv /\ [Next]_vars => IInv'
<1>1. ASSUME IInv, Next
      PROVE  IInv'
  <2>0. Grows /\ Noted /\ Step
    BY <1>1, NotedGrows DEF Next, IInv
  <2>1. CASE PassProgress
    <3>1. CASE StartPass \/ ReadTable \/ ScanUploads \/ LoadRecords
      BY <1>1, <2>0, <3>1, StartPassKeeps, ReadTableKeeps, ScanUploadsKeeps, LoadRecordsKeeps
    <3>2. ASSUME NEW f \in Files, StatFails(f) \/ KeepFile(f) \/ UnlinkOrphan(f)
          PROVE  IInv'
      <4>1. CASE StatFails(f)
        BY <1>1, <2>0, <4>1, EndKeeps DEF StatFails
      <4>. QED
        BY <1>1, <2>0, <3>2, <4>1, KeepFileKeeps, UnlinkOrphanKeeps
    <3>3. CASE DropOrphanGrants
      BY <1>1, <2>0, <3>3, DropOrphanGrantsKeeps
    <3>4. ASSUME NEW f \in Files, NEW s \in Scopes, DropExpired(f, s)
          PROVE  IInv'
      BY <1>1, <2>0, <3>4, DropExpiredKeeps
    <3>5. CASE EndPass
      BY <1>1, <2>0, <3>5, EndKeeps DEF EndPass
    <3>. QED
      BY <2>1, <3>1, <3>2, <3>3, <3>4, <3>5 DEF PassProgress
  <2>2. CASE Tick
    BY <1>1, <2>0, <2>2, TickKeeps
  <2>3. CASE Crash
    BY <1>1, <2>0, <2>3, CrashKeeps
  <2>4. ASSUME NEW f \in Files, FileStep(f)
        PROVE  IInv'
    <3>1. ASSUME NEW S \in SUBSET Scopes, Register(f, S)
          PROVE  IInv'
      BY <1>1, <2>0, <3>1, RegisterKeeps
    <3>2. CASE StartWrite(f) \/ FinishWrite(f) \/ WriteFails(f)
      BY <1>1, <2>0, <3>2, StartWriteKeeps, FinishWriteKeeps, WriteFailsKeeps
    <3>3. ASSUME NEW ok \in BOOLEAN, CleanUp(f, ok) \/ Unregister(f, ok)
          PROVE  IInv'
      BY <1>1, <2>0, <3>3, CleanUpKeeps, UnregisterKeeps
    <3>4. ASSUME NEW t \in Holders, Refer(f, t) \/ Unrefer(f, t)
          PROVE  IInv'
      BY <1>1, <2>0, <3>4, ReferKeeps
    <3>5. ASSUME NEW s \in Scopes, RetainProjectImage(f, s)
          PROVE  IInv'
      BY <1>1, <2>0, <3>5, RetainKeeps
    <3>6. CASE SaveProject(f) \/ ClearReferences(f) \/ UnlinkUpload(f) \/ DeleteGrants(f)
      BY <1>1, <2>0, <3>6, SaveProjectKeeps, ClearKeeps, UnlinkUploadKeeps, DeleteGrantsKeeps
    <3>. QED
      BY <2>4, <3>1, <3>2, <3>3, <3>4, <3>5, <3>6 DEF FileStep, UploadProgress
  <2>. QED
    BY <2>0, <2>1, <2>2, <2>3, <2>4 DEF Step
<1>2. ASSUME IInv, UNCHANGED vars
      PROVE  IInv'
  <2>1. TypeOK' /\ Requests' /\ Accounted'
    BY <1>2 DEF vars, IInv, TypeOK, Requests, Accounted, InFlightReserved, NoUnaccountedFile, OnDisk,
       ScopesOf, AllYoung
  <2>2. Judgement' /\ Reading'
    BY <1>2 DEF vars, IInv, Judgement, Reading, Young, Spared, ScopesOf, AllYoung
  <2>. QED
    BY <2>1, <2>2 DEF IInv
<1>. QED
  BY <1>1, <1>2

THEOREM Invariance == Spec => []IInv
  BY InitIInv, NextKeeps, PTL DEF Spec

(* TypeOK for any number of files, scopes and tables.                      *)
THEOREM TypeCorrect == Spec => []TypeOK
  BY Invariance, PTL DEF IInv

(* No pass takes the reservation of an upload under way, whatever it read  *)
(* before and whatever crashed.                                            *)
THEOREM UploadsStayReserved == Spec => []InFlightReserved
  BY Invariance, PTL DEF IInv, Accounted

(* Every file on disk has a grant that a pass will find it by, but for the *)
(* one a failed upload could not unlink.                                   *)
THEOREM FilesAccounted == Spec => []NoUnaccountedFile
  BY Invariance, PTL DEF IInv, Accounted

(* A file that one table referred to, or that was young, at every moment   *)
(* so far is not removed.                                                  *)
THEOREM HeldFilesKept == Spec => HeldByOneTableKept
<1>1. ASSUME IInv
      PROVE  [\A f \in Files : UnlinkOrphan(f) => \A t \in Holders : <<f, t>> \in lapsed]_vars
  BY <1>1 DEF UnlinkOrphan, ToJudge, IInv, Reading
<1>. QED
  BY <1>1, Invariance, PTL DEF HeldByOneTableKept
=============================================================================
