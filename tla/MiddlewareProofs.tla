-------------------------- MODULE MiddlewareProofs --------------------------
(***************************************************************************)
(* Proofs about the middleware of the API: the rate limiter, for every     *)
(* number of keys, every limit, window and clock skew, and the JWT         *)
(* middleware with the sessions behind it, for any requests and faults.    *)
(***************************************************************************)
EXTENDS RateLimit, Session, FiniteSetTheorems, TLAPS

\* What the sorted set of k holds, in terms of the admissions of k.
Timely(k) == \A i \in DOMAIN log[k] :
    /\ log[k][i] <= clock
    /\ log[k][i] <= slot[k][i][1] /\ slot[k][i][1] <= log[k][i] + Skew
    /\ log[k][i] + Window + Margin <= expireAt[k]

Recorded(k) == \A m \in zset[k] : \E i \in DOMAIN log[k] : slot[k][i] = m

Held(k) == \A i \in Recent(k, Window - Skew) : slot[k][i] \in zset[k]

Distinct(k) == \A i, j \in Recent(k, Window - Skew) :
    slot[k][i] = slot[k][j] => i = j

Bounded(k) ==
    /\ Len(slot[k]) = Len(log[k])
    /\ expireAt[k] <= clock + Window + Margin
    /\ \A m \in zset[k] : m[2] <= seq[k]
    /\ IsFiniteSet(zset[k]) /\ Cardinality(zset[k]) <= MaxRequests

KeyInv(k) == Timely(k) /\ Recorded(k) /\ Held(k) /\ Distinct(k) /\ Bounded(k)

Inv == TypeOK /\ \A k \in Keys : KeyInv(k)

USE LimitConstants

\* The members that the script sees and keeps are a finite part of the set.
LEMMA KeptFacts ==
    ASSUME Inv, NEW k \in Keys, NEW now \in Nat
    PROVE  /\ Kept(k, now) \subseteq zset[k]
           /\ IsFiniteSet(Kept(k, now))
           /\ Cardinality(Kept(k, now)) \in Nat
           /\ \A m \in Kept(k, now) : m \in Member /\ m[1] > now - Window /\ m[2] <= Seq0(k)
<1>1. Kept(k, now) \subseteq zset[k]
  BY DEF Kept, Entries
<1>2. IsFiniteSet(zset[k])
  BY DEF Inv, KeyInv, Bounded
<1>3. IsFiniteSet(Kept(k, now)) /\ Cardinality(Kept(k, now)) \in Nat
  BY <1>1, <1>2, FS_Subset, FS_CardinalityType
<1>4. \A m \in Kept(k, now) : m \in Member /\ m[1] > now - Window /\ m[2] <= Seq0(k)
  BY DEF Kept, Entries, Seq0, Inv, KeyInv, Bounded, TypeOK
<1> QED
  BY <1>1, <1>3, <1>4

\* The clock of a caller is ahead by at most Skew, and the keys live longer
\* than the window: an admission of the last Window - Skew units is still
\* among the members the script keeps.
LEMMA RecentIsKept ==
    ASSUME Inv, NEW k \in Keys, NEW now \in clock .. clock + Skew,
           NEW i \in Recent(k, Window - Skew)
    PROVE  slot[k][i] \in Kept(k, now)
<1>1. /\ clock \in Nat /\ now \in Nat /\ i \in DOMAIN log[k]
      /\ log[k][i] \in Nat /\ expireAt[k] \in Nat
      /\ log[k][i] > clock - (Window - Skew)
  BY DEF Inv, TypeOK, Recent
<1>2. slot[k][i] \in Member /\ slot[k][i] \in zset[k]
  <2>1. zset[k] \subseteq Member
    BY DEF Inv, TypeOK
  <2> QED
    BY <2>1 DEF Inv, KeyInv, Held
<1>3. /\ log[k][i] <= slot[k][i][1]
      /\ log[k][i] + Window + Margin <= expireAt[k]
  BY <1>1 DEF Inv, KeyInv, Timely
<1>4. Live(k)
  BY <1>1, <1>3 DEF Live
<1>5. slot[k][i][1] \in Nat
  BY <1>2 DEF Member
<1>6. slot[k][i][1] > now - Window
  BY <1>1, <1>3, <1>5
<1> QED
  BY <1>2, <1>4, <1>6 DEF Kept, Entries

\* So there are no more of them than the script counts.
LEMMA RecentAtMostKept ==
    ASSUME Inv, NEW k \in Keys, NEW now \in clock .. clock + Skew
    PROVE  Cardinality(Recent(k, Window - Skew)) <= Cardinality(Kept(k, now))
<1> DEFINE R == Recent(k, Window - Skew)
           f == [i \in R |-> slot[k][i]]
<1>0. now \in Nat
  BY DEF Inv, TypeOK
<1>1. f \in [R -> Kept(k, now)]
  BY RecentIsKept
<1>2. \A i, j \in R : f[i] = f[j] => i = j
  BY DEF Inv, KeyInv, Distinct
<1>3. f \in Injection(R, Kept(k, now))
  BY <1>1, <1>2 DEF Injection, IsInjective
<1> HIDE DEF R, f
<1>4. Cardinality(R) <= Cardinality(Kept(k, now))
  BY <1>0, <1>3, KeptFacts, FS_Injection
<1> QED
  BY <1>4 DEF R

\* Every member the script keeps was added by an admission of the last
\* Window + Skew units.
LEMMA KeptAtMostLenient ==
    ASSUME Inv, NEW k \in Keys, NEW now \in clock .. clock + Skew
    PROVE  Cardinality(Kept(k, now)) <= Cardinality(Recent(k, Window + Skew))
<1> DEFINE R == Recent(k, Window + Skew)
           A == {i \in R : slot[k][i] \in Kept(k, now)}
           f == [i \in A |-> slot[k][i]]
<1>0. now \in Nat /\ clock \in Nat /\ log[k] \in Seq(Nat)
  BY DEF Inv, TypeOK
<1>1. \A m \in Kept(k, now) : \E i \in A : slot[k][i] = m
  <2> SUFFICES ASSUME NEW m \in Kept(k, now)
               PROVE  \E i \in A : slot[k][i] = m
    OBVIOUS
  <2>1. m \in zset[k] /\ m \in Member /\ m[1] > now - Window
    BY <1>0, KeptFacts
  <2>2. PICK i \in DOMAIN log[k] : slot[k][i] = m
    BY <2>1 DEF Inv, KeyInv, Recorded
  <2>3. m[1] <= log[k][i] + Skew /\ log[k][i] \in Nat /\ m[1] \in Nat
    <3>1. slot[k][i][1] <= log[k][i] + Skew
      BY DEF Inv, KeyInv, Timely
    <3>2. log[k][i] \in Nat
      BY <1>0
    <3>3. m[1] \in Nat
      BY <2>1 DEF Member
    <3> QED
      BY <3>1, <3>2, <3>3, <2>2
  <2>4. log[k][i] > clock - (Window + Skew)
    BY <1>0, <2>1, <2>3
  <2> QED
    BY <2>2, <2>4 DEF Recent
<1>2. f \in Surjection(A, Kept(k, now))
  BY <1>1 DEF Surjection
<1>3. IsFiniteSet(R)
  <2>1. DOMAIN log[k] = 1 .. Len(log[k]) /\ Len(log[k]) \in Nat
    BY <1>0
  <2>2. IsFiniteSet(DOMAIN log[k])
    BY <2>1, FS_Interval
  <2> QED
    BY <2>2, FS_Subset DEF Recent
<1>4. A \subseteq R
  OBVIOUS
<1> HIDE DEF R, A, f
<1>5. IsFiniteSet(A) /\ Cardinality(A) <= Cardinality(R)
  BY <1>3, <1>4, FS_Subset
<1>6. Cardinality(Kept(k, now)) <= Cardinality(A)
  BY <1>2, <1>5, FS_Surjection
<1>7. Cardinality(A) \in Nat /\ Cardinality(R) \in Nat /\ Cardinality(Kept(k, now)) \in Nat
  BY <1>0, <1>3, <1>5, KeptFacts, FS_CardinalityType
<1>8. Cardinality(Kept(k, now)) <= Cardinality(R)
  BY <1>5, <1>6, <1>7
<1> QED
  BY <1>8 DEF R

-----------------------------------------------------------------------------

LEMMA InitInv == Init => Inv
<1> SUFFICES ASSUME Init PROVE Inv
  OBVIOUS
<1>1. TypeOK
  BY DEF Init, TypeOK
<1>2. ASSUME NEW k \in Keys PROVE KeyInv(k)
  <2>1. /\ log[k] = <<>> /\ slot[k] = <<>> /\ zset[k] = {} /\ seq[k] = 0
        /\ expireAt[k] = 0 /\ clock = 0
    BY DEF Init
  <2>2. IsFiniteSet(zset[k]) /\ Cardinality(zset[k]) = 0
    BY <2>1, FS_EmptySet
  <2> QED
    BY <2>1, <2>2 DEF KeyInv, Timely, Recorded, Held, Distinct, Bounded, Recent
<1> QED
  BY <1>1, <1>2 DEF Inv

\* Time alone only makes admissions less recent.
LEMMA TickInv == ASSUME Inv, Tick PROVE Inv'
<1>1. TypeOK'
  BY DEF Inv, TypeOK, Tick
<1>2. ASSUME NEW k \in Keys PROVE KeyInv(k)'
  <2>1. KeyInv(k) /\ clock \in Nat /\ clock' = clock + 1 /\ log[k] \in Seq(Nat)
    BY DEF Inv, TypeOK, Tick
  <2>2. UNCHANGED <<zset, seq, expireAt, log, slot>>
    BY DEF Tick
  <2>3. \A d \in Int : Recent(k, d)' \subseteq Recent(k, d)
    BY <2>1, <2>2 DEF Recent
  <2>4. Timely(k)'
    BY <2>1, <2>2 DEF KeyInv, Timely
  <2>5. Recorded(k)' /\ Held(k)' /\ Distinct(k)'
    BY <2>1, <2>2, <2>3 DEF KeyInv, Recorded, Held, Distinct
  <2>6. Bounded(k)'
    <3>1. expireAt[k] \in Nat
      BY DEF Inv, TypeOK
    <3> QED
      BY <2>1, <2>2, <3>1 DEF KeyInv, Bounded
  <2> QED
    BY <2>4, <2>5, <2>6 DEF KeyInv
<1> QED
  BY <1>1, <1>2 DEF Inv

\* A step on one key leaves the others alone.
LEMMA OtherKey ==
    ASSUME NEW k \in Keys, KeyInv(k), clock' = clock, zset'[k] = zset[k],
           seq'[k] = seq[k], expireAt'[k] = expireAt[k], log'[k] = log[k],
           slot'[k] = slot[k]
    PROVE  KeyInv(k)'
  BY DEF KeyInv, Timely, Recorded, Held, Distinct, Bounded, Recent

LEMMA RefuseInv ==
    ASSUME Inv, NEW k \in Keys, NEW now \in clock .. clock + Skew, Refuse(k, now)
    PROVE  Inv'
<1>0. now \in Nat /\ clock \in Nat /\ Seq0(k) \in Nat
  BY DEF Inv, TypeOK, Seq0
<1>1. /\ clock' = clock /\ log' = log /\ slot' = slot
      /\ zset' = [zset EXCEPT ![k] = Kept(k, now)]
      /\ seq' = [seq EXCEPT ![k] = Seq0(k)]
      /\ expireAt' = [expireAt EXCEPT ![k] = clock + Window + Margin]
  BY DEF Refuse, Touch
<1>2. TypeOK'
  <2>1. Kept(k, now) \in SUBSET Member
    BY <1>0, KeptFacts
  <2> QED
    BY <1>0, <1>1, <2>1 DEF Inv, TypeOK
<1>3. KeyInv(k)'
  <2>1. KeyInv(k) /\ zset'[k] = Kept(k, now) /\ seq'[k] = Seq0(k)
        /\ expireAt'[k] = clock + Window + Margin /\ expireAt[k] \in Nat
    BY <1>1 DEF Inv, TypeOK
  <2>2. Recent(k, Window - Skew)' = Recent(k, Window - Skew)
    BY <1>1 DEF Recent
  <2>3. Timely(k)'
    <3>1. \A i \in DOMAIN log[k] : log[k][i] \in Nat /\ log[k][i] <= clock
      BY <2>1 DEF Inv, TypeOK, KeyInv, Timely
    <3>2. \A i \in DOMAIN log[k] : log[k][i] + Window + Margin <= expireAt'[k]
      BY <1>0, <2>1, <3>1
    <3> QED
      BY <1>1, <2>1, <3>2 DEF KeyInv, Timely
  <2>4. Recorded(k)'
    BY <1>0, <1>1, <2>1, KeptFacts DEF KeyInv, Recorded
  <2>5. Held(k)' /\ Distinct(k)'
    BY <1>1, <2>1, <2>2, RecentIsKept DEF KeyInv, Held, Distinct
  <2>6. Bounded(k)'
    <3>1. IsFiniteSet(zset[k]) /\ Cardinality(zset[k]) <= MaxRequests /\ Cardinality(zset[k]) \in Nat
      BY <2>1, FS_CardinalityType DEF KeyInv, Bounded
    <3>2. Cardinality(Kept(k, now)) <= Cardinality(zset[k])
      BY <1>0, <3>1, KeptFacts, FS_Subset
    <3>3. IsFiniteSet(Kept(k, now)) /\ Cardinality(Kept(k, now)) <= MaxRequests
      BY <1>0, <3>1, <3>2, KeptFacts
    <3>4. \A m \in zset'[k] : m[2] <= seq'[k]
      BY <1>0, <2>1, KeptFacts
    <3>5. expireAt'[k] <= clock' + Window + Margin /\ Len(slot'[k]) = Len(log'[k])
      BY <1>0, <1>1, <2>1 DEF KeyInv, Bounded
    <3> QED
      BY <2>1, <3>3, <3>4, <3>5 DEF Bounded
  <2> QED
    BY <2>3, <2>4, <2>5, <2>6 DEF KeyInv
<1>4. ASSUME NEW j \in Keys, j # k PROVE KeyInv(j)'
  BY <1>1, <1>4, OtherKey DEF Inv, TypeOK
<1> QED
  BY <1>2, <1>3, <1>4 DEF Inv

LEMMA AdmitInv ==
    ASSUME Inv, NEW k \in Keys, NEW now \in clock .. clock + Skew, Admit(k, now)
    PROVE  Inv'
<1> DEFINE m == NewMember(k, now)
           n == Len(log[k]) + 1
<1>0. now \in Nat /\ clock \in Nat /\ Seq0(k) \in Nat /\ now <= clock + Skew /\ clock <= now
  BY DEF Inv, TypeOK, Seq0
<1>1. /\ clock' = clock
      /\ log' = [log EXCEPT ![k] = Append(@, clock)]
      /\ slot' = [slot EXCEPT ![k] = Append(@, m)]
      /\ zset' = [zset EXCEPT ![k] = Kept(k, now) \cup {m}]
      /\ seq' = [seq EXCEPT ![k] = Seq0(k) + 1]
      /\ expireAt' = [expireAt EXCEPT ![k] = clock + Window + Margin]
      /\ Cardinality(Kept(k, now)) < MaxRequests
  BY DEF Admit, Touch
<1>2. m \in Member /\ m[1] = now /\ m[2] = Seq0(k) + 1
  BY <1>0 DEF NewMember, Member
<1> HIDE DEF m
<1>3. TypeOK'
  <2>1. Kept(k, now) \cup {m} \in SUBSET Member
    BY <1>0, <1>2, KeptFacts
  <2>2. Append(log[k], clock) \in Seq(Nat) /\ Append(slot[k], m) \in Seq(Member)
    BY <1>0, <1>2 DEF Inv, TypeOK
  <2> QED
    BY <1>0, <1>1, <2>1, <2>2 DEF Inv, TypeOK
<1>4. KeyInv(k)'
  <2>1. /\ KeyInv(k) /\ log[k] \in Seq(Nat) /\ slot[k] \in Seq(Member)
        /\ Len(slot[k]) = Len(log[k]) /\ n \in Nat /\ expireAt[k] \in Nat
    BY DEF Inv, TypeOK, KeyInv, Bounded
  <2>2. /\ zset'[k] = Kept(k, now) \cup {m} /\ seq'[k] = Seq0(k) + 1
        /\ expireAt'[k] = clock + Window + Margin
        /\ log'[k] = Append(log[k], clock) /\ slot'[k] = Append(slot[k], m)
    BY <1>1 DEF Inv, TypeOK
  <2>3. /\ DOMAIN log'[k] = DOMAIN log[k] \cup {n} /\ n \notin DOMAIN log[k]
        /\ log'[k][n] = clock /\ slot'[k][n] = m
        /\ \A i \in DOMAIN log[k] : log'[k][i] = log[k][i] /\ slot'[k][i] = slot[k][i]
    <3>1. DOMAIN log[k] = 1 .. Len(log[k]) /\ DOMAIN slot[k] = 1 .. Len(log[k])
      BY <2>1
    <3>2. DOMAIN Append(log[k], clock) = 1 .. n
      BY <1>0, <2>1
    <3>3. DOMAIN Append(log[k], clock) = DOMAIN log[k] \cup {n} /\ n \notin DOMAIN log[k]
      BY <2>1, <3>1, <3>2
    <3>4. Append(log[k], clock)[n] = clock /\ Append(slot[k], m)[n] = m
      BY <1>0, <1>2, <2>1
    <3>5. \A i \in 1 .. Len(log[k]) :
            Append(log[k], clock)[i] = log[k][i] /\ Append(slot[k], m)[i] = slot[k][i]
      BY <1>0, <1>2, <2>1
    <3> QED
      BY <2>2, <3>1, <3>3, <3>4, <3>5
  <2>4. Timely(k)'
    <3>1. \A i \in DOMAIN log[k] : log[k][i] \in Nat /\ log[k][i] <= clock
      BY <2>1 DEF KeyInv, Timely
    <3>2. \A i \in DOMAIN log[k] : log[k][i] + Window + Margin <= expireAt'[k]
      BY <1>0, <2>2, <3>1
    <3>3. /\ clock <= m[1] /\ m[1] <= clock + Skew
          /\ clock + Window + Margin <= expireAt'[k]
      BY <1>0, <1>2, <2>2
    <3>4. \A i \in DOMAIN log[k] :
            log[k][i] <= slot[k][i][1] /\ slot[k][i][1] <= log[k][i] + Skew
      BY <2>1 DEF KeyInv, Timely
    <3> SUFFICES ASSUME NEW i \in DOMAIN log'[k]
                 PROVE  /\ log'[k][i] <= clock
                        /\ log'[k][i] <= slot'[k][i][1] /\ slot'[k][i][1] <= log'[k][i] + Skew
                        /\ log'[k][i] + Window + Margin <= expireAt'[k]
      BY <1>1 DEF Timely
    <3>5. CASE i = n
      BY <1>0, <2>3, <3>3, <3>5
    <3>6. CASE i \in DOMAIN log[k]
      <4>1. log'[k][i] = log[k][i] /\ slot'[k][i] = slot[k][i]
        BY <2>3, <3>6
      <4> QED
        BY <3>1, <3>2, <3>4, <3>6, <4>1
    <3> QED
      BY <2>3, <3>5, <3>6
  <2>5. Recorded(k)'
    BY <1>0, <2>1, <2>2, <2>3, KeptFacts DEF KeyInv, Recorded
  <2>6. \A i \in Recent(k, Window - Skew)' :
            i = n \/ (i \in Recent(k, Window - Skew) /\ slot'[k][i] = slot[k][i])
    BY <1>1, <2>3 DEF Recent
  <2>7. Held(k)'
    BY <2>2, <2>3, <2>6, RecentIsKept DEF Held
  <2>8. Distinct(k)'
    <3>1. \A i \in Recent(k, Window - Skew) : slot[k][i] # m
      <4> SUFFICES ASSUME NEW i \in Recent(k, Window - Skew) PROVE slot[k][i] # m
        OBVIOUS
      <4>1. slot[k][i] \in Kept(k, now)
        BY RecentIsKept
      <4>2. slot[k][i] \in Member /\ slot[k][i][2] <= Seq0(k)
        BY <1>0, <4>1, KeptFacts
      <4> QED
        BY <1>0, <1>2, <4>2
    <3>2. \A i, j \in Recent(k, Window - Skew) : slot[k][i] = slot[k][j] => i = j
      BY <2>1 DEF KeyInv, Distinct
    <3> QED
      BY <2>3, <2>6, <3>1, <3>2 DEF Distinct
  <2>9. Bounded(k)'
    <3>1. IsFiniteSet(zset'[k]) /\ Cardinality(zset'[k]) <= MaxRequests
      <4>1. /\ IsFiniteSet(Kept(k, now) \cup {m})
            /\ Cardinality(Kept(k, now) \cup {m}) <= Cardinality(Kept(k, now)) + 1
        <5>1. IsFiniteSet(Kept(k, now)) /\ Cardinality(Kept(k, now)) \in Nat
          BY <1>0, KeptFacts
        <5>2. IsFiniteSet(Kept(k, now) \cup {m})
          BY <5>1, FS_AddElement
        <5>3. \/ Cardinality(Kept(k, now) \cup {m}) = Cardinality(Kept(k, now))
              \/ Cardinality(Kept(k, now) \cup {m}) = Cardinality(Kept(k, now)) + 1
          BY <5>1, FS_AddElement
        <5> QED
          BY <5>1, <5>2, <5>3
      <4>2. Cardinality(Kept(k, now) \cup {m}) \in Nat /\ Cardinality(Kept(k, now)) \in Nat
        BY <1>0, <4>1, KeptFacts, FS_CardinalityType
      <4>3. Cardinality(Kept(k, now) \cup {m}) <= MaxRequests
        BY <1>1, <4>1, <4>2
      <4> QED
        BY <2>2, <4>1, <4>3
    <3>2. \A x \in zset'[k] : x[2] <= seq'[k]
      <4>1. \A x \in Kept(k, now) : x[2] \in Nat /\ x[2] <= Seq0(k)
        BY <1>0, KeptFacts DEF Member
      <4>2. \A x \in Kept(k, now) : x[2] <= Seq0(k) + 1
        BY <1>0, <4>1
      <4> QED
        BY <1>0, <1>2, <2>2, <4>2
    <3>3. expireAt'[k] <= clock' + Window + Margin /\ Len(slot'[k]) = Len(log'[k])
      BY <1>0, <1>1, <2>1, <2>2
    <3> QED
      BY <3>1, <3>2, <3>3 DEF Bounded
  <2> QED
    BY <2>4, <2>5, <2>7, <2>8, <2>9 DEF KeyInv
<1>5. ASSUME NEW j \in Keys, j # k PROVE KeyInv(j)'
  BY <1>1, <1>5, OtherKey DEF Inv, TypeOK
<1> QED
  BY <1>3, <1>4, <1>5 DEF Inv

-----------------------------------------------------------------------------
(* The theorems.                                                           *)

LEMMA Inductive == Spec => []Inv
<1>1. Inv /\ [Next]_vars => Inv'
  <2> SUFFICES ASSUME Inv, [Next]_vars PROVE Inv'
    OBVIOUS
  <2>1. CASE Tick
    BY <2>1, TickInv
  <2>2. ASSUME NEW k \in Keys, NEW now \in clock .. clock + Skew, Limit(k, now)
        PROVE  Inv'
    BY <2>2, AdmitInv, RefuseInv DEF Limit
  <2>3. CASE UNCHANGED vars
    <3>1. TypeOK'
      BY <2>3 DEF vars, Inv, TypeOK
    <3>2. ASSUME NEW k \in Keys PROVE KeyInv(k)'
      BY <2>3, OtherKey DEF vars, Inv
    <3> QED
      BY <3>1, <3>2 DEF Inv
  <2> QED
    BY <2>1, <2>2, <2>3 DEF Next
<1> QED
  BY <1>1, InitInv, PTL DEF Spec

\* The sorted sets, counters and expiry times of the limiter keep their types.
THEOREM RateLimitType == Spec => []TypeOK
<1>1. Inv => TypeOK
  BY DEF Inv
<1> QED
  BY <1>1, Inductive, PTL

\* Whatever the clocks of the API processes show, as long as they are at most
\* Skew apart: the script admits at most MaxRequests requests of a key within
\* Window - Skew units of true time.
THEOREM LimitHolds == Spec => []AtMostLimit
<1>1. Inv => AtMostLimit
  <2> SUFFICES ASSUME Inv, NEW k \in Keys
               PROVE  Cardinality(Recent(k, Window - Skew)) <= MaxRequests
    BY DEF AtMostLimit
  <2> DEFINE R == Recent(k, Window - Skew)
             f == [i \in R |-> slot[k][i]]
  <2>1. f \in [R -> zset[k]] /\ \A i, j \in R : f[i] = f[j] => i = j
    BY DEF Inv, KeyInv, Held, Distinct
  <2>2. f \in Injection(R, zset[k])
    BY <2>1 DEF Injection, IsInjective
  <2>3. IsFiniteSet(zset[k]) /\ Cardinality(zset[k]) <= MaxRequests
    BY DEF Inv, KeyInv, Bounded
  <2> HIDE DEF R, f
  <2>4. IsFiniteSet(R) /\ Cardinality(R) <= Cardinality(zset[k])
    BY <2>2, <2>3, FS_Injection
  <2>5. Cardinality(R) \in Nat /\ Cardinality(zset[k]) \in Nat
    BY <2>3, <2>4, FS_CardinalityType
  <2>6. Cardinality(R) <= MaxRequests
    BY <2>3, <2>4, <2>5
  <2> QED
    BY <2>6 DEF R
<1> QED
  BY <1>1, Inductive, PTL

\* The script and the expiry of its keys implement the sliding window: each
\* admission, refusal and tick is a step that the promise allows.
THEOREM LimiterImplementsWindow == Spec => KeepsContract
<1>1. Init => Contract!Init
  BY DEF Init, Contract!Init
<1>2. Inv /\ [Next]_vars => [Contract!Next]_<<clock, log, answer>>
  <2> SUFFICES ASSUME Inv, [Next]_vars PROVE [Contract!Next]_<<clock, log, answer>>
    OBVIOUS
  <2>1. CASE Tick
    <3>1. clock' > clock
      BY <2>1 DEF Tick, Inv, TypeOK
    <3> QED
      BY <2>1, <3>1 DEF Tick, Contract!Next, Contract!Tick
  <2>2. ASSUME NEW k \in Keys, NEW now \in clock .. clock + Skew, Admit(k, now)
        PROVE  Contract!Pass(k)
    <3>1. /\ log' = [log EXCEPT ![k] = Append(@, clock)] /\ clock' = clock
          /\ answer' = [key |-> k, verdict |-> "pass", passed |-> Len(log'[k])]
      BY <2>2 DEF Admit, Answered
    <3>2. Cardinality(Kept(k, now)) < MaxRequests
      BY <2>2 DEF Admit
    <3>3. Cardinality(Recent(k, Window - Skew)) < MaxRequests
      <4>1. now \in Nat /\ DOMAIN log[k] = 1 .. Len(log[k]) /\ Len(log[k]) \in Nat
        BY DEF Inv, TypeOK
      <4>2. IsFiniteSet(DOMAIN log[k])
        BY <4>1, FS_Interval
      <4>3. Cardinality(Recent(k, Window - Skew)) \in Nat
        BY <4>2, FS_Subset, FS_CardinalityType DEF Recent
      <4>4. Cardinality(Kept(k, now)) \in Nat
        BY <4>1, KeptFacts
      <4>5. Cardinality(Recent(k, Window - Skew)) <= Cardinality(Kept(k, now))
        BY RecentAtMostKept
      <4> QED
        BY <3>2, <4>3, <4>4, <4>5
    <3>4. Contract!Passed(k, Window - Skew) = Recent(k, Window - Skew)
      BY DEF Contract!Passed, Recent
    <3> QED
      BY <3>1, <3>3, <3>4 DEF Contract!Pass, Contract!Answer, Contract!Cardinality, Cardinality
  <2>3. ASSUME NEW k \in Keys, NEW now \in clock .. clock + Skew, Refuse(k, now)
        PROVE  Contract!Refuse(k)
    <3>1. /\ log' = log /\ clock' = clock
          /\ answer' = [key |-> k, verdict |-> "refuse", passed |-> Len(log'[k])]
      BY <2>3 DEF Refuse, Answered
    <3>2. Cardinality(Kept(k, now)) >= MaxRequests
      BY <2>3 DEF Refuse
    <3>3. Cardinality(Recent(k, Window + Skew)) >= MaxRequests
      <4>1. now \in Nat /\ DOMAIN log[k] = 1 .. Len(log[k]) /\ Len(log[k]) \in Nat
        BY DEF Inv, TypeOK
      <4>2. IsFiniteSet(DOMAIN log[k])
        BY <4>1, FS_Interval
      <4>3. Cardinality(Recent(k, Window + Skew)) \in Nat
        BY <4>2, FS_Subset, FS_CardinalityType DEF Recent
      <4>4. Cardinality(Kept(k, now)) \in Nat
        BY <4>1, KeptFacts
      <4>5. Cardinality(Kept(k, now)) <= Cardinality(Recent(k, Window + Skew))
        BY KeptAtMostLenient
      <4> QED
        BY <3>2, <4>3, <4>4, <4>5
    <3>4. Contract!Passed(k, Window + Skew) = Recent(k, Window + Skew)
      BY DEF Contract!Passed, Recent
    <3> QED
      BY <3>1, <3>3, <3>4 DEF Contract!Refuse, Contract!Answer, Contract!Cardinality, Cardinality
  <2>4. CASE UNCHANGED vars
    BY <2>4 DEF vars
  <2> QED
    BY <2>1, <2>2, <2>3, <2>4 DEF Next, Limit, Contract!Next
<1> QED
  BY <1>1, <1>2, Inductive, PTL DEF Spec, KeepsContract, Contract!Spec

-----------------------------------------------------------------------------
(* Sessions.                                                               *)

\* What a request is at each stage: the middleware checks a token that was given
\* out, and what is saved and cached is a token of this request.
StageInv ==
    \A r \in Requests :
        /\ req[r].stage \in {"auth", "authDB", "authCache"} =>
              req[r].token # 0 /\ req[r].kind \in Protected
        /\ req[r].stage \in {"lookup", "findByID", "findByRefreshToken"} =>
              req[r].refresh # 0 /\ req[r].kind = "RefreshToken"
        /\ req[r].stage \in {"save", "cacheToken"} =>
              req[r].new # 0 /\ req[r].kind \in {"Login", "RefreshToken", "Rename"}
        /\ req[r].stage = "cacheLookup" => req[r].new # 0 /\ req[r].kind = "Login"
        /\ req[r].stage \in {"find", "deleteToken", "deleteLookup", "clear"} => req[r].kind = "Logout"
        /\ req[r].kind = "Login" => req[r].refresh # 0
SessionBase == SessionTypeOK /\ StageInv

\* Every token that the middleware compares with, or is about to cache, has been
\* in the row.
SavedInv ==
    /\ dbToken \in everSaved \cup {0} /\ cToken \in everSaved \cup {0}
    /\ \A r \in Requests : /\ req[r].stage = "authCache" => req[r].token \in everSaved
                           /\ req[r].stage = "cacheToken" => req[r].new \in everSaved
    /\ AcceptedWasSaved

\* A refresh token is saved before it is given out, and by one Login only; so the
\* row does not get back one that a late refresh has.
Logging(s) == req[s].kind = "Login" /\ req[s].stage \in {"save", "cacheToken", "cacheLookup"}
LateInv ==
    /\ \A s \in Requests : req[s].kind = "Login" /\ req[s].stage = "save" =>
          /\ req[s].refresh \notin refreshes
          /\ \A q \in Requests \ {s} : Logging(q) => req[q].refresh # req[s].refresh
    /\ \A r \in late :
          /\ req[r].stage \in {"lookup", "findByID", "findByRefreshToken", "refused"}
          /\ req[r].stage # "refused" => req[r].refresh \in refreshes \ {dbRefresh}

\* One request at a time, nothing failed and nothing expired: where the caches
\* stand at each stage.
Calm == ~overlapped /\ faults = 0 /\ expiries = 0
Coherent ==
    /\ cToken \in {0, dbToken}
    /\ dbRefresh = 0 => dbToken = 0
    /\ dbRefresh # 0 => dbRefresh \in lookups
Serving(r) ==
    /\ req[r].stage \in {"auth", "authDB", "authCache", "lookup", "findByID", "findByRefreshToken",
                         "save", "find", "deleteToken"} => Coherent
    /\ req[r].stage = "authDB" => cToken = 0
    /\ req[r].stage = "authCache" => dbToken = req[r].token
    /\ req[r].stage = "findByRefreshToken" => req[r].refresh # dbRefresh
    /\ req[r].stage = "save" => /\ req[r].kind # "Login" => dbRefresh # 0
                                /\ req[r].kind = "RefreshToken" => req[r].viaCache
    /\ req[r].stage = "cacheToken" =>
          /\ dbToken = req[r].new /\ dbRefresh # 0
          /\ IF req[r].kind = "Login" THEN dbRefresh = req[r].refresh ELSE dbRefresh \in lookups
    /\ req[r].stage = "cacheLookup" => /\ cToken = dbToken /\ dbRefresh # 0
                                       /\ dbRefresh = req[r].refresh
    /\ req[r].stage = "deleteToken" => req[r].refresh = dbRefresh /\ dbRefresh # 0
    /\ req[r].stage \in {"deleteLookup", "clear"} => cToken = 0
CalmInv == Calm =>
    /\ AtRest => Coherent
    /\ \A r, s \in Requests : Active(r) /\ Active(s) => r = s
    /\ \A r \in Requests : Serving(r)

\* The type of a request when n tokens have been issued; it grows with n.
Record(n) == [kind : Kinds, stage : Stages, token : 0 .. n, new : 0 .. n, refresh : 0 .. n,
              viaCache : BOOLEAN]

LEMMA Retyped ==
    ASSUME SessionTypeOK, issued' \in Nat, issued <= issued', NEW q \in Requests
    PROVE  req[q] \in Record(issued')
<1>1. req[q] \in Record(issued)
  BY DEF SessionTypeOK, Record
<1>2. \A i \in 0 .. issued : i \in 0 .. issued'
  BY DEF SessionTypeOK
<1> QED
  BY <1>1, <1>2 DEF Record
LEMMA SessionStep == SessionBase /\ [SessionNext]_sessionVars => SessionBase'
<1> SUFFICES ASSUME SessionBase, [SessionNext]_sessionVars PROVE SessionBase'
  OBVIOUS
<1> USE DEF rowVars, redisVars, giveVars, histVars, At, Goto, Is, Fault, NoFault
<1> USE DEF SessionBase, SessionTypeOK, StageInv, Kinds, Stages, Protected
<1>1. ASSUME NEW r \in Requests, Login(r) PROVE SessionBase'
  <2>1. overlapped' \in BOOLEAN
    BY <1>1, Zenon DEF Login, Arrives
  <2>2. /\ issued' \in Nat /\ issued <= issued' /\ late' \subseteq Requests
        /\ UNCHANGED <<dbToken, dbRefresh, cToken, lookups, tokens, refreshes, everSaved,
                       accepted, faults, expiries>>
    BY <1>1 DEF Login
  <2> DEFINE x == [Idle EXCEPT !.kind = "Login", !.stage = "save", !.new = issued + 1,
                              !.refresh = issued + 1]
  <2>3. req' = [req EXCEPT ![r] = x]
    BY ONLY <1>1 DEF Login, Arrives
  <2>4. req'[r] \in Record(issued') /\ req'[r].stage = "save" /\ req'[r].kind = "Login"
        /\ req'[r].new # 0 /\ req'[r].refresh # 0
    <3>0. Idle \in Record(issued')
      BY <2>2 DEF Idle, Record
    <3>1. issued + 1 \in 0 .. issued' /\ issued + 1 # 0 /\ "Login" \in Kinds /\ "save" \in Stages
      BY <1>1, <2>2 DEF Login
    <3>2. x \in Record(issued') /\ x.stage = "save" /\ x.kind = "Login" /\ x.new # 0 /\ x.refresh # 0
      BY ONLY <3>0, <3>1 DEF Record
    <3>3. req'[r] = x
      BY <2>3
    <3> HIDE DEF x
    <3> QED
      BY ONLY <3>2, <3>3
  <2>5. req' \in [Requests -> Record(issued')]
    <3>1. \A q \in Requests \ {r} : req'[q] = req[q]
      BY <2>3
    <3>2. DOMAIN req' = Requests /\ req' = [q \in DOMAIN req' |-> req'[q]]
      BY <2>3
    <3>3. \A q \in Requests : req[q] \in Record(issued')
      BY <2>2, Retyped
    <3> QED
      BY ONLY <2>4, <3>1, <3>2, <3>3
  <2>6. StageInv'
    <3>1. \A q \in Requests \ {r} : req'[q] = req[q]
      BY <2>3
    <3> HIDE DEF x
    <3> QED
      BY <2>4, <3>1
  <2> QED
    BY <2>1, <2>2, <2>5, <2>6 DEF Record
<1>2. ASSUME NEW r \in Requests, NEW t \in refreshes, RefreshToken(r, t) PROVE SessionBase'
  <2>1. overlapped' \in BOOLEAN
    BY <1>2, Zenon DEF RefreshToken, Arrives
  <2>2. /\ issued' \in Nat /\ issued <= issued' /\ late' \subseteq Requests
        /\ UNCHANGED <<dbToken, dbRefresh, cToken, lookups, tokens, refreshes, everSaved,
                       accepted, faults, expiries>>
    BY <1>2 DEF RefreshToken
  <2> DEFINE x == [Idle EXCEPT !.kind = "RefreshToken", !.stage = "lookup", !.refresh = t]
  <2>3. req' = [req EXCEPT ![r] = x]
    BY ONLY <1>2 DEF RefreshToken, Arrives
  <2>4. req'[r] \in Record(issued') /\ req'[r].stage = "lookup" /\ req'[r].kind = "RefreshToken"
        /\ req'[r].refresh # 0
    <3>0. Idle \in Record(issued')
      BY <2>2 DEF Idle, Record
    <3>1. t \in 0 .. issued' /\ t # 0 /\ "RefreshToken" \in Kinds /\ "lookup" \in Stages
      BY <1>2, <2>2 DEF RefreshToken
    <3>2. x \in Record(issued') /\ x.stage = "lookup" /\ x.kind = "RefreshToken" /\ x.refresh # 0
      BY ONLY <3>0, <3>1 DEF Record
    <3>3. req'[r] = x
      BY <2>3
    <3> HIDE DEF x
    <3> QED
      BY ONLY <3>2, <3>3
  <2>5. req' \in [Requests -> Record(issued')]
    <3>1. \A q \in Requests \ {r} : req'[q] = req[q]
      BY <2>3
    <3>2. DOMAIN req' = Requests /\ req' = [q \in DOMAIN req' |-> req'[q]]
      BY <2>3
    <3>3. \A q \in Requests : req[q] \in Record(issued')
      BY <2>2, Retyped
    <3> QED
      BY ONLY <2>4, <3>1, <3>2, <3>3
  <2>6. StageInv'
    <3>1. \A q \in Requests \ {r} : req'[q] = req[q]
      BY <2>3
    <3> HIDE DEF x
    <3> QED
      BY <2>4, <3>1
  <2> QED
    BY <2>1, <2>2, <2>5, <2>6 DEF Record
<1>3. ASSUME NEW r \in Requests, NEW kind \in Protected, NEW t \in tokens, Authenticate(r, kind, t)
      PROVE  SessionBase'
  <2>1. overlapped' \in BOOLEAN
    BY <1>3, Zenon DEF Authenticate, Arrives
  <2>2. /\ issued' \in Nat /\ issued <= issued' /\ late' \subseteq Requests
        /\ UNCHANGED <<dbToken, dbRefresh, cToken, lookups, tokens, refreshes, everSaved,
                       accepted, faults, expiries>>
    BY <1>3 DEF Authenticate
  <2> DEFINE x == [Idle EXCEPT !.kind = kind, !.stage = "auth", !.token = t]
  <2>3. req' = [req EXCEPT ![r] = x]
    BY ONLY <1>3 DEF Authenticate, Arrives
  <2>4. req'[r] \in Record(issued') /\ req'[r].stage = "auth" /\ req'[r].kind = kind /\ req'[r].token # 0
    <3>0. Idle \in Record(issued')
      BY <2>2 DEF Idle, Record
    <3>1. t \in 0 .. issued' /\ t # 0 /\ kind \in Kinds /\ "auth" \in Stages
      BY <1>3, <2>2 DEF Authenticate
    <3>2. x \in Record(issued') /\ x.stage = "auth" /\ x.kind = kind /\ x.token # 0
      BY ONLY <3>0, <3>1 DEF Record
    <3>3. req'[r] = x
      BY <2>3
    <3> HIDE DEF x
    <3> QED
      BY ONLY <3>2, <3>3
  <2>5. req' \in [Requests -> Record(issued')]
    <3>1. \A q \in Requests \ {r} : req'[q] = req[q]
      BY <2>3
    <3>2. DOMAIN req' = Requests /\ req' = [q \in DOMAIN req' |-> req'[q]]
      BY <2>3
    <3>3. \A q \in Requests : req[q] \in Record(issued')
      BY <2>2, Retyped
    <3> QED
      BY ONLY <2>4, <3>1, <3>2, <3>3
  <2>6. StageInv'
    <3>1. \A q \in Requests \ {r} : req'[q] = req[q]
      BY <2>3
    <3> HIDE DEF x
    <3> QED
      BY <2>4, <3>1
  <2> QED
    BY <2>1, <2>2, <2>5, <2>6 DEF Record
<1>4. ASSUME NEW r \in Requests, AuthCached(r) PROVE SessionBase'
  BY <1>4 DEF AuthCached, Passes, AfterAuth
<1>5. ASSUME NEW r \in Requests, AuthDB(r) PROVE SessionBase'
  BY <1>5 DEF AuthDB
<1>6. ASSUME NEW r \in Requests, AuthCache(r) PROVE SessionBase'
  <2>1. req[r].kind \in Protected /\ req[r].token # 0 /\ req[r] \in [kind : Kinds, stage : Stages,
            token : 0 .. issued, new : 0 .. issued, refresh : 0 .. issued, viaCache : BOOLEAN]
    BY <1>6 DEF AuthCache
  <2>2. /\ issued' \in {issued, issued + 1} /\ accepted' = accepted \cup {req[r].token}
        /\ req' = [req EXCEPT ![r].stage = AfterAuth(req[r].kind),
                              ![r].new = IF req[r].kind = "Rename" THEN issued + 1 ELSE 0]
        /\ req[r].kind = "Rename" => issued' = issued + 1
    BY <1>6 DEF AuthCache, Passes
  <2>3. AfterAuth(req[r].kind) = IF req[r].kind = "read" THEN "done"
                                   ELSE IF req[r].kind = "Rename" THEN "save" ELSE "find"
    BY <2>1 DEF AfterAuth
  <2>4. req' \in [Requests -> Record(issued')]
    <3>0. issued' \in Nat /\ issued <= issued'
      BY <2>2
    <3>1. req'[r] \in Record(issued')
      <4>1. req[r] \in Record(issued')
        BY <3>0, Retyped
      <4>2. req'[r] = [req[r] EXCEPT !.stage = AfterAuth(req[r].kind),
                                     !.new = IF req[r].kind = "Rename" THEN issued + 1 ELSE 0]
        BY <2>2
      <4>3. (IF req[r].kind = "Rename" THEN issued + 1 ELSE 0) \in 0 .. issued'
        BY <2>2
      <4> QED
        BY <2>3, <4>1, <4>2, <4>3 DEF Record
    <3>2. \A q \in Requests \ {r} : req'[q] = req[q]
      BY <2>2
    <3>3. DOMAIN req' = Requests /\ req' = [q \in DOMAIN req' |-> req'[q]]
      BY <2>2
    <3>4. \A q \in Requests : req[q] \in Record(issued')
      BY <3>0, Retyped
    <3> QED
      BY ONLY <3>1, <3>2, <3>3, <3>4
  <2>5. StageInv'
    BY <2>1, <2>2, <2>3
  <2>6. cToken' \in 0 .. issued' /\ faults' \in Nat
    BY <1>6, <2>1, <2>2 DEF AuthCache
  <2>7. UNCHANGED <<dbToken, dbRefresh, lookups, tokens, refreshes, everSaved, late, overlapped, expiries>>
    BY <1>6 DEF AuthCache
  <2> QED
    <3>1. accepted' \subseteq 1 .. issued' /\ issued' \in Nat /\ issued <= issued'
      BY <2>1, <2>2
    <3> QED
      BY <2>4, <2>5, <2>6, <2>7, <3>1 DEF Record
<1>7. ASSUME NEW r \in Requests, Lookup(r) PROVE SessionBase'
  BY <1>7 DEF Lookup
<1>8. ASSUME NEW r \in Requests, FindByID(r) PROVE SessionBase'
  BY <1>8 DEF FindByID, Continues
<1>9. ASSUME NEW r \in Requests, FindByRefreshToken(r) PROVE SessionBase'
  BY <1>9 DEF FindByRefreshToken, Continues
<1>10. ASSUME NEW r \in Requests, Save(r) PROVE SessionBase'
  BY <1>10 DEF Save, AfterSave, Respond
<1>11. ASSUME NEW r \in Requests, SaveFails(r) PROVE SessionBase'
  BY <1>11 DEF SaveFails
<1>12. ASSUME NEW r \in Requests, CacheToken(r) PROVE SessionBase'
  BY <1>12 DEF CacheToken, Respond
<1>13. ASSUME NEW r \in Requests, CacheTokenFails(r) PROVE SessionBase'
  BY <1>13 DEF CacheTokenFails, Respond
<1>14. ASSUME NEW r \in Requests, CacheLookup(r) PROVE SessionBase'
  BY <1>14 DEF CacheLookup, Respond
<1>15. ASSUME NEW r \in Requests, Find(r) PROVE SessionBase'
  BY <1>15 DEF Find
<1>16. ASSUME NEW r \in Requests, DeleteToken(r) PROVE SessionBase'
  BY <1>16 DEF DeleteToken
<1>17. ASSUME NEW r \in Requests, DeleteLookup(r) PROVE SessionBase'
  BY <1>17 DEF DeleteLookup
<1>18. ASSUME NEW r \in Requests, Clear(r) PROVE SessionBase'
  BY <1>18 DEF Clear
<1>19. CASE TokenExpires
  BY <1>19 DEF TokenExpires, Expiry
<1>20. ASSUME NEW t \in lookups, LookupExpires(t) PROVE SessionBase'
  BY <1>20 DEF LookupExpires, Expiry
<1>21. CASE UNCHANGED sessionVars
  BY <1>21 DEF sessionVars
<1> QED
  BY ONLY [SessionNext]_sessionVars, <1>1, <1>2, <1>3, <1>4, <1>5, <1>6, <1>7, <1>8, <1>9, <1>10,
     <1>11, <1>12, <1>13, <1>14, <1>15, <1>16, <1>17, <1>18, <1>19, <1>20, <1>21
     DEF SessionNext, Arrival, Step

LEMMA SavedStep == SessionBase /\ SavedInv /\ [SessionNext]_sessionVars => SavedInv'
<1> SUFFICES ASSUME SessionBase, SavedInv, [SessionNext]_sessionVars PROVE SavedInv'
  OBVIOUS
<1> USE DEF rowVars, redisVars, giveVars, histVars, At, Goto, Is, Fault, NoFault
<1> USE DEF SessionBase, SessionTypeOK, StageInv, Kinds, Stages, Protected, SavedInv,
   AcceptedWasSaved
<1>1. ASSUME NEW r \in Requests, Login(r) PROVE SavedInv'
  BY <1>1 DEF Login, Arrives, Idle
<1>2. ASSUME NEW r \in Requests, NEW t \in refreshes, RefreshToken(r, t) PROVE SavedInv'
  BY <1>2 DEF RefreshToken, Arrives, Idle
<1>3. ASSUME NEW r \in Requests, NEW kind \in Protected, NEW t \in tokens, Authenticate(r, kind, t)
      PROVE  SavedInv'
  BY <1>3 DEF Authenticate, Arrives, Idle
<1>4. ASSUME NEW r \in Requests, AuthCached(r) PROVE SavedInv'
  BY <1>4 DEF AuthCached, Passes, AfterAuth
<1>5. ASSUME NEW r \in Requests, AuthDB(r) PROVE SavedInv'
  BY <1>5 DEF AuthDB
<1>6. ASSUME NEW r \in Requests, AuthCache(r) PROVE SavedInv'
  BY <1>6 DEF AuthCache, Passes, AfterAuth
<1>7. ASSUME NEW r \in Requests, Lookup(r) PROVE SavedInv'
  BY <1>7 DEF Lookup
<1>8. ASSUME NEW r \in Requests, FindByID(r) PROVE SavedInv'
  BY <1>8 DEF FindByID, Continues
<1>9. ASSUME NEW r \in Requests, FindByRefreshToken(r) PROVE SavedInv'
  BY <1>9 DEF FindByRefreshToken, Continues
<1>10. ASSUME NEW r \in Requests, Save(r) PROVE SavedInv'
  BY <1>10 DEF Save, AfterSave, Respond
<1>11. ASSUME NEW r \in Requests, SaveFails(r) PROVE SavedInv'
  BY <1>11 DEF SaveFails
<1>12. ASSUME NEW r \in Requests, CacheToken(r) PROVE SavedInv'
  BY <1>12 DEF CacheToken, Respond
<1>13. ASSUME NEW r \in Requests, CacheTokenFails(r) PROVE SavedInv'
  BY <1>13 DEF CacheTokenFails, Respond
<1>14. ASSUME NEW r \in Requests, CacheLookup(r) PROVE SavedInv'
  BY <1>14 DEF CacheLookup, Respond
<1>15. ASSUME NEW r \in Requests, Find(r) PROVE SavedInv'
  BY <1>15 DEF Find
<1>16. ASSUME NEW r \in Requests, DeleteToken(r) PROVE SavedInv'
  BY <1>16 DEF DeleteToken
<1>17. ASSUME NEW r \in Requests, DeleteLookup(r) PROVE SavedInv'
  BY <1>17 DEF DeleteLookup
<1>18. ASSUME NEW r \in Requests, Clear(r) PROVE SavedInv'
  BY <1>18 DEF Clear
<1>19. CASE TokenExpires
  BY <1>19 DEF TokenExpires, Expiry
<1>20. ASSUME NEW t \in lookups, LookupExpires(t) PROVE SavedInv'
  BY <1>20 DEF LookupExpires, Expiry
<1>21. CASE UNCHANGED sessionVars
  BY <1>21 DEF sessionVars
<1> QED
  BY ONLY [SessionNext]_sessionVars, <1>1, <1>2, <1>3, <1>4, <1>5, <1>6, <1>7, <1>8, <1>9, <1>10,
     <1>11, <1>12, <1>13, <1>14, <1>15, <1>16, <1>17, <1>18, <1>19, <1>20, <1>21
     DEF SessionNext, Arrival, Step

LEMMA LateStep == SessionBase /\ LateInv /\ [SessionNext]_sessionVars => LateInv'
<1> SUFFICES ASSUME SessionBase, LateInv, [SessionNext]_sessionVars PROVE LateInv'
  OBVIOUS
<1> USE DEF rowVars, redisVars, giveVars, histVars, At, Goto, Is, Fault, NoFault
<1> USE DEF SessionBase, SessionTypeOK, StageInv, Kinds, Stages, Protected, LateInv, Logging
<1>1. ASSUME NEW r \in Requests, Login(r) PROVE LateInv'
  BY <1>1 DEF Login, Arrives, Idle
<1>2. ASSUME NEW r \in Requests, NEW t \in refreshes, RefreshToken(r, t) PROVE LateInv'
  BY <1>2 DEF RefreshToken, Arrives, Idle
<1>3. ASSUME NEW r \in Requests, NEW kind \in Protected, NEW t \in tokens, Authenticate(r, kind, t)
      PROVE  LateInv'
  BY <1>3 DEF Authenticate, Arrives, Idle
<1>4. ASSUME NEW r \in Requests, AuthCached(r) PROVE LateInv'
  BY <1>4 DEF AuthCached, Passes, AfterAuth
<1>5. ASSUME NEW r \in Requests, AuthDB(r) PROVE LateInv'
  BY <1>5 DEF AuthDB
<1>6. ASSUME NEW r \in Requests, AuthCache(r) PROVE LateInv'
  BY <1>6 DEF AuthCache, Passes, AfterAuth
<1>7. ASSUME NEW r \in Requests, Lookup(r) PROVE LateInv'
  BY <1>7 DEF Lookup
<1>8. ASSUME NEW r \in Requests, FindByID(r) PROVE LateInv'
  BY <1>8 DEF FindByID, Continues
<1>9. ASSUME NEW r \in Requests, FindByRefreshToken(r) PROVE LateInv'
  BY <1>9 DEF FindByRefreshToken, Continues
<1>10. ASSUME NEW r \in Requests, Save(r) PROVE LateInv'
  BY <1>10 DEF Save, AfterSave, Respond
<1>11. ASSUME NEW r \in Requests, SaveFails(r) PROVE LateInv'
  BY <1>11 DEF SaveFails
<1>12. ASSUME NEW r \in Requests, CacheToken(r) PROVE LateInv'
  BY <1>12 DEF CacheToken, Respond
<1>13. ASSUME NEW r \in Requests, CacheTokenFails(r) PROVE LateInv'
  BY <1>13 DEF CacheTokenFails, Respond
<1>14. ASSUME NEW r \in Requests, CacheLookup(r) PROVE LateInv'
  BY <1>14 DEF CacheLookup, Respond
<1>15. ASSUME NEW r \in Requests, Find(r) PROVE LateInv'
  <2>1. /\ \A q \in Requests \ {r} : req'[q] = req[q]
        /\ req'[r].stage \in {"done", "deleteToken", "refused"} /\ req'[r].kind = "Logout"
        /\ UNCHANGED <<dbRefresh, refreshes, late>>
    BY <1>15 DEF Find
  <2>2. r \notin late
    BY <1>15 DEF Find
  <2> QED
    BY <2>1, <2>2
<1>16. ASSUME NEW r \in Requests, DeleteToken(r) PROVE LateInv'
  BY <1>16 DEF DeleteToken
<1>17. ASSUME NEW r \in Requests, DeleteLookup(r) PROVE LateInv'
  BY <1>17 DEF DeleteLookup
<1>18. ASSUME NEW r \in Requests, Clear(r) PROVE LateInv'
  BY <1>18 DEF Clear
<1>19. CASE TokenExpires
  BY <1>19 DEF TokenExpires, Expiry
<1>20. ASSUME NEW t \in lookups, LookupExpires(t) PROVE LateInv'
  BY <1>20 DEF LookupExpires, Expiry
<1>21. CASE UNCHANGED sessionVars
  BY <1>21 DEF sessionVars
<1> QED
  BY ONLY [SessionNext]_sessionVars, <1>1, <1>2, <1>3, <1>4, <1>5, <1>6, <1>7, <1>8, <1>9, <1>10,
     <1>11, <1>12, <1>13, <1>14, <1>15, <1>16, <1>17, <1>18, <1>19, <1>20, <1>21
     DEF SessionNext, Arrival, Step

\* A request that arrives alone finds the caches coherent.
LEMMA Quiet ==
    ASSUME CalmInv, NEW r \in Requests, NEW x, Arrives(r, x), UNCHANGED <<faults, expiries>>, Calm'
    PROVE  AtRest /\ Coherent
<1>1. ~overlapped /\ ~\E s \in Requests : Active(s)
  BY DEF Arrives, Calm
<1>2. AtRest /\ Calm
  BY <1>1 DEF AtRest, Calm
<1> QED
  BY <1>2 DEF CalmInv

LEMMA CalmStep == SessionBase /\ CalmInv /\ [SessionNext]_sessionVars => CalmInv'
<1> SUFFICES ASSUME SessionBase, CalmInv, [SessionNext]_sessionVars PROVE CalmInv'
  OBVIOUS
<1> USE DEF rowVars, redisVars, giveVars, histVars, At, Goto, Is, Fault, NoFault
<1> USE DEF SessionBase, SessionTypeOK, StageInv, Kinds, Stages, Protected, CalmInv, Calm,
   Coherent, Serving, AtRest, Active, Ended
<1>1. ASSUME NEW r \in Requests, Login(r)
      PROVE  CalmInv'
  <2>1. Calm' => AtRest /\ Coherent
    BY <1>1, Quiet DEF Login
  <2>2. UNCHANGED <<dbToken, dbRefresh, cToken, lookups>>
    BY <1>1 DEF Login
  <2>3. \A q \in Requests \ {r} : req'[q] = req[q]
    BY <1>1 DEF Login, Arrives
  <2>4. req'[r].stage = "save" /\ req'[r].kind = "Login"
    BY <1>1 DEF Login, Arrives, Idle
  <2> QED
    BY ONLY <2>1, <2>2, <2>3, <2>4
       DEF CalmInv, Calm, Coherent, Serving, AtRest, Active, Ended
<1>2. ASSUME NEW r \in Requests, NEW t \in refreshes, RefreshToken(r, t)
      PROVE  CalmInv'
  <2>1. Calm' => AtRest /\ Coherent
    BY <1>2, Quiet DEF RefreshToken
  <2>2. UNCHANGED <<dbToken, dbRefresh, cToken, lookups>>
    BY <1>2 DEF RefreshToken
  <2>3. \A q \in Requests \ {r} : req'[q] = req[q]
    BY <1>2 DEF RefreshToken, Arrives
  <2>4. req'[r].stage = "lookup"
    BY <1>2 DEF RefreshToken, Arrives, Idle
  <2> QED
    BY ONLY <2>1, <2>2, <2>3, <2>4
       DEF CalmInv, Calm, Coherent, Serving, AtRest, Active, Ended
<1>3. ASSUME NEW r \in Requests, NEW kind \in Protected, NEW t \in tokens, Authenticate(r, kind, t)
      PROVE  CalmInv'
  <2>1. Calm' => AtRest /\ Coherent
    BY <1>3, Quiet DEF Authenticate
  <2>2. UNCHANGED <<dbToken, dbRefresh, cToken, lookups>>
    BY <1>3 DEF Authenticate
  <2>3. \A q \in Requests \ {r} : req'[q] = req[q]
    BY <1>3 DEF Authenticate, Arrives
  <2>4. req'[r].stage = "auth"
    BY <1>3 DEF Authenticate, Arrives, Idle
  <2> QED
    BY ONLY <2>1, <2>2, <2>3, <2>4
       DEF CalmInv, Calm, Coherent, Serving, AtRest, Active, Ended
<1>4. ASSUME NEW r \in Requests, AuthCached(r) PROVE CalmInv'
  BY <1>4 DEF AuthCached, Passes, AfterAuth
<1>5. ASSUME NEW r \in Requests, AuthDB(r) PROVE CalmInv'
  BY <1>5 DEF AuthDB
<1>6. ASSUME NEW r \in Requests, AuthCache(r) PROVE CalmInv'
  <2>1. req[r].kind \in Protected /\ req[r].stage = "authCache" /\ req[r].token # 0
    BY <1>6 DEF AuthCache
  <2>2. CASE req[r].kind = "read"
    BY <1>6, <2>2 DEF AuthCache, Passes, AfterAuth
  <2>3. CASE req[r].kind = "Rename"
    BY <1>6, <2>3 DEF AuthCache, Passes, AfterAuth
  <2>4. CASE req[r].kind = "Logout"
    BY <1>6, <2>4 DEF AuthCache, Passes, AfterAuth
  <2> QED
    BY <2>1, <2>2, <2>3, <2>4
<1>7. ASSUME NEW r \in Requests, Lookup(r) PROVE CalmInv'
  BY <1>7 DEF Lookup
<1>8. ASSUME NEW r \in Requests, FindByID(r) PROVE CalmInv'
  BY <1>8 DEF FindByID, Continues
<1>9. ASSUME NEW r \in Requests, FindByRefreshToken(r) PROVE CalmInv'
  BY <1>9 DEF FindByRefreshToken, Continues
<1>10. ASSUME NEW r \in Requests, Save(r) PROVE CalmInv'
  BY <1>10 DEF Save, AfterSave, Respond
<1>11. ASSUME NEW r \in Requests, SaveFails(r) PROVE CalmInv'
  BY <1>11 DEF SaveFails
<1>12. ASSUME NEW r \in Requests, CacheToken(r) PROVE CalmInv'
  BY <1>12 DEF CacheToken, Respond
<1>13. ASSUME NEW r \in Requests, CacheTokenFails(r) PROVE CalmInv'
  BY <1>13 DEF CacheTokenFails, Respond
<1>14. ASSUME NEW r \in Requests, CacheLookup(r) PROVE CalmInv'
  BY <1>14 DEF CacheLookup, Respond
<1>15. ASSUME NEW r \in Requests, Find(r) PROVE CalmInv'
  BY <1>15 DEF Find
<1>16. ASSUME NEW r \in Requests, DeleteToken(r) PROVE CalmInv'
  BY <1>16 DEF DeleteToken
<1>17. ASSUME NEW r \in Requests, DeleteLookup(r) PROVE CalmInv'
  BY <1>17 DEF DeleteLookup
<1>18. ASSUME NEW r \in Requests, Clear(r) PROVE CalmInv'
  BY <1>18 DEF Clear
<1>19. CASE TokenExpires
  BY <1>19 DEF TokenExpires, Expiry
<1>20. ASSUME NEW t \in lookups, LookupExpires(t) PROVE CalmInv'
  BY <1>20 DEF LookupExpires, Expiry
<1>21. CASE UNCHANGED sessionVars
  BY <1>21 DEF sessionVars
<1> QED
  BY ONLY [SessionNext]_sessionVars, <1>1, <1>2, <1>3, <1>4, <1>5, <1>6, <1>7, <1>8, <1>9, <1>10,
     <1>11, <1>12, <1>13, <1>14, <1>15, <1>16, <1>17, <1>18, <1>19, <1>20, <1>21
     DEF SessionNext, Arrival, Step

LEMMA SessionStarts == SessionInit => SessionBase /\ SavedInv /\ LateInv /\ CalmInv
<1> SUFFICES ASSUME SessionInit PROVE SessionBase /\ SavedInv /\ LateInv /\ CalmInv
  OBVIOUS
<1>1. \A r \in Requests : req[r] = Idle
  BY DEF SessionInit
<1>2. Idle \in Record(0) /\ Idle.stage = "new" /\ Idle.kind = "read"
  BY DEF Idle, Record, Kinds, Stages, Protected
<1>3. StageInv
  BY ONLY <1>1, <1>2 DEF StageInv
<1>4. req \in [Requests -> Record(0)]
  BY <1>1, <1>2 DEF SessionInit
<1>5. overlapped \in BOOLEAN
  BY DEF SessionInit
<1>6. SessionTypeOK
  BY <1>4, <1>5 DEF SessionInit, SessionTypeOK, Record
<1>7. SavedInv
  BY <1>1, <1>2 DEF SessionInit, SavedInv, AcceptedWasSaved
<1>8. LateInv
  BY <1>1, <1>2 DEF SessionInit, LateInv
<1>9. CalmInv
  BY <1>1, <1>2 DEF SessionInit, CalmInv, Coherent, Serving, Active
<1> QED
  BY <1>3, <1>6, <1>7, <1>8, <1>9 DEF SessionBase

LEMMA SessionBaseHolds == SessionSpec => []SessionBase
BY SessionStarts, SessionStep, PTL DEF SessionSpec

\* Tokens in the row, in Redis, with clients and with requests have been issued.
THEOREM SessionTypeCorrect == SessionSpec => []SessionTypeOK
<1>1. SessionBase => SessionTypeOK
  BY DEF SessionBase
<1> QED
  BY <1>1, SessionBaseHolds, PTL

\* The JWT middleware lets no token through that was never in the row of MySQL,
\* whichever of Redis and MySQL fails, and whichever requests run beside it.
THEOREM OnlySavedAccepted == SessionSpec => []AcceptedWasSaved
<1>1. SavedInv => AcceptedWasSaved
  BY DEF SavedInv
<1> QED
  BY <1>1, SessionStarts, SavedStep, SessionBaseHolds, PTL DEF SessionSpec

\* RefreshToken gives no token to a request whose refresh token was superseded or
\* deleted when it began, although its lookup key is still in Redis.
THEOREM SupersededRefused == SessionSpec => []LateRefreshRefused
<1>1. LateInv => LateRefreshRefused
  BY DEF LateInv, LateRefreshRefused
<1> QED
  BY <1>1, SessionStarts, LateStep, SessionBaseHolds, PTL DEF SessionSpec

\* Without overlap, failure and expiry, Redis and the row agree after every
\* sequence of requests.
THEOREM SequencesStayCoherent == SessionSpec => []SequentialCoherence
<1>1. CalmInv => SequentialCoherence
  BY DEF CalmInv, Calm, Coherent, SequentialCoherence
<1> QED
  BY <1>1, SessionStarts, CalmStep, SessionBaseHolds, PTL DEF SessionSpec

=============================================================================
