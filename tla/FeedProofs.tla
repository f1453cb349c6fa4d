------------------------------ MODULE FeedProofs -----------------------------
(***************************************************************************)
(* Proofs about the global feed, for every set of videos, readers and      *)
(* workers, every limit, length of the timeline and bound on faults.       *)
(***************************************************************************)
EXTENDS Feed, FiniteSetTheorems, WellFoundedInduction, TLAPS

\* A worker trims after a video that was committed.
HandInv == \A w \in Workers : hand[w] \in rows \cup {None}

\* v may follow the page S: it is not newer than the last video of S.
Below(v, S) == S # {} => Time[v] <= Bottom(S)

\* Of one request, at stage st with cursor cur, that has read H from the timeline
\* and C from MySQL, knows K and had to miss U:
\* the videos of its page are before the cursor, and C is older than H;
Fits(st, cur, H, C) ==
    /\ st \notin {"load", "stitch", "answer"} => H = {}
    /\ st \notin {"readd", "answer"} => C = {}
    /\ Cardinality(H) <= Limit
    /\ st = "stitch" => Cardinality(H) < Limit
    /\ cur # 0 => \A v \in H : Time[v] < cur
    /\ st = "answer" => \A v \in C : /\ cur # 0 => Time[v] < cur
                                     /\ H # {} => Time[v] < Bottom(H)

\* what the timeline did not give is recorded as missed, or MySQL may give it;
Covered(st, cur, K, H, U) ==
    st \in {"load", "stitch"} => \A v \in Before(K, cur) \ H : v \in U \/ Below(v, H)

\* PageComplete;
Full(H, C) == Cardinality(H) + Cardinality(C) = Limit
Complete(st, cur, K, H, C, U) ==
    st = "answer" => \A v \in Before(K, cur) \ (H \cup C) :
        \/ Full(H, C) /\ Time[v] < Bottom(H \cup C)
        \/ v \in U
        \/ Time[v] \in {Bottom(H \cup C), Bottom(H)}

\* and what its scan has shown, given by sh, is not before the cursor, until the
\* scan ends.
NotBefore(st, cur, sh) ==
    \A v \in Videos :
        /\ sh[v] <= 1
        /\ st # "end" /\ sh[v] > 0 => cur # 0 /\ cur <= Time[v]

RequestInv(s) ==
    /\ Fits(stage[s], cursor[s], hot[s], cold[s])
    /\ Covered(stage[s], cursor[s], known[s], hot[s], unread[s])
    /\ Complete(stage[s], cursor[s], known[s], hot[s], cold[s], unread[s])
    /\ NotBefore(stage[s], cursor[s], shown[s])
ScanInv == \A s \in Scans : RequestInv(s)

USE FeedConstants

-----------------------------------------------------------------------------
(* Times and queries.                                                      *)

LEMMA LeastTime ==
    ASSUME NEW S \in SUBSET Nat, S # {}
    PROVE  \E t \in S : \A u \in S : t <= u
<1>1. \E t \in S : \A u \in S : ~(<<u, t>> \in OpToRel(<, Nat))
  BY NatLessThanWellFounded, WFMin
<1>2. \A t, u \in Nat : ~(<<u, t>> \in OpToRel(<, Nat)) => t <= u
  BY DEF OpToRel
<1> QED
  BY <1>1, <1>2

\* The last video of a page is one of its oldest.
LEMMA BottomOf ==
    ASSUME NEW S \in SUBSET Videos
    PROVE  /\ Bottom(S) \in Nat
           /\ S # {} => /\ Bottom(S) > 0
                        /\ \E v \in S : Time[v] = Bottom(S)
                        /\ \A v \in S : Bottom(S) <= Time[v]
<1> DEFINE T == {Time[v] : v \in S}
<1>1. CASE S = {}
  BY <1>1 DEF Bottom
<1>2. CASE S # {}
  <2>1. T \in SUBSET Nat /\ T # {}
    BY <1>2
  <2>2. \E t \in T : \A u \in T : t <= u
    BY <2>1, LeastTime
  <2>3. \E t \in T : \A v \in S : t <= Time[v]
    BY <2>2
  <2>4. Bottom(S) \in T /\ \A v \in S : Bottom(S) <= Time[v]
    BY <1>2, <2>3 DEF Bottom
  <2> QED
    BY <1>2, <2>4
<1> QED
  BY <1>1, <1>2

\* What a query selects is in front of what it leaves out, and it leaves nothing
\* out before it is full.
LEMMA NewestOf ==
    ASSUME NEW S \in SUBSET Videos, NEW n \in Nat, NEW T \in Newest(S, n)
    PROVE  /\ T \subseteq S /\ IsFiniteSet(S) /\ IsFiniteSet(T)
           /\ Cardinality(T) \in Nat /\ Cardinality(S) \in Nat /\ Cardinality(T) <= n
           /\ T # S => Cardinality(T) = n
           /\ Cardinality(S) >= n => Cardinality(T) = n
           /\ \A t \in T : \A u \in S \ T : Time[t] >= Time[u]
<1>1. /\ T \in SUBSET S
      /\ Cardinality(T) = IF Cardinality(S) < n THEN Cardinality(S) ELSE n
      /\ \A t \in T : \A u \in S \ T : Time[t] >= Time[u]
  BY DEF Newest
<1>2. IsFiniteSet(S)
  BY FS_Subset
<1>3. IsFiniteSet(T) /\ Cardinality(T) <= Cardinality(S) /\ (Cardinality(T) = Cardinality(S) => T = S)
  BY <1>1, <1>2, FS_Subset
<1>4. Cardinality(T) \in Nat /\ Cardinality(S) \in Nat
  BY <1>2, <1>3, FS_CardinalityType
<1> QED
  BY <1>1, <1>2, <1>3, <1>4

LEMMA BeforeOf ==
    ASSUME NEW S, NEW t
    PROVE  /\ Before(S, t) \subseteq S
           /\ \A v : v \in Before(S, t) <=> v \in S /\ (t # 0 => Time[v] < t)
BY DEF Before

-----------------------------------------------------------------------------
(* Types.                                                                  *)

Base == TypeOK /\ HandInv

\* A flight gives videos that were committed.
LEMMA SeenRows ==
    ASSUME TypeOK, NEW s, NEW seen \in Seen(s)
    PROVE  seen \subseteq rows /\ seen \subseteq Videos
BY DEF Seen, TypeOK

LEMMA BaseStep == Base /\ [Next]_vars => Base'
<1> SUFFICES ASSUME Base, [Next]_vars PROVE Base'
  OBVIOUS
<1> USE DEF tvars, svars
<1>0. TypeOK /\ HandInv /\ rows \subseteq Videos
  BY DEF Base, TypeOK
<1>1. ASSUME NEW v \in Videos, Commit(v) PROVE Base'
  BY <1>0, <1>1 DEF Commit, Base, TypeOK, HandInv
<1>2. ASSUME NEW v \in Videos, PublishAgain(v) PROVE Base'
  BY <1>0, <1>2 DEF PublishAgain, Fault, Base, TypeOK, HandInv
<1>3. ASSUME NEW v \in Videos, GiveUp(v) PROVE Base'
  BY <1>0, <1>3 DEF GiveUp, Fault, Base, TypeOK, HandInv
<1>4. CASE Flush
  BY <1>0, <1>4 DEF Flush, Fault, Base, TypeOK, HandInv
<1>5. ASSUME NEW w \in Workers, NEW v \in Videos, Add(w, v) PROVE Base'
  BY <1>0, <1>5 DEF Add, Base, TypeOK, HandInv
<1>6. ASSUME NEW w \in Workers, Trim(w) PROVE Base'
  <2>1. zset' \subseteq zset
    BY <1>6 DEF Trim, Trimmed, Newest
  <2> QED
    BY <1>0, <1>6, <2>1 DEF Trim, Done, Base, TypeOK, HandInv
<1>7. ASSUME NEW w \in Workers, TrimFails(w) PROVE Base'
  BY <1>0, <1>7 DEF TrimFails, Fault, Done, Base, TypeOK, HandInv
<1>8. ASSUME NEW w \in Workers, Return(w) PROVE Base'
  BY <1>0, <1>8 DEF Return, Fault, Done, Base, TypeOK, HandInv
<1>9. ASSUME NEW s \in Scans, NEW next \in Stages, To(s, next), UNCHANGED <<rows, pending, hand, redis>>,
             zset' \subseteq rows, adrift' \subseteq rows, faults' \in 0 .. MaxFaults,
             cursor' \in [Scans -> Nat], shown' \in [Scans -> [Videos -> Nat]],
             hot' \in [Scans -> SUBSET rows], cold' \in [Scans -> SUBSET rows],
             known' \in [Scans -> SUBSET rows], unread' \in [Scans -> SUBSET rows]
      PROVE  Base'
  BY <1>0, <1>9 DEF To, Base, TypeOK, HandInv
<1>10. Fault => faults' \in 0 .. MaxFaults
  BY <1>0 DEF Fault, TypeOK
<1>11. ASSUME NEW s \in Scans, Begin(s) PROVE Base'
  BY <1>0, <1>9, <1>11 DEF Begin, TypeOK, Stages
<1>12. ASSUME NEW s \in Scans, ReadTail(s) PROVE Base'
  BY <1>0, <1>9, <1>12 DEF ReadTail, Area, TypeOK, Stages
<1>13. ASSUME NEW s \in Scans, RebuildQuery(s) PROVE Base'
  <2>1. PICK seen \in Seen(s) : /\ cold' \in {[cold EXCEPT ![s] = T] : T \in Newest(seen, Hot)}
                               /\ To(s, IF seen = {} THEN "answer" ELSE "readd")
                               /\ IF seen = {} THEN Sees(s, seen) ELSE UNCHANGED known
    BY <1>13 DEF RebuildQuery
  <2>2. seen \subseteq rows
    BY <1>0, SeenRows
  <2>3. cold' \in [Scans -> SUBSET rows]
    BY <1>0, <2>1, <2>2 DEF Newest, TypeOK
  <2>4. known' \in [Scans -> SUBSET rows]
    BY <1>0, <2>1 DEF Sees, TypeOK
  <2>5. (IF seen = {} THEN "answer" ELSE "readd") \in Stages
    BY DEF Stages
  <2> QED
    BY <1>0, <1>9, <1>13, <2>1, <2>3, <2>4, <2>5 DEF RebuildQuery, TypeOK
<1>14. ASSUME NEW s \in Scans, RebuildAdd(s) PROVE Base'
  <2>1. "tail" \in Stages /\ To(s, "tail") /\ UNCHANGED <<rows, pending, hand, redis, faults>>
    BY <1>14 DEF RebuildAdd, Stages
  <2>2. zset' \subseteq rows /\ adrift' \subseteq rows /\ cold' \in [Scans -> SUBSET rows]
    BY <1>0, <1>14 DEF RebuildAdd, TypeOK
  <2> QED
    BY <1>0, <1>9, <1>14, <2>1, <2>2 DEF RebuildAdd, TypeOK
<1>15. ASSUME NEW s \in Scans, RebuildAddFails(s) PROVE Base'
  BY <1>0, <1>9, <1>10, <1>15 DEF RebuildAddFails, TypeOK, Stages
<1>16. ASSUME NEW s \in Scans, ReadRange(s) PROVE Base'
  <2>1. PICK T \in Newest(Before(zset, cursor[s]), Limit) :
             /\ hot' = [hot EXCEPT ![s] = T]
             /\ unread' = [unread EXCEPT ![s] =
                   {v \in known[s] \cap Missing : T # {} /\ Time[v] > Bottom(T)}]
    BY <1>16 DEF ReadRange
  <2>2. T \subseteq rows
    BY <1>0, BeforeOf DEF Newest, TypeOK
  <2>3. hot' \in [Scans -> SUBSET rows] /\ unread' \in [Scans -> SUBSET rows]
    BY <1>0, <2>1, <2>2 DEF TypeOK
  <2>4. "load" \in Stages
    BY DEF Stages
  <2> QED
    BY <1>0, <1>9, <1>16, <2>3, <2>4 DEF ReadRange, TypeOK
<1>17. ASSUME NEW s \in Scans, Load(s) \/ LoadSome(s) PROVE Base'
  <2>1. PICK found \in SUBSET hot[s] : Loaded(s, found)
    BY <1>17 DEF Load, LoadSome
  <2>2. faults' \in 0 .. MaxFaults
    BY <1>0, <1>10, <1>17 DEF Load, LoadSome, TypeOK
  <2>3. hot' \in [Scans -> SUBSET rows] /\ unread' \in [Scans -> SUBSET rows]
    BY <1>0, <2>1 DEF Loaded, TypeOK
  <2>4. (IF Cardinality(found) < Limit THEN "stitch" ELSE "answer") \in Stages
    BY DEF Stages
  <2> QED
    BY <1>0, <1>9, <2>1, <2>2, <2>3, <2>4 DEF Loaded, TypeOK
<1>18. ASSUME NEW s \in Scans, NEW seen \in Seen(s), NEW S, S \subseteq seen, NEW n,
              cold' \in {[cold EXCEPT ![s] = T] : T \in Newest(S, n)}, Sees(s, seen)
       PROVE  cold' \in [Scans -> SUBSET rows] /\ known' \in [Scans -> SUBSET rows]
  <2>1. seen \subseteq rows
    BY <1>0, SeenRows
  <2>2. cold' \in [Scans -> SUBSET rows]
    <3>1. PICK T \in Newest(S, n) : cold' = [cold EXCEPT ![s] = T]
      BY <1>18
    <3>2. T \subseteq rows
      BY <1>18, <2>1 DEF Newest
    <3> QED
      BY <1>0, <3>1, <3>2 DEF TypeOK
  <2>3. known' \in [Scans -> SUBSET rows]
    BY <1>0, <1>18 DEF Sees, TypeOK
  <2> QED
    BY <2>2, <2>3
<1>19. ASSUME NEW s \in Scans, Stitch(s) \/ Cold(s) PROVE Base'
  <2>1. cold' \in [Scans -> SUBSET rows] /\ known' \in [Scans -> SUBSET rows]
    <3>1. PICK seen \in Seen(s) : \E t, n :
              cold' \in {[cold EXCEPT ![s] = T] : T \in Newest(Before(seen, t), n)} /\ Sees(s, seen)
      BY <1>19 DEF Stitch, Cold
    <3>2. PICK t, n : cold' \in {[cold EXCEPT ![s] = T] : T \in Newest(Before(seen, t), n)}
      BY <3>1
    <3>3. Before(seen, t) \subseteq seen
      BY BeforeOf
    <3> QED
      BY <1>18, <3>1, <3>2, <3>3
  <2>2. "answer" \in Stages
    BY DEF Stages
  <2> QED
    BY <1>0, <1>9, <1>19, <2>1, <2>2 DEF Stitch, Cold, TypeOK
<1>20. ASSUME NEW s \in Scans, StitchFails(s) PROVE Base'
  <2>1. unread' \in [Scans -> SUBSET rows]
    <3>1. Before(known[s], ColdCursor(s)) \subseteq rows
      BY <1>0, BeforeOf DEF TypeOK
    <3> QED
      BY <1>0, <1>20, <3>1 DEF StitchFails, TypeOK
  <2>2. "answer" \in Stages
    BY DEF Stages
  <2> QED
    BY <1>0, <1>9, <1>10, <1>20, <2>1, <2>2 DEF StitchFails, TypeOK
<1>21. ASSUME NEW s \in Scans, Error(s) PROVE Base'
  BY <1>0, <1>9, <1>10, <1>21 DEF Error, Over, TypeOK, Stages
<1>22. ASSUME NEW s \in Scans, Answer(s) PROVE Base'
  <2>1. Bottom(Page(s)) \in Nat
    BY <1>0, BottomOf DEF Page, TypeOK
  <2>2. cursor' \in [Scans -> Nat]
    BY <1>0, <1>22, <2>1 DEF Answer, TypeOK
  <2>3. shown' \in [Scans -> [Videos -> Nat]]
    BY <1>0, <1>22 DEF Answer, TypeOK
  <2>4. (IF HasMore(s) THEN "ready" ELSE "end") \in Stages
    BY DEF Stages
  <2> QED
    BY <1>0, <1>9, <1>22, <2>2, <2>3, <2>4 DEF Answer, Over, TypeOK
<1>23. CASE UNCHANGED vars
  BY <1>0, <1>23 DEF vars, Base, TypeOK, HandInv
<1> QED
  BY <1>1, <1>2, <1>3, <1>4, <1>5, <1>6, <1>7, <1>8, <1>11, <1>12, <1>13, <1>14, <1>15, <1>16,
     <1>17, <1>19, <1>20, <1>21, <1>22, <1>23
  DEF Next, Request

LEMMA BaseHolds == Spec => []Base
<1>1. Init => Base
  BY DEF Init, Base, TypeOK, HandInv, Stages
<1> QED
  BY <1>1, BaseStep, PTL DEF Spec

\* Only committed videos are in the timeline, on a page or on their way.
THEOREM TypeCorrect == Spec => []TypeOK
<1>1. Base => TypeOK
  BY DEF Base
<1> QED
  BY <1>1, BaseHolds, PTL

-----------------------------------------------------------------------------
(* The timeline.                                                           *)

\* Members of S at least as new as v.
AsNew(S, v) == {u \in S : Time[u] >= Time[v]}

LEMMA AsNewOf ==
    ASSUME NEW S \in SUBSET Videos, NEW v \in Videos
    PROVE  IsFiniteSet(AsNew(S, v)) /\ Cardinality(AsNew(S, v)) \in Nat
<1>1. IsFiniteSet(S)
  BY FS_Subset
<1>2. IsFiniteSet(AsNew(S, v))
  BY <1>1, FS_Subset DEF AsNew
<1> QED
  BY <1>2, FS_CardinalityType

\* A timeline that grows keeps what it has in front of v.
LEMMA AsNewGrows ==
    ASSUME NEW S \in SUBSET Videos, NEW T \in SUBSET S, NEW v \in Videos,
           Cardinality(AsNew(T, v)) >= Hot
    PROVE  Cardinality(AsNew(S, v)) >= Hot
<1>1. AsNew(T, v) \subseteq AsNew(S, v)
  BY DEF AsNew
<1>2. Cardinality(AsNew(T, v)) <= Cardinality(AsNew(S, v))
  BY <1>1, AsNewOf, FS_Subset
<1>3. Cardinality(AsNew(T, v)) \in Nat /\ Cardinality(AsNew(S, v)) \in Nat
  BY AsNewOf
<1> QED
  BY <1>2, <1>3

\* A trim takes away only what has Hot members in front of it.
LEMMA TrimKeeps ==
    ASSUME NEW S \in SUBSET Videos, NEW T \in Newest(S, Hot), NEW v \in Videos, v \notin T,
           v \in S \/ Cardinality(AsNew(S, v)) >= Hot
    PROVE  Cardinality(AsNew(T, v)) >= Hot
<1>1. /\ T \subseteq S /\ IsFiniteSet(S) /\ IsFiniteSet(T)
      /\ Cardinality(T) \in Nat /\ Cardinality(S) \in Nat
      /\ T # S => Cardinality(T) = Hot
      /\ Cardinality(S) >= Hot => Cardinality(T) = Hot
      /\ \A t \in T : \A u \in S \ T : Time[t] >= Time[u]
  BY NewestOf
<1>2. IsFiniteSet(AsNew(S, v)) /\ Cardinality(AsNew(S, v)) \in Nat
  BY AsNewOf
<1>3. CASE v \in S
  <2>1. AsNew(T, v) = T
    BY <1>1, <1>3 DEF AsNew
  <2> QED
    BY <1>1, <1>3, <2>1
<1>4. CASE v \notin S
  <2>1. Cardinality(AsNew(S, v)) <= Cardinality(S)
    BY <1>1, FS_Subset DEF AsNew
  <2>2. Cardinality(T) = Hot
    BY <1>1, <1>2, <1>4, <2>1
  <2>3. ASSUME NEW u \in T, Time[u] < Time[v] PROVE FALSE
    <3>1. u \in Videos /\ Time[u] \in Nat /\ Time[v] \in Nat /\ \A x \in S : Time[x] \in Nat
      BY <1>1
    <3>2. AsNew(S, v) \subseteq T \ {u}
      BY <1>1, <2>3, <3>1 DEF AsNew
    <3>3. IsFiniteSet(T \ {u}) /\ Cardinality(T \ {u}) = Cardinality(T) - 1
      BY <1>1, FS_RemoveElement
    <3>4. Cardinality(AsNew(S, v)) <= Cardinality(T \ {u})
      BY <3>2, <3>3, FS_Subset
    <3> QED
      BY <1>2, <1>4, <2>2, <3>3, <3>4
  <2>4. AsNew(T, v) = T
    <3>1. \A u \in T : Time[u] \in Nat /\ Time[v] \in Nat
      BY <1>1
    <3> QED
      BY <2>3, <3>1 DEF AsNew
  <2> QED
    BY <2>2, <2>4
<1> QED
  BY <1>3, <1>4

\* The timeline holds the newest Hot videos but for those whose event is on its
\* way, was given up, or that a flush took.  No trim, late event or rebuild
\* pushes a newer video out for an older one.
THEOREM NewestAreListed == Spec => []NewestListed
<1> USE DEF tvars, svars
<1>1. Init => NewestListed
  BY DEF Init, NewestListed
<1>2. Base /\ Base' /\ NewestListed /\ [Next]_vars => NewestListed'
  <2> SUFFICES ASSUME Base, Base', NewestListed, [Next]_vars,
                      NEW v \in rows' \ (zset' \cup pending' \cup adrift')
               PROVE  Cardinality(AsNew(zset', v)) >= Hot
    BY DEF NewestListed, AsNew
  <2>0. TypeOK /\ zset \subseteq Videos /\ rows \subseteq Videos /\ zset' \subseteq Videos /\ v \in Videos
    BY DEF Base, TypeOK
  <2>1. v \in rows \ (zset \cup pending \cup adrift) => Cardinality(AsNew(zset, v)) >= Hot
    BY DEF NewestListed, AsNew
  <2>2. ASSUME zset \subseteq zset', v \in rows \ (pending \cup adrift) PROVE Cardinality(AsNew(zset', v)) >= Hot
    BY <2>0, <2>1, <2>2, AsNewGrows
  <2>3. ASSUME NEW x \in Videos, Commit(x) \/ PublishAgain(x) \/ GiveUp(x)
        PROVE  Cardinality(AsNew(zset', v)) >= Hot
    <3>1. zset' = zset /\ v \in rows \ (pending \cup adrift)
      BY <2>3 DEF Commit, PublishAgain, GiveUp
    <3> QED
      BY <2>2, <3>1
  <2>4. CASE Flush
    BY <2>4 DEF Flush
  <2>5. ASSUME NEW w \in Workers, NEW x \in Videos, Add(w, x) PROVE Cardinality(AsNew(zset', v)) >= Hot
    <3>1. zset \subseteq zset' /\ v \in rows \ (pending \cup adrift)
      BY <2>5 DEF Add
    <3> QED
      BY <2>2, <3>1
  <2>6. ASSUME NEW w \in Workers, Trim(w) PROVE Cardinality(AsNew(zset', v)) >= Hot
    <3>1. zset' \in Newest(zset, Hot) /\ v \in rows \ (pending \cup adrift)
      BY <2>6 DEF Trim, Trimmed
    <3> QED
      BY <2>0, <2>1, <3>1, TrimKeeps
  <2>7. ASSUME NEW w \in Workers, TrimFails(w) \/ Return(w) PROVE Cardinality(AsNew(zset', v)) >= Hot
    <3>1. zset' = zset /\ v \in rows \ (pending \cup adrift)
      BY <2>7 DEF TrimFails, Return
    <3> QED
      BY <2>2, <3>1
  <2>8. ASSUME NEW s \in Scans, RebuildAdd(s) PROVE Cardinality(AsNew(zset', v)) >= Hot
    <3>1. /\ zset' = zset \cup cold[s] /\ UNCHANGED <<rows, pending>>
          /\ adrift' = {u \in adrift \ cold[s] : \/ Cardinality(cold[s]) < Hot
                                                 \/ \E x \in cold[s] : Time[x] < Time[u]}
      BY <2>8 DEF RebuildAdd
    <3>2. CASE v \notin adrift
      BY <2>2, <3>1, <3>2
    <3>3. CASE v \in adrift
      <4>1. cold[s] \subseteq Videos /\ ~(Cardinality(cold[s]) < Hot)
        BY <2>0, <3>1, <3>3 DEF TypeOK
      <4>2. IsFiniteSet(cold[s]) /\ Cardinality(cold[s]) \in Nat
        BY <4>1, FS_Subset, FS_CardinalityType
      <4>3. \A x \in cold[s] : Time[x] >= Time[v]
        <5>1. \A x \in cold[s] : ~(Time[x] < Time[v]) /\ Time[x] \in Nat /\ Time[v] \in Nat
          BY <2>0, <3>1, <3>3, <4>1
        <5> QED
          BY <5>1
      <4>4. AsNew(cold[s], v) = cold[s]
        BY <4>3 DEF AsNew
      <4>5. Cardinality(AsNew(cold[s], v)) >= Hot
        BY <4>1, <4>2, <4>4
      <4> QED
        BY <2>0, <3>1, <4>5, AsNewGrows
    <3> QED
      BY <3>2, <3>3
  <2>9. ASSUME UNCHANGED tvars PROVE Cardinality(AsNew(zset', v)) >= Hot
    BY <2>2, <2>9
  <2>10. ASSUME NEW s \in Scans, Begin(s) \/ ReadTail(s) \/ RebuildQuery(s) \/ ReadRange(s) \/ Load(s)
                                 \/ Stitch(s) \/ Cold(s) \/ Answer(s) \/ RebuildAddFails(s) \/ LoadSome(s)
                                 \/ StitchFails(s) \/ Error(s)
         PROVE  UNCHANGED tvars
    BY <2>10 DEF Begin, ReadTail, RebuildQuery, ReadRange, Load, LoadSome, Loaded, Stitch, Cold,
       Answer,
                 RebuildAddFails, StitchFails, Error
  <2>11. CASE UNCHANGED vars
    BY <2>9, <2>11 DEF vars
  <2> QED
    BY <2>3, <2>4, <2>5, <2>6, <2>7, <2>8, <2>9, <2>10, <2>11 DEF Next, Request
<1> QED
  BY <1>1, <1>2, BaseHolds, PTL DEF Spec

-----------------------------------------------------------------------------
(* The steps of a request.                                                 *)

\* The timeline, at a score below the cursor.
LEMMA RangeGives ==
    ASSUME TypeOK, NewestListed, NEW cur \in Nat, NEW K \in SUBSET rows,
           NEW T \in Newest(Before(zset, cur), Limit), NEW U,
           U = {v \in K \cap Missing : T # {} /\ Time[v] > Bottom(T)}
    PROVE  Fits("load", cur, T, {}) /\ Covered("load", cur, K, T, U)
<1>0. zset \subseteq Videos /\ rows \subseteq Videos /\ Before(zset, cur) \subseteq Videos
  BY BeforeOf DEF TypeOK
<1>1. /\ T \subseteq Before(zset, cur) /\ Cardinality(T) <= Limit
      /\ \A t \in T : \A u \in Before(zset, cur) \ T : Time[t] >= Time[u]
  BY <1>0, NewestOf
<1>2. Fits("load", cur, T, {})
  BY <1>1, BeforeOf DEF Fits
<1>3. ASSUME NEW v \in Before(K, cur) \ T PROVE v \in U \/ Below(v, T)
  <2> SUFFICES ASSUME T # {}, v \notin U PROVE Time[v] <= Bottom(T)
    BY DEF Below
  <2>1. v \in K /\ v \in rows /\ v \in Videos /\ Time[v] \in Nat
    BY <1>0, <1>3, BeforeOf
  <2>2. T \subseteq Videos /\ T \subseteq zset
    BY <1>0, <1>1, BeforeOf
  <2>3. Bottom(T) \in Nat /\ \E t \in T : Time[t] = Bottom(T)
    BY <2>2, BottomOf
  <2>4. CASE v \in zset
    <3>1. v \in Before(zset, cur) \ T
      BY <1>3, <2>4, BeforeOf
    <3> QED
      BY <1>1, <2>3, <3>1
  <2>5. CASE v \notin zset
    <3>1. CASE v \in Missing
      BY <2>1, <2>3, <3>1
    <3>2. CASE v \notin Missing
      <4>1. v \in rows \ (zset \cup pending \cup adrift) /\ ~(Cardinality(zset) > Hot)
        BY <2>1, <2>5, <3>2 DEF Missing
      <4>2. Cardinality(AsNew(zset, v)) >= Hot
        BY <4>1 DEF NewestListed, AsNew
      <4>3. IsFiniteSet(zset) /\ AsNew(zset, v) \subseteq zset
        BY <1>0, FS_Subset DEF AsNew
      <4>4. Cardinality(zset) \in Nat /\ Cardinality(AsNew(zset, v)) \in Nat
        BY <1>0, <2>1, <4>3, AsNewOf, FS_CardinalityType
      <4>5. Cardinality(AsNew(zset, v)) <= Cardinality(zset)
            /\ (Cardinality(AsNew(zset, v)) = Cardinality(zset) => AsNew(zset, v) = zset)
        BY <4>3, FS_Subset
      <4>6. AsNew(zset, v) = zset
        BY <4>1, <4>2, <4>4, <4>5
      <4>7. \A t \in T : Time[t] >= Time[v]
        BY <2>2, <4>6 DEF AsNew
      <4> QED
        BY <2>1, <2>3, <4>7
    <3> QED
      BY <3>1, <3>2
  <2> QED
    BY <2>4, <2>5
<1>4. Covered("load", cur, K, T, U)
  BY <1>3 DEF Covered
<1> QED
  BY <1>2, <1>4

\* The rows of the videos that the timeline named, or of some of them.
LEMMA LoadGives ==
    ASSUME NEW cur \in Nat, NEW K \in SUBSET Videos, NEW H \in SUBSET Videos, NEW F \in SUBSET H, NEW U,
           Fits("load", cur, H, {}), Covered("load", cur, K, H, U),
           NEW V, V = {v \in U \cup (H \ F) : F # {} /\ Time[v] > Bottom(F)},
           NEW st, st = IF Cardinality(F) < Limit THEN "stitch" ELSE "answer"
    PROVE  Fits(st, cur, F, {}) /\ Covered(st, cur, K, F, V) /\ Complete(st, cur, K, F, {}, V)
<1>1. IsFiniteSet(H) /\ IsFiniteSet(F)
  BY FS_Subset
<1>2. Cardinality(F) <= Cardinality(H) /\ Cardinality(F) \in Nat /\ Cardinality(H) \in Nat
  BY <1>1, FS_Subset, FS_CardinalityType
<1>3. Cardinality(F) <= Limit
  BY <1>2 DEF Fits
<1>4. Fits(st, cur, F, {})
  BY <1>2, <1>3 DEF Fits
<1>5. ASSUME NEW v \in Before(K, cur) \ F PROVE v \in V \/ Below(v, F)
  <2> SUFFICES ASSUME F # {}, v \notin V PROVE Time[v] <= Bottom(F)
    BY DEF Below
  <2>1. v \in Videos /\ Time[v] \in Nat /\ F \subseteq Videos
    BY <1>5, BeforeOf
  <2>2. Bottom(F) \in Nat /\ Bottom(H) \in Nat
    BY <2>1, BottomOf
  <2>3. Bottom(H) <= Bottom(F)
    <3>1. PICK u \in F : Time[u] = Bottom(F)
      BY <2>1, BottomOf
    <3> QED
      BY <3>1, BottomOf
  <2>4. CASE v \in U \cup H
    BY <1>5, <2>1, <2>2, <2>4
  <2>5. CASE v \notin U \cup H
    <3>1. Below(v, H)
      BY <1>5, <2>5 DEF Covered
    <3> QED
      BY <2>1, <2>2, <2>3, <3>1 DEF Below
  <2> QED
    BY <2>4, <2>5
<1>6. Covered(st, cur, K, F, V)
  BY <1>5 DEF Covered
<1>7. Complete(st, cur, K, F, {}, V)
  <2> SUFFICES ASSUME st = "answer", NEW v \in Before(K, cur) \ F
               PROVE  \/ Full(F, {}) /\ Time[v] < Bottom(F)
                      \/ v \in V
                      \/ Time[v] = Bottom(F)
    BY DEF Complete
  <2>1. Cardinality(F) = Limit
    BY <1>2, <1>3
  <2>2. Full(F, {}) /\ F # {}
    BY <2>1, <1>1, FS_EmptySet DEF Full
  <2>3. v \in Videos /\ Time[v] \in Nat /\ Bottom(F) \in Nat
    BY BeforeOf, BottomOf
  <2> QED
    BY <1>5, <2>2, <2>3 DEF Below
<1> QED
  BY <1>4, <1>6, <1>7

\* The rest of the page from MySQL, at the time of the last video H.
LEMMA StitchGives ==
    ASSUME NEW cur \in Nat, NEW K \in SUBSET Videos, NEW H \in SUBSET Videos, NEW U,
           NEW st \in {"stitch", "cold"}, Fits(st, cur, H, {}),
           st = "stitch" => Covered(st, cur, K, H, U), st = "cold" => H = {},
           NEW seen \in SUBSET Videos, NEW cc, cc = IF H = {} THEN cur ELSE Bottom(H),
           NEW T \in Newest(Before(seen, cc), Limit - Cardinality(H))
    PROVE  /\ Fits("answer", cur, H, T) /\ Complete("answer", cur, K \cap seen, H, T, U)
           /\ Covered("answer", cur, K \cap seen, H, U)
<1>1. IsFiniteSet(H) /\ Cardinality(H) \in Nat /\ (H = {} => Cardinality(H) = 0)
  BY FS_Subset, FS_CardinalityType, FS_EmptySet
<1>2. Cardinality(H) < Limit /\ Limit - Cardinality(H) \in Nat /\ Limit - Cardinality(H) > 0
  BY <1>1 DEF Fits
<1>3. Before(seen, cc) \subseteq Videos
  BY BeforeOf
<1>4. /\ T \subseteq Before(seen, cc) /\ IsFiniteSet(T) /\ Cardinality(T) \in Nat
      /\ T # Before(seen, cc) => Cardinality(T) = Limit - Cardinality(H)
      /\ \A t \in T : \A u \in Before(seen, cc) \ T : Time[t] >= Time[u]
  <2> DEFINE S == Before(seen, cc)
             n == Limit - Cardinality(H)
  <2>1. S \in SUBSET Videos /\ n \in Nat /\ T \in Newest(S, n)
    BY <1>2, <1>3
  <2> HIDE DEF S, n
  <2>2. /\ T \subseteq S /\ IsFiniteSet(T) /\ Cardinality(T) \in Nat /\ (T # S => Cardinality(T) = n)
        /\ \A t \in T : \A u \in S \ T : Time[t] >= Time[u]
    BY ONLY FeedConstants, <2>1, NewestOf
  <2> QED
    BY <2>2 DEF S, n
<1>5. Bottom(H) \in Nat /\ (H # {} => Bottom(H) > 0 /\ \E v \in H : Time[v] = Bottom(H))
  BY BottomOf
<1>6. cur # 0 /\ H # {} => Bottom(H) < cur
  BY <1>5 DEF Fits
<1>7. ASSUME NEW v \in Before(seen, cc)
      PROVE  (cur # 0 => Time[v] < cur) /\ (H # {} => Time[v] < Bottom(H)) /\ Time[v] \in Nat
  <2>1. Time[v] \in Nat /\ (cc # 0 => Time[v] < cc)
    BY <1>3, <1>7, BeforeOf
  <2> QED
    BY <1>5, <1>6, <2>1
<1>8. Fits("answer", cur, H, T)
  BY <1>2, <1>4, <1>7 DEF Fits
<1>9. ASSUME NEW v \in Before(K \cap seen, cur) \ (H \cup T)
      PROVE  \/ Full(H, T) /\ Time[v] < Bottom(H \cup T)
             \/ v \in U
             \/ Time[v] \in {Bottom(H \cup T), Bottom(H)}
  <2> SUFFICES ASSUME v \notin U, Time[v] # Bottom(H)
               PROVE  Full(H, T) /\ Time[v] <= Bottom(H \cup T) /\ Time[v] \in Nat /\ Bottom(H \cup T) \in Nat
    OBVIOUS
  <2>1. /\ v \in Before(K, cur) \ H /\ v \in seen /\ v \in Videos /\ Time[v] \in Nat
        /\ cur # 0 => Time[v] < cur
    BY <1>9, BeforeOf
  <2>2. H # {} => Time[v] < Bottom(H)
    <3> SUFFICES ASSUME H # {} PROVE Time[v] < Bottom(H)
      OBVIOUS
    <3>1. Below(v, H)
      BY <2>1 DEF Covered
    <3> QED
      BY <1>5, <2>1, <3>1 DEF Below
  <2>3. v \in Before(seen, cc) \ T
    BY <1>9, <2>1, <2>2, BeforeOf
  <2>4. Full(H, T)
    BY <1>1, <1>2, <1>4, <2>3 DEF Full
  <2>5. T # {}
    BY <1>2, <1>4, <2>3, FS_EmptySet
  <2>6. H \cup T \subseteq Videos /\ H \cup T # {}
    BY <1>3, <1>4, <2>5
  <2>7. Bottom(H \cup T) \in Nat /\ \E u \in H \cup T : Time[u] = Bottom(H \cup T)
    BY <2>6, BottomOf
  <2>8. \A u \in T : Time[v] <= Time[u]
    BY <1>4, <2>1, <2>3, <2>6
  <2>9. \A u \in H : Time[v] <= Time[u]
    <3>1. \A u \in H : Bottom(H) <= Time[u] /\ Time[u] \in Nat
      BY BottomOf
    <3> QED
      BY <1>5, <2>1, <2>2, <3>1
  <2> QED
    BY <2>1, <2>4, <2>7, <2>8, <2>9
<1> QED
  BY <1>8, <1>9 DEF Complete, Covered

\* The continuation fails: what it could have given is recorded.
LEMMA StitchMisses ==
    ASSUME NEW cur \in Nat, NEW K \in SUBSET Videos, NEW H \in SUBSET Videos, NEW U,
           Fits("stitch", cur, H, {}), Covered("stitch", cur, K, H, U),
           NEW cc, cc = IF H = {} THEN cur ELSE Bottom(H), NEW V, V = U \cup Before(K, cc)
    PROVE  /\ Fits("answer", cur, H, {}) /\ Complete("answer", cur, K, H, {}, V)
           /\ Covered("answer", cur, K, H, V)
<1>1. Fits("answer", cur, H, {})
  BY DEF Fits
<1>2. ASSUME NEW v \in Before(K, cur) \ H, v \notin U, Time[v] # Bottom(H) PROVE v \in Before(K, cc)
  <2>1. v \in K /\ Time[v] \in Nat /\ Below(v, H) /\ Bottom(H) \in Nat /\ (cur # 0 => Time[v] < cur)
    BY <1>2, BeforeOf, BottomOf DEF Covered
  <2> QED
    BY <1>2, <2>1, BeforeOf DEF Below
<1> QED
  BY <1>1, <1>2 DEF Complete, Covered

\* What a scan has shown after the page of H and C.
Shows(sh, H, C, new) ==
    \A v \in Videos : new[v] = sh[v] + (IF v \in H THEN 1 ELSE 0) + (IF v \in C THEN 1 ELSE 0)

\* A page is shown: its videos were not shown before, and the cursor moves to
\* the last of them.
LEMMA AnswerShows ==
    ASSUME NEW cur \in Nat, NEW H \in SUBSET Videos, NEW C \in SUBSET Videos, NEW sh \in [Videos -> Nat],
           Fits("answer", cur, H, C), NotBefore("answer", cur, sh),
           NEW new \in [Videos -> Nat], Shows(sh, H, C, new)
    PROVE  IF Full(H, C) THEN NotBefore("ready", Bottom(H \cup C), new) ELSE NotBefore("end", cur, new)
<1>1. \A v \in Videos : Time[v] \in Nat /\ sh[v] \in Nat
  OBVIOUS
<1>2. ASSUME NEW v \in H \cup C PROVE sh[v] = 0 /\ ~(v \in H /\ v \in C)
  <2>1. v \in Videos /\ Time[v] \in Nat /\ sh[v] \in Nat
    BY <1>2
  <2>2. cur # 0 => Time[v] < cur
    BY <1>2 DEF Fits
  <2>3. sh[v] > 0 => cur # 0 /\ cur <= Time[v]
    BY <2>1 DEF NotBefore
  <2>4. v \in H /\ v \in C => Time[v] < Bottom(H) /\ Bottom(H) <= Time[v] /\ Bottom(H) \in Nat
    BY BottomOf DEF Fits
  <2> QED
    BY <2>1, <2>2, <2>3, <2>4
<1>3. ASSUME NEW v \in Videos PROVE new[v] <= 1 /\ (new[v] > 0 => v \in H \cup C \/ sh[v] > 0)
  <2>1. sh[v] <= 1 /\ sh[v] \in Nat
    BY DEF NotBefore
  <2> QED
    BY <1>2, <2>1 DEF Shows
<1>4. CASE Full(H, C)
  <2>1. H \cup C # {}
    BY <1>4, FS_EmptySet DEF Full
  <2>2. /\ Bottom(H \cup C) \in Nat /\ Bottom(H \cup C) > 0
        /\ \A v \in H \cup C : Bottom(H \cup C) <= Time[v]
    BY <2>1, BottomOf
  <2>3. ASSUME NEW v \in Videos, new[v] > 0 PROVE Bottom(H \cup C) <= Time[v]
    <3>1. CASE v \in H \cup C
      BY <2>2, <3>1
    <3>2. CASE v \notin H \cup C
      <4>1. cur # 0 /\ cur <= Time[v]
        BY <1>3, <2>3, <3>2 DEF NotBefore
      <4>2. PICK u \in H \cup C : TRUE
        BY <2>1
      <4>3. Time[u] < cur /\ Time[u] \in Nat
        BY <4>1, <4>2 DEF Fits
      <4> QED
        BY <1>1, <2>2, <4>1, <4>2, <4>3
    <3> QED
      BY <3>1, <3>2
  <2> QED
    BY <1>3, <1>4, <2>2, <2>3 DEF NotBefore
<1>5. CASE ~Full(H, C)
  BY <1>3, <1>5 DEF NotBefore
<1> QED
  BY <1>4, <1>5

\* A step of one request leaves the other requests alone.
Elsewhere(s) ==
    \A t \in Scans \ {s} :
        /\ stage'[t] = stage[t] /\ cursor'[t] = cursor[t] /\ hot'[t] = hot[t] /\ cold'[t] = cold[t]
        /\ known'[t] = known[t] /\ unread'[t] = unread[t] /\ shown'[t] = shown[t]

LEMMA OnlyItself ==
    ASSUME TypeOK, ScanInv, NEW s \in Scans, Elsewhere(s),
           Fits(stage'[s], cursor'[s], hot'[s], cold'[s]),
           Covered(stage'[s], cursor'[s], known'[s], hot'[s], unread'[s]),
           Complete(stage'[s], cursor'[s], known'[s], hot'[s], cold'[s], unread'[s]),
           NotBefore(stage'[s], cursor'[s], shown'[s])
    PROVE  ScanInv'
<1> SUFFICES ASSUME NEW t \in Scans
             PROVE  /\ Fits(stage'[t], cursor'[t], hot'[t], cold'[t])
                    /\ Covered(stage'[t], cursor'[t], known'[t], hot'[t], unread'[t])
                    /\ Complete(stage'[t], cursor'[t], known'[t], hot'[t], cold'[t], unread'[t])
                    /\ NotBefore(stage'[t], cursor'[t], shown'[t])
  BY DEF ScanInv, RequestInv
<1>1. CASE t = s
  BY <1>1
<1>2. CASE t # s
  BY <1>2 DEF ScanInv, RequestInv, Elsewhere
<1> QED
  BY <1>1, <1>2

\* A stage without a page.
LEMMA NoPage ==
    ASSUME NEW st, st \notin {"load", "stitch", "answer", "end"}, NEW cur, NEW K, NEW U
    PROVE  /\ Fits(st, cur, {}, {}) /\ Covered(st, cur, K, {}, U)
           /\ Complete(st, cur, K, {}, {}, U)
BY FS_EmptySet DEF Fits, Covered, Complete

LEMMA ScanStep ==
    Base /\ Base' /\ NewestListed /\ ScanInv /\ [Next]_vars => ScanInv'
<1> SUFFICES ASSUME Base, Base', NewestListed, ScanInv, [Next]_vars PROVE ScanInv'
  OBVIOUS
<1> USE DEF tvars, svars
<1>0. TypeOK /\ TypeOK' /\ rows \subseteq Videos
  BY DEF Base, TypeOK
<1>1. ASSUME UNCHANGED svars PROVE ScanInv'
  BY <1>1 DEF ScanInv, RequestInv
<1>2. ASSUME NEW v \in Videos, Commit(v) \/ PublishAgain(v) \/ GiveUp(v) PROVE ScanInv'
  BY <1>1, <1>2 DEF Commit, PublishAgain, GiveUp
<1>3. CASE Flush
  BY <1>1, <1>3 DEF Flush
<1>4. ASSUME NEW w \in Workers, (\E v \in Videos : Add(w, v)) \/ Trim(w) \/ TrimFails(w) \/ Return(w)
      PROVE  ScanInv'
  BY <1>1, <1>4 DEF Add, Trim, TrimFails, Return
<1>5. ASSUME NEW s \in Scans,
             \/ Begin(s) \/ Request(s)
             \/ RebuildAddFails(s) \/ LoadSome(s) \/ StitchFails(s) \/ Error(s)
      PROVE  ScanInv'
  <2>1. /\ Fits(stage[s], cursor[s], hot[s], cold[s])
        /\ Covered(stage[s], cursor[s], known[s], hot[s], unread[s])
        /\ Complete(stage[s], cursor[s], known[s], hot[s], cold[s], unread[s])
        /\ NotBefore(stage[s], cursor[s], shown[s])
    BY DEF ScanInv, RequestInv
  <2>2. /\ cursor[s] \in Nat /\ hot[s] \in SUBSET rows /\ cold[s] \in SUBSET rows /\ known[s] \in SUBSET rows
        /\ hot[s] \in SUBSET Videos /\ cold[s] \in SUBSET Videos /\ known[s] \in SUBSET Videos
        /\ shown[s] \in [Videos -> Nat] /\ shown'[s] \in [Videos -> Nat]
    BY <1>0 DEF TypeOK
  <2>3. stage[s] \in Stages
    BY <1>0 DEF TypeOK
  <2>4. /\ stage[s] \notin {"load", "stitch", "answer"} => hot[s] = {}
        /\ stage[s] \notin {"readd", "answer"} => cold[s] = {}
    BY <2>1 DEF Fits
  <2>5. CASE Begin(s) \/ ReadTail(s) \/ RebuildAdd(s) \/ RebuildAddFails(s)
    <3>1. /\ stage'[s] \in {"tail", "cold", "rebuild", "range"} /\ stage[s] # "end"
          /\ hot'[s] = {} /\ cold'[s] = {} /\ cursor'[s] = cursor[s] /\ shown'[s] = shown[s]
      <4>1. CASE Begin(s)
        BY <1>0, <2>4, <4>1 DEF Begin, To, TypeOK
      <4>2. CASE ReadTail(s)
        BY <1>0, <2>4, <4>2 DEF ReadTail, Area, To, TypeOK
      <4>3. CASE RebuildAdd(s) \/ RebuildAddFails(s)
        BY <1>0, <2>4, <4>3 DEF RebuildAdd, RebuildAddFails, To, TypeOK
      <4> QED
        BY <2>5, <4>1, <4>2, <4>3
    <3>2. Elsewhere(s)
      BY <1>0, <2>5 DEF Elsewhere, Begin, ReadTail, RebuildAdd, RebuildAddFails, To, TypeOK
    <3>3. NotBefore(stage'[s], cursor'[s], shown'[s])
      BY <2>1, <3>1 DEF NotBefore
    <3>4. stage'[s] \notin {"load", "stitch", "answer", "end"}
      BY <3>1
    <3>5. /\ Fits(stage'[s], cursor'[s], {}, {})
          /\ Covered(stage'[s], cursor'[s], known'[s], {}, unread'[s])
          /\ Complete(stage'[s], cursor'[s], known'[s], {}, {}, unread'[s])
      BY ONLY <3>4, NoPage
    <3> QED
      BY <1>0, <3>1, <3>2, <3>3, <3>5, OnlyItself
  <2>6. CASE RebuildQuery(s)
    <3>1. PICK seen \in Seen(s) :
             /\ cold' \in {[cold EXCEPT ![s] = T] : T \in Newest(seen, Hot)}
             /\ To(s, IF seen = {} THEN "answer" ELSE "readd")
             /\ IF seen = {} THEN Sees(s, seen) ELSE UNCHANGED known
      BY <2>6 DEF RebuildQuery
    <3>2. PICK T \in Newest(seen, Hot) : cold' = [cold EXCEPT ![s] = T]
      BY <3>1
    <3>3. seen \in SUBSET Videos
      BY <1>0, SeenRows
    <3>4. /\ stage'[s] = IF seen = {} THEN "answer" ELSE "readd"
          /\ cold'[s] = T /\ hot'[s] = {} /\ cursor'[s] = cursor[s] /\ shown'[s] = shown[s]
          /\ seen = {} => known'[s] = {}
          /\ stage[s] = "rebuild" /\ Elsewhere(s)
      BY <1>0, <2>4, <2>6, <3>1, <3>2 DEF RebuildQuery, To, Sees, Elsewhere, TypeOK
    <3>5. NotBefore(stage'[s], cursor'[s], shown'[s])
      BY <2>1, <3>4 DEF NotBefore
    <3>6. seen = {} => T = {}
      BY <3>3, NewestOf
    <3>7. Fits(stage'[s], cursor'[s], hot'[s], cold'[s])
      BY <3>4, <3>6, FS_EmptySet DEF Fits
    <3>8. Covered(stage'[s], cursor'[s], known'[s], hot'[s], unread'[s])
      BY <3>4 DEF Covered
    <3>9. Complete(stage'[s], cursor'[s], known'[s], hot'[s], cold'[s], unread'[s])
      BY <3>4, BeforeOf DEF Complete
    <3> QED
      BY <1>0, <3>4, <3>5, <3>7, <3>8, <3>9, OnlyItself
  <2>7. CASE ReadRange(s)
    <3>1. PICK T \in Newest(Before(zset, cursor[s]), Limit) :
             /\ hot' = [hot EXCEPT ![s] = T]
             /\ unread' = [unread EXCEPT ![s] =
                   {v \in known[s] \cap Missing : T # {} /\ Time[v] > Bottom(T)}]
      BY <2>7 DEF ReadRange
    <3>2. /\ stage'[s] = "load" /\ hot'[s] = T /\ cold'[s] = {}
          /\ cursor'[s] = cursor[s] /\ known'[s] = known[s] /\ shown'[s] = shown[s]
          /\ unread'[s] = {v \in known[s] \cap Missing : T # {} /\ Time[v] > Bottom(T)}
          /\ stage[s] = "range" /\ Elsewhere(s)
      BY <1>0, <2>4, <2>7, <3>1 DEF ReadRange, To, Elsewhere, TypeOK
    <3>3. Fits("load", cursor[s], T, {}) /\ Covered("load", cursor[s], known[s], T, unread'[s])
      BY <1>0, <2>2, <3>2, RangeGives
    <3>4. NotBefore("load", cursor[s], shown[s])
      BY <2>1, <3>2 DEF NotBefore
    <3>5. Complete("load", cursor[s], known[s], T, {}, unread'[s])
      BY DEF Complete
    <3> QED
      BY <1>0, <3>2, <3>3, <3>4, <3>5, OnlyItself
  <2>8. CASE Load(s) \/ LoadSome(s)
    <3>1. PICK F \in SUBSET hot[s] : Loaded(s, F)
      BY <2>8 DEF Load, LoadSome
    <3>2. /\ stage'[s] = IF Cardinality(F) < Limit THEN "stitch" ELSE "answer"
          /\ hot'[s] = F /\ cold'[s] = {}
          /\ cursor'[s] = cursor[s] /\ known'[s] = known[s] /\ shown'[s] = shown[s]
          /\ unread'[s] = {v \in unread[s] \cup (hot[s] \ F) : F # {} /\ Time[v] > Bottom(F)}
          /\ stage[s] = "load" /\ Elsewhere(s) /\ cold[s] = {}
      BY <1>0, <2>4, <3>1 DEF Loaded, To, Elsewhere, TypeOK
    <3>3. /\ Fits(stage'[s], cursor[s], F, {}) /\ Covered(stage'[s], cursor[s], known[s], F, unread'[s])
          /\ Complete(stage'[s], cursor[s], known[s], F, {}, unread'[s])
      <4>1. Fits("load", cursor[s], hot[s], {}) /\ Covered("load", cursor[s], known[s], hot[s], unread[s])
        BY <2>1, <3>2
      <4> QED
        BY ONLY <2>2, <3>2, <4>1, LoadGives
    <3>4. NotBefore(stage'[s], cursor[s], shown[s])
      BY <2>1, <3>2 DEF NotBefore
    <3> QED
      BY <1>0, <3>2, <3>3, <3>4, OnlyItself
  <2>9. CASE Stitch(s) \/ Cold(s)
    <3> DEFINE cc == ColdCursor(s)
               n == Limit - Cardinality(hot[s])
    <3>1. \E seen \in Seen(s) :
             /\ cold' \in {[cold EXCEPT ![s] = T] : T \in Newest(Before(seen, cc), n)}
             /\ Sees(s, seen)
      <4>1. CASE Stitch(s)
        BY <4>1 DEF Stitch
      <4>2. CASE Cold(s)
        <5>1. hot[s] = {} /\ cc = cursor[s]
          BY <2>4, <4>2 DEF Cold, ColdCursor
        <5>2. n = Limit
          BY <5>1, FS_EmptySet
        <5> QED
          BY <4>2, <5>1, <5>2 DEF Cold
      <4> QED
        BY <2>9, <4>1, <4>2
    <3>2. PICK seen \in Seen(s) :
             /\ cold' \in {[cold EXCEPT ![s] = T] : T \in Newest(Before(seen, cc), n)}
             /\ Sees(s, seen)
      BY <3>1
    <3>3. PICK T \in Newest(Before(seen, cc), n) : cold' = [cold EXCEPT ![s] = T]
      BY <3>2
    <3>4. /\ stage'[s] = "answer" /\ stage[s] \in {"stitch", "cold"}
          /\ hot'[s] = hot[s] /\ cursor'[s] = cursor[s]
          /\ unread'[s] = unread[s] /\ shown'[s] = shown[s]
      BY <1>0, <2>9 DEF Stitch, Cold, To, TypeOK
    <3>5. cold'[s] = T /\ known'[s] = known[s] \cap seen /\ Elsewhere(s)
      BY <1>0, <2>9, <3>2, <3>3 DEF Stitch, Cold, To, Sees, Elsewhere, TypeOK
    <3>6. seen \in SUBSET Videos /\ cc = IF hot[s] = {} THEN cursor[s] ELSE Bottom(hot[s])
      BY <1>0, SeenRows DEF ColdCursor
    <3>7. /\ Fits("answer", cursor[s], hot[s], T)
          /\ Complete("answer", cursor[s], known[s] \cap seen, hot[s], T, unread[s])
          /\ Covered("answer", cursor[s], known[s] \cap seen, hot[s], unread[s])
      <4>1. stage[s] = "cold" => hot[s] = {}
        BY <2>4
      <4>2. Fits(stage[s], cursor[s], hot[s], {})
        BY <2>1, <2>4, <3>4
      <4>3. Covered(stage[s], cursor[s], known[s], hot[s], unread[s])
        BY <2>1
      <4>4. cursor[s] \in Nat /\ known[s] \in SUBSET Videos /\ hot[s] \in SUBSET Videos
        BY <2>2
      <4>5. stage[s] \in {"stitch", "cold"}
        BY <3>4
      <4>6. T \in Newest(Before(seen, cc), Limit - Cardinality(hot[s]))
        BY <3>3
      <4> HIDE DEF cc
      <4> QED
        BY ONLY <3>6, <4>1, <4>2, <4>3, <4>4, <4>5, <4>6, StitchGives
    <3>8. NotBefore("answer", cursor[s], shown[s])
      BY <2>1, <3>4 DEF NotBefore
    <3> QED
      BY <1>0, <3>4, <3>5, <3>7, <3>8, OnlyItself
  <2>10. CASE StitchFails(s)
    <3>1. /\ stage'[s] = "answer" /\ stage[s] = "stitch" /\ cold[s] = {} /\ cold'[s] = {}
          /\ hot'[s] = hot[s] /\ cursor'[s] = cursor[s] /\ known'[s] = known[s]
          /\ unread'[s] = unread[s] \cup Before(known[s], ColdCursor(s)) /\ shown'[s] = shown[s]
          /\ Elsewhere(s)
      BY <1>0, <2>4, <2>10 DEF StitchFails, To, Elsewhere, TypeOK
    <3>2. ColdCursor(s) = IF hot[s] = {} THEN cursor[s] ELSE Bottom(hot[s])
      BY DEF ColdCursor
    <3>3. /\ Fits("answer", cursor[s], hot[s], {})
          /\ Complete("answer", cursor[s], known[s], hot[s], {}, unread'[s])
          /\ Covered("answer", cursor[s], known[s], hot[s], unread'[s])
      <4>1. Fits("stitch", cursor[s], hot[s], {}) /\ Covered("stitch", cursor[s], known[s], hot[s], unread[s])
        BY <2>1, <3>1
      <4>2. cursor[s] \in Nat /\ known[s] \in SUBSET Videos /\ hot[s] \in SUBSET Videos
        BY <2>2
      <4>3. unread'[s] = unread[s] \cup Before(known[s], ColdCursor(s))
        BY <3>1
      <4> QED
        BY ONLY <3>2, <4>1, <4>2, <4>3, StitchMisses
    <3>4. NotBefore("answer", cursor[s], shown[s])
      BY <2>1, <3>1 DEF NotBefore
    <3> QED
      BY <1>0, <3>1, <3>3, <3>4, OnlyItself
  <2>11. CASE Error(s)
    <3>1. /\ stage'[s] = "error" /\ stage[s] # "end" /\ hot'[s] = {} /\ cold'[s] = {}
          /\ cursor'[s] = cursor[s] /\ shown'[s] = shown[s] /\ Elsewhere(s)
      BY <1>0, <2>11 DEF Error, Over, To, Elsewhere, TypeOK
    <3>2. NotBefore(stage'[s], cursor'[s], shown'[s])
      BY <2>1, <3>1 DEF NotBefore
    <3>3. stage'[s] \notin {"load", "stitch", "answer", "end"}
      BY <3>1
    <3>4. /\ Fits(stage'[s], cursor'[s], {}, {})
          /\ Covered(stage'[s], cursor'[s], known'[s], {}, unread'[s])
          /\ Complete(stage'[s], cursor'[s], known'[s], {}, {}, unread'[s])
      BY ONLY <3>3, NoPage
    <3> QED
      BY <1>0, <3>1, <3>2, <3>4, OnlyItself
  <2>12. CASE Answer(s)
    <3>1. /\ stage'[s] = IF Full(hot[s], cold[s]) THEN "ready" ELSE "end"
          /\ cursor'[s] = IF Full(hot[s], cold[s]) THEN Bottom(hot[s] \cup cold[s]) ELSE cursor[s]
          /\ stage[s] = "answer" /\ hot'[s] = {} /\ cold'[s] = {}
      BY <1>0, <2>12 DEF Answer, HasMore, Page, Full, Over, To, TypeOK
    <3>2. Elsewhere(s)
      BY <1>0, <2>12 DEF Answer, Over, To, Elsewhere, TypeOK
    <3>3. Shows(shown[s], hot[s], cold[s], shown'[s])
      BY <1>0, <2>12 DEF Answer, Shows, TypeOK
    <3>4. IF Full(hot[s], cold[s]) THEN NotBefore("ready", Bottom(hot[s] \cup cold[s]), shown'[s])
                                   ELSE NotBefore("end", cursor[s], shown'[s])
      <4>1. Fits("answer", cursor[s], hot[s], cold[s]) /\ NotBefore("answer", cursor[s], shown[s])
        BY <2>1, <3>1
      <4>2. /\ cursor[s] \in Nat /\ hot[s] \in SUBSET Videos /\ cold[s] \in SUBSET Videos
            /\ shown[s] \in [Videos -> Nat] /\ shown'[s] \in [Videos -> Nat]
        BY <2>2
      <4> QED
        BY ONLY <3>3, <4>1, <4>2, AnswerShows
    <3>5. NotBefore(stage'[s], cursor'[s], shown'[s])
      BY <3>1, <3>4
    <3>6. /\ Fits(stage'[s], cursor'[s], {}, {}) /\ Covered(stage'[s], cursor'[s], known'[s], {}, unread'[s])
          /\ Complete(stage'[s], cursor'[s], known'[s], {}, {}, unread'[s])
      BY <3>1, FS_EmptySet DEF Fits, Covered, Complete
    <3> QED
      BY <1>0, <3>1, <3>2, <3>5, <3>6, OnlyItself
  <2> QED
    BY <1>5, <2>5, <2>6, <2>7, <2>8, <2>9, <2>10, <2>11, <2>12 DEF Request
<1>6. CASE UNCHANGED vars
  BY <1>1, <1>6 DEF vars
<1> QED
  BY <1>2, <1>3, <1>4, <1>5, <1>6 DEF Next

LEMMA ScanHolds == Spec => []ScanInv
<1>1. Init => ScanInv
  BY FS_EmptySet DEF Init, ScanInv, RequestInv, Fits, Covered, Complete, NotBefore
<1> QED
  BY <1>1, ScanStep, BaseHolds, NewestAreListed, PTL DEF Spec

\* A page leaves out no video that its request could know and reach, but for
\* those that a later page can have, that could not be read, or that share the
\* time of the last video of the page or of its hot part.
THEOREM PagesAreComplete == Spec => []PageComplete
<1>1. ScanInv => PageComplete
  BY DEF ScanInv, RequestInv, Complete, PageComplete, Page, HasMore, Full
<1> QED
  BY <1>1, ScanHolds, PTL

\* No scan shows a video twice, although its pages come from two stores that
\* change under it.
THEOREM ShownAtMostOnce == Spec => []ShownOnce
<1>1. ScanInv => ShownOnce
  BY DEF ScanInv, RequestInv, NotBefore, ShownOnce
<1> QED
  BY <1>1, ScanHolds, PTL

-----------------------------------------------------------------------------
(* A request cannot go round for ever.                                     *)

\* A rebuild that goes on to write has something to write.
RebuildInv == \A s \in Scans : stage[s] = "readd" => cold[s] # {}

\* How far a request is from its answer.  In front of an empty timeline it has a
\* rebuild ahead of it, and then the tail once more.
StagesAhead ==
    [ready |-> 0, tail |-> 5, rebuild |-> 7, readd |-> 6, range |-> 4, load |-> 3,
     stitch |-> 2, cold |-> 2, answer |-> 1, end |-> 0, error |-> 0]
Distance(s) == IF stage[s] = "tail" /\ zset = {} THEN 8 ELSE StagesAhead[stage[s]]

\* Without a fault no request but a new one is further from its answer after a
\* step than before, and a step of a request brings it nearer.
MovesOn ==
    faults' = faults =>
        \A s \in Scans : /\ ~Begin(s) => Distance(s)' <= Distance(s)
                         /\ Request(s) => Distance(s)' < Distance(s)
RequestsMoveOn == [][MovesOn]_vars

\* The newest of some rows are some rows.
LEMMA NewestOfSome ==
    ASSUME NEW S \in SUBSET Videos, S # {}, NEW T \in Newest(S, Hot)
    PROVE  T # {}
<1>1. Hot \in Nat /\ Hot # 0
  OBVIOUS
<1> QED
  BY <1>1, NewestOf, FS_EmptySet

LEMMA RebuildStep == Base /\ RebuildInv /\ [Next]_vars => RebuildInv'
<1> SUFFICES ASSUME Base, RebuildInv, [Next]_vars PROVE RebuildInv'
  OBVIOUS
<1> USE DEF tvars, svars
<1>0. TypeOK /\ stage \in [Scans -> Stages] /\ cold \in [Scans -> SUBSET rows]
  BY DEF Base, TypeOK
<1>1. ASSUME UNCHANGED <<stage, cold>> PROVE RebuildInv'
  BY <1>1 DEF RebuildInv
<1>2. ASSUME NEW s \in Scans, To(s, stage'[s]), stage'[s] = "readd" => cold'[s] # {},
             \A t \in Scans \ {s} : cold'[t] = cold[t]
      PROVE  RebuildInv'
  <2>1. \A t \in Scans \ {s} : stage'[t] = stage[t]
    BY <1>0, <1>2 DEF To
  <2> QED BY <1>2, <2>1 DEF RebuildInv
<1>3. ASSUME NEW s \in Scans, RebuildQuery(s) PROVE RebuildInv'
  <2>1. PICK seen \in Seen(s) :
          /\ cold' \in {[cold EXCEPT ![s] = T] : T \in Newest(seen, Hot)}
          /\ To(s, IF seen = {} THEN "answer" ELSE "readd")
    BY <1>3 DEF RebuildQuery
  <2>2. PICK T \in Newest(seen, Hot) : cold' = [cold EXCEPT ![s] = T]
    BY <2>1
  <2>3. stage'[s] = IF seen = {} THEN "answer" ELSE "readd"
    BY <1>0, <2>1 DEF To
  <2>4. cold'[s] = T /\ \A t \in Scans \ {s} : cold'[t] = cold[t]
    BY <1>0, <2>2
  <2>5. stage'[s] = "readd" => T # {}
    BY <1>0, <2>3, SeenRows, NewestOfSome
  <2>6. To(s, stage'[s])
    BY <2>1, <2>3
  <2> QED BY <1>2, <2>4, <2>5, <2>6
<1>4. ASSUME NEW s \in Scans,
             \/ Begin(s) \/ ReadTail(s) \/ RebuildAdd(s) \/ RebuildAddFails(s) \/ ReadRange(s)
             \/ Load(s) \/ LoadSome(s) \/ Stitch(s) \/ StitchFails(s) \/ Cold(s) \/ Error(s) \/ Answer(s)
      PROVE  RebuildInv'
  <2>1. \E next \in Stages \ {"readd"} : To(s, next)
    <3>1. CASE ReadTail(s)
      BY <3>1 DEF ReadTail, Area, Stages
    <3> QED
      BY <1>4, <3>1 DEF Begin, RebuildAdd, RebuildAddFails, ReadRange, Load, LoadSome, Loaded,
                  Stitch, StitchFails, Cold, Error, Answer, Stages
  <2>2. \A t \in Scans \ {s} : cold'[t] = cold[t]
    BY <1>0, <1>4 DEF Begin, ReadTail, RebuildAdd, RebuildAddFails, ReadRange, Load, LoadSome, Loaded,
                  Stitch, StitchFails, Cold, Error, Answer, Over
  <2>3. To(s, stage'[s]) /\ stage'[s] # "readd"
    BY <1>0, <2>1 DEF To
  <2> QED BY <1>2, <2>2, <2>3
<1>5. ASSUME NEW v \in Videos, Commit(v) \/ PublishAgain(v) \/ GiveUp(v) PROVE RebuildInv'
  BY <1>1, <1>5 DEF Commit, PublishAgain, GiveUp
<1>6. CASE Flush
  BY <1>1, <1>6 DEF Flush
<1>7. ASSUME NEW w \in Workers, (\E v \in Videos : Add(w, v)) \/ Trim(w) \/ TrimFails(w) \/ Return(w)
      PROVE  RebuildInv'
  BY <1>1, <1>7 DEF Add, Trim, TrimFails, Return
<1>8. CASE UNCHANGED vars
  BY <1>1, <1>8 DEF vars
<1> QED
  BY <1>3, <1>4, <1>5, <1>6, <1>7, <1>8 DEF Next, Request

\* ListLatest (feed/service.go) calls itself after a rebuild.  Without a fault
\* it does so once: the rebuild leaves something in the timeline, and no trim,
\* event or other rebuild takes it out before the tail is read again.  With the
\* fairness of handlers this is the argument for Answered.
THEOREM NoRequestGoesRound == Spec => RequestsMoveOn
<1> DEFINE Same(s) == stage'[s] = stage[s]
<1>1. Base /\ Base' /\ RebuildInv /\ [Next]_vars => [MovesOn]_vars
  <2> SUFFICES ASSUME Base, Base', RebuildInv, Next, faults' = faults PROVE MovesOn
    BY DEF MovesOn
  <2> USE DEF tvars, svars
  <2>0. TypeOK /\ stage \in [Scans -> Stages] /\ stage' \in [Scans -> Stages] /\ faults \in Nat
    BY DEF Base, TypeOK
  <2>f. ~Fault
    BY <2>0 DEF Fault
  <2>n. \A s \in Scans : /\ Distance(s) \in Nat /\ Distance(s)' \in Nat
                         /\ stage[s] = "tail" => Distance(s) >= 5
                         /\ stage'[s] = "tail" /\ zset' # {} => Distance(s)' = 5
    BY <2>0 DEF Distance, StagesAhead, Stages
  \* A timeline that holds something keeps something.
  <2>z. zset # {} => zset' # {}
    <3>1. ASSUME NEW w \in Workers, Trim(w), zset # {} PROVE zset' # {}
      BY <2>0, <3>1, NewestOfSome DEF Trim, Trimmed, TypeOK
    <3>2. ASSUME NEW w \in Workers, NEW v \in Videos, Add(w, v), zset # {} PROVE zset' # {}
      BY <3>2 DEF Add
    <3>3. ASSUME NEW s \in Scans, Begin(s) \/ Request(s), zset # {} PROVE zset' # {}
      BY <3>3 DEF Request, Begin, ReadTail, RebuildQuery, RebuildAdd, ReadRange, Load, Loaded, Stitch, Cold, Answer
    <3>4. ASSUME NEW v \in Videos, Commit(v) PROVE zset' = zset
      BY <3>4 DEF Commit
    <3> QED
      BY <2>f, <3>1, <3>2, <3>3, <3>4 DEF Next, PublishAgain, GiveUp, Flush, TrimFails, Return,
         RebuildAddFails, LoadSome, StitchFails, Error
  <2>k. ASSUME NEW s \in Scans, Same(s) PROVE Distance(s)' <= Distance(s)
    <3>1. stage[s] \in Stages
      BY <2>0
    <3> QED BY <2>z, <2>k, <3>1 DEF Distance, StagesAhead, Stages
  <2>1. ASSUME NEW s \in Scans, Request(s) PROVE Distance(s)' < Distance(s)
    <3> USE <2>0 DEF To, Distance, StagesAhead
    <3>1. CASE ReadTail(s)
      <4>1. stage[s] = "tail" /\ UNCHANGED zset /\ stage'[s] \in (IF zset = {} THEN {"rebuild"} ELSE Area(s))
        BY <3>1 DEF ReadTail
      <4>2. Area(s) \subseteq {"range", "cold"}
        BY DEF Area
      <4> QED BY <4>1, <4>2
    <3>2. CASE RebuildQuery(s)
      BY <3>2 DEF RebuildQuery
    <3>3. CASE RebuildAdd(s)
      <4>1. zset' # {}
        BY <3>3 DEF RebuildAdd, RebuildInv
      <4> QED BY <3>3, <4>1 DEF RebuildAdd
    <3>4. CASE ReadRange(s)
      BY <3>4 DEF ReadRange
    <3>5. CASE Load(s)
      BY <3>5 DEF Load, Loaded
    <3>6. CASE Stitch(s)
      BY <3>6 DEF Stitch
    <3>7. CASE Cold(s)
      BY <3>7 DEF Cold
    <3>8. CASE Answer(s)
      BY <3>8 DEF Answer
    <3> QED
      BY <2>1, <3>1, <3>2, <3>3, <3>4, <3>5, <3>6, <3>7, <3>8 DEF Request
  <2>2. ASSUME NEW s \in Scans, ~Begin(s), ~Request(s) PROVE Same(s)
    <3>1. ASSUME NEW t \in Scans, Begin(t) \/ Request(t) PROVE Same(s)
      <4>1. PICK next : To(t, next)
        BY <3>1 DEF Request, Begin, ReadTail, RebuildQuery, RebuildAdd, ReadRange, Load, Loaded, Stitch, Cold, Answer
      <4> QED BY <2>0, <2>2, <3>1, <4>1 DEF To
    <3>2. ASSUME NEW v \in Videos, Commit(v) PROVE Same(s)
      BY <3>2 DEF Commit
    <3>3. ASSUME NEW w \in Workers, (\E v \in Videos : Add(w, v)) \/ Trim(w) PROVE Same(s)
      BY <3>3 DEF Add, Trim
    <3> QED
      BY <2>f, <3>1, <3>2, <3>3 DEF Next, PublishAgain, GiveUp, Flush, TrimFails, Return,
         RebuildAddFails, LoadSome, StitchFails, Error
  <2>3. \A s \in Scans : /\ ~Begin(s) => Distance(s)' <= Distance(s)
                         /\ Request(s) => Distance(s)' < Distance(s)
    BY <2>1, <2>2, <2>k, <2>n
  <2> QED BY <2>3 DEF MovesOn
<1>2. Init => RebuildInv
  BY DEF Init, RebuildInv
<1> QED
  BY <1>1, <1>2, RebuildStep, BaseHolds, PTL DEF Spec, RequestsMoveOn

=============================================================================
