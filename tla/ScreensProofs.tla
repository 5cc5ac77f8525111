----------------------------- MODULE ScreensProofs -----------------------------
(***************************************************************************)
(* The pages of the activity feed and the numbers of the dashboard are     *)
(* right, for any numbers of events, orders and ticket types, whatever     *)
(* commits while they are read.                                            *)
(***************************************************************************)
EXTENDS Screens, FiniteSetTheorems, FunctionTheorems, WellFoundedInduction, TLAPS

-------------------------------------------------------------------------------
(* The invariants                                                           *)

\* What the pages say so far: what is shown is committed and in order, the cursor is
\* the last of it, and what was there at the beginning is shown or behind the cursor.
FeedOK ==
    /\ feed.begun \subseteq Visible
    /\ Shown \subseteq Visible
    /\ \A m, n \in DOMAIN feed.pages : m < n =>
        \A e \in feed.pages[m], d \in feed.pages[n] : Follows(d, e)
    /\ feed.pc = "paging" =>
        /\ feed.limit \in Nat \ {0}
        /\ feed.cursor = NoCursor => Shown = {}
        /\ feed.cursor # NoCursor =>
            feed.cursor \in Shown /\ \A e \in Shown \ {feed.cursor} : Follows(feed.cursor, e)
        /\ \A e \in feed.begun : e \in Shown \/ Behind(e, feed.cursor)
    /\ feed.pc = "done" => feed.begun \subseteq Shown

FeedInv == FeedTypeOK /\ FeedOK

Ordered == {o \in Orders : cart[o] # None}

\* The tables: an order has a cart, what carts hold is off the stock, and only tickets
\* of paid orders are checked in.
TablesOK ==
    /\ \A o \in Orders : cart[o] = None <=> fate[o] = "none"
    /\ \A t \in Types : remaining[t] + Cardinality(UnitsOf(Ordered, t)) = Quota[t]
    /\ admitted \subseteq UNION {UnitsOf(Paid, t) : t \in Types}

\* The board: the growing numbers have grown since it was begun, what has been read was
\* true at some time since, and is true now if nothing was committed since.
BoardOK ==
    /\ \A q \in Growing : board.low[q] <= ReadTotal(q, {})
    /\ NumbersAreOfTheTime
    /\ board.quiet =>
        /\ \A q \in Totals \ board.todo : board.total[q] = ReadTotal(q, board.late)
        /\ \A q \in Grouped \ board.todo : board.byType[q] = ReadGrouped(q, board.late)

DashInv == DashTypeOK /\ TablesOK /\ BoardOK

IInv == screen \in {"activity", "dashboard"} /\ FeedInv /\ DashInv

-------------------------------------------------------------------------------
(* Finite sets                                                              *)

\* A finite set that a relation orders has a first element.
LEMMA First ==
    ASSUME NEW S, IsFiniteSet(S), S # {}, NEW R,
           \A x, y \in S : x = y \/ <<x, y>> \in R \/ <<y, x>> \in R,
           \A x, y, z \in S : <<x, y>> \in R /\ <<y, z>> \in R => <<x, z>> \in R
    PROVE  \E x \in S : \A y \in S \ {x} : <<x, y>> \in R
<1> DEFINE HasFirst(T) == \E x \in T : \A y \in T \ {x} : <<x, y>> \in R
           Bad == {T \in SUBSET S : T # {} /\ ~HasFirst(T)}
<1>1. SUFFICES ASSUME Bad # {} PROVE FALSE
  OBVIOUS
<1>2. Bad \subseteq FiniteSubsetsOf(S)
  <2>1. \A T \in SUBSET S : IsFiniteSet(T)
    BY FS_Subset
  <2> QED BY <2>1 DEF FiniteSubsetsOf
<1>3. PICK T \in Bad : \A U \in Bad : <<U, T>> \notin StrictSubsetOrdering(S)
  <2>1. IsWellFoundedOn(StrictSubsetOrdering(S), FiniteSubsetsOf(S))
    BY FS_StrictSubsetOrderingWellFounded
  <2> HIDE DEF Bad
  <2>2. \E T \in Bad : \A U \in Bad : ~(<<U, T>> \in StrictSubsetOrdering(S))
    BY <2>1, <1>1, <1>2, WFMin
  <2> QED BY <2>2
<1>4. PICK x \in T : TRUE
  OBVIOUS
<1>5. T \ {x} \notin Bad
  <2>1. /\ T \in SUBSET S /\ T \ {x} \in SUBSET S
        /\ T \ {x} \subseteq T /\ T \ {x} # T
    BY <1>3, <1>4
  <2>2. <<T \ {x}, T>> \in (SUBSET S) \X (SUBSET S)
    BY <2>1
  <2>3. <<T \ {x}, T>> \in StrictSubsetOrdering(S)
    BY <2>1, <2>2 DEF StrictSubsetOrdering
  <2> QED BY <2>3, <1>3
<1>6. CASE T = {x}
  BY <1>3, <1>6
<1>7. CASE T # {x}
  <2>1. PICK m \in T \ {x} : \A y \in (T \ {x}) \ {m} : <<m, y>> \in R
    BY <1>3, <1>4, <1>5, <1>7
  <2>2. CASE <<m, x>> \in R
    BY <2>1, <2>2, <1>3
  <2>3. CASE <<x, m>> \in R
    BY <2>1, <2>3, <1>3
  <2> QED BY <2>1, <2>2, <2>3, <1>3
<1> QED BY <1>6, <1>7

\* The union of finitely many finite sets.
LEMMA FiniteParts ==
    ASSUME NEW I, IsFiniteSet(I), NEW F, \A i \in I : IsFiniteSet(F[i])
    PROVE  IsFiniteSet(UNION {F[i] : i \in I})
<1> DEFINE T == {F[i] : i \in I}
           f == [i \in I |-> F[i]]
<1>1. f \in Surjection(I, T)
  <2>1. \A U \in T : \E i \in I : f[i] = U
    OBVIOUS
  <2>2. f \in [I -> T]
    OBVIOUS
  <2> QED BY <2>1, <2>2, Fun_IsSurj
<1>2. IsFiniteSet(T)
  BY <1>1, FS_Surjection
<1>3. \A U \in T : IsFiniteSet(U)
  OBVIOUS
<1> QED BY <1>2, <1>3, FS_UNION

\* The sizes of disjoint sets add up to that of their union.
LEMMA PartsAddUp ==
    ASSUME NEW I, IsFiniteSet(I), NEW F, \A i \in I : IsFiniteSet(F[i]),
           \A i, j \in I : i # j => F[i] \cap F[j] = {}
    PROVE  Cardinality(UNION {F[i] : i \in I}) =
               Cardinality(UNION {{i} \X (1..Cardinality(F[i])) : i \in I})
<1> DEFINE n(i) == Cardinality(F[i])
           row == [i \in I |-> {i} \X (1..n(i))]
           S == UNION {{i} \X (1..n(i)) : i \in I}
           U == UNION {F[i] : i \in I}
           b == [i \in I |-> CHOOSE g : g \in Bijection(1..n(i), F[i])]
           h == [p \in S |-> b[p[1]][p[2]]]
<1>1. \A i \in I : n(i) \in Nat /\ b[i] \in Bijection(1..n(i), F[i])
  <2> SUFFICES ASSUME NEW i \in I
               PROVE n(i) \in Nat /\ b[i] \in Bijection(1..n(i), F[i])
    OBVIOUS
  <2>1. n(i) \in Nat /\ ExistsBijection(1..n(i), F[i])
    BY FS_CardinalityType
  <2> QED BY <2>1, Zenon DEF ExistsBijection
<1>2. \A i \in I : IsFiniteSet(row[i])
  <2> SUFFICES ASSUME NEW i \in I PROVE IsFiniteSet(row[i])
    OBVIOUS
  <2>1. IsFiniteSet({i})
    BY FS_Singleton
  <2>2. n(i) \in Int
    BY <1>1
  <2>3. IsFiniteSet(1..n(i))
    <3> HIDE DEF n
    <3> QED BY <2>2, FS_Interval
  <2> QED BY <2>1, <2>3, FS_Product
<1>3. IsFiniteSet(S)
  <2>1. IsFiniteSet(UNION {row[i] : i \in I})
    <3> HIDE DEF row
    <3> QED BY <1>2, FiniteParts
  <2>2. S = UNION {row[i] : i \in I}
    OBVIOUS
  <2> QED BY <2>1, <2>2
<1>4. \A p \in S : p[1] \in I /\ p[2] \in 1..n(p[1]) /\ p = <<p[1], p[2]>>
  OBVIOUS
<1>5. \A i \in I : \A m \in 1..n(i) : <<i, m>> \in S
  OBVIOUS
<1>6. \A i \in I : /\ \A m \in 1..n(i) : b[i][m] \in F[i]
                   /\ \A m, k \in 1..n(i) : b[i][m] = b[i][k] => m = k
                   /\ \A u \in F[i] : \E m \in 1..n(i) : b[i][m] = u
  <2> SUFFICES ASSUME NEW i \in I
               PROVE /\ \A m \in 1..n(i) : b[i][m] \in F[i]
                     /\ \A m, k \in 1..n(i) : b[i][m] = b[i][k] => m = k
                     /\ \A u \in F[i] : \E m \in 1..n(i) : b[i][m] = u
    OBVIOUS
  <2>1. b[i] \in Bijection(1..n(i), F[i])
    BY <1>1
  <2> HIDE DEF b, n
  <2> QED BY <2>1 DEF Bijection, Injection, Surjection, IsInjective
<1>7. h \in Bijection(S, U)
  <2> HIDE DEF b, n, S
  <2>1. \A p \in S : h[p] = b[p[1]][p[2]]
    OBVIOUS
  <2>2. h \in [S -> U]
    BY <1>4, <1>6
  <2>3. \A p, q \in S : h[p] = h[q] => p = q
    <3> SUFFICES ASSUME NEW p \in S, NEW q \in S, h[p] = h[q] PROVE p = q
      OBVIOUS
    <3>1. h[p] \in F[p[1]] /\ h[q] \in F[q[1]]
      BY <2>1, <1>4, <1>6
    <3>2. p[1] = q[1]
      BY <3>1, <1>4
    <3>3. p[2] = q[2]
      BY <3>2, <2>1, <1>4, <1>6
    <3> QED BY <3>2, <3>3, <1>4
  <2>4. \A u \in U : \E p \in S : h[p] = u
    <3> SUFFICES ASSUME NEW u \in U PROVE \E p \in S : h[p] = u
      OBVIOUS
    <3>1. PICK i \in I : u \in F[i]
      OBVIOUS
    <3>2. PICK m \in 1..n(i) : b[i][m] = u
      BY <3>1, <1>6
    <3>3. <<i, m>> \in S /\ h[<<i, m>>] = u
      BY <3>2, <1>5, <2>1
    <3> QED BY <3>3
  <2> QED BY <2>2, <2>3, <2>4, Fun_IsBij
<1> QED
  <2>1. ExistsBijection(S, U)
    BY <1>7 DEF ExistsBijection
  <2> QED BY <2>1, <1>3, FS_Bijection

-------------------------------------------------------------------------------
(* The order of the feed                                                    *)

\* Follows is a strict total order.
LEMMA FollowsOrder ==
    ASSUME FeedTypeOK, NEW d \in Ids, NEW e \in Ids
    PROVE  /\ ~Follows(d, d)
           /\ d = e \/ Follows(d, e) \/ Follows(e, d)
           /\ ~(Follows(d, e) /\ Follows(e, d))
           /\ Follows(d, e) => event[d].occurredAt <= event[e].occurredAt
           /\ \A f \in Ids : Follows(d, e) /\ Follows(e, f) => Follows(d, f)
<1>1. \A x \in Ids : x \in Nat /\ event[x].occurredAt \in Nat
  BY FeedAssumption DEF FeedTypeOK
<1> QED BY <1>1 DEF Follows

\* Rows have a newest and an oldest.
LEMMA Extremes ==
    ASSUME FeedTypeOK, NEW R \in SUBSET Ids, R # {}
    PROVE  /\ \E d \in R : \A e \in R \ {d} : Follows(e, d)
           /\ \E d \in R : \A e \in R \ {d} : Follows(d, e)
<1> DEFINE before == {p \in R \X R : Follows(p[2], p[1])}
           after  == {p \in R \X R : Follows(p[1], p[2])}
<1>1. IsFiniteSet(R)
  BY FeedAssumption, FS_Subset
<1>2. \A x, y \in R : /\ <<x, y>> \in before <=> Follows(y, x)
                      /\ <<x, y>> \in after <=> Follows(x, y)
  OBVIOUS
<1>3. \A x, y \in R : x = y \/ Follows(x, y) \/ Follows(y, x)
  BY FollowsOrder
<1>4. \A x, y, z \in R : Follows(x, y) /\ Follows(y, z) => Follows(x, z)
  BY FollowsOrder
<1> HIDE DEF before, after
<1>5. \E d \in R : \A e \in R \ {d} : <<d, e>> \in before
  <2>1. /\ \A x, y \in R : x = y \/ <<x, y>> \in before \/ <<y, x>> \in before
        /\ \A x, y, z \in R : <<x, y>> \in before /\ <<y, z>> \in before => <<x, z>> \in before
    BY <1>2, <1>3, <1>4
  <2> QED BY <2>1, <1>1, First
<1>6. \E d \in R : \A e \in R \ {d} : <<d, e>> \in after
  <2>1. /\ \A x, y \in R : x = y \/ <<x, y>> \in after \/ <<y, x>> \in after
        /\ \A x, y, z \in R : <<x, y>> \in after /\ <<y, z>> \in after => <<x, z>> \in after
    BY <1>2, <1>3, <1>4
  <2> QED BY <2>1, <1>1, First
<1> QED BY <1>2, <1>5, <1>6

LEMMA LastFacts ==
    ASSUME FeedTypeOK, NEW R \in SUBSET Ids, R # {}
    PROVE  Last(R) \in R /\ \A e \in R \ {Last(R)} : Follows(Last(R), e)
BY Extremes DEF Last

\* The rows before d, in R.
Ahead(R, d) == {e \in R : Follows(d, e)}

LEMMA AheadFacts ==
    ASSUME FeedTypeOK, NEW R \in SUBSET Ids, NEW P \in SUBSET R
    PROVE  IsFiniteSet(R) /\ Cardinality(R) \in Nat /\ Cardinality(P) <= Cardinality(R)
BY FeedAssumption, FS_Subset, FS_CardinalityType

\* What is newer than one of the n newest is one of them.
LEMMA NewestIsPrefix ==
    ASSUME FeedTypeOK, NEW R \in SUBSET Ids, NEW n \in Nat,
           NEW d \in Newest(R, n), NEW e \in R, Follows(d, e)
    PROVE  e \in Newest(R, n)
<1>1. d \in R /\ Cardinality(Ahead(R, d)) < n
  BY DEF Newest, Ahead
<1>2. Ahead(R, e) \subseteq Ahead(R, d) /\ Ahead(R, d) \subseteq Ids
  BY <1>1, FollowsOrder DEF Ahead
<1>3. /\ Cardinality(Ahead(R, e)) <= Cardinality(Ahead(R, d))
      /\ Cardinality(Ahead(R, e)) \in Nat /\ Cardinality(Ahead(R, d)) \in Nat
  <2>1. Ahead(R, e) \in SUBSET Ids /\ Ahead(R, d) \in SUBSET Ids
        /\ Ahead(R, e) \in SUBSET Ahead(R, d)
    BY <1>2
  <2> QED BY <2>1, AheadFacts
<1>4. Cardinality(Ahead(R, e)) < n
  BY <1>1, <1>3
<1> QED BY <1>4 DEF Newest, Ahead

\* A page cut from one row more than it has room for is a prefix of the rows, all of
\* them if there was no row more, and not empty if there was.
LEMMA PageFacts ==
    ASSUME FeedTypeOK, NEW C \in SUBSET Ids, NEW limit \in Nat \ {0},
           NEW rows, rows = Newest(C, limit + 1),
           NEW slice, slice = Newest(rows, limit)
    PROVE  /\ slice \subseteq C
           /\ \A d \in slice, e \in C \ slice : Follows(e, d)
           /\ rows = slice => slice = C
           /\ rows # slice => slice # {}
<1>1. rows \subseteq C /\ slice \subseteq rows /\ rows \in SUBSET Ids
  BY DEF Newest
<1>2. ASSUME NEW d \in slice, NEW e \in C \ slice PROVE Follows(e, d)
  <2>1. d \in rows /\ d \in C /\ d \in Ids /\ e \in Ids /\ d # e
    BY <1>1, <1>2
  <2>2. SUFFICES ASSUME Follows(d, e) PROVE FALSE
    BY <2>1, FollowsOrder
  <2>3. e \in rows
    BY <2>1, <2>2, <1>2, NewestIsPrefix
  <2>4. e \in slice
    BY <2>2, <2>3, <1>1, <1>2, NewestIsPrefix
  <2> QED BY <2>4, <1>2
<1>3. ASSUME rows = slice, slice # C PROVE FALSE
  <2>1. C \ rows # {} /\ (C \ rows) \in SUBSET Ids
    BY <1>1, <1>3
  <2>2. PICK d \in C \ rows : \A e \in (C \ rows) \ {d} : Follows(e, d)
    BY <2>1, Extremes
  <2>3. d \in Ids /\ Ahead(C, d) \in SUBSET Ids
    BY DEF Ahead
  <2>4. Ahead(C, d) \subseteq rows
    <3> SUFFICES ASSUME NEW p \in Ahead(C, d), p \notin rows PROVE FALSE
      OBVIOUS
    <3>1. p \in C /\ Follows(d, p)
      BY DEF Ahead
    <3>2. p # d /\ Follows(p, d)
      BY <3>1, <2>2, <2>3, FollowsOrder
    <3> QED BY <3>1, <3>2, <2>3, FollowsOrder
  <2>5. Cardinality(Ahead(C, d)) \in Nat /\ Cardinality(Ahead(C, d)) >= limit + 1
    <3>1. Cardinality(Ahead(C, d)) \in Nat
      BY <2>3, AheadFacts
    <3>2. ~(Cardinality(Ahead(C, d)) < limit + 1)
      BY <2>2 DEF Newest, Ahead
    <3> QED BY <3>1, <3>2
  <2>6. IsFiniteSet(Ahead(C, d)) /\ Ahead(C, d) # {}
    BY <2>3, <2>5, AheadFacts, FS_EmptySet
  <2>7. PICK p \in Ahead(C, d) : \A e \in Ahead(C, d) \ {p} : Follows(p, e)
    BY <2>3, <2>6, Extremes
  <2>8. Cardinality(Ahead(C, d) \ {p}) >= limit
    <3>1. p \in Ahead(C, d)
      BY <2>7
    <3>2. Cardinality(Ahead(C, d) \ {p}) = Cardinality(Ahead(C, d)) - 1
      BY <3>1, <2>6, FS_RemoveElement
    <3> QED BY <3>2, <2>5
  <2>9. Ahead(C, d) \ {p} \in SUBSET Ahead(rows, p) /\ Ahead(rows, p) \in SUBSET Ids
    BY <2>4, <2>7, <1>1 DEF Ahead
  <2>10. Cardinality(Ahead(rows, p)) >= limit
    <3>1. Cardinality(Ahead(C, d) \ {p}) <= Cardinality(Ahead(rows, p))
          /\ Cardinality(Ahead(rows, p)) \in Nat
      BY <2>9, AheadFacts
    <3>2. Cardinality(Ahead(C, d) \ {p}) \in Nat
      BY <2>6, FS_RemoveElement, FS_CardinalityType
    <3> QED BY <3>1, <3>2, <2>8
  <2>11. p \in slice
    BY <2>4, <1>3
  <2>12. Cardinality(Ahead(rows, p)) < limit
    BY <2>11 DEF Newest, Ahead
  <2> HIDE DEF Ahead
  <2> QED
    <3>1. Cardinality(Ahead(rows, p)) \in Nat
      BY <2>9, AheadFacts
    <3> QED BY <3>1, <2>10, <2>12
<1>4. ASSUME rows # slice PROVE slice # {}
  <2>1. rows # {}
    BY <1>1, <1>4
  <2>2. PICK d \in rows : \A e \in rows \ {d} : Follows(e, d)
    BY <2>1, <1>1, Extremes
  <2>3. Ahead(rows, d) = {}
    BY <2>2, <1>1, FollowsOrder DEF Ahead
  <2>4. Cardinality(Ahead(rows, d)) < limit
    BY <2>3, FS_EmptySet
  <2>5. d \in slice
    BY <2>4 DEF Newest, Ahead
  <2> QED BY <2>5
<1> QED BY <1>1, <1>2, <1>3, <1>4

-------------------------------------------------------------------------------
(* The walk through the feed                                                *)

LEMMA FeedInitOK == FeedInit => FeedInv
<1> SUFFICES ASSUME FeedInit PROVE FeedInv
  OBVIOUS
<1>1. FeedTypeOK
  BY FeedAssumption DEF FeedInit, FeedTypeOK, FeedStates
<1>2. FeedOK
  BY DEF FeedInit, FeedOK, Shown
<1> QED BY <1>1, <1>2 DEF FeedInv

\* Times of committed rows stay, and committed rows stay committed: so do the pages.
LEMMA TablesMove ==
    ASSUME FeedInv, FeedTypeOK', UNCHANGED feed,
           \A e \in Ids : event[e].state = "committed" => event'[e] = event[e]
    PROVE  FeedInv'
<1>1. Shown' = Shown
  BY DEF Shown
<1>2. Visible \subseteq Visible' /\ Visible \subseteq Ids
  BY FeedAssumption DEF Visible
<1>3. \A d, e \in Visible : Follows(d, e)' <=> Follows(d, e)
  BY FeedAssumption DEF Visible, Follows
<1>4. \A n \in DOMAIN feed.pages : feed.pages[n] \subseteq Visible
  BY DEF FeedInv, FeedOK, Shown
<1>5. feed.begun \subseteq Visible /\ Shown \subseteq Visible
  BY DEF FeedInv, FeedOK
<1>6. \A m, n \in DOMAIN feed.pages : m < n =>
        \A e \in feed.pages[m], d \in feed.pages[n] : Follows(d, e)'
  BY <1>3, <1>4 DEF FeedInv, FeedOK
<1>7. ASSUME feed.pc = "paging", NEW e \in feed.begun
      PROVE  e \in Shown \/ Behind(e, feed.cursor)'
  <2>1. e \in Shown \/ Behind(e, feed.cursor)
    BY <1>7 DEF FeedInv, FeedOK
  <2>2. feed.cursor = NoCursor \/ feed.cursor \in Visible
    BY <1>5, <1>7 DEF FeedInv, FeedOK
  <2>3. feed' = feed /\ e \in Visible
    BY <1>5
  <2> QED BY <2>1, <2>2, <2>3, FeedAssumption DEF Behind, Visible
<1>8. ASSUME feed.pc = "paging", feed.cursor # NoCursor, NEW e \in Shown \ {feed.cursor}
      PROVE  feed.cursor \in Shown /\ Follows(feed.cursor, e)'
  <2>1. feed.cursor \in Shown /\ Follows(feed.cursor, e) /\ feed' = feed
    BY <1>8 DEF FeedInv, FeedOK
  <2> QED BY <2>1, <1>3, <1>5
<1> QED BY <1>1, <1>2, <1>5, <1>6, <1>7, <1>8 DEF FeedInv, FeedOK

LEMMA StampKeeps ==
    ASSUME FeedInv, NEW e \in Ids, Stamp(e) PROVE FeedInv'
<1>1. FeedTypeOK'
  BY DEF FeedInv, FeedTypeOK, Stamp
<1>2. \A x \in Ids : event[x].state = "committed" => event'[x] = event[x]
  BY DEF FeedInv, FeedTypeOK, Stamp
<1> QED BY <1>1, <1>2, TablesMove DEF Stamp

LEMMA CommitKeeps ==
    ASSUME FeedInv, NEW e \in Ids, Commit(e) PROVE FeedInv'
<1>1. event' = [event EXCEPT ![e] = [event[e] EXCEPT !.state = "committed"]]
  BY DEF Commit
<1>2. FeedTypeOK'
  BY <1>1 DEF FeedInv, FeedTypeOK, Commit
<1>3. \A x \in Ids : event[x].state = "committed" => event'[x] = event[x]
  BY <1>1 DEF FeedInv, FeedTypeOK, Commit
<1> QED BY <1>2, <1>3, TablesMove DEF Commit

LEMMA TickKeeps ==
    ASSUME FeedInv, Tick PROVE FeedInv'
<1>1. FeedTypeOK'
  BY DEF FeedInv, FeedTypeOK, Tick
<1> QED BY <1>1, TablesMove DEF Tick

LEMMA OpenKeeps ==
    ASSUME FeedInv, NEW n \in Limits, OpenFeed(n) PROVE FeedInv'
<1>1. Visible' = Visible /\ Visible \subseteq Ids
  BY FeedAssumption DEF Visible, OpenFeed
<1>2. feed' = [pc |-> "paging", limit |-> n, cursor |-> NoCursor, pages |-> <<>>,
               begun |-> Visible]
  BY DEF OpenFeed
<1>3. FeedTypeOK'
  BY <1>1, <1>2, FeedAssumption DEF FeedInv, FeedTypeOK, FeedStates, OpenFeed
<1>4. FeedOK'
  <2>1. Shown' = {} /\ DOMAIN feed'.pages = {}
    BY <1>2 DEF Shown
  <2>2. n \in Nat \ {0}
    BY FeedAssumption
  <2>3. \A e \in feed'.begun : Behind(e, feed.cursor)'
    BY <1>2 DEF Behind
  <2> QED BY <1>1, <1>2, <2>1, <2>2, <2>3 DEF FeedOK
<1> QED BY <1>3, <1>4 DEF FeedInv

LEMMA FetchKeeps ==
    ASSUME FeedInv, FetchPage PROVE FeedInv'
<1> DEFINE C == {d \in Visible : Behind(d, feed.cursor)}
           rows == Newest(C, feed.limit + 1)
           slice == Newest(rows, feed.limit)
           last == IF rows # slice THEN Last(slice) ELSE NoCursor
<1>1. /\ FeedTypeOK /\ feed.pc = "paging" /\ feed.limit \in Nat \ {0}
      /\ feed.begun \subseteq Visible /\ Shown \subseteq Visible
      /\ Visible \subseteq Ids /\ C \in SUBSET Ids
  BY FeedAssumption DEF FeedInv, FeedOK, FetchPage, Visible
<1>2. /\ slice \subseteq C
      /\ \A d \in slice, e \in C \ slice : Follows(e, d)
      /\ rows = slice => slice = C
      /\ rows # slice => slice # {}
  <2> HIDE DEF C
  <2> QED BY <1>1, PageFacts
<1>3. /\ feed' = [feed EXCEPT !.pc = IF rows # slice THEN "paging" ELSE "done",
                              !.cursor = last,
                              !.pages = Append(feed.pages, slice)]
      /\ UNCHANGED <<clock, event>>
  BY DEF FetchPage
<1>4. rows # slice => last \in slice /\ \A e \in slice \ {last} : Follows(last, e)
  <2>1. slice \in SUBSET Ids
    BY <1>1, <1>2
  <2> HIDE DEF C, rows, slice
  <2> QED BY <2>1, <1>1, <1>2, LastFacts
<1> HIDE DEF C, rows, slice, last
<1>5. /\ feed'.pc = IF rows # slice THEN "paging" ELSE "done"
      /\ feed'.limit = feed.limit /\ feed'.begun = feed.begun
      /\ feed'.cursor = last /\ feed'.pages = Append(feed.pages, slice)
  BY <1>3, <1>1 DEF FeedTypeOK, FeedStates
<1>6. /\ feed.pages \in Seq(SUBSET Ids) /\ slice \in SUBSET Ids
      /\ Len(feed.pages) \in Nat
      /\ DOMAIN feed.pages = 1..Len(feed.pages)
      /\ DOMAIN feed'.pages = 1..(Len(feed.pages) + 1)
      /\ \A n \in 1..Len(feed.pages) : feed'.pages[n] = feed.pages[n]
      /\ feed'.pages[Len(feed.pages) + 1] = slice
  BY <1>1, <1>2, <1>5 DEF FeedTypeOK, FeedStates
<1>7. Shown' = Shown \cup slice
  BY <1>6 DEF Shown
<1>8. last \in Ids \cup {NoCursor} /\ (rows # slice => last # NoCursor)
  BY <1>4, <1>6, FeedAssumption DEF last
<1>9. FeedTypeOK'
  <2>1. Append(feed.pages, slice) \in Seq(SUBSET Ids)
    BY <1>6
  <2>2. feed' \in FeedStates
    BY <2>1, <1>1, <1>3, <1>8 DEF FeedTypeOK, FeedStates
  <2> QED BY <2>2, <1>1, <1>3 DEF FeedTypeOK
<1>10. /\ Visible' = Visible
       /\ \A d, e : Follows(d, e)' <=> Follows(d, e)
  BY <1>3 DEF Visible, Follows
<1>11. slice \subseteq Visible /\ \A d \in slice : Behind(d, feed.cursor)
  BY <1>2 DEF C
<1>12. \A d \in slice, e \in Shown : Follows(d, e)
  <2> SUFFICES ASSUME NEW d \in slice, NEW e \in Shown PROVE Follows(d, e)
    OBVIOUS
  <2>1. feed.cursor # NoCursor /\ feed.cursor \in Ids /\ d \in Ids /\ e \in Ids
    BY <1>1, <1>6 DEF FeedInv, FeedOK
  <2>2. Follows(d, feed.cursor)
    BY <2>1, <1>11 DEF Behind, Follows
  <2>3. e = feed.cursor \/ Follows(feed.cursor, e)
    BY <2>1, <1>1 DEF FeedInv, FeedOK
  <2> QED BY <2>1, <2>2, <2>3, <1>1, FollowsOrder
<1>13. ASSUME NEW m \in DOMAIN feed'.pages, NEW n \in DOMAIN feed'.pages, m < n,
              NEW e \in feed'.pages[m], NEW d \in feed'.pages[n]
       PROVE  Follows(d, e)'
  <2>1. m \in 1..Len(feed.pages) /\ feed'.pages[m] = feed.pages[m] /\ e \in Shown
    BY <1>6, <1>13 DEF Shown
  <2>2. CASE n = Len(feed.pages) + 1
    BY <2>1, <2>2, <1>6, <1>10, <1>12
  <2>3. CASE n \in 1..Len(feed.pages)
    BY <2>1, <2>3, <1>6, <1>10, <1>13 DEF FeedInv, FeedOK
  <2> QED BY <2>2, <2>3, <1>6
<1>14. ASSUME NEW e \in feed.begun, e \notin Shown, e \notin slice
       PROVE  rows # slice /\ Behind(e, feed.cursor)'
  <2>1. e \in C
    BY <1>1, <1>14 DEF FeedInv, FeedOK, C
  <2>2. rows # slice
    BY <2>1, <1>2, <1>14
  <2>3. Follows(e, last)
    BY <2>1, <2>2, <1>2, <1>4, <1>14
  <2>4. feed'.cursor = last /\ event' = event
    BY <1>3, <1>5
  <2> QED BY <2>2, <2>3, <2>4 DEF Behind, Follows
<1>15. ASSUME rows # slice, NEW e \in (Shown \cup slice) \ {last} PROVE Follows(last, e)
  BY <1>4, <1>12, <1>15
<1>16. FeedOK'
  <2>1. feed'.begun \subseteq Visible' /\ Shown' \subseteq Visible'
    BY <1>1, <1>5, <1>7, <1>10, <1>11
  <2>2. feed'.pc = "paging" =>
          /\ feed'.limit \in Nat \ {0}
          /\ feed'.cursor # NoCursor /\ feed'.cursor \in Shown'
          /\ \A e \in Shown' \ {feed'.cursor} : Follows(feed.cursor, e)'
          /\ \A e \in feed'.begun : e \in Shown' \/ Behind(e, feed.cursor)'
    <3> SUFFICES ASSUME rows # slice
                 PROVE  /\ feed'.limit \in Nat \ {0}
                        /\ feed'.cursor # NoCursor /\ feed'.cursor \in Shown'
                        /\ \A e \in Shown' \ {feed'.cursor} : Follows(feed.cursor, e)'
                        /\ \A e \in feed'.begun : e \in Shown' \/ Behind(e, feed.cursor)'
      BY <1>5
    <3>1. feed'.limit \in Nat \ {0} /\ feed'.cursor # NoCursor /\ feed'.cursor \in Shown'
      BY <1>1, <1>4, <1>5, <1>7, <1>8
    <3>2. \A e \in Shown' \ {feed'.cursor} : Follows(feed.cursor, e)'
      <4> SUFFICES ASSUME NEW e \in (Shown \cup slice) \ {last} PROVE Follows(feed.cursor, e)'
        BY <1>5, <1>7
      <4>1. Follows(last, e)
        BY <1>15
      <4> QED BY <4>1, <1>3, <1>5 DEF Follows
    <3>3. \A e \in feed'.begun : e \in Shown' \/ Behind(e, feed.cursor)'
      BY <1>5, <1>7, <1>14
    <3> QED BY <3>1, <3>2, <3>3
  <2>3. feed'.pc = "done" => feed'.begun \subseteq Shown'
    BY <1>5, <1>7, <1>14
  <2> QED BY <2>1, <2>2, <2>3, <1>13 DEF FeedOK
<1> QED BY <1>9, <1>16 DEF FeedInv

LEMMA FeedStep ==
    ASSUME FeedInv, FeedNext PROVE FeedInv'
BY StampKeeps, CommitKeeps, TickKeeps, OpenKeeps, FetchKeeps DEF FeedNext

LEMMA FeedStutters ==
    ASSUME FeedInv, UNCHANGED feedVars PROVE FeedInv'
<1>1. FeedTypeOK'
  BY DEF FeedInv, FeedTypeOK, feedVars
<1> QED BY <1>1, TablesMove DEF feedVars

-------------------------------------------------------------------------------
(* Units of carts and orders                                                *)

LEMMA UnitsFacts ==
    ASSUME NEW c \in Carts, NEW t
    PROVE  /\ IsFiniteSet(Units(c, t)) /\ Units(c, t) \subseteq Nat \X Nat
           /\ \A u \in Units(c, t) : c[u[1]].type = t
<1> DEFINE L == {l \in DOMAIN c : c[l].type = t}
           row == [i \in L |-> {i} \X (1..c[i].quantity)]
<1>1. c \in Seq([type : Types, quantity : Nat \ {0}])
  BY DashAssumption
<1>2. DOMAIN c = 1..Len(c) /\ Len(c) \in Nat
  BY <1>1
<1>3. IsFiniteSet(L)
  <2>1. IsFiniteSet(DOMAIN c)
    BY <1>2, FS_Interval
  <2> QED BY <2>1, FS_Subset
<1>4. \A i \in L : i \in Nat /\ c[i].quantity \in Nat /\ c[i].type = t
  <2> DEFINE Line == [type : Types, quantity : Nat \ {0}]
  <2>1. \A i \in DOMAIN c : c[i] \in Line
    <3> HIDE DEF Line
    <3>1. c \in Seq(Line)
      BY DashAssumption DEF Line
    <3> QED BY <3>1
  <2> QED BY <2>1, <1>2
<1>5. \A i \in L : row[i] \subseteq Nat \X Nat
  BY <1>4
<1>6. \A i \in L : IsFiniteSet(row[i])
  <2> SUFFICES ASSUME NEW i \in L PROVE IsFiniteSet({i} \X (1..c[i].quantity))
    OBVIOUS
  <2>1. IsFiniteSet({i})
    BY FS_Singleton
  <2>2. c[i].quantity \in Int
    BY <1>4
  <2>3. IsFiniteSet(1..c[i].quantity)
    BY <2>2, FS_Interval
  <2> QED BY <2>1, <2>3, FS_Product
<1>7. Units(c, t) = UNION {row[i] : i \in L}
  BY DEF Units
<1>8. \A i \in L : \A u \in row[i] : u[1] = i
  OBVIOUS
<1> HIDE DEF L, row
<1>9. IsFiniteSet(UNION {row[i] : i \in L})
  BY <1>3, <1>6, FiniteParts
<1> QED BY <1>4, <1>5, <1>7, <1>8, <1>9

\* UnitsOf with the carts as a parameter, to speak of two states, and all types of it.
UnitsIn(c, S, t) == UNION {{o} \X Units(c[o], t) : o \in S}
AllUnits(c, S) == UNION {UnitsIn(c, S, t) : t \in Types}

LEMMA UnitsInFacts ==
    ASSUME NEW S \in SUBSET Orders, NEW c, \A o \in S : c[o] \in Carts, NEW t
    PROVE  /\ IsFiniteSet(UnitsIn(c, S, t)) /\ Cardinality(UnitsIn(c, S, t)) \in Nat
           /\ UnitsIn(c, S, t) \subseteq Orders \X (Nat \X Nat)
           /\ \A x \in UnitsIn(c, S, t) : x[1] \in S /\ c[x[1]][x[2][1]].type = t
<1> DEFINE row == [o \in S |-> {o} \X Units(c[o], t)]
<1>1. \A o \in S : IsFiniteSet(row[o])
  <2> SUFFICES ASSUME NEW o \in S PROVE IsFiniteSet({o} \X Units(c[o], t))
    OBVIOUS
  <2>1. IsFiniteSet({o}) /\ IsFiniteSet(Units(c[o], t))
    BY FS_Singleton, UnitsFacts
  <2> QED BY <2>1, FS_Product
<1>2. \A o \in S : Units(c[o], t) \subseteq Nat \X Nat
                   /\ \A u \in Units(c[o], t) : c[o][u[1]].type = t
  BY UnitsFacts
<1>3. \A o \in S : \A x \in row[o] :
        x[1] = o /\ x \in Orders \X (Nat \X Nat) /\ c[x[1]][x[2][1]].type = t
  BY <1>2
<1>4. UnitsIn(c, S, t) = UNION {row[o] : o \in S}
  BY DEF UnitsIn
<1>5. IsFiniteSet(S)
  BY DashAssumption, FS_Subset
<1> HIDE DEF row
<1>6. IsFiniteSet(UNION {row[o] : o \in S})
  BY <1>1, <1>5, FiniteParts
<1>7. IsFiniteSet(UnitsIn(c, S, t)) /\ Cardinality(UnitsIn(c, S, t)) \in Nat
  BY <1>4, <1>6, FS_CardinalityType
<1> QED BY <1>3, <1>4, <1>7

LEMMA AllUnitsFacts ==
    ASSUME NEW S \in SUBSET Orders, NEW c, \A o \in S : c[o] \in Carts
    PROVE  /\ IsFiniteSet(AllUnits(c, S)) /\ Cardinality(AllUnits(c, S)) \in Nat
           /\ AllUnits(c, S) \subseteq Orders \X (Nat \X Nat)
<1> DEFINE F == [t \in Types |-> UnitsIn(c, S, t)]
<1>1. \A t \in Types : IsFiniteSet(F[t]) /\ F[t] \subseteq Orders \X (Nat \X Nat)
  BY UnitsInFacts
<1>2. AllUnits(c, S) = UNION {F[t] : t \in Types}
  BY DEF AllUnits
<1> HIDE DEF F
<1>3. IsFiniteSet(UNION {F[t] : t \in Types})
  BY <1>1, DashAssumption, FiniteParts
<1>4. IsFiniteSet(AllUnits(c, S)) /\ Cardinality(AllUnits(c, S)) \in Nat
  BY <1>2, <1>3, FS_CardinalityType
<1> QED BY <1>1, <1>2, <1>4

\* Orders that are not the same have no units in common.
LEMMA OrdersApart ==
    ASSUME NEW S \in SUBSET Orders, NEW T \in SUBSET Orders, S \cap T = {},
           NEW c, \A o \in S \cup T : c[o] \in Carts, NEW t
    PROVE  /\ UnitsIn(c, S \cup T, t) = UnitsIn(c, S, t) \cup UnitsIn(c, T, t)
           /\ Cardinality(UnitsIn(c, S \cup T, t)) =
                  Cardinality(UnitsIn(c, S, t)) + Cardinality(UnitsIn(c, T, t))
<1>1. UnitsIn(c, S \cup T, t) = UnitsIn(c, S, t) \cup UnitsIn(c, T, t)
  BY DEF UnitsIn
<1>2. /\ \A x \in UnitsIn(c, S, t) : x[1] \in S
      /\ \A x \in UnitsIn(c, T, t) : x[1] \in T
      /\ IsFiniteSet(UnitsIn(c, S, t)) /\ IsFiniteSet(UnitsIn(c, T, t))
      /\ Cardinality(UnitsIn(c, S, t)) \in Nat /\ Cardinality(UnitsIn(c, T, t)) \in Nat
  BY UnitsInFacts
<1>3. UnitsIn(c, S, t) \cap UnitsIn(c, T, t) = {}
  BY <1>2
<1>4. Cardinality(UnitsIn(c, S, t) \cup UnitsIn(c, T, t)) =
        Cardinality(UnitsIn(c, S, t)) + Cardinality(UnitsIn(c, T, t)) - Cardinality({})
  BY <1>2, <1>3, FS_Union, Zenon
<1>5. Cardinality({}) = 0
  BY FS_EmptySet
<1>6. Cardinality(UnitsIn(c, S \cup T, t)) =
        Cardinality(UnitsIn(c, S, t)) + Cardinality(UnitsIn(c, T, t)) - 0
  BY <1>1, <1>4, <1>5, Zenon
<1>7. /\ Cardinality(UnitsIn(c, S, t)) \in Int
      /\ Cardinality(UnitsIn(c, T, t)) \in Int
  BY <1>2
<1>8. \A x, y, z \in Int : x = y + z - 0 => x = y + z
  OBVIOUS
<1>9. Cardinality(UnitsIn(c, S \cup T, t)) =
        Cardinality(UnitsIn(c, S, t)) + Cardinality(UnitsIn(c, T, t))
  BY <1>6, <1>7, <1>8
<1> QED BY <1>1, <1>9, Zenon

\* A number of one order is its number of units.
LEMMA OneOrder ==
    ASSUME NEW o \in Orders, NEW c, c[o] \in Carts, NEW t
    PROVE  Cardinality(UnitsIn(c, {o}, t)) = Quantity(c[o], t) /\ Quantity(c[o], t) \in Nat
<1>1. UnitsIn(c, {o}, t) = {o} \X Units(c[o], t)
  BY DEF UnitsIn
<1>2. IsFiniteSet(Units(c[o], t)) /\ Cardinality(Units(c[o], t)) \in Nat
  BY UnitsFacts, FS_CardinalityType
<1>3. IsFiniteSet({o}) /\ Cardinality({o}) = 1
  BY FS_Singleton
<1>4. Cardinality({o} \X Units(c[o], t)) = Cardinality({o}) * Cardinality(Units(c[o], t))
  BY <1>2, <1>3, FS_Product
<1>5. Cardinality({o} \X Units(c[o], t)) = Cardinality(Units(c[o], t))
  BY <1>2, <1>3, <1>4
<1> QED BY <1>1, <1>2, <1>5, Zenon DEF Quantity

\* Carts that stay leave the units as they are, and more orders have more.
LEMMA UnitsGrow ==
    ASSUME NEW S \in SUBSET Orders, NEW T \in SUBSET Orders, S \subseteq T,
           NEW c, NEW d, \A o \in T : d[o] \in Carts, \A o \in S : d[o] = c[o],
           NEW A, NEW B, A \subseteq B
    PROVE  /\ Cardinality(S) \in Nat /\ Cardinality(T) \in Nat
           /\ Cardinality(S) <= Cardinality(T)
           /\ AllUnits(c, S) \subseteq AllUnits(d, T)
           /\ Cardinality(AllUnits(c, S)) \in Nat /\ Cardinality(AllUnits(d, T)) \in Nat
           /\ Cardinality(AllUnits(c, S)) <= Cardinality(AllUnits(d, T))
           /\ Cardinality(AllUnits(c, S) \cap A) \in Nat
           /\ Cardinality(AllUnits(d, T) \cap B) \in Nat
           /\ Cardinality(AllUnits(c, S) \cap A) <= Cardinality(AllUnits(d, T) \cap B)
<1>1. \A t \in Types : UnitsIn(c, S, t) \subseteq UnitsIn(d, T, t)
  BY DEF UnitsIn
<1>2. AllUnits(c, S) \subseteq AllUnits(d, T)
  BY <1>1 DEF AllUnits
<1>3. IsFiniteSet(T) /\ IsFiniteSet(S)
  BY DashAssumption, FS_Subset
<1>4. IsFiniteSet(AllUnits(d, T)) /\ IsFiniteSet(AllUnits(c, S))
  BY <1>2, AllUnitsFacts, FS_Subset
<1>5. IsFiniteSet(AllUnits(c, S) \cap A) /\ IsFiniteSet(AllUnits(d, T) \cap B)
  BY <1>4, FS_Subset
<1>6. AllUnits(c, S) \cap A \in SUBSET (AllUnits(d, T) \cap B)
  BY <1>2
<1>7. Cardinality(AllUnits(c, S) \cap A) <= Cardinality(AllUnits(d, T) \cap B)
  BY <1>5, <1>6, FS_Subset
<1>8. /\ Cardinality(S) <= Cardinality(T)
      /\ Cardinality(AllUnits(c, S)) <= Cardinality(AllUnits(d, T))
  BY <1>2, <1>3, <1>4, FS_Subset
<1> QED BY <1>2, <1>3, <1>4, <1>5, <1>7, <1>8, FS_CardinalityType

-------------------------------------------------------------------------------
(* What the statements read                                                 *)

LEMMA Reads ==
    ASSUME NEW late
    PROVE  /\ ReadTotal("ordersPaid", late) = Cardinality(Paid)
           /\ ReadTotal("ticketsSold", late) = Cardinality(AllUnits(cart, Paid))
           /\ ReadTotal("checkins", late) = Cardinality(AllUnits(cart, Paid) \cap admitted)
           /\ ReadTotal("reservationsActive", late) = Cardinality(AllUnits(cart, Active(late)))
<1>1. ticketsSold = AllUnits(cart, Paid)
  BY DEF ticketsSold, Issued, CheckedIn, AllUnits, UnitsIn, UnitsOf
<1>2. checkins = AllUnits(cart, Paid) \cap admitted
  BY DEF checkins, CheckedIn, AllUnits, UnitsIn, UnitsOf
<1>3. UNION {UnitsOf(Active(late), t) : t \in Types} = AllUnits(cart, Active(late))
  BY DEF AllUnits, UnitsIn, UnitsOf
<1> QED BY <1>1, <1>2, <1>3 DEF ReadTotal

LEMMA ReadsNext ==
    ASSUME NEW late
    PROVE  /\ ReadTotal("ordersPaid", late)' = Cardinality(Paid')
           /\ ReadTotal("ticketsSold", late)' = Cardinality(AllUnits(cart', Paid'))
           /\ ReadTotal("checkins", late)' = Cardinality(AllUnits(cart', Paid') \cap admitted')
<1>1. ticketsSold' = AllUnits(cart', Paid')
  BY DEF ticketsSold, Issued, CheckedIn, AllUnits, UnitsIn, UnitsOf
<1>2. checkins' = AllUnits(cart', Paid') \cap admitted'
  BY DEF checkins, CheckedIn, AllUnits, UnitsIn, UnitsOf
<1> QED BY <1>1, <1>2 DEF ReadTotal

LEMMA ReadsByType ==
    ASSUME NEW late, NEW t \in Types
    PROVE  /\ soldByType[t] = Cardinality(UnitsIn(cart, Paid, t))
           /\ checkedInByType[t] = Cardinality(UnitsIn(cart, Paid, t) \cap admitted)
           /\ reservedByType(late)[t] = Cardinality(UnitsIn(cart, Active(late), t))
<1>1. Issued(t) \cup CheckedIn(t) = UnitsIn(cart, Paid, t)
  BY DEF Issued, CheckedIn, UnitsIn, UnitsOf
<1>2. CheckedIn(t) = UnitsIn(cart, Paid, t) \cap admitted
  BY DEF CheckedIn, UnitsIn, UnitsOf
<1>3. UnitsOf(Active(late), t) = UnitsIn(cart, Active(late), t)
  BY DEF UnitsIn, UnitsOf
<1> QED BY <1>1, <1>2, <1>3 DEF soldByType, checkedInByType, reservedByType

LEMMA OrderSets ==
    ASSUME DashTypeOK, TablesOK, NEW late
    PROVE  /\ Paid \in SUBSET Orders /\ \A o \in Paid : cart[o] \in Carts
           /\ Active(late) \in SUBSET Orders /\ \A o \in Active(late) : cart[o] \in Carts
           /\ Ordered \in SUBSET Orders /\ \A o \in Ordered : cart[o] \in Carts
           /\ Paid \cap Active(late) = {} /\ Paid \cup Active(late) \subseteq Ordered
BY DEF DashTypeOK, SalesTypeOK, TablesOK, Paid, Active, Ordered

LEMMA ReadTypes ==
    ASSUME DashTypeOK, TablesOK, NEW late
    PROVE  /\ \A q \in Totals : ReadTotal(q, late) \in Nat
           /\ \A q \in Grouped : ReadGrouped(q, late) \in [Types -> Nat]
<1>1. \A q \in Totals : ReadTotal(q, late) \in Nat
  <2>1. /\ IsFiniteSet(Paid) /\ IsFiniteSet(AllUnits(cart, Paid))
        /\ IsFiniteSet(AllUnits(cart, Active(late)))
    BY OrderSets, AllUnitsFacts, DashAssumption, FS_Subset
  <2>2. IsFiniteSet(AllUnits(cart, Paid) \cap admitted)
    BY <2>1, FS_Intersection
  <2> QED BY <2>1, <2>2, Reads, FS_CardinalityType DEF Totals
<1>2. \A t \in Types : /\ soldByType[t] \in Nat /\ checkedInByType[t] \in Nat
                       /\ reservedByType(late)[t] \in Nat
  <2> SUFFICES ASSUME NEW t \in Types
               PROVE  /\ soldByType[t] \in Nat /\ checkedInByType[t] \in Nat
                      /\ reservedByType(late)[t] \in Nat
    OBVIOUS
  <2>1. /\ IsFiniteSet(UnitsIn(cart, Paid, t))
        /\ IsFiniteSet(UnitsIn(cart, Active(late), t))
    BY OrderSets, UnitsInFacts
  <2>2. IsFiniteSet(UnitsIn(cart, Paid, t) \cap admitted)
    BY <2>1, FS_Intersection
  <2> QED BY <2>1, <2>2, ReadsByType, FS_CardinalityType
<1>3. /\ soldByType = [t \in Types |-> soldByType[t]]
      /\ checkedInByType = [t \in Types |-> checkedInByType[t]]
      /\ reservedByType(late) = [t \in Types |-> reservedByType(late)[t]]
  BY DEF soldByType, checkedInByType, reservedByType
<1>4. /\ soldByType \in [Types -> Nat] /\ checkedInByType \in [Types -> Nat]
      /\ reservedByType(late) \in [Types -> Nat]
  BY <1>2, <1>3
<1> QED BY <1>1, <1>4 DEF ReadGrouped, Grouped

\* With more paid orders, whose carts stay, and more admitted tickets.
LEMMA NumbersGrow ==
    ASSUME DashTypeOK, TablesOK,
           Paid \subseteq Paid', admitted \subseteq admitted',
           \A o \in Paid : cart'[o] = cart[o], \A o \in Paid' : cart'[o] \in Carts
    PROVE  \A q \in Growing : /\ ReadTotal(q, {}) \in Nat /\ ReadTotal(q, {})' \in Nat
                              /\ ReadTotal(q, {}) <= ReadTotal(q, {})'
<1>1. Paid \in SUBSET Orders /\ Paid' \in SUBSET Orders
  BY DEF Paid
<1>2. /\ Cardinality(Paid) \in Nat /\ Cardinality(Paid') \in Nat
      /\ Cardinality(Paid) <= Cardinality(Paid')
      /\ Cardinality(AllUnits(cart, Paid)) \in Nat /\ Cardinality(AllUnits(cart', Paid')) \in Nat
      /\ Cardinality(AllUnits(cart, Paid)) <= Cardinality(AllUnits(cart', Paid'))
      /\ Cardinality(AllUnits(cart, Paid) \cap admitted) \in Nat
      /\ Cardinality(AllUnits(cart', Paid') \cap admitted') \in Nat
      /\ Cardinality(AllUnits(cart, Paid) \cap admitted) <=
             Cardinality(AllUnits(cart', Paid') \cap admitted')
  BY <1>1, UnitsGrow
<1> QED BY <1>2, Reads, ReadsNext DEF Growing, Totals

-------------------------------------------------------------------------------
(* The dashboard                                                            *)

LEMMA DashInitOK == DashInit => DashInv
<1> SUFFICES ASSUME DashInit PROVE DashInv
  OBVIOUS
<1>1. SalesTypeOK
  BY DashAssumption DEF DashInit, SalesInit, SalesTypeOK
<1>2. Paid = {} /\ Ordered = {} /\ admitted = {}
  BY DEF DashInit, SalesInit, Paid, Ordered
<1>3. \A t \in Types : Cardinality(UnitsOf(Ordered, t)) = 0
  <2>1. \A t \in Types : UnitsOf(Ordered, t) = {}
    BY <1>2 DEF UnitsOf
  <2> QED BY <2>1, FS_EmptySet
<1>4. TablesOK
  <2>1. \A t \in Types : remaining[t] + Cardinality(UnitsOf(Ordered, t)) = Quota[t]
    BY <1>3, DashAssumption DEF DashInit, SalesInit
  <2> QED BY <2>1, <1>2 DEF TablesOK, DashInit, SalesInit
<1>5. \A q \in Growing : ReadTotal(q, {}) = 0
  <2>1. AllUnits(cart, Paid) = {}
    BY <1>2 DEF AllUnits, UnitsIn
  <2>2. AllUnits(cart, Paid) \cap admitted = {}
    BY <2>1
  <2> QED BY <1>2, <2>1, <2>2, Reads, FS_EmptySet DEF Growing, Totals
<1>6. Numbers = [q \in Growing |-> 0]
  BY <1>5 DEF Numbers
<1>7. DashTypeOK
  <2>1. board \in BoardStates
    BY <1>6 DEF DashInit, BoardStates, NoTotals, NoGrouped, Totals, Growing, Grouped
  <2> QED BY <2>1, <1>1 DEF DashTypeOK, DashInit
<1>8. BoardOK
  <2>1. \A q \in Growing : board.low[q] = 0 /\ board.total[q] = 0
    BY <1>6 DEF DashInit, NoTotals, Growing
  <2> QED BY <2>1, <1>5 DEF BoardOK, NumbersAreOfTheTime, DashInit
<1> QED BY <1>4, <1>7, <1>8 DEF DashInv

\* A commit of another transaction: the board is not quiet any more, and the growing
\* numbers have grown or are as they were.
LEMMA CommitsKeepBoard ==
    ASSUME DashInv, board' = [board EXCEPT !.quiet = FALSE],
           Paid \subseteq Paid', admitted \subseteq admitted',
           \A o \in Paid : cart'[o] = cart[o], \A o \in Paid' : cart'[o] \in Carts
    PROVE  board' \in BoardStates /\ BoardOK'
<1>1. board \in BoardStates
  BY DEF DashInv, DashTypeOK
<1>2. /\ board' \in BoardStates /\ board'.quiet = FALSE /\ board'.todo = board.todo
      /\ board'.low = board.low /\ board'.total = board.total
  BY <1>1 DEF BoardStates
<1>3. \A q \in Growing : /\ ReadTotal(q, {}) \in Nat /\ ReadTotal(q, {})' \in Nat
                         /\ ReadTotal(q, {}) <= ReadTotal(q, {})'
  BY NumbersGrow DEF DashInv
<1>4. \A q \in Growing : board.low[q] \in Nat /\ board.total[q] \in Nat
  BY <1>1 DEF BoardStates, Growing
<1>5. \A q \in Growing : board.low[q] <= ReadTotal(q, {})'
  BY <1>3, <1>4 DEF DashInv, BoardOK
<1>6. \A q \in Growing \ board.todo :
        board.low[q] <= board.total[q] /\ board.total[q] <= ReadTotal(q, {})'
  BY <1>3, <1>4 DEF DashInv, BoardOK, NumbersAreOfTheTime
<1> QED BY <1>2, <1>5, <1>6 DEF BoardOK, NumbersAreOfTheTime

\* Orders that keep their carts keep their units.
LEMMA StockStays ==
    ASSUME DashInv, UNCHANGED <<remaining, cart>>
    PROVE  \A t \in Types : (remaining[t] + Cardinality(UnitsOf(Ordered, t)) = Quota[t])'
BY DEF DashInv, TablesOK, UnitsOf, Ordered

LEMMA ReserveKeeps ==
    ASSUME DashInv, NEW k \in Keys, NEW o \in Orders, NEW c \in Carts, Reserve(k, o, c),
           board' = [board EXCEPT !.quiet = FALSE], UNCHANGED <<lapsed, admitted>>
    PROVE  DashInv'
<1>1. DashTypeOK /\ TablesOK /\ None \notin Carts /\ SalesTypeOK
  BY DashAssumption DEF DashInv, DashTypeOK
<1>2. /\ cart[o] = None /\ fate[o] = "none"
      /\ cart' = [cart EXCEPT ![o] = c] /\ fate' = [fate EXCEPT ![o] = "reserved"]
      /\ remaining' = [t \in Types |-> remaining[t] - Quantity(c, t)]
      /\ key' = [key EXCEPT ![k] = o]
  BY <1>1 DEF Reserve, TablesOK
<1>3. /\ \A x \in Orders : cart'[x] = IF x = o THEN c ELSE cart[x]
      /\ \A x \in Orders : fate'[x] = IF x = o THEN "reserved" ELSE fate[x]
  BY <1>1, <1>2 DEF SalesTypeOK
<1>4. Paid' = Paid /\ Ordered' = Ordered \cup {o} /\ o \notin Paid \cup Ordered
  BY <1>1, <1>2, <1>3 DEF Paid, Ordered
<1>5. \A t \in Types : /\ Quantity(c, t) \in Nat /\ remaining[t] \in Nat
                       /\ Quantity(c, t) <= remaining[t]
  <2>1. \A t \in Types : Quantity(c, t) \in Nat
    BY UnitsFacts, FS_CardinalityType DEF Quantity
  <2> QED BY <2>1, <1>1 DEF Reserve, InStock, SalesTypeOK
<1>6. SalesTypeOK'
  <2>1. remaining' \in [Types -> Nat]
    BY <1>2, <1>5
  <2>2. key' \in [Keys -> Orders \cup {None}]
    BY <1>1, <1>2 DEF SalesTypeOK
  <2> QED BY <2>1, <2>2, <1>1, <1>2 DEF SalesTypeOK
<1>7. \A x \in Paid : cart'[x] = cart[x] /\ cart[x] \in Carts
  BY <1>1, <1>3, <1>4, OrderSets
<1>8. board' \in BoardStates /\ BoardOK'
  BY <1>4, <1>7, CommitsKeepBoard
<1>9. ASSUME NEW t \in Types
      PROVE  (remaining[t] + Cardinality(UnitsOf(Ordered, t)) = Quota[t])'
  <2>1. /\ Ordered \in SUBSET Orders /\ {o} \in SUBSET Orders /\ Ordered \cap {o} = {}
        /\ \A x \in Ordered \cup {o} : cart'[x] \in Carts
    BY <1>1, <1>3, <1>4, OrderSets
  <2>2. Cardinality(UnitsIn(cart', Ordered \cup {o}, t)) =
            Cardinality(UnitsIn(cart', Ordered, t)) + Cardinality(UnitsIn(cart', {o}, t))
    BY <2>1, OrdersApart
  <2>3. Cardinality(UnitsIn(cart', {o}, t)) = Quantity(c, t)
    BY <2>1, <1>3, OneOrder
  <2>4. UnitsIn(cart', Ordered, t) = UnitsOf(Ordered, t)
    BY <2>1, <1>3 DEF UnitsIn, UnitsOf
  <2>5. UnitsOf(Ordered, t)' = UnitsIn(cart', Ordered \cup {o}, t)
    BY <1>4 DEF UnitsIn, UnitsOf
  <2>6. remaining[t] + Cardinality(UnitsOf(Ordered, t)) = Quota[t]
    BY <1>1 DEF TablesOK
  <2>7. Cardinality(UnitsOf(Ordered, t)) \in Nat
    BY <2>1, <2>4, UnitsInFacts
  <2>8. remaining'[t] = remaining[t] - Quantity(c, t)
    BY <1>2
  <2>9. Cardinality(UnitsOf(Ordered, t)') = Cardinality(UnitsOf(Ordered, t)) + Quantity(c, t)
    BY <2>2, <2>3, <2>4, <2>5
  <2> QED BY <2>6, <2>7, <2>8, <2>9, <1>5
<1>10. admitted' \subseteq UNION {UnitsOf(Paid, t)' : t \in Types}
  <2>1. \A t \in Types : UnitsOf(Paid, t)' = UnitsOf(Paid, t)
    BY <1>4, <1>7 DEF UnitsOf
  <2> QED BY <2>1, <1>1 DEF TablesOK
<1>11. TablesOK'
  <2>1. \A x \in Orders : cart'[x] = None <=> fate'[x] = "none"
    BY <1>1, <1>3 DEF TablesOK
  <2> QED BY <2>1, <1>9, <1>10 DEF TablesOK
<1> QED BY <1>1, <1>6, <1>8, <1>11 DEF DashInv, DashTypeOK

LEMMA SettleKeeps ==
    ASSUME DashInv, NEW o \in Orders, NEW f \in {"paid", "expired"}, Settle(o, f),
           board' = [board EXCEPT !.quiet = FALSE], UNCHANGED <<lapsed, admitted>>
    PROVE  DashInv'
<1>1. DashTypeOK /\ TablesOK /\ SalesTypeOK
  BY DEF DashInv, DashTypeOK
<1>2. /\ fate[o] = "reserved" /\ UNCHANGED <<remaining, cart, key>>
      /\ \A x \in Orders : fate'[x] = IF x = o THEN f ELSE fate[x]
  BY <1>1 DEF Settle, SalesTypeOK
<1>3. SalesTypeOK'
  BY <1>1, <1>2 DEF Settle, SalesTypeOK
<1>4. /\ Paid \subseteq Paid' /\ \A x \in Orders : cart'[x] = None <=> fate'[x] = "none"
  BY <1>1, <1>2 DEF Paid, TablesOK
<1>5. \A x \in Paid' : cart'[x] \in Carts
  BY <1>1, <1>2, <1>4 DEF Paid, SalesTypeOK
<1>6. board' \in BoardStates /\ BoardOK'
  BY <1>2, <1>4, <1>5, CommitsKeepBoard
<1>7. admitted' \subseteq UNION {UnitsOf(Paid, t)' : t \in Types}
  <2>1. \A t \in Types : UnitsOf(Paid, t) \subseteq UnitsOf(Paid, t)'
    BY <1>2, <1>4 DEF UnitsOf
  <2> QED BY <2>1, <1>1 DEF TablesOK
<1>8. TablesOK'
  BY <1>2, <1>4, <1>7, StockStays DEF TablesOK
<1> QED BY <1>1, <1>3, <1>6, <1>8 DEF DashInv, DashTypeOK

LEMMA AdmitKeeps ==
    ASSUME DashInv, NEW x, Admit(x) PROVE DashInv'
<1>1. DashTypeOK /\ TablesOK /\ SalesTypeOK
  BY DEF DashInv, DashTypeOK
<1>2. /\ UNCHANGED <<remaining, cart, fate, key, lapsed>>
      /\ admitted' = admitted \cup {x} /\ board' = [board EXCEPT !.quiet = FALSE]
  BY DEF Admit, salesVars
<1>3. PICK t \in Types : x \in UnitsOf(Paid, t)
  BY DEF Admit, Issued
<1>4. x \in Orders \X (Nat \X Nat)
  <2>1. UnitsIn(cart, Paid, t) \subseteq Orders \X (Nat \X Nat)
    BY <1>1, OrderSets, UnitsInFacts
  <2>2. UnitsOf(Paid, t) = UnitsIn(cart, Paid, t)
    BY DEF UnitsIn, UnitsOf
  <2> QED BY <2>1, <2>2, <1>3
<1>5. Paid' = Paid /\ \A o \in Paid' : cart'[o] = cart[o] /\ cart[o] \in Carts
  BY <1>1, <1>2, OrderSets DEF Paid
<1>6. board' \in BoardStates /\ BoardOK'
  BY <1>2, <1>5, CommitsKeepBoard
<1>7. admitted' \subseteq UNION {UnitsOf(Paid, u)' : u \in Types}
  <2>1. \A u \in Types : UnitsOf(Paid, u)' = UnitsOf(Paid, u)
    BY <1>2 DEF UnitsOf, Paid
  <2> QED BY <2>1, <1>1, <1>2, <1>3 DEF TablesOK
<1>8. TablesOK'
  BY <1>1, <1>2, <1>7, StockStays DEF TablesOK
<1>9. SalesTypeOK'
  BY <1>1, <1>2 DEF SalesTypeOK
<1> QED BY <1>1, <1>2, <1>4, <1>6, <1>8, <1>9 DEF DashInv, DashTypeOK

\* The tables are as they were.
LEMMA SameReads ==
    ASSUME UNCHANGED <<cart, fate, admitted>>, NEW late
    PROVE  /\ \A q : ReadTotal(q, late)' = ReadTotal(q, late)
           /\ \A q : ReadGrouped(q, late)' = ReadGrouped(q, late)
<1>1. Paid' = Paid /\ Active(late)' = Active(late)
  BY DEF Paid, Active
<1>2. \A t \in Types : /\ UnitsOf(Active(late), t)' = UnitsOf(Active(late), t)
                       /\ Issued(t)' = Issued(t) /\ CheckedIn(t)' = CheckedIn(t)
  BY <1>1 DEF UnitsOf, Issued, CheckedIn
<1>3. ticketsSold' = ticketsSold /\ checkins' = checkins
  BY <1>2 DEF ticketsSold, checkins
<1>4. UNION {UnitsOf(Active(late), t)' : t \in Types} = UNION {UnitsOf(Active(late), t) : t \in Types}
  BY <1>2
<1>5. /\ soldByType' = soldByType /\ checkedInByType' = checkedInByType
      /\ reservedByType(late)' = reservedByType(late)
  BY <1>2 DEF soldByType, checkedInByType, reservedByType
<1> QED BY <1>1, <1>3, <1>4, <1>5 DEF ReadTotal, ReadGrouped

LEMMA SameTables ==
    ASSUME DashInv, UNCHANGED <<salesVars, admitted>> PROVE TablesOK' /\ SalesTypeOK'
<1>1. UNCHANGED <<remaining, cart, fate, key>>
  BY DEF salesVars
<1>2. \A t \in Types : UnitsOf(Paid, t)' = UnitsOf(Paid, t)
  BY <1>1 DEF UnitsOf, Paid
<1>3. admitted' \subseteq UNION {UnitsOf(Paid, t)' : t \in Types}
  BY <1>2 DEF DashInv, TablesOK
<1>4. \A t \in Types : (remaining[t] + Cardinality(UnitsOf(Ordered, t)) = Quota[t])'
  BY <1>1, StockStays
<1> QED BY <1>1, <1>3, <1>4 DEF DashInv, DashTypeOK, SalesTypeOK, TablesOK

LEMMA BoardStays ==
    ASSUME DashInv, UNCHANGED <<salesVars, admitted, board>>, lapsed' \subseteq Orders
    PROVE  DashInv'
<1>1. UNCHANGED <<cart, fate>>
  BY DEF salesVars
<1>2. \A late : /\ \A q : ReadTotal(q, late)' = ReadTotal(q, late)
                /\ \A q : ReadGrouped(q, late)' = ReadGrouped(q, late)
  BY <1>1, SameReads
<1>3. /\ \A q : ReadTotal(q, {})' = ReadTotal(q, {})
      /\ \A q : ReadTotal(q, board.late)' = ReadTotal(q, board.late)
      /\ \A q : ReadGrouped(q, board.late)' = ReadGrouped(q, board.late)
  BY <1>2
<1>4. BoardOK'
  BY <1>3 DEF DashInv, BoardOK, NumbersAreOfTheTime
<1>5. DashTypeOK'
  BY SameTables DEF DashInv, DashTypeOK
<1> QED BY <1>4, <1>5, SameTables DEF DashInv

LEMMA LapseKeeps ==
    ASSUME DashInv, NEW o \in Orders, Lapse(o) PROVE DashInv'
<1>1. lapsed' \subseteq Orders
  BY DEF Lapse, DashInv, DashTypeOK
<1> QED BY <1>1, BoardStays DEF Lapse

LEMMA StartKeeps ==
    ASSUME DashInv, Start PROVE DashInv'
<1>1. /\ UNCHANGED <<salesVars, cart, fate, lapsed, admitted>>
      /\ board' = [todo |-> Totals \cup Grouped, late |-> lapsed, total |-> NoTotals,
                   byType |-> NoGrouped, low |-> Numbers, quiet |-> TRUE]
  BY DEF Start, salesVars
<1>2. \A q \in Totals : ReadTotal(q, {}) \in Nat
  BY ReadTypes DEF DashInv
<1>3. Numbers \in [Growing -> Nat] /\ \A q \in Growing : Numbers[q] = ReadTotal(q, {})
  BY <1>2 DEF Numbers, Growing
<1>4. board' \in BoardStates
  <2>1. NoTotals \in [Totals -> Nat] /\ NoGrouped \in [Grouped -> [Types -> Nat]]
    BY DEF NoTotals, NoGrouped
  <2>2. lapsed \in SUBSET Orders
    BY DEF DashInv, DashTypeOK
  <2> QED BY <2>1, <2>2, <1>1, <1>3 DEF BoardStates
<1>5. \A q \in Growing : ReadTotal(q, {})' = ReadTotal(q, {})
  BY <1>1, SameReads
<1>6. BoardOK'
  <2>1. \A q \in Growing : Numbers[q] <= ReadTotal(q, {})'
    BY <1>2, <1>3, <1>5 DEF Growing
  <2>2. board'.low = Numbers /\ board'.todo = Totals \cup Grouped
    BY <1>1
  <2>3. \A q \in Growing : q \in board'.todo
    BY <2>2 DEF Growing
  <2> QED BY <2>1, <2>2, <2>3 DEF BoardOK, NumbersAreOfTheTime
<1>7. TablesOK' /\ SalesTypeOK'
  BY <1>1, SameTables
<1> QED BY <1>1, <1>4, <1>6, <1>7 DEF DashInv, DashTypeOK

LEMMA RunKeeps ==
    ASSUME DashInv, NEW q \in Totals \cup Grouped, Run(q) PROVE DashInv'
<1> DEFINE n == ReadTotal(q, board.late)
           f == ReadGrouped(q, board.late)
<1>1. /\ UNCHANGED <<salesVars, cart, fate, lapsed, admitted>>
      /\ q \in board.todo
  BY DEF Run, salesVars
<1>2. board \in BoardStates /\ DashTypeOK /\ TablesOK /\ BoardOK
  BY DEF DashInv, DashTypeOK
<1>3. (q \in Totals => n \in Nat) /\ (q \in Grouped => f \in [Types -> Nat])
  BY <1>2, ReadTypes
<1>4. Totals \cap Grouped = {}
  BY DEF Totals, Grouped
<1>5. /\ q \in Totals =>
          board' = [board EXCEPT !.todo = board.todo \ {q},
                                 !.total = [board.total EXCEPT ![q] = n]]
      /\ q \in Grouped =>
          board' = [board EXCEPT !.todo = board.todo \ {q},
                                 !.byType = [board.byType EXCEPT ![q] = f]]
  BY <1>4 DEF Run
<1> HIDE DEF n, f
<1>6. /\ board.total \in [Totals -> Nat] /\ board.byType \in [Grouped -> [Types -> Nat]]
      /\ board.low \in [Growing -> Nat]
  BY <1>2 DEF BoardStates
<1>7. /\ [board.total EXCEPT ![q] = n] \in [Totals -> Nat] \/ q \notin Totals
      /\ [board.byType EXCEPT ![q] = f] \in [Grouped -> [Types -> Nat]] \/ q \notin Grouped
  BY <1>3, <1>6
<1>8. board' \in BoardStates
  <2>1. CASE q \in Totals
    BY <2>1, <1>2, <1>5, <1>7 DEF BoardStates
  <2>2. CASE q \in Grouped
    <3> DEFINE new == [board.byType EXCEPT ![q] = f]
    <3>1. /\ new \in [Grouped -> [Types -> Nat]]
          /\ board' = [board EXCEPT !.todo = board.todo \ {q}, !.byType = new]
      BY <2>2, <1>5, <1>7
    <3> HIDE DEF new
    <3> QED BY <3>1, <1>2 DEF BoardStates
  <2> QED BY <2>1, <2>2
<1>9. /\ board'.todo = board.todo \ {q} /\ board'.late = board.late
      /\ board'.low = board.low /\ board'.quiet = board.quiet
      /\ \A p \in Totals \ {q} : board'.total[p] = board.total[p]
      /\ \A p \in Grouped \ {q} : board'.byType[p] = board.byType[p]
      /\ q \in Totals => board'.total[q] = n
      /\ q \in Grouped => board'.byType[q] = f
  <2>1. CASE q \in Totals
    <3>1. board' = [board EXCEPT !.todo = board.todo \ {q},
                                 !.total = [board.total EXCEPT ![q] = n]]
      BY <2>1, <1>5
    <3> QED BY <3>1, <2>1, <1>2, <1>4, <1>6 DEF BoardStates
  <2>2. CASE q \in Grouped
    <3>1. board' = [board EXCEPT !.todo = board.todo \ {q},
                                 !.byType = [board.byType EXCEPT ![q] = f]]
      BY <2>2, <1>5
    <3> QED BY <3>1, <2>2, <1>2, <1>4, <1>6 DEF BoardStates
  <2> QED BY <2>1, <2>2
<1>10. /\ \A p : ReadTotal(p, {})' = ReadTotal(p, {})
       /\ \A p : ReadTotal(p, board.late)' = ReadTotal(p, board.late)
       /\ \A p : ReadGrouped(p, board.late)' = ReadGrouped(p, board.late)
  <2>1. \A late : /\ \A p : ReadTotal(p, late)' = ReadTotal(p, late)
                  /\ \A p : ReadGrouped(p, late)' = ReadGrouped(p, late)
    BY <1>1, SameReads
  <2> QED BY <2>1, <1>9
<1>11. q \in Growing => n = ReadTotal(q, {}) /\ n \in Nat
  BY <1>3, Reads DEF n, Growing, Totals
<1>12. BoardOK'
  <2>1. \A p \in Growing : board'.low[p] <= ReadTotal(p, {})'
    BY <1>2, <1>9, <1>10 DEF BoardOK
  <2>2. \A p \in Growing \ board'.todo :
          board'.low[p] <= board'.total[p] /\ board'.total[p] <= ReadTotal(p, {})'
    <3> SUFFICES ASSUME NEW p \in Growing, p \notin board'.todo
                 PROVE board'.low[p] <= board'.total[p] /\ board'.total[p] <= ReadTotal(p, {})'
      OBVIOUS
    <3>1. CASE p = q
      BY <3>1, <1>2, <1>9, <1>10, <1>11 DEF BoardOK, Growing
    <3>2. CASE p # q
      BY <3>2, <1>2, <1>9, <1>10 DEF BoardOK, NumbersAreOfTheTime, Growing
    <3> QED BY <3>1, <3>2
  <2>3. board'.quiet =>
          /\ \A p \in Totals \ board'.todo : board'.total[p] = ReadTotal(p, board.late)
          /\ \A p \in Grouped \ board'.todo : board'.byType[p] = ReadGrouped(p, board.late)
    BY <1>2, <1>9 DEF BoardOK, n, f
  <2> QED BY <2>1, <2>2, <2>3, <1>9, <1>10 DEF BoardOK, NumbersAreOfTheTime
<1>13. TablesOK' /\ SalesTypeOK'
  BY <1>1, SameTables
<1> QED BY <1>1, <1>2, <1>8, <1>12, <1>13 DEF DashInv, DashTypeOK

LEMMA DashStep ==
    ASSUME DashInv, DashNext PROVE DashInv'
<1>1. CASE Sell
  <2>1. UNCHANGED <<lapsed, admitted>> /\ board' = [board EXCEPT !.quiet = FALSE]
    BY <1>1 DEF Sell
  <2>2. ASSUME NEW k \in Keys, NEW o \in Orders, NEW c \in Carts, Reserve(k, o, c)
        PROVE  DashInv'
    BY <2>1, <2>2, ReserveKeeps
  <2>3. ASSUME NEW o \in Orders, Pay(o) PROVE DashInv'
    BY <2>1, <2>3, SettleKeeps DEF Pay
  <2> QED BY <1>1, <2>2, <2>3 DEF Sell
<1>2. ASSUME NEW o \in Orders, Lapse(o) PROVE DashInv'
  BY <1>2, LapseKeeps
<1>3. ASSUME NEW o \in Orders, ExpireLapsed(o) PROVE DashInv'
  BY <1>3, SettleKeeps DEF ExpireLapsed, Expire
<1>4. ASSUME NEW x \in ticketsSold, Admit(x) PROVE DashInv'
  BY <1>4, AdmitKeeps
<1>5. CASE Start
  BY <1>5, StartKeeps
<1>6. ASSUME NEW q \in Totals \cup Grouped, Run(q) PROVE DashInv'
  BY <1>6, RunKeeps
<1> QED BY <1>1, <1>2, <1>3, <1>4, <1>5, <1>6 DEF DashNext

LEMMA DashStutters ==
    ASSUME DashInv, UNCHANGED dashVars PROVE DashInv'
<1>1. lapsed' \subseteq Orders
  BY DEF dashVars, DashInv, DashTypeOK
<1> QED BY <1>1, BoardStays DEF dashVars

\* What a board says that was read while nothing was committed.
LEMMA QuietBoards ==
    ASSUME DashInv PROVE QuietBoardsAddUp
<1> DEFINE late == board.late
           sold == [t \in Types |-> UnitsIn(cart, Paid, t)]
           entered == [t \in Types |-> UnitsIn(cart, Paid, t) \cap admitted]
           held == [t \in Types |-> UnitsIn(cart, Active(late), t)]
<1>1. SUFFICES ASSUME board.todo = {}, board.quiet
               PROVE  /\ board.total["ticketsSold"] = Total(board.byType["soldByType"])
                      /\ board.total["checkins"] = Total(board.byType["checkedInByType"])
                      /\ board.total["reservationsActive"] = Total(board.byType["reservedByType"])
                      /\ \A t \in Types :
                          /\ board.byType["checkedInByType"][t] <= board.byType["soldByType"][t]
                          /\ available(t) >= remaining[t]
  BY DEF QuietBoardsAddUp
<1>2. DashTypeOK /\ TablesOK
  BY DEF DashInv
<1>3. /\ Paid \in SUBSET Orders /\ \A o \in Paid : cart[o] \in Carts
      /\ Active(late) \in SUBSET Orders /\ \A o \in Active(late) : cart[o] \in Carts
      /\ Ordered \in SUBSET Orders /\ \A o \in Ordered : cart[o] \in Carts
      /\ Paid \cap Active(late) = {} /\ Paid \cup Active(late) \subseteq Ordered
  BY <1>2, OrderSets
<1> HIDE DEF late
<1>4. /\ board.total["ticketsSold"] = Cardinality(AllUnits(cart, Paid))
      /\ board.total["checkins"] = Cardinality(AllUnits(cart, Paid) \cap admitted)
      /\ board.total["reservationsActive"] = Cardinality(AllUnits(cart, Active(late)))
  BY <1>1, Reads DEF DashInv, BoardOK, Totals, late
<1>5. /\ board.byType["soldByType"] = soldByType
      /\ board.byType["checkedInByType"] = checkedInByType
      /\ board.byType["reservedByType"] = reservedByType(late)
  BY <1>1 DEF DashInv, BoardOK, Grouped, ReadGrouped, late
<1>6. \A t \in Types : /\ soldByType[t] = Cardinality(sold[t])
                       /\ checkedInByType[t] = Cardinality(entered[t])
                       /\ reservedByType(late)[t] = Cardinality(held[t])
  BY ReadsByType
<1>7. \A t \in Types : IsFiniteSet(sold[t]) /\ IsFiniteSet(entered[t]) /\ IsFiniteSet(held[t])
  <2> SUFFICES ASSUME NEW t \in Types
               PROVE  /\ IsFiniteSet(UnitsIn(cart, Paid, t))
                      /\ IsFiniteSet(UnitsIn(cart, Paid, t) \cap admitted)
                      /\ IsFiniteSet(UnitsIn(cart, Active(late), t))
    OBVIOUS
  <2>1. /\ IsFiniteSet(UnitsIn(cart, Paid, t))
        /\ IsFiniteSet(UnitsIn(cart, Active(late), t))
    BY <1>3, UnitsInFacts
  <2> QED BY <2>1, FS_Intersection
<1>8. \A t, u \in Types : t # u =>
        sold[t] \cap sold[u] = {} /\ entered[t] \cap entered[u] = {} /\ held[t] \cap held[u] = {}
  <2>1. \A t \in Types : /\ \A x \in UnitsIn(cart, Paid, t) : cart[x[1]][x[2][1]].type = t
                         /\ \A x \in UnitsIn(cart, Active(late), t) : cart[x[1]][x[2][1]].type = t
    BY <1>3, UnitsInFacts
  <2> QED BY <2>1
<1>9. /\ AllUnits(cart, Paid) = UNION {sold[t] : t \in Types}
      /\ AllUnits(cart, Paid) \cap admitted = UNION {entered[t] : t \in Types}
      /\ AllUnits(cart, Active(late)) = UNION {held[t] : t \in Types}
  BY DEF AllUnits
<1> HIDE DEF sold, entered, held
<1>10. /\ board.total["ticketsSold"] = Total(board.byType["soldByType"])
       /\ board.total["checkins"] = Total(board.byType["checkedInByType"])
       /\ board.total["reservationsActive"] = Total(board.byType["reservedByType"])
  <2>1. IsFiniteSet(Types)
    BY DashAssumption
  <2>2. Cardinality(UNION {sold[t] : t \in Types}) =
          Cardinality(UNION {{t} \X (1..Cardinality(sold[t])) : t \in Types})
    <3>1. /\ \A t \in Types : IsFiniteSet(sold[t])
          /\ \A t, u \in Types : t # u => sold[t] \cap sold[u] = {}
      BY <1>7, <1>8
    <3> QED BY <2>1, <3>1, PartsAddUp
  <2>3. Cardinality(UNION {entered[t] : t \in Types}) =
          Cardinality(UNION {{t} \X (1..Cardinality(entered[t])) : t \in Types})
    <3>1. /\ \A t \in Types : IsFiniteSet(entered[t])
          /\ \A t, u \in Types : t # u => entered[t] \cap entered[u] = {}
      BY <1>7, <1>8
    <3> QED BY <2>1, <3>1, PartsAddUp
  <2>4. Cardinality(UNION {held[t] : t \in Types}) =
          Cardinality(UNION {{t} \X (1..Cardinality(held[t])) : t \in Types})
    <3>1. /\ \A t \in Types : IsFiniteSet(held[t])
          /\ \A t, u \in Types : t # u => held[t] \cap held[u] = {}
      BY <1>7, <1>8
    <3> QED BY <2>1, <3>1, PartsAddUp
  <2>5. /\ Total(soldByType) =
             Cardinality(UNION {{t} \X (1..Cardinality(sold[t])) : t \in Types})
        /\ Total(checkedInByType) =
             Cardinality(UNION {{t} \X (1..Cardinality(entered[t])) : t \in Types})
        /\ Total(reservedByType(late)) =
             Cardinality(UNION {{t} \X (1..Cardinality(held[t])) : t \in Types})
    BY <1>6 DEF Total
  <2> QED BY <2>2, <2>3, <2>4, <2>5, <1>4, <1>5, <1>9
<1>11. ASSUME NEW t \in Types
       PROVE  /\ board.byType["checkedInByType"][t] <= board.byType["soldByType"][t]
              /\ available(t) >= remaining[t]
  <2>1. Cardinality(entered[t]) <= Cardinality(sold[t])
    BY <1>7, FS_Subset DEF entered, sold
  <2>2. Cardinality(sold[t]) + Cardinality(held[t]) <= Cardinality(UnitsIn(cart, Ordered, t))
    <3>1. Cardinality(UnitsIn(cart, Paid \cup Active(late), t)) =
              Cardinality(UnitsIn(cart, Paid, t)) + Cardinality(UnitsIn(cart, Active(late), t))
      <4>1. PICK P \in SUBSET Orders, A \in SUBSET Orders : P = Paid /\ A = Active(late)
        BY <1>3
      <4>2. P \cap A = {} /\ \A o \in P \cup A : cart[o] \in Carts
        BY <4>1, <1>3
      <4>3. Cardinality(UnitsIn(cart, P \cup A, t)) =
                Cardinality(UnitsIn(cart, P, t)) + Cardinality(UnitsIn(cart, A, t))
        BY <4>2, OrdersApart
      <4> QED BY <4>1, <4>3
    <3>2. UnitsIn(cart, Paid \cup Active(late), t) \in SUBSET UnitsIn(cart, Ordered, t)
      BY <1>3 DEF UnitsIn
    <3>3. IsFiniteSet(UnitsIn(cart, Ordered, t))
      BY <1>3, UnitsInFacts
    <3>4. Cardinality(UnitsIn(cart, Paid \cup Active(late), t))
            <= Cardinality(UnitsIn(cart, Ordered, t))
      BY <3>2, <3>3, FS_Subset
    <3> QED BY <3>1, <3>4 DEF sold, held
  <2>3. remaining[t] + Cardinality(UnitsIn(cart, Ordered, t)) = Quota[t]
    <3>1. UnitsIn(cart, Ordered, t) = UnitsOf(Ordered, t)
      BY DEF UnitsIn, UnitsOf
    <3> QED BY <3>1, <1>2 DEF TablesOK
  <2>4. /\ Cardinality(sold[t]) \in Nat /\ Cardinality(held[t]) \in Nat
        /\ Cardinality(UnitsIn(cart, Ordered, t)) \in Nat
        /\ remaining[t] \in Nat /\ Quota[t] \in Nat
    BY <1>2, <1>3, <1>7, UnitsInFacts, FS_CardinalityType, DashAssumption
       DEF DashTypeOK, SalesTypeOK
  <2>5. available(t) >= remaining[t]
    BY <2>2, <2>3, <2>4, <1>5, <1>6 DEF available
  <2> QED BY <2>1, <2>5, <1>5, <1>6
<1> QED BY <1>10, <1>11

-------------------------------------------------------------------------------
(* The theorems                                                             *)

LEMMA InitEstablishes == Init => IInv
BY FeedInitOK, DashInitOK DEF Init, IInv

LEMMA StepKeeps == IInv /\ [Next]_vars => IInv'
<1> SUFFICES ASSUME IInv, [Next]_vars PROVE IInv'
  OBVIOUS
<1>1. CASE UNCHANGED vars
  BY <1>1, FeedStutters, DashStutters DEF vars, IInv
<1>2. CASE screen = "activity" /\ FeedNext /\ UNCHANGED dashVars /\ UNCHANGED screen
  BY <1>2, FeedStep, DashStutters DEF IInv
<1>3. CASE screen = "dashboard" /\ DashNext /\ UNCHANGED feedVars /\ UNCHANGED screen
  BY <1>3, DashStep, FeedStutters DEF IInv
<1> QED BY <1>1, <1>2, <1>3 DEF Next

\* The inductive invariant of both screens (service.ts:54-104,
\* dashboard.service.ts:99-147).
THEOREM InvariantHolds == Spec => []IInv
BY InitEstablishes, StepKeeps, PTL DEF Spec

\* The numbers a dashboard is made of stay numbers, and the stock that /checkout/reserve
\* decrements never goes below zero, whatever the carts are (server.ts:613-621).
THEOREM TypeCorrect == Spec => []TypeOK
<1>1. IInv => TypeOK
  BY DEF IInv, TypeOK, FeedInv, DashInv
<1> QED BY <1>1, InvariantHolds, PTL

\* Pages neither repeat nor miss an event, for any page size and any number of events
\* that commit late or at the same time (service.ts:54-104, EventActivityPage.tsx:32-44).
THEOREM PagesNeitherRepeatNorMiss == Spec => []PagesAreExact
<1>1. IInv => PagesAreExact
  <2> SUFFICES ASSUME IInv PROVE PagesAreExact
    OBVIOUS
  <2>1. FeedTypeOK /\ FeedOK
    BY DEF IInv, FeedInv
  <2>2. \A n \in DOMAIN feed.pages : feed.pages[n] \subseteq Ids
    BY <2>1 DEF FeedTypeOK, FeedStates
  <2>3. ASSUME NEW m \in DOMAIN feed.pages, NEW n \in DOMAIN feed.pages, m < n,
               NEW e \in feed.pages[m], NEW d \in feed.pages[n]
        PROVE  d # e /\ event[d].occurredAt <= event[e].occurredAt
    <3>1. Follows(d, e)
      BY <2>1, <2>3 DEF FeedOK
    <3>2. d \in Ids /\ e \in Ids
      BY <2>2
    <3> QED BY <3>1, <3>2, <2>1, FollowsOrder
  <2> QED BY <2>1, <2>3 DEF FeedOK, PagesAreExact
<1> QED BY <1>1, InvariantHolds, PTL

\* The growing numbers are those of some time between the start of a dashboard and its
\* showing, for any interleaving of its statements with sales and scans
\* (dashboard.service.ts:99-147).
THEOREM NumbersAreTimely == Spec => []NumbersAreOfTheTime
<1>1. IInv => NumbersAreOfTheTime
  BY DEF IInv, DashInv, BoardOK
<1> QED BY <1>1, InvariantHolds, PTL

\* A dashboard no transaction overlaps adds up, and does not promise less than the stock
\* has (dashboard.service.ts:105-147, 208-228).
THEOREM QuietBoardsAreTrue == Spec => []QuietBoardsAddUp
<1>1. IInv => QuietBoardsAddUp
  BY QuietBoards DEF IInv
<1> QED BY <1>1, InvariantHolds, PTL

\* Every ticket that is admitted, sold or reserved is one of the quota of its type.
NobodyIsSoldTooMuch ==
    /\ \A x \in admitted : \E t \in Types : x \in CheckedIn(t)
    /\ \A t \in Types :
        /\ Cardinality(UnitsOf(Paid, t)) + Cardinality(UnitsOf(Active({}), t)) <= Quota[t]
        /\ Cardinality(CheckedIn(t)) <= Cardinality(UnitsOf(Paid, t))

LEMMA WithinQuota ==
    ASSUME DashInv PROVE NobodyIsSoldTooMuch
<1>1. DashTypeOK /\ TablesOK
  BY DEF DashInv
<1>2. /\ Paid \in SUBSET Orders /\ \A o \in Paid : cart[o] \in Carts
      /\ Active({}) \in SUBSET Orders /\ \A o \in Active({}) : cart[o] \in Carts
      /\ Ordered \in SUBSET Orders /\ \A o \in Ordered : cart[o] \in Carts
      /\ Paid \cap Active({}) = {} /\ Paid \cup Active({}) \subseteq Ordered
  BY <1>1, OrderSets
<1>3. ASSUME NEW x \in admitted PROVE \E t \in Types : x \in CheckedIn(t)
  BY <1>1 DEF TablesOK, CheckedIn
<1>4. ASSUME NEW t \in Types
      PROVE  /\ Cardinality(UnitsOf(Paid, t)) + Cardinality(UnitsOf(Active({}), t)) <= Quota[t]
             /\ Cardinality(CheckedIn(t)) <= Cardinality(UnitsOf(Paid, t))
  <2>1. PICK P \in SUBSET Orders, A \in SUBSET Orders, O \in SUBSET Orders :
          P = Paid /\ A = Active({}) /\ O = Ordered
    BY <1>2
  <2>2. Cardinality(UnitsIn(cart, P \cup A, t)) =
            Cardinality(UnitsIn(cart, P, t)) + Cardinality(UnitsIn(cart, A, t))
    <3>1. P \cap A = {}
      BY <1>2, <2>1
    <3>2. PICK c : c = cart
      OBVIOUS
    <3>3. \A o \in P \cup A : c[o] \in Carts
      BY <1>2, <2>1, <3>2
    <3>4. /\ UnitsIn(c, P \cup A, t) = UnitsIn(c, P, t) \cup UnitsIn(c, A, t)
          /\ Cardinality(UnitsIn(c, P \cup A, t)) =
                 Cardinality(UnitsIn(c, P, t)) + Cardinality(UnitsIn(c, A, t))
      BY <3>1, <3>3, OrdersApart
    <3> QED BY <3>2, <3>4
  <2>3. IsFiniteSet(UnitsIn(cart, O, t)) /\ Cardinality(UnitsIn(cart, O, t)) \in Nat
    BY <1>2, <2>1, UnitsInFacts
  <2>4. UnitsIn(cart, P \cup A, t) \in SUBSET UnitsIn(cart, O, t)
    BY <1>2, <2>1 DEF UnitsIn
  <2>5. /\ Cardinality(UnitsIn(cart, P \cup A, t)) <= Cardinality(UnitsIn(cart, O, t))
        /\ Cardinality(UnitsIn(cart, P \cup A, t)) \in Nat
    BY <2>3, <2>4, FS_Subset, FS_CardinalityType
  <2>6. remaining[t] + Cardinality(UnitsIn(cart, O, t)) = Quota[t]
    BY <1>1, <2>1 DEF TablesOK, UnitsOf, UnitsIn
  <2>7. remaining[t] \in Nat /\ Quota[t] \in Nat
    BY <1>1, DashAssumption DEF DashTypeOK, SalesTypeOK
  <2>8. /\ UnitsOf(Paid, t) = UnitsIn(cart, P, t)
        /\ UnitsOf(Active({}), t) = UnitsIn(cart, A, t)
    BY <2>1 DEF UnitsOf, UnitsIn
  <2>9. IsFiniteSet(UnitsOf(Paid, t))
    BY <1>2, <2>1, <2>8, UnitsInFacts
  <2>10. Cardinality(CheckedIn(t)) <= Cardinality(UnitsOf(Paid, t))
    BY <2>9, FS_Subset DEF CheckedIn
  <2> QED BY <2>2, <2>3, <2>5, <2>6, <2>7, <2>8, <2>10
<1> QED BY <1>3, <1>4 DEF NobodyIsSoldTooMuch

\* Everyone a scan lets in has a ticket of a paid order, and of no type are more tickets
\* sold or reserved than its quota: the sum nobody keeps in the database, whatever the
\* carts are (server.ts:606-625, 961-1014).
THEOREM QuotaIsKept == Spec => []NobodyIsSoldTooMuch
<1>1. IInv => NobodyIsSoldTooMuch
  BY WithinQuota DEF IInv
<1> QED BY <1>1, InvariantHolds, PTL

\* What the dashboard is read beside is the sale Inventory implements, each of its
\* transactions a step of it (server.ts:590-716, 847-876).
THEOREM SellsAsPromised == Spec => SalesSpec
<1>1. Init => SalesInit
  BY DEF Init, DashInit
<1>2. ASSUME [Next]_vars PROVE [SalesNext]_salesVars
  <2>1. CASE DashNext
    <3>1. CASE Sell
      BY <3>1 DEF Sell, SalesNext
    <3>2. CASE \E o \in Orders : ExpireLapsed(o)
      BY <3>2 DEF ExpireLapsed, SalesNext
    <3>3. CASE \/ \E o \in Orders : Lapse(o)
               \/ \E x \in ticketsSold : Admit(x)
               \/ Start
               \/ \E q \in Totals \cup Grouped : Run(q)
      BY <3>3 DEF Lapse, Admit, Start, Run
    <3> QED BY <2>1, <3>1, <3>2, <3>3 DEF DashNext
  <2>2. CASE UNCHANGED dashVars
    BY <2>2 DEF dashVars
  <2> QED BY <1>2, <2>1, <2>2 DEF Next, vars
<1> QED BY <1>1, <1>2, PTL DEF Spec, SalesSpec
===============================================================================
