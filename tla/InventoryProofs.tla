---------------------------- MODULE InventoryProofs ----------------------------
(***************************************************************************)
(* The stock is conserved, a key makes one order, nobody waits in a ring   *)
(* and the handler implements Sales, for any numbers of types, requests    *)
(* and lines of a cart.                                                    *)
(***************************************************************************)
EXTENDS Inventory, FiniteSetTheorems, FunctionTheorems, WellFoundedInduction, TLAPS

Busy(r) == At(r, "taking") \/ At(r, "keyed")

\* The tickets of type t in the lines D of cart c: Units, when D is all of them.
Part(c, D, t) == UNION {{i} \X (1..c[i].quantity) : i \in {l \in D : c[l].type = t}}

\* What a request has taken is what the lines it has done ask for, and those come
\* before the others; once it has inserted its key, it has taken all of them.
RequestOK ==
    \A r \in Requests :
        /\ ~At(r, "idle") \/ request[r].answer # None => KeyOf(r) \in Keys
        /\ ~Busy(r) => request[r].taken = Nothing
        /\ Busy(r) =>
            /\ CartOf(r) \in Carts
            /\ request[r].todo \subseteq DOMAIN CartOf(r)
            /\ \A t \in Types : request[r].taken[t] =
                    Cardinality(Part(CartOf(r), DOMAIN CartOf(r) \ request[r].todo, t))
            /\ \A i \in DOMAIN CartOf(r) \ request[r].todo, j \in request[r].todo :
                    Precedes(CartOf(r), i, j)
        /\ At(r, "keyed") => request[r].todo = {} /\ key[KeyOf(r)] = None

\* What is taken is taken under the lock, and is there; the holder of a lock has
\* done a line of that type.
LocksOK ==
    /\ \A r \in Requests, t \in Types : request[r].taken[t] > 0 =>
            lock[t] = r /\ request[r].taken[t] <= remaining[t]
    /\ \A r \in Requests, t \in Types : lock[t] = r =>
            /\ Busy(r)
            /\ \E i \in DOMAIN CartOf(r) \ request[r].todo : CartOf(r)[i].type = t

\* At most one open transaction has inserted a key.
KeyLocksOK ==
    \A q, r \in Requests : At(q, "keyed") /\ At(r, "keyed") /\ KeyOf(q) = KeyOf(r) => q = r

\* The key of an order is inserted with its lines.
OrdersOK ==
    /\ \A o \in Orders : cart[o] = None <=> fate[o] = "none"
    /\ \A k \in Keys : key[k] # None => cart[key[k]] # None

Sold(t) == UnitsOf({"reserved", "paid", "expired"}, t)

IInv ==
    /\ TypeOK /\ RequestOK /\ LocksOK /\ KeyLocksOK /\ OrdersOK
    /\ OneOrderPerKey /\ StockConserved
    /\ \A t \in Types : IsFiniteSet(Sold(t))

\* What r does leaves the other requests alone.
Alone(r) == \A q \in Requests \ {r} : request'[q] = request[q]
-------------------------------------------------------------------------------
(* Finite sets                                                              *)

\* A finite set that a relation orders has a first element.
LEMMA First ==
    ASSUME NEW S, IsFiniteSet(S), S # {}, NEW R,
           \A x, y \in S : <<x, y>> \in R \/ <<y, x>> \in R,
           \A x, y, z \in S : <<x, y>> \in R /\ <<y, z>> \in R => <<x, z>> \in R
    PROVE  \E x \in S : \A y \in S : <<x, y>> \in R
<1> DEFINE HasFirst(T) == \E x \in T : \A y \in T : <<x, y>> \in R
           Bad == {T \in SUBSET S : T # {} /\ ~HasFirst(T)}
<1>1. SUFFICES ASSUME Bad # {} PROVE FALSE
  OBVIOUS
<1>2. \A T \in SUBSET S : IsFiniteSet(T)
  BY FS_Subset
<1>3. Bad \subseteq FiniteSubsetsOf(S)
  BY <1>2 DEF FiniteSubsetsOf
<1>4. PICK T \in Bad : \A U \in Bad : <<U, T>> \notin StrictSubsetOrdering(S)
  <2>1. IsWellFoundedOn(StrictSubsetOrdering(S), FiniteSubsetsOf(S))
    BY FS_StrictSubsetOrderingWellFounded
  <2> HIDE DEF Bad
  <2>2. \E T \in Bad : \A U \in Bad : ~(<<U, T>> \in StrictSubsetOrdering(S))
    BY <2>1, <1>1, <1>3, WFMin
  <2> QED BY <2>2
<1>5. PICK x \in T : TRUE
  OBVIOUS
<1>6. T \ {x} \notin Bad
  <2>1. /\ T \in SUBSET S /\ T \ {x} \in SUBSET S
        /\ T \ {x} \subseteq T /\ T \ {x} # T
    BY <1>4, <1>5
  <2>2. <<T \ {x}, T>> \in (SUBSET S) \X (SUBSET S)
    BY <2>1
  <2>3. <<T \ {x}, T>> \in StrictSubsetOrdering(S)
    BY <2>1, <2>2 DEF StrictSubsetOrdering
  <2> QED BY <2>3, <1>4
<1>7. CASE T = {x}
  BY <1>4, <1>7
<1>8. CASE T # {x}
  <2>1. PICK m \in T \ {x} : \A y \in T \ {x} : <<m, y>> \in R
    BY <1>4, <1>5, <1>6, <1>8
  <2>2. CASE <<m, x>> \in R
    BY <2>1, <2>2, <1>4
  <2>3. CASE <<x, m>> \in R
    BY <2>1, <2>3, <1>4
  <2> QED BY <2>1, <2>2, <2>3, <1>4
<1> QED BY <1>7, <1>8
-------------------------------------------------------------------------------
(* The tickets of a cart                                                    *)

LEMMA CartFacts ==
    ASSUME NEW c \in Carts
    PROVE  /\ DOMAIN c = 1..Len(c) /\ Len(c) \in Nat
           /\ IsFiniteSet(DOMAIN c)
           /\ \A i \in DOMAIN c : c[i].type \in Types /\ c[i].quantity \in Nat \ {0}
<1>1. c \in Seq(Line)
  BY InventoryAssumption
<1>2. DOMAIN c = 1..Len(c) /\ Len(c) \in Nat
  BY <1>1
<1>3. \A i \in DOMAIN c : c[i] \in Line
  BY <1>1
<1>4. IsFiniteSet(DOMAIN c)
  BY <1>2, FS_Interval
<1> QED BY <1>2, <1>3, <1>4 DEF Line

LEMMA PartIsFinite ==
    ASSUME NEW c \in Carts, NEW D \in SUBSET DOMAIN c, NEW t
    PROVE  IsFiniteSet(Part(c, D, t))
<1> DEFINE L == {l \in D : c[l].type = t}
           row == [i \in L |-> {i} \X (1..c[i].quantity)]
           T == {{i} \X (1..c[i].quantity) : i \in L}
<1>1. IsFiniteSet(L)
  BY CartFacts, FS_Subset
<1>2. row \in Surjection(L, T)
  <2>1. \A U \in T : \E i \in L : row[i] = U
    OBVIOUS
  <2>2. row \in [L -> T]
    OBVIOUS
  <2> QED BY <2>1, <2>2, Fun_IsSurj
<1>3. IsFiniteSet(T)
  BY <1>1, <1>2, FS_Surjection
<1>4. \A U \in T : IsFiniteSet(U)
  <2> SUFFICES ASSUME NEW i \in L PROVE IsFiniteSet({i} \X (1..c[i].quantity))
    OBVIOUS
  <2>1. c[i].quantity \in Int
    BY CartFacts
  <2>2. IsFiniteSet({i})
    BY FS_Singleton
  <2>3. IsFiniteSet(1..c[i].quantity)
    BY <2>1, FS_Interval
  <2> QED BY <2>2, <2>3, FS_Product
<1> QED BY <1>3, <1>4, FS_UNION DEF Part

\* A line more is its quantity more, of its type.
LEMMA PartAdds ==
    ASSUME NEW c \in Carts, NEW D \in SUBSET DOMAIN c, NEW i \in DOMAIN c \ D, NEW t
    PROVE  Cardinality(Part(c, D \cup {i}, t)) =
               Cardinality(Part(c, D, t)) + IF c[i].type = t THEN c[i].quantity ELSE 0
<1>1. CASE c[i].type # t
  <2>1. {l \in D \cup {i} : c[l].type = t} = {l \in D : c[l].type = t}
    BY <1>1
  <2>2. Part(c, D \cup {i}, t) = Part(c, D, t)
    BY <2>1 DEF Part
  <2>3. Cardinality(Part(c, D, t)) \in Nat
    BY PartIsFinite, FS_CardinalityType
  <2> QED BY <1>1, <2>2, <2>3
<1>2. CASE c[i].type = t
  <2> DEFINE New == {i} \X (1..c[i].quantity)
  <2>1. Part(c, D \cup {i}, t) = Part(c, D, t) \cup New
    BY <1>2 DEF Part
  <2>2. Part(c, D, t) \cap New = {}
    BY DEF Part
  <2>3. IsFiniteSet(New) /\ Cardinality(New) = c[i].quantity
    <3>1. c[i].quantity \in Nat \ {0}
      BY CartFacts
    <3>2. IsFiniteSet(1..c[i].quantity) /\ Cardinality(1..c[i].quantity) = c[i].quantity
      BY <3>1, FS_Interval
    <3>3. IsFiniteSet({i}) /\ Cardinality({i}) = 1
      BY FS_Singleton
    <3>4. IsFiniteSet(New) /\ Cardinality(New) = 1 * c[i].quantity
      BY <3>2, <3>3, FS_Product
    <3> QED BY <3>1, <3>4
  <2>4. IsFiniteSet(Part(c, D, t)) /\ Cardinality(Part(c, D, t)) \in Nat
    BY PartIsFinite, FS_CardinalityType
  <2>5. Cardinality({}) = 0
    BY FS_EmptySet
  <2> HIDE DEF New
  <2>6. Cardinality(Part(c, D, t) \cup New) =
            Cardinality(Part(c, D, t)) + Cardinality(New) - Cardinality({})
    BY <2>2, <2>3, <2>4, FS_Union
  <2>7. c[i].quantity \in Nat
    BY CartFacts
  <2>8. Cardinality(Part(c, D \cup {i}, t)) =
            Cardinality(Part(c, D, t)) + c[i].quantity - 0
    BY <2>1, <2>3, <2>5, <2>6
  <2> QED BY <1>2, <2>4, <2>7, <2>8
<1> QED BY <1>1, <1>2
-------------------------------------------------------------------------------
(* What the actions do to the record of a request                           *)

LEMMA AnswerFacts ==
    ASSUME TypeOK, NEW r \in Requests, NEW o \in Orders \cup {None}, Answer(r, o)
    PROVE  /\ Alone(r) /\ request' \in [Requests -> RequestStates]
           /\ At(r, "idle")' /\ KeyOf(r)' = KeyOf(r)
           /\ request'[r].taken = Nothing /\ request'[r].answer = o
  BY DEF TypeOK, RequestStates, Answer, Alone, At, KeyOf, Nothing

LEMMA ReplayFacts ==
    ASSUME TypeOK, NEW r \in Requests, At(r, "idle"), NEW k \in Keys,
           request' = [request EXCEPT ![r].key = k, ![r].answer = key[k]]
    PROVE  /\ Alone(r) /\ request' \in [Requests -> RequestStates]
           /\ At(r, "idle")' /\ KeyOf(r)' = k
           /\ request'[r].taken = request[r].taken /\ request'[r].answer = key[k]
<1>1. request' = [request EXCEPT ![r] = [request[r] EXCEPT !.key = k, !.answer = key[k]]]
  BY DEF TypeOK
<1>2. [request[r] EXCEPT !.key = k, !.answer = key[k]] \in RequestStates
  BY DEF TypeOK, RequestStates
<1> QED BY <1>1, <1>2 DEF TypeOK, RequestStates, Alone, At, KeyOf

LEMMA ReceiveFacts ==
    ASSUME TypeOK, NEW r \in Requests, NEW k \in Keys, NEW c \in Carts,
           request' = [request EXCEPT ![r] =
                [pc |-> "taking", key |-> k, cart |-> c, todo |-> DOMAIN c,
                 taken |-> Nothing, answer |-> None]]
    PROVE  /\ Alone(r) /\ request' \in [Requests -> RequestStates]
           /\ At(r, "taking")' /\ KeyOf(r)' = k /\ CartOf(r)' = c
           /\ request'[r].todo = DOMAIN c
           /\ request'[r].taken = Nothing /\ request'[r].answer = None
<1>1. DOMAIN c \subseteq Nat
  BY CartFacts
<1> QED BY <1>1 DEF TypeOK, RequestStates, Alone, At, KeyOf, CartOf, Nothing

LEMMA TakeFacts ==
    ASSUME TypeOK, NEW r \in Requests, ReserveTake(r),
           NEW i, i = NextLine(r), i \in request[r].todo,
           NEW t \in Types, t = Wanted(r).type, NEW q \in Nat, q = Wanted(r).quantity
    PROVE  /\ Alone(r) /\ request' \in [Requests -> RequestStates]
           /\ request'[r].pc = request[r].pc
           /\ KeyOf(r)' = KeyOf(r) /\ CartOf(r)' = CartOf(r)
           /\ request'[r].todo = request[r].todo \ {i}
           /\ request'[r].taken = [request[r].taken EXCEPT ![t] = @ + q]
           /\ request'[r].answer = request[r].answer
<1> DEFINE taken == [request[r].taken EXCEPT ![t] = @ + q]
           rec == [request[r] EXCEPT !.todo = request[r].todo \ {i}, !.taken = taken]
<1>1. request' = [request EXCEPT ![r] = rec]
  BY DEF TypeOK, ReserveTake
<1>2. taken \in [Types -> Nat]
  BY DEF TypeOK, RequestStates
<1>3. /\ rec \in RequestStates
      /\ rec.pc = request[r].pc /\ rec.key = request[r].key /\ rec.cart = request[r].cart
      /\ rec.todo = request[r].todo \ {i} /\ rec.taken = taken
      /\ rec.answer = request[r].answer
  <2> HIDE DEF taken
  <2> QED BY <1>2 DEF TypeOK, RequestStates
<1> HIDE DEF rec
<1>4. Alone(r) /\ request' \in [Requests -> RequestStates] /\ request'[r] = rec
  BY <1>1, <1>3 DEF TypeOK, Alone
<1> QED BY <1>3, <1>4 DEF KeyOf, CartOf

LEMMA KeyedFacts ==
    ASSUME TypeOK, NEW r \in Requests, request' = [request EXCEPT ![r].pc = "keyed"]
    PROVE  /\ Alone(r) /\ request' \in [Requests -> RequestStates]
           /\ At(r, "keyed")'
           /\ KeyOf(r)' = KeyOf(r) /\ CartOf(r)' = CartOf(r)
           /\ request'[r].todo = request[r].todo
           /\ request'[r].taken = request[r].taken
           /\ request'[r].answer = request[r].answer
<1>1. request' = [request EXCEPT ![r] = [request[r] EXCEPT !.pc = "keyed"]]
  BY DEF TypeOK
<1>2. [request[r] EXCEPT !.pc = "keyed"] \in RequestStates
  BY DEF TypeOK, RequestStates
<1> QED BY <1>1, <1>2 DEF TypeOK, RequestStates, Alone, At, KeyOf, CartOf

LEMMA LoseFacts ==
    ASSUME TypeOK, NEW r \in Requests, Lose(r)
    PROVE  /\ Alone(r) /\ request' \in [Requests -> RequestStates]
           /\ At(r, "lost")' /\ KeyOf(r)' = KeyOf(r)
           /\ request'[r].taken = Nothing /\ request'[r].answer = request[r].answer
<1>1. request' =
        [request EXCEPT ![r] = [request[r] EXCEPT !.pc = "lost", !.taken = Nothing]]
  BY DEF TypeOK, Lose
<1>2. [request[r] EXCEPT !.pc = "lost", !.taken = Nothing] \in RequestStates
  BY DEF TypeOK, RequestStates, Nothing
<1> QED BY <1>1, <1>2 DEF TypeOK, RequestStates, Alone, At, KeyOf

\* NextLine is a line that is left, and no other one comes before it.
LEMMA NextLineFacts ==
    ASSUME IInv, NEW r \in Requests, At(r, "taking"), request[r].todo # {}
    PROVE  /\ NextLine(r) \in request[r].todo
           /\ \A j \in request[r].todo : Precedes(CartOf(r), NextLine(r), j)
<1> DEFINE c == CartOf(r)
           R == {p \in (DOMAIN c) \X (DOMAIN c) : Precedes(c, p[1], p[2])}
<1>1. c \in Carts /\ request[r].todo \subseteq DOMAIN c
  BY DEF IInv, RequestOK, Busy
<1>2. IsFiniteSet(request[r].todo)
  BY <1>1, CartFacts, FS_Subset
<1>3. \A i \in DOMAIN c : i \in Nat /\ c[i].type \in Types /\ Rank[c[i].type] \in Nat
  BY <1>1, CartFacts, InventoryAssumption
<1>4. \A i, j \in DOMAIN c : <<i, j>> \in R <=> Precedes(c, i, j)
  OBVIOUS
<1> HIDE DEF c, R
<1>5. \A i, j \in DOMAIN c : <<i, j>> \in R \/ <<j, i>> \in R
  <2> TAKE i, j \in DOMAIN c
  <2>1. CASE c[i].type = c[j].type
    BY <2>1, <1>3, <1>4 DEF Precedes
  <2>2. CASE c[i].type # c[j].type
    <3>1. Rank[c[i].type] # Rank[c[j].type]
      BY <2>2, <1>3, InventoryAssumption
    <3> QED BY <3>1, <1>3, <1>4 DEF Precedes
  <2> QED BY <2>1, <2>2
<1>6. \A i, j, k \in DOMAIN c : <<i, j>> \in R /\ <<j, k>> \in R => <<i, k>> \in R
  BY <1>3, <1>4 DEF Precedes
<1>7. \E i \in request[r].todo : \A j \in request[r].todo : <<i, j>> \in R
  BY <1>1, <1>2, <1>5, <1>6, First
<1>8. \E i \in request[r].todo : \A j \in request[r].todo : Precedes(c, i, j)
  BY <1>1, <1>4, <1>7
<1> QED BY <1>8 DEF c, NextLine
-------------------------------------------------------------------------------
(* A request that ends its transaction without a commit, or had none        *)

Ends(r) ==
    /\ Alone(r) /\ request' \in [Requests -> RequestStates]
    /\ UNCHANGED rows /\ Unlock(r) /\ failures' \in Nat
    /\ At(r, "idle")' \/ (At(r, "lost")' /\ key[KeyOf(r)'] # None)
    /\ request'[r].taken = Nothing
    /\ (At(r, "idle")' /\ request'[r].answer = None) \/ KeyOf(r)' \in Keys
    /\ request'[r].answer # None => request'[r].answer = key[KeyOf(r)']

LEMMA IdleHoldsNoLock ==
    ASSUME IInv, NEW r \in Requests, ~Busy(r), UNCHANGED lock PROVE Unlock(r)
<1>1. \A t \in Types : lock[t] # r
  BY DEF IInv, LocksOK
<1> QED BY <1>1 DEF Unlock, IInv, TypeOK

LEMMA RollbackEnds ==
    ASSUME IInv, NEW r \in Requests, ~At(r, "idle"), Rollback(r), failures' \in Nat
    PROVE  Ends(r)
<1>1. TypeOK /\ KeyOf(r) \in Keys
  BY DEF IInv, RequestOK
<1>2. Answer(r, None) /\ Unlock(r) /\ UNCHANGED rows /\ None \in Orders \cup {None}
  BY DEF Rollback
<1> QED BY <1>1, <1>2, AnswerFacts DEF Ends

LEMMA EndsKinds ==
    ASSUME IInv, NEW r \in Requests,
           ReserveReplay(r) \/ ReserveRefuse(r) \/ ReserveRace(r) \/ ReserveWinner(r) \/ Fail(r)
    PROVE  Ends(r)
<1>0. TypeOK /\ failures \in Nat /\ (~At(r, "idle") => KeyOf(r) \in Keys)
      /\ (~Busy(r) => request[r].taken = Nothing)
  BY DEF IInv, TypeOK, RequestOK
<1>1. CASE ReserveReplay(r)
  <2>1. ~Busy(r)
    BY <1>1 DEF ReserveReplay, Busy, At
  <2>2. PICK k \in Keys : /\ key[k] # None
                          /\ request' = [request EXCEPT ![r].key = k, ![r].answer = key[k]]
    BY <1>1 DEF ReserveReplay
  <2>3. At(r, "idle") /\ UNCHANGED <<rows, lock, failures>>
    BY <1>1 DEF ReserveReplay
  <2> QED BY <1>0, <2>1, <2>2, <2>3, ReplayFacts, IdleHoldsNoLock DEF Ends
<1>2. CASE ReserveRefuse(r)
  BY <1>0, <1>2, RollbackEnds DEF ReserveRefuse, Granted, At
<1>3. CASE ReserveRace(r)
  <2>1. At(r, "taking") /\ key[KeyOf(r)] # None /\ Lose(r) /\ Unlock(r)
        /\ UNCHANGED <<rows, failures>>
    BY <1>3 DEF ReserveRace, ReadyForKey, KeyFree
  <2>2. KeyOf(r) \in Keys /\ (request[r].answer # None => request[r].answer = key[KeyOf(r)])
    BY <1>0, <2>1 DEF At, IInv, OneOrderPerKey
  <2> QED BY <1>0, <2>1, <2>2, LoseFacts DEF Ends
<1>4. CASE ReserveWinner(r)
  <2>1. At(r, "lost") /\ Answer(r, key[KeyOf(r)]) /\ UNCHANGED <<rows, lock, failures>>
    BY <1>4 DEF ReserveWinner
  <2>2. ~Busy(r) /\ KeyOf(r) \in Keys
    BY <1>0, <2>1 DEF Busy, At
  <2>3. key[KeyOf(r)] \in Orders \cup {None}
    BY <1>0, <2>2 DEF TypeOK
  <2>4. /\ Alone(r) /\ request' \in [Requests -> RequestStates]
        /\ At(r, "idle")' /\ KeyOf(r)' = KeyOf(r)
        /\ request'[r].taken = Nothing /\ request'[r].answer = key[KeyOf(r)]
    BY <1>0, <2>1, <2>3, AnswerFacts
  <2>5. Unlock(r)
    BY <2>1, <2>2, IdleHoldsNoLock
  <2> QED BY <1>0, <2>1, <2>2, <2>4, <2>5 DEF Ends
<1>5. CASE Fail(r)
  BY <1>0, <1>5, RollbackEnds DEF Fail
<1> QED BY <1>1, <1>2, <1>3, <1>4, <1>5

LEMMA EndsKeeps ==
    ASSUME IInv, NEW r \in Requests, Ends(r) PROVE IInv'
<1>0. /\ None \notin Requests
      /\ \A q \in Requests \ {r} : request'[q] = request[q]
      /\ ~Busy(r)' /\ request'[r].taken = Nothing
      /\ \A t \in Types : lock'[t] = IF lock[t] = r THEN None ELSE lock[t]
  BY InventoryAssumption DEF Ends, Alone, Unlock, Busy, At
<1>1. TypeOK'
  BY DEF IInv, TypeOK, Ends, rows, Unlock
<1>2. RequestOK'
  <2> SUFFICES ASSUME NEW q \in Requests PROVE RequestOK!(q)'
    BY DEF RequestOK
  <2>1. CASE q = r
    BY <1>0, <2>1 DEF Ends, Busy, At, KeyOf
  <2>2. CASE q # r
    <3>1. request'[q] = request[q] /\ key' = key
      BY <1>0, <2>2 DEF Ends, rows
    <3> QED BY <3>1 DEF IInv, RequestOK, Busy, At, KeyOf, CartOf
  <2> QED BY <2>1, <2>2
<1>3. LocksOK'
  <2> SUFFICES ASSUME NEW q \in Requests, NEW t \in Types PROVE (LocksOK!1!(q, t) /\ LocksOK!2!(q, t))'
    BY DEF LocksOK
  <2>1. CASE q = r
    BY <1>0, <2>1 DEF Nothing
  <2>2. CASE q # r
    <3>1. request'[q] = request[q] /\ remaining' = remaining /\ (lock'[t] = q <=> lock[t] = q)
      BY <1>0, <2>2 DEF Ends, rows
    <3> QED BY <3>1 DEF IInv, LocksOK, Busy, At, CartOf
  <2> QED BY <2>1, <2>2
<1>4. KeyLocksOK'
  BY <1>0 DEF IInv, KeyLocksOK, Busy, At, KeyOf
<1>5. OrdersOK' /\ StockConserved' /\ \A t \in Types : IsFiniteSet(Sold(t))'
  BY DEF IInv, OrdersOK, StockConserved, Sold, UnitsOf, Ends, rows
<1>6. OneOrderPerKey'
  <2>1. key' = key /\ cart' = cart
    BY DEF Ends, rows
  <2>2. \A q \in Requests : request'[q].answer # None => request'[q].answer = key[request'[q].key]
    BY <1>0 DEF IInv, OneOrderPerKey, Ends, KeyOf
  <2>3. \A q \in Requests : request'[q].pc = "lost" => key[request'[q].key] # None
    BY <1>0 DEF IInv, OneOrderPerKey, Ends, KeyOf, At
  <2> QED BY <2>1, <2>2, <2>3 DEF IInv, OneOrderPerKey, KeyOf, At
<1> QED BY <1>1, <1>2, <1>3, <1>4, <1>5, <1>6 DEF IInv
-------------------------------------------------------------------------------
(* The steps of a transaction                                               *)

LEMMA NoLinesNoTickets ==
    ASSUME NEW c, NEW t PROVE Cardinality(Part(c, {}, t)) = 0
<1>1. Part(c, {}, t) = {}
  BY DEF Part
<1> QED BY <1>1, FS_EmptySet

LEMMA ReceiveKeeps ==
    ASSUME IInv, NEW r \in Requests, ReserveReceive(r) PROVE IInv'
<1>1. /\ At(r, "idle") /\ UNCHANGED <<rows, lock, failures>>
      /\ \E k \in Keys, c \in Carts : request' = [request EXCEPT ![r] =
                [pc |-> "taking", key |-> k, cart |-> c, todo |-> DOMAIN c,
                 taken |-> Nothing, answer |-> None]]
  BY DEF ReserveReceive
<1>2. PICK k \in Keys, c \in Carts :
        /\ Alone(r) /\ request' \in [Requests -> RequestStates]
        /\ At(r, "taking")' /\ KeyOf(r)' = k /\ CartOf(r)' = c
        /\ request'[r].todo = DOMAIN c
        /\ request'[r].taken = Nothing /\ request'[r].answer = None
  BY <1>1, ReceiveFacts DEF IInv
<1>3. TypeOK'
  BY <1>1, <1>2 DEF IInv, TypeOK, rows
<1>4. RequestOK'
  <2> SUFFICES ASSUME NEW q \in Requests PROVE RequestOK!(q)'
    BY DEF RequestOK
  <2>1. CASE q = r
    <3>1. DOMAIN c \ request'[r].todo = {}
      BY <1>2
    <3>2. \A t \in Types :
            request'[r].taken[t] = Cardinality(Part(c, DOMAIN c \ request'[r].todo, t))
      BY <3>1, <1>2, NoLinesNoTickets DEF Nothing
    <3> QED BY <2>1, <3>1, <3>2, <1>2 DEF Busy, At
  <2>2. CASE q # r
    <3>1. request'[q] = request[q] /\ key' = key
      BY <1>1, <1>2, <2>2 DEF rows, Alone
    <3> QED BY <3>1 DEF IInv, RequestOK, Busy, At, KeyOf, CartOf
  <2> QED BY <2>1, <2>2
<1>5. LocksOK'
  <2> SUFFICES ASSUME NEW q \in Requests, NEW t \in Types
               PROVE (LocksOK!1!(q, t) /\ LocksOK!2!(q, t))'
    BY DEF LocksOK
  <2>1. CASE q = r
    <3>1. lock'[t] # r
      BY <1>1 DEF IInv, LocksOK, Busy, At
    <3> QED BY <2>1, <3>1, <1>2 DEF Nothing
  <2>2. CASE q # r
    <3>1. request'[q] = request[q] /\ remaining' = remaining /\ lock' = lock
      BY <1>1, <1>2, <2>2 DEF rows, Alone
    <3> QED BY <3>1 DEF IInv, LocksOK, Busy, At, CartOf
  <2> QED BY <2>1, <2>2
<1>6. KeyLocksOK'
  BY <1>2 DEF IInv, KeyLocksOK, At, KeyOf, Alone
<1>7. OrdersOK' /\ StockConserved' /\ \A t \in Types : IsFiniteSet(Sold(t))'
  BY <1>1 DEF IInv, OrdersOK, StockConserved, Sold, UnitsOf, rows
<1>8. OneOrderPerKey'
  BY <1>1, <1>2 DEF IInv, OneOrderPerKey, KeyOf, At, Alone, rows
<1> QED BY <1>3, <1>4, <1>5, <1>6, <1>7, <1>8 DEF IInv

LEMMA TakeKeeps ==
    ASSUME IInv, NEW r \in Requests, ReserveTake(r) PROVE IInv'
<1> DEFINE c == CartOf(r)
           todo == request[r].todo
           i == NextLine(r)
           t == Wanted(r).type
           n == Wanted(r).quantity
<1>1. /\ At(r, "taking") /\ todo # {} /\ lock[t] \in {None, r}
      /\ remaining[t] >= request[r].taken[t] + n
      /\ lock' = [lock EXCEPT ![t] = r]
      /\ request' = [request EXCEPT ![r].todo = @ \ {i}, ![r].taken[t] = @ + n]
      /\ UNCHANGED <<rows, failures>>
  BY DEF ReserveTake, Granted, Available
<1>2. i \in todo /\ \A j \in todo : Precedes(c, i, j)
  BY <1>1, NextLineFacts
<1>3. /\ c \in Carts /\ todo \subseteq DOMAIN c /\ KeyOf(r) \in Keys
      /\ \A s \in Types : request[r].taken[s] = Cardinality(Part(c, DOMAIN c \ todo, s))
      /\ \A l \in DOMAIN c \ todo, j \in todo : Precedes(c, l, j)
  BY <1>1 DEF IInv, RequestOK, Busy, At
<1>4. t = c[i].type /\ n = c[i].quantity /\ t \in Types /\ n \in Nat
  BY <1>2, <1>3, CartFacts DEF Wanted
<1>5. request[r].taken \in [Types -> Nat] /\ remaining \in [Types -> Nat]
      /\ lock \in [Types -> Requests \cup {None}] /\ None \notin Requests
  BY InventoryAssumption DEF IInv, TypeOK, RequestStates
<1> HIDE DEF c, todo, i, t, n
<1>6. /\ Alone(r) /\ request' \in [Requests -> RequestStates]
      /\ At(r, "taking")'
      /\ KeyOf(r)' = KeyOf(r) /\ CartOf(r)' = c
      /\ request'[r].todo = todo \ {i}
      /\ request'[r].taken = [request[r].taken EXCEPT ![t] = @ + n]
      /\ request'[r].answer = request[r].answer
  <2>1. TypeOK
    BY DEF IInv
  <2>2. i \in request[r].todo
    BY <1>2 DEF todo
  <2>3. /\ Alone(r) /\ request' \in [Requests -> RequestStates]
        /\ request'[r].pc = request[r].pc
        /\ KeyOf(r)' = KeyOf(r) /\ CartOf(r)' = CartOf(r)
        /\ request'[r].todo = request[r].todo \ {i}
        /\ request'[r].taken = [request[r].taken EXCEPT ![t] = @ + n]
        /\ request'[r].answer = request[r].answer
    BY <2>1, <2>2, <1>4, TakeFacts DEF i, t, n
  <2> QED BY <2>3, <1>1 DEF At, c, todo
<1>7. DOMAIN c \ (todo \ {i}) = (DOMAIN c \ todo) \cup {i}
  BY <1>2, <1>3
<1>8. TypeOK'
  BY <1>1, <1>4, <1>5, <1>6 DEF IInv, TypeOK, rows
<1>9. RequestOK'
  <2> SUFFICES ASSUME NEW q \in Requests PROVE RequestOK!(q)'
    BY DEF RequestOK
  <2>1. CASE q = r
    <3>1. \A s \in Types :
            request'[r].taken[s] = Cardinality(Part(c, DOMAIN c \ (todo \ {i}), s))
      <4> TAKE s \in Types
      <4>1. Cardinality(Part(c, (DOMAIN c \ todo) \cup {i}, s)) =
                request[r].taken[s] + IF c[i].type = s THEN c[i].quantity ELSE 0
        BY <1>2, <1>3, PartAdds
      <4>2. request'[r].taken[s] = request[r].taken[s] + IF s = t THEN n ELSE 0
        BY <1>4, <1>5, <1>6
      <4> QED BY <4>1, <4>2, <1>4, <1>7
    <3>2. \A l \in DOMAIN c \ (todo \ {i}), j \in todo \ {i} : Precedes(c, l, j)
      BY <1>2, <1>3
    <3> QED BY <2>1, <3>1, <3>2, <1>3, <1>6 DEF Busy, At
  <2>2. CASE q # r
    <3>1. request'[q] = request[q] /\ key' = key
      BY <1>1, <1>6, <2>2 DEF rows, Alone
    <3> QED BY <3>1 DEF IInv, RequestOK, Busy, At, KeyOf, CartOf
  <2> QED BY <2>1, <2>2
<1>10. LocksOK'
  <2> SUFFICES ASSUME NEW q \in Requests, NEW s \in Types
               PROVE (LocksOK!1!(q, s) /\ LocksOK!2!(q, s))'
    BY DEF LocksOK
  <2>0. /\ request[q].taken[s] > 0 => lock[s] = q /\ request[q].taken[s] <= remaining[s]
        /\ lock[s] = q => /\ Busy(q)
                          /\ \E l \in DOMAIN CartOf(q) \ request[q].todo : CartOf(q)[l].type = s
        /\ lock'[s] = IF s = t THEN r ELSE lock[s]
        /\ remaining' = remaining
    BY <1>1, <1>4, <1>5 DEF IInv, LocksOK, rows
  <2>1. CASE q = r
    <3>1. request'[r].taken[s] > 0 => lock'[s] = r /\ request'[r].taken[s] <= remaining[s]
      BY <2>0, <2>1, <1>1, <1>4, <1>5, <1>6
    <3>2. Busy(r)'
      BY <1>6 DEF Busy
    <3>3. lock'[s] = r => \E l \in DOMAIN c \ (todo \ {i}) : c[l].type = s
      <4>1. CASE s = t
        BY <4>1, <1>4, <1>7
      <4>2. CASE s # t
        BY <4>2, <2>0, <2>1 DEF c, todo
      <4> QED BY <4>1, <4>2
    <3> QED BY <2>0, <2>1, <3>1, <3>2, <3>3, <1>6
  <2>2. CASE q # r
    <3>1. request'[q] = request[q]
      BY <1>6, <2>2 DEF Alone
    <3>2. lock'[s] = q <=> lock[s] = q
      BY <2>0, <2>2, <1>1, <1>5
    <3> QED BY <2>0, <3>1, <3>2 DEF Busy, At, CartOf
  <2> QED BY <2>1, <2>2
<1>11. KeyLocksOK'
  BY <1>1, <1>6 DEF IInv, KeyLocksOK, At, KeyOf, Alone
<1>12. OrdersOK' /\ StockConserved' /\ \A s \in Types : IsFiniteSet(Sold(s))'
  BY <1>1 DEF IInv, OrdersOK, StockConserved, Sold, UnitsOf, rows
<1>13. OneOrderPerKey'
  BY <1>1, <1>6 DEF IInv, OneOrderPerKey, KeyOf, At, Alone, rows
<1> QED BY <1>8, <1>9, <1>10, <1>11, <1>12, <1>13 DEF IInv

LEMMA InsertKeyKeeps ==
    ASSUME IInv, NEW r \in Requests, ReserveInsertKey(r) PROVE IInv'
<1>1. /\ At(r, "taking") /\ request[r].todo = {} /\ key[KeyOf(r)] = None
      /\ \A q \in Requests : ~(At(q, "keyed") /\ KeyOf(q) = KeyOf(r))
      /\ request' = [request EXCEPT ![r].pc = "keyed"]
      /\ UNCHANGED <<rows, lock, failures>>
  BY DEF ReserveInsertKey, ReadyForKey, KeyFree
<1>2. /\ Alone(r) /\ request' \in [Requests -> RequestStates]
      /\ At(r, "keyed")'
      /\ KeyOf(r)' = KeyOf(r) /\ CartOf(r)' = CartOf(r)
      /\ request'[r].todo = request[r].todo
      /\ request'[r].taken = request[r].taken
      /\ request'[r].answer = request[r].answer
  BY <1>1, KeyedFacts DEF IInv
<1>3. TypeOK'
  BY <1>1, <1>2 DEF IInv, TypeOK, rows
<1>4. RequestOK'
  <2> SUFFICES ASSUME NEW q \in Requests PROVE RequestOK!(q)'
    BY DEF RequestOK
  <2>1. CASE q = r
    BY <2>1, <1>1, <1>2 DEF IInv, RequestOK, Busy, At, rows
  <2>2. CASE q # r
    <3>1. request'[q] = request[q] /\ key' = key
      BY <1>1, <1>2, <2>2 DEF rows, Alone
    <3> QED BY <3>1 DEF IInv, RequestOK, Busy, At, KeyOf, CartOf
  <2> QED BY <2>1, <2>2
<1>5. LocksOK'
  <2> SUFFICES ASSUME NEW q \in Requests, NEW t \in Types
               PROVE (LocksOK!1!(q, t) /\ LocksOK!2!(q, t))'
    BY DEF LocksOK
  <2>1. /\ request'[q].taken = request[q].taken /\ request'[q].todo = request[q].todo
        /\ CartOf(q)' = CartOf(q) /\ remaining' = remaining /\ lock' = lock
        /\ Busy(q) => Busy(q)'
    BY <1>1, <1>2 DEF rows, Alone, CartOf, Busy, At
  <2> QED BY <2>1 DEF IInv, LocksOK
<1>6. KeyLocksOK'
  BY <1>1, <1>2 DEF IInv, KeyLocksOK, At, KeyOf, Alone
<1>7. OrdersOK' /\ StockConserved' /\ \A t \in Types : IsFiniteSet(Sold(t))'
  BY <1>1 DEF IInv, OrdersOK, StockConserved, Sold, UnitsOf, rows
<1>8. OneOrderPerKey'
  BY <1>1, <1>2 DEF IInv, OneOrderPerKey, KeyOf, At, Alone, rows
<1> QED BY <1>3, <1>4, <1>5, <1>6, <1>7, <1>8 DEF IInv

\* What becomes of an order neither gives its tickets back nor sells them again.
LEMMA SettleKeeps ==
    ASSUME IInv, NEW o \in Orders, OrderPaid(o) \/ OrderExpired(o) PROVE IInv'
<1>1. /\ UNCHANGED <<remaining, cart, key, lock, request, failures>>
      /\ fate[o] = "reserved"
      /\ \E f \in {"paid", "expired"} : fate' = [fate EXCEPT ![o] = f]
  BY DEF OrderPaid, OrderExpired
<1>2. PICK f \in {"paid", "expired"} : fate' = [fate EXCEPT ![o] = f]
  BY <1>1
<1>3. TypeOK' /\ OrdersOK'
  BY <1>1, <1>2 DEF IInv, TypeOK, OrdersOK
<1>4. RequestOK' /\ LocksOK' /\ KeyLocksOK' /\ OneOrderPerKey'
  BY <1>1 DEF IInv, RequestOK, LocksOK, KeyLocksOK, OneOrderPerKey, Busy, At, KeyOf, CartOf
<1>5. {x \in Orders : fate'[x] \in {"reserved", "paid", "expired"}} =
      {x \in Orders : fate[x] \in {"reserved", "paid", "expired"}}
  BY <1>1, <1>2 DEF IInv, TypeOK
<1>6. \A t : Sold(t)' = Sold(t)
  BY <1>1, <1>5 DEF Sold, UnitsOf
<1>7. StockConserved' /\ \A t \in Types : IsFiniteSet(Sold(t))'
  BY <1>1, <1>6 DEF IInv, StockConserved, Sold
<1> QED BY <1>3, <1>4, <1>7 DEF IInv
-------------------------------------------------------------------------------
(* The commit                                                               *)

LEMMA CommitFacts ==
    ASSUME IInv, NEW r \in Requests, ReserveCommit(r)
    PROVE  \E o \in Orders :
            /\ cart[o] = None /\ fate[o] = "none"
            /\ CartOf(r) \in Carts /\ KeyOf(r) \in Keys /\ key[KeyOf(r)] = None
            /\ \A t \in Types :
                    request[r].taken[t] = Cardinality(Units(CartOf(r), t))
            /\ cart' = [cart EXCEPT ![o] = CartOf(r)]
            /\ fate' = [fate EXCEPT ![o] = "reserved"]
            /\ key' = [key EXCEPT ![KeyOf(r)] = o]
            /\ Answer(r, o)
<1>1. PICK o \in Orders :
        /\ cart[o] = None
        /\ cart' = [cart EXCEPT ![o] = CartOf(r)]
        /\ fate' = [fate EXCEPT ![o] = "reserved"]
        /\ key' = [key EXCEPT ![KeyOf(r)] = o]
        /\ Answer(r, o)
  BY DEF ReserveCommit
<1>2. At(r, "keyed")
  BY DEF ReserveCommit
<1>3. CartOf(r) \in Carts /\ KeyOf(r) \in Keys /\ key[KeyOf(r)] = None
      /\ request[r].todo = {}
  BY <1>2 DEF IInv, RequestOK, Busy, At
<1>4. \A t \in Types : request[r].taken[t] =
            Cardinality(Part(CartOf(r), DOMAIN CartOf(r) \ request[r].todo, t))
  BY <1>2 DEF IInv, RequestOK, Busy
<1>5. DOMAIN CartOf(r) \ request[r].todo = DOMAIN CartOf(r)
  BY <1>3
<1>6. \A t \in Types : request[r].taken[t] = Cardinality(Units(CartOf(r), t))
  BY <1>4, <1>5 DEF Part, Units
<1>7. fate[o] = "none"
  BY <1>1 DEF IInv, OrdersOK
<1> QED BY <1>1, <1>3, <1>6, <1>7

LEMMA UnitsAreFinite ==
    ASSUME NEW c \in Carts, NEW t
    PROVE  IsFiniteSet(Units(c, t)) /\ Cardinality(Units(c, t)) \in Nat
<1>1. Units(c, t) = Part(c, DOMAIN c, t)
  BY DEF Units, Part
<1> QED BY <1>1, PartIsFinite, FS_CardinalityType

\* An order more is its tickets more.
LEMMA SoldAdds ==
    ASSUME IInv, NEW o \in Orders, NEW c \in Carts, NEW t \in Types,
           cart[o] = None, fate[o] = "none",
           cart' = [cart EXCEPT ![o] = c], fate' = [fate EXCEPT ![o] = "reserved"]
    PROVE  /\ IsFiniteSet(Sold(t)')
           /\ Cardinality(Sold(t)') = Cardinality(Sold(t)) + Cardinality(Units(c, t))
<1> DEFINE New == {o} \X Units(c, t)
           F == {"reserved", "paid", "expired"}
<1>1. /\ {x \in Orders : fate'[x] \in F} = {x \in Orders : fate[x] \in F} \cup {o}
      /\ o \notin {x \in Orders : fate[x] \in F}
      /\ cart'[o] = c /\ \A x \in Orders \ {o} : cart'[x] = cart[x]
  BY DEF IInv, TypeOK
<1>2. Sold(t)' = Sold(t) \cup New
  BY <1>1 DEF Sold, UnitsOf
<1>3. Sold(t) \cap New = {}
  BY <1>1 DEF Sold, UnitsOf
<1>4. IsFiniteSet(New) /\ Cardinality(New) = Cardinality(Units(c, t))
  <2>1. IsFiniteSet({o}) /\ Cardinality({o}) = 1
    BY FS_Singleton
  <2>2. IsFiniteSet(New) /\ Cardinality(New) = 1 * Cardinality(Units(c, t))
    BY <2>1, UnitsAreFinite, FS_Product
  <2> QED BY <2>2, UnitsAreFinite
<1>5. IsFiniteSet(Sold(t)) /\ Cardinality(Sold(t)) \in Nat
  BY FS_CardinalityType DEF IInv
<1>6. Cardinality({}) = 0
  BY FS_EmptySet
<1> HIDE DEF New
<1>7. /\ IsFiniteSet(Sold(t) \cup New)
      /\ Cardinality(Sold(t) \cup New) =
            Cardinality(Sold(t)) + Cardinality(New) - Cardinality({})
  BY <1>3, <1>4, <1>5, FS_Union
<1>8. Cardinality(Sold(t)') = Cardinality(Sold(t)) + Cardinality(Units(c, t)) - 0
  BY <1>2, <1>4, <1>6, <1>7
<1> QED BY <1>2, <1>5, <1>7, <1>8, UnitsAreFinite

LEMMA CommitKeeps ==
    ASSUME IInv, NEW r \in Requests, ReserveCommit(r) PROVE IInv'
<1> DEFINE c == CartOf(r)
           k == KeyOf(r)
<1>1. PICK o \in Orders :
        /\ cart[o] = None /\ fate[o] = "none"
        /\ c \in Carts /\ k \in Keys /\ key[k] = None
        /\ \A t \in Types : request[r].taken[t] = Cardinality(Units(c, t))
        /\ cart' = [cart EXCEPT ![o] = c]
        /\ fate' = [fate EXCEPT ![o] = "reserved"]
        /\ key' = [key EXCEPT ![k] = o]
        /\ Answer(r, o)
  BY CommitFacts
<1>2. /\ remaining' = [t \in Types |-> remaining[t] - request[r].taken[t]]
      /\ \A t \in Types : lock'[t] = IF lock[t] = r THEN None ELSE lock[t]
      /\ At(r, "keyed") /\ failures' = failures
  BY DEF ReserveCommit, Unlock
<1>3. /\ Alone(r) /\ request' \in [Requests -> RequestStates]
      /\ At(r, "idle")' /\ KeyOf(r)' = k
      /\ request'[r].taken = Nothing /\ request'[r].answer = o
  BY <1>1, AnswerFacts DEF IInv
<1>4. /\ TypeOK /\ None \notin Requests /\ None \notin Orders /\ None \notin Carts
      /\ \A t \in Types : remaining[t] \in Nat /\ request[r].taken[t] \in Nat
      /\ \A t \in Types : request[r].taken[t] <= remaining[t]
  <2>1. TypeOK /\ LocksOK
    BY DEF IInv
  <2>2. \A t \in Types : remaining[t] \in Nat /\ request[r].taken[t] \in Nat
    BY <2>1 DEF TypeOK, RequestStates
  <2>3. \A t \in Types : request[r].taken[t] <= remaining[t]
    BY <2>1, <2>2 DEF LocksOK
  <2> QED BY <2>1, <2>2, <2>3, InventoryAssumption
<1> HIDE DEF c, k
<1>5. /\ cart'[o] = c /\ \A x \in Orders \ {o} : cart'[x] = cart[x]
      /\ fate'[o] = "reserved" /\ \A x \in Orders \ {o} : fate'[x] = fate[x]
      /\ key'[k] = o /\ \A l \in Keys \ {k} : key'[l] = key[l]
  BY <1>1, <1>4 DEF TypeOK
<1>6. TypeOK'
  <2>1. lock' \in [Types -> Requests \cup {None}]
    BY <1>4 DEF ReserveCommit, Unlock, TypeOK
  <2>2. remaining' \in [Types -> Nat]
    BY <1>2, <1>4
  <2>3. cart' \in [Orders -> Carts \cup {None}] /\ key' \in [Keys -> Orders \cup {None}]
        /\ fate' \in [Orders -> {"none", "reserved", "paid", "expired"}]
    BY <1>1, <1>4 DEF TypeOK
  <2> QED BY <2>1, <2>2, <2>3, <1>2, <1>3, <1>4 DEF TypeOK
<1>7. RequestOK'
  <2> SUFFICES ASSUME NEW q \in Requests PROVE RequestOK!(q)'
    BY DEF RequestOK
  <2>1. CASE q = r
    BY <2>1, <1>1, <1>3 DEF Busy, At
  <2>2. CASE q # r
    <3>1. request'[q] = request[q]
      BY <1>3, <2>2 DEF Alone
    <3>2. At(q, "keyed") => KeyOf(q) \in Keys /\ KeyOf(q) # k
      BY <2>2, <1>2 DEF IInv, RequestOK, KeyLocksOK, At, k
    <3>3. At(q, "keyed") => key'[KeyOf(q)] = None
      BY <3>2, <1>5 DEF IInv, RequestOK
    <3> QED BY <3>1, <3>3 DEF IInv, RequestOK, Busy, At, KeyOf, CartOf
  <2> QED BY <2>1, <2>2
<1>8. LocksOK'
  <2> SUFFICES ASSUME NEW q \in Requests, NEW t \in Types
               PROVE (LocksOK!1!(q, t) /\ LocksOK!2!(q, t))'
    BY DEF LocksOK
  <2>1. CASE q = r
    BY <2>1, <1>2, <1>3, <1>4 DEF Nothing
  <2>2. CASE q # r
    <3>1. request'[q] = request[q] /\ (lock'[t] = q <=> lock[t] = q)
      BY <1>2, <1>3, <1>4, <2>2 DEF Alone
    <3>2. lock[t] = q => remaining'[t] = remaining[t]
      BY <2>2, <1>2, <1>4 DEF IInv, LocksOK
    <3>3. request[q].taken[t] > 0 => lock[t] = q /\ request[q].taken[t] <= remaining[t]
      BY DEF IInv, LocksOK
    <3>4. lock[t] = q => /\ Busy(q)
                         /\ \E i \in DOMAIN CartOf(q) \ request[q].todo : CartOf(q)[i].type = t
      BY DEF IInv, LocksOK
    <3> QED BY <3>1, <3>2, <3>3, <3>4 DEF Busy, At, CartOf
  <2> QED BY <2>1, <2>2
<1>9. KeyLocksOK'
  BY <1>3 DEF IInv, KeyLocksOK, At, KeyOf, Alone
<1>10. OrdersOK'
  BY <1>1, <1>4, <1>5 DEF IInv, OrdersOK, TypeOK
<1>11. OneOrderPerKey'
  <2>1. \A x \in Orders : cart'[x] # None => \E l \in Keys : key'[l] = x
    <3> TAKE x \in Orders
    <3>1. CASE x = o
      BY <3>1, <1>1, <1>5
    <3>2. CASE x # o /\ cart[x] # None
      <4>1. PICK l \in Keys : key[l] = x
        BY <3>2 DEF IInv, OneOrderPerKey
      <4>2. l # k
        BY <4>1, <1>1, <1>4
      <4> QED BY <4>1, <4>2, <1>5
    <3> QED BY <3>1, <3>2, <1>5
  <2>2. \A l \in Keys \ {k} : key'[l] # o
    BY <1>1, <1>4, <1>5 DEF IInv, OrdersOK
  <2>3. \A l, m \in Keys : key'[l] = key'[m] /\ key'[l] # None => l = m
    BY <2>2, <1>5 DEF IInv, OneOrderPerKey
  <2>4. \A q \in Requests \ {r} : request'[q] = request[q]
    BY <1>3 DEF Alone
  <2>5. \A q \in Requests : request[q].answer # None =>
            KeyOf(q) \in Keys \ {k} /\ request[q].answer = key[KeyOf(q)]
    BY <1>1 DEF IInv, OneOrderPerKey, RequestOK
  <2>6. \A q \in Requests : At(q, "lost") => KeyOf(q) \in Keys \ {k} /\ key[KeyOf(q)] # None
    BY <1>1 DEF IInv, OneOrderPerKey, RequestOK, At
  <2>7. \A q \in Requests : request'[q].answer # None => request'[q].answer = key'[KeyOf(q)']
    BY <2>4, <2>5, <1>3, <1>5 DEF KeyOf
  <2>8. \A q \in Requests : At(q, "lost")' => key'[KeyOf(q)'] # None
    BY <2>4, <2>6, <1>3, <1>5 DEF KeyOf, At
  <2> QED BY <2>1, <2>3, <2>7, <2>8 DEF OneOrderPerKey, At, KeyOf
<1>12. StockConserved' /\ \A t \in Types : IsFiniteSet(Sold(t))'
  <2> SUFFICES ASSUME NEW t \in Types
               PROVE /\ remaining'[t] + Cardinality(Sold(t)') = Quota[t]
                     /\ remaining'[t] >= 0 /\ IsFiniteSet(Sold(t)')
    BY DEF StockConserved, Sold
  <2>1. /\ IsFiniteSet(Sold(t)')
        /\ Cardinality(Sold(t)') = Cardinality(Sold(t)) + Cardinality(Units(c, t))
    BY <1>1, SoldAdds
  <2>2. remaining[t] + Cardinality(Sold(t)) = Quota[t] /\ IsFiniteSet(Sold(t))
    BY DEF IInv, StockConserved, Sold
  <2>3. Cardinality(Sold(t)) \in Nat
    BY <2>2, FS_CardinalityType
  <2>4. remaining'[t] = remaining[t] - Cardinality(Units(c, t))
        /\ Cardinality(Units(c, t)) <= remaining[t]
    BY <1>1, <1>2, <1>4
  <2>5. Cardinality(Units(c, t)) \in Nat
    BY <1>1, UnitsAreFinite
  <2> QED BY <2>1, <2>2, <2>3, <2>4, <2>5, <1>4
<1> QED BY <1>6, <1>7, <1>8, <1>9, <1>10, <1>11, <1>12 DEF IInv
-------------------------------------------------------------------------------
(* The theorems                                                             *)

LEMMA QuantityIsUnits ==
    ASSUME NEW c, NEW t PROVE Contract!Quantity(c, t) = Cardinality(Units(c, t))
<1> DEFINE S == UNION {{i} \X (1..c[i].quantity) : i \in {l \in DOMAIN c : c[l].type = t}}
<1>1. S = Units(c, t)
  BY DEF Units
<1>2. Contract!Quantity(c, t) = Cardinality(S)
  BY DEF Contract!Quantity, Contract!Units, Contract!Cardinality, Cardinality
<1> QED BY <1>1, <1>2

LEMMA InitEstablishes == Init => IInv
<1> SUFFICES ASSUME Init PROVE IInv
  OBVIOUS
<1>1. TypeOK
  BY InventoryAssumption DEF Init, TypeOK, RequestStates, Nothing
<1>2. RequestOK /\ LocksOK /\ KeyLocksOK /\ OrdersOK /\ OneOrderPerKey
  BY InventoryAssumption
     DEF Init, RequestOK, LocksOK, KeyLocksOK, OrdersOK, OneOrderPerKey, Nothing, Busy, At, KeyOf
<1>3. \A t : Sold(t) = {}
  BY DEF Init, Sold, UnitsOf
<1>4. StockConserved /\ \A t \in Types : IsFiniteSet(Sold(t))
  <2> SUFFICES ASSUME NEW t \in Types
               PROVE /\ remaining[t] + Cardinality(Sold(t)) = Quota[t]
                     /\ remaining[t] >= 0 /\ IsFiniteSet(Sold(t))
    BY DEF StockConserved, Sold
  <2>1. Cardinality(Sold(t)) = 0 /\ IsFiniteSet(Sold(t))
    BY <1>3, FS_EmptySet
  <2> QED BY <2>1, InventoryAssumption DEF Init
<1> QED BY <1>1, <1>2, <1>4 DEF IInv

LEMMA NextKeeps == IInv /\ [Next]_vars => IInv'
<1> SUFFICES ASSUME IInv, [Next]_vars PROVE IInv'
  OBVIOUS
<1>1. ASSUME NEW r \in Requests, ReserveReplay(r) \/ ReserveRefuse(r) \/ ReserveRace(r)
                                \/ ReserveWinner(r) \/ Fail(r)
      PROVE  IInv'
  BY <1>1, EndsKinds, EndsKeeps
<1>2. ASSUME NEW r \in Requests, ReserveReceive(r) PROVE IInv'
  BY <1>2, ReceiveKeeps
<1>3. ASSUME NEW r \in Requests, ReserveTake(r) PROVE IInv'
  BY <1>3, TakeKeeps
<1>4. ASSUME NEW r \in Requests, ReserveInsertKey(r) PROVE IInv'
  BY <1>4, InsertKeyKeeps
<1>5. ASSUME NEW r \in Requests, ReserveCommit(r) PROVE IInv'
  BY <1>5, CommitKeeps
<1>6. ASSUME NEW o \in Orders, OrderPaid(o) \/ OrderExpired(o) PROVE IInv'
  BY <1>6, SettleKeeps
<1>7. CASE UNCHANGED vars
  <2>1. UNCHANGED <<remaining, cart, fate, key, lock, request, failures>>
    BY <1>7 DEF vars, rows
  <2>2. TypeOK' /\ LocksOK' /\ KeyLocksOK'
    BY <2>1 DEF IInv, TypeOK, LocksOK, KeyLocksOK, Busy, At, KeyOf, CartOf
  <2>5. ASSUME NEW q \in Requests PROVE RequestOK!(q)'
    <3>1. request'[q] = request[q] /\ key' = key
      BY <2>1
    <3> QED BY <3>1 DEF IInv, RequestOK, Busy, At, KeyOf, CartOf
  <2>3. OrdersOK' /\ OneOrderPerKey'
    BY <2>1 DEF IInv, OrdersOK, OneOrderPerKey, At, KeyOf
  <2>4. StockConserved' /\ \A t \in Types : IsFiniteSet(Sold(t))'
    BY <2>1 DEF IInv, StockConserved, Sold, UnitsOf
  <2> QED BY <2>2, <2>3, <2>4, <2>5 DEF IInv, RequestOK
<1> QED BY <1>1, <1>2, <1>3, <1>4, <1>5, <1>6, <1>7 DEF Next, ReserveStep

\* What a request has taken is covered by locks and stock, what it holds of a key is
\* its own, and the committed carts account for the rest (server.ts:566-726).
THEOREM InvariantHolds == Spec => []IInv
<1> QED BY InitEstablishes, NextKeeps, PTL DEF Spec

\* The variables keep their types; for the stock that says it never goes below
\* zero, which rests on the lock a request holds on what it has taken
\* (server.ts:602-625).
THEOREM TypeCorrect == Spec => []TypeOK
<1>1. IInv => TypeOK
  BY DEF IInv
<1> QED BY <1>1, InvariantHolds, PTL

\* No ticket of any type is promised twice or lost, for any carts (server.ts:606-625).
THEOREM StockIsConserved == Spec => []StockConserved
<1>1. IInv => StockConserved
  BY DEF IInv
<1> QED BY <1>1, InvariantHolds, PTL

\* A clientRequestId makes one order, and each of its requests is answered with it
\* (server.ts:575-588, 667-725).
THEOREM KeyMakesOneOrder == Spec => []OneOrderPerKey
<1>1. IInv => OneOrderPerKey
  BY DEF IInv
<1> QED BY <1>1, InvariantHolds, PTL

\* The commit of a request is the one step of Sales that reserves its cart, and no
\* other step of a request is seen there (server.ts:590-716).
THEOREM ImplementsSales == Spec => KeepsSales
<1>1. Init => Contract!SalesInit
  BY DEF Init, Contract!SalesInit
<1>2. ASSUME IInv, [Next]_vars PROVE [Contract!SalesNext]_(Contract!salesVars)
  <2> USE DEF Contract!salesVars
  <2>1. ASSUME NEW r \in Requests, ReserveCommit(r) PROVE Contract!SalesNext
    <3>1. PICK o \in Orders :
            /\ cart[o] = None
            /\ CartOf(r) \in Carts /\ KeyOf(r) \in Keys /\ key[KeyOf(r)] = None
            /\ \A t \in Types : request[r].taken[t] = Cardinality(Units(CartOf(r), t))
            /\ cart' = [cart EXCEPT ![o] = CartOf(r)]
            /\ fate' = [fate EXCEPT ![o] = "reserved"]
            /\ key' = [key EXCEPT ![KeyOf(r)] = o]
      BY <1>2, <2>1, CommitFacts
    <3>2. \A t \in Types : Contract!Quantity(CartOf(r), t) = request[r].taken[t]
      BY <3>1, QuantityIsUnits
    <3>3. \A t \in Types : request[r].taken[t] <= remaining[t]
      <4>1. TypeOK /\ LocksOK
        BY <1>2 DEF IInv
      <4> QED BY <4>1 DEF TypeOK, RequestStates, LocksOK
    <3>4. remaining' = [t \in Types |-> remaining[t] - Contract!Quantity(CartOf(r), t)]
      BY <2>1, <3>2 DEF ReserveCommit
    <3>5. Contract!Reserve(KeyOf(r), o, CartOf(r))
      BY <3>1, <3>2, <3>3, <3>4 DEF Contract!Reserve, Contract!InStock
    <3> QED BY <3>1, <3>5 DEF Contract!SalesNext
  <2>2. ASSUME NEW r \in Requests,
               ReserveReplay(r) \/ ReserveReceive(r) \/ ReserveTake(r) \/ ReserveRefuse(r)
               \/ ReserveInsertKey(r) \/ ReserveRace(r) \/ ReserveWinner(r) \/ Fail(r)
        PROVE  UNCHANGED rows
    BY <2>2 DEF ReserveReplay, ReserveReceive, ReserveTake, ReserveRefuse, ReserveInsertKey,
                ReserveRace, ReserveWinner, Fail, Rollback
  <2>3. ASSUME NEW o \in Orders, OrderPaid(o) \/ OrderExpired(o) PROVE Contract!SalesNext
    BY <2>3 DEF OrderPaid, OrderExpired, Contract!SalesNext, Contract!Pay, Contract!Expire,
                Contract!Settle
  <2>4. CASE UNCHANGED vars
    BY <2>4 DEF vars, rows
  <2> QED BY <1>2, <2>1, <2>2, <2>3, <2>4 DEF Next, ReserveStep, rows
<1> QED BY <1>1, <1>2, InvariantHolds, PTL DEF Spec, KeepsSales, Contract!SalesSpec

\* Who holds the ticket type that another request waits for, and waits itself, waits
\* for one of a higher rank: a ring would have a highest.
LEMMA WaitsClimb ==
    ASSUME IInv, NEW p \in Requests, NEW q \in Requests, NEW o \in Requests,
           WaitsFor(p, q), WaitsFor(q, o), At(o, "taking")
    PROVE  /\ Wanted(p).type \in Types /\ Wanted(q).type \in Types
           /\ Rank[Wanted(p).type] < Rank[Wanted(q).type]
<1>1. /\ At(q, "taking") /\ request[q].todo # {} /\ lock[Wanted(q).type] = o /\ o # q
      /\ At(p, "taking") /\ request[p].todo # {} /\ lock[Wanted(p).type] = q
  BY DEF WaitsFor, At
<1>2. ASSUME NEW x \in Requests, At(x, "taking"), request[x].todo # {}
      PROVE  /\ CartOf(x) \in Carts /\ NextLine(x) \in DOMAIN CartOf(x)
             /\ NextLine(x) \in request[x].todo
             /\ Wanted(x) = CartOf(x)[NextLine(x)] /\ Wanted(x).type \in Types
  <2>1. NextLine(x) \in request[x].todo
    BY <1>2, NextLineFacts
  <2>2. CartOf(x) \in Carts /\ request[x].todo \subseteq DOMAIN CartOf(x)
    BY <1>2 DEF IInv, RequestOK, Busy
  <2> QED BY <2>1, <2>2, CartFacts DEF Wanted
<1>3. PICK i \in DOMAIN CartOf(q) \ request[q].todo : CartOf(q)[i].type = Wanted(p).type
  BY <1>1, <1>2 DEF IInv, LocksOK
<1>4. Precedes(CartOf(q), i, NextLine(q))
  BY <1>1, <1>2, <1>3 DEF IInv, RequestOK, Busy
<1>5. Wanted(p).type # Wanted(q).type
  BY <1>1
<1> QED BY <1>1, <1>2, <1>3, <1>4, <1>5 DEF Precedes

\* Locks taken in one order of the ticket types, and keys inserted after them, leave
\* no ring of waiting requests, however many there are (server.ts:601).
THEOREM DeadlockFree == Spec => []NoDeadlock
<1>1. IInv => NoDeadlock
  <2> SUFFICES ASSUME IInv, NEW S \in (SUBSET Requests) \ {{}},
                      \A p \in S : \E q \in S : WaitsFor(p, q)
               PROVE  FALSE
    BY DEF NoDeadlock
  <2> DEFINE W == {Wanted(p).type : p \in S}
             R == {u \in Types \X Types : Rank[u[1]] >= Rank[u[2]]}
  <2>1. \A p \in S : p \in Requests /\ At(p, "taking")
    BY DEF WaitsFor
  <2>2. ASSUME NEW p \in S PROVE
          /\ Wanted(p).type \in Types
          /\ \E q \in S : Rank[Wanted(p).type] < Rank[Wanted(q).type]
    <3>1. PICK q \in S : WaitsFor(p, q)
      OBVIOUS
    <3>2. PICK o \in S : WaitsFor(q, o)
      OBVIOUS
    <3> QED BY <2>1, <3>1, <3>2, WaitsClimb
  <2>3. W \subseteq Types /\ W # {}
    BY <2>2
  <2>4. IsFiniteSet(W)
    BY <2>3, InventoryAssumption, FS_Subset
  <2>5. \A s, t \in Types : <<s, t>> \in R <=> Rank[s] >= Rank[t]
    OBVIOUS
  <2>6. \A t \in Types : Rank[t] \in Nat
    BY InventoryAssumption
  <2>7. PICK s \in W : \A t \in W : <<s, t>> \in R
    <3> HIDE DEF W, R
    <3>1. \A x, y \in W : <<x, y>> \in R \/ <<y, x>> \in R
      <4> TAKE x, y \in W
      <4>1. x \in Types /\ y \in Types /\ Rank[x] \in Nat /\ Rank[y] \in Nat
        BY <2>3, <2>6
      <4> QED BY <4>1, <2>5
    <3>2. \A x, y, z \in W : <<x, y>> \in R /\ <<y, z>> \in R => <<x, z>> \in R
      BY <2>3, <2>5, <2>6
    <3> QED BY <2>3, <2>4, <3>1, <3>2, First
  <2>8. PICK p \in S : s = Wanted(p).type
    OBVIOUS
  <2>9. PICK q \in S : Rank[s] < Rank[Wanted(q).type]
    BY <2>2, <2>8
  <2>10. <<s, Wanted(q).type>> \in R
    BY <2>7
  <2>11. /\ s \in Types /\ Wanted(q).type \in Types
         /\ Rank[s] \in Nat /\ Rank[Wanted(q).type] \in Nat
    BY <2>3, <2>2, <2>6
  <2>12. Rank[s] >= Rank[Wanted(q).type]
    BY <2>5, <2>10, <2>11
  <2> QED BY <2>9, <2>11, <2>12
<1> QED BY <1>1, InvariantHolds, PTL
===============================================================================
