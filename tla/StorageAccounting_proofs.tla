---------------------- MODULE StorageAccounting_proofs ----------------------
(***************************************************************************)
(* What the page may offer and what the primary may grant, for any stores, *)
(* entries of the configuration, customers and bounds.                     *)
(*                                                                         *)
(* The sums are folds.  The first part shows that a sum counts the pairs   *)
(* of an element and one of its units, so that sums are compared by        *)
(* comparing finite sets.  There is no induction over operators in it:     *)
(* a subset for which a sum is wrong would have a smallest one below it.   *)
(***************************************************************************)
EXTENDS StorageAccounting, FiniteSetTheorems, TLAPS

-----------------------------------------------------------------------------
(* Sums.                                                                   *)

\* Every set of subsets of a finite set has one that is minimal.
LEMMA SmallestSubset ==
  ASSUME NEW S, IsFiniteSet(S), NEW B, B \subseteq SUBSET S, B # {}
  PROVE  \E T \in B : \A U \in B : U \subseteq T => U = T
<1> DEFINE F == FiniteSubsetsOf(S)
<1>1. B \subseteq F
  BY FS_Subset DEF FiniteSubsetsOf
<1>2. IsWellFoundedOn(StrictSubsetOrdering(S), F)
  BY FS_StrictSubsetOrderingWellFounded
<1> HIDE DEF F
<1>3. \E T \in B : \A U \in B : ~(<<U, T>> \in StrictSubsetOrdering(S))
  BY <1>1, <1>2, WFMin
<1>4. QED  BY <1>3 DEF StrictSubsetOrdering

NatOn(f, S) == \A s \in S : f[s] \in Nat

\* The units that are summed up.
Units(f, S) == {p \in S \X Nat : 1 <= p[2] /\ p[2] <= f[p[1]]}

LEMMA UnitsOfOneMore ==
  ASSUME NEW f, NEW S, NatOn(f, S), NEW x \in S, IsFiniteSet(Units(f, S \ {x}))
  PROVE  /\ IsFiniteSet(Units(f, S))
         /\ Cardinality(Units(f, S)) = f[x] + Cardinality(Units(f, S \ {x}))
<1> DEFINE R == Units(f, S \ {x})
           X == {x} \X (1..f[x])
<1>1. f[x] \in Nat
  BY DEF NatOn
<1>2. IsFiniteSet(1..f[x]) /\ Cardinality(1..f[x]) = f[x]
  BY <1>1, FS_Interval
<1>3. IsFiniteSet(X) /\ Cardinality(X) = f[x]
  <2>1. IsFiniteSet({x}) /\ Cardinality({x}) = 1
    BY FS_Singleton
  <2>2. IsFiniteSet(X) /\ Cardinality(X) = 1 * Cardinality(1..f[x])
    BY <1>2, <2>1, FS_Product
  <2>3. QED  BY <1>1, <1>2, <2>2
<1>4. Units(f, S) = R \cup X /\ R \cap X = {}
  BY <1>1 DEF Units
<1> HIDE DEF R, X
<1>5. IsFiniteSet(R) /\ Cardinality(R) \in Nat
  BY FS_CardinalityType DEF R
<1>6. /\ IsFiniteSet(R \cup X)
      /\ Cardinality(R \cup X) = Cardinality(R) + Cardinality(X) - Cardinality(R \cap X)
  BY <1>3, <1>5, FS_Union
<1>7. Cardinality(R \cap X) = 0
  BY <1>4, FS_EmptySet
<1>8. Cardinality(R \cup X) = f[x] + Cardinality(R)
  BY <1>1, <1>3, <1>5, <1>6, <1>7
<1>9. QED  BY <1>4, <1>6, <1>8 DEF R

LEMMA UnitsFinite ==
  ASSUME NEW f, NEW S, IsFiniteSet(S), NatOn(f, S)
  PROVE  \A T \in SUBSET S : IsFiniteSet(Units(f, T))
<1> DEFINE B == {T \in SUBSET S : ~IsFiniteSet(Units(f, T))}
<1>0. B \subseteq SUBSET S
  OBVIOUS
<1>1. SUFFICES ASSUME B # {}  PROVE FALSE
  OBVIOUS
<1> HIDE DEF B
<1>2. PICK T \in B : \A U \in B : U \subseteq T => U = T
  BY <1>0, <1>1, SmallestSubset
<1>3. T # {}
  <2>1. Units(f, {}) = {}
    BY DEF Units
  <2>2. QED  BY <2>1, FS_EmptySet DEF B
<1>4. PICK x \in T : TRUE
  BY <1>3
<1>5. IsFiniteSet(Units(f, T \ {x}))
  BY <1>0, <1>2 DEF B
<1>6. NatOn(f, T) /\ ~IsFiniteSet(Units(f, T))
  BY <1>0 DEF NatOn, B
<1>7. QED  BY <1>5, <1>6, UnitsOfOneMore

\* What MapThenSumSet chooses: a function that adds one element after the other.
Adds(it, f, S) ==
  it = [T \in SUBSET S |->
          IF T = {} THEN 0
          ELSE f[CHOOSE x \in T : TRUE] + it[T \ {CHOOSE x \in T : TRUE}]]

LEMMA TotalIsCount ==
  ASSUME NEW f, NEW S, IsFiniteSet(S), NatOn(f, S)
  PROVE  Total(f, S) = Cardinality(Units(f, S))
<1> DEFINE count == [T \in SUBSET S |-> Cardinality(Units(f, T))]
           some(T) == CHOOSE x \in T : TRUE
           it == CHOOSE g : Adds(g, f, S)
<1>1. \A T \in SUBSET S : T # {} =>
        Cardinality(Units(f, T)) = f[some(T)] + Cardinality(Units(f, T \ {some(T)}))
  <2> TAKE T \in SUBSET S
  <2> HAVE T # {}
  <2> DEFINE y == some(T)
  <2>1. y \in T
    OBVIOUS
  <2> HIDE DEF y
  <2>2. NatOn(f, T) /\ IsFiniteSet(Units(f, T \ {y}))
    BY UnitsFinite DEF NatOn
  <2>3. Cardinality(Units(f, T)) = f[y] + Cardinality(Units(f, T \ {y}))
    BY <2>1, <2>2, UnitsOfOneMore
  <2>4. QED  BY <2>3 DEF y
<1>2. Cardinality(Units(f, {})) = 0
  <2>1. Units(f, {}) = {}
    BY DEF Units
  <2>2. QED  BY <2>1, FS_EmptySet
<1>3. Adds(count, f, S)
  BY <1>1, <1>2 DEF Adds
<1>4. Adds(it, f, S)
  <2> HIDE DEF count
  <2>1. QED  BY <1>3
<1>5. Total(f, S) = it[S]
  BY DEF Total, MapThenSumSet, MapThenFoldSet, Adds
<1> DEFINE B == {T \in SUBSET S : it[T] # Cardinality(Units(f, T))}
<1>6. SUFFICES ASSUME B # {}  PROVE FALSE
  BY <1>5
<1>0. B \subseteq SUBSET S
  OBVIOUS
<1> HIDE DEF it, B
<1>7. PICK T \in B : \A U \in B : U \subseteq T => U = T
  BY <1>0, <1>6, SmallestSubset
<1>8. T # {}
  BY <1>2, <1>4 DEF Adds, B
<1>9. some(T) \in T /\ T \ {some(T)} \in SUBSET S /\ T \ {some(T)} \notin B
  BY <1>0, <1>7, <1>8
<1>10. it[T] = f[some(T)] + it[T \ {some(T)}]
  BY <1>0, <1>4, <1>8 DEF Adds
<1>11. it[T \ {some(T)}] = Cardinality(Units(f, T \ {some(T)}))
  BY <1>9 DEF B
<1>12. it[T] = Cardinality(Units(f, T))
  BY <1>0, <1>1, <1>8, <1>10, <1>11
<1>13. QED  BY <1>12 DEF B

LEMMA TotalType ==
  ASSUME NEW f, NEW S, IsFiniteSet(S), NatOn(f, S)
  PROVE  Total(f, S) \in Nat
BY TotalIsCount, UnitsFinite, FS_CardinalityType

LEMMA TotalWithout ==
  ASSUME NEW f, NEW S, IsFiniteSet(S), NatOn(f, S), NEW x \in S
  PROVE  Total(f, S) = f[x] + Total(f, S \ {x})
<1>1. IsFiniteSet(S \ {x}) /\ NatOn(f, S \ {x})
  BY FS_Subset DEF NatOn
<1>2. IsFiniteSet(Units(f, S \ {x}))
  BY UnitsFinite
<1>3. QED  BY <1>1, <1>2, TotalIsCount, UnitsOfOneMore

LEMMA TotalSame ==
  ASSUME NEW f, NEW g, NEW S, IsFiniteSet(S), NatOn(f, S), \A s \in S : f[s] = g[s]
  PROVE  Total(f, S) = Total(g, S)
<1>1. NatOn(g, S) /\ Units(f, S) = Units(g, S)
  BY DEF NatOn, Units
<1>2. QED  BY <1>1, TotalIsCount

\* Summing over other names, each used once, for at least as much.
LEMMA TotalInto ==
  ASSUME NEW f, NEW S, IsFiniteSet(S), NatOn(f, S),
         NEW g, NEW T, IsFiniteSet(T), NatOn(g, T),
         NEW h, \A s \in S : h[s] \in T /\ f[s] <= g[h[s]],
         \A s, t \in S : h[s] = h[t] => s = t
  PROVE  Total(f, S) <= Total(g, T)
<1> DEFINE U == Units(f, S)
           V == Units(g, T)
           m == [p \in U |-> <<h[p[1]], p[2]>>]
<1>1. \A p \in U : m[p] \in V
  BY DEF Units, NatOn
<1>2. \A p, q \in U : m[p] = m[q] => p = q
  BY DEF Units
<1>3. m = [p \in U |-> m[p]]
  OBVIOUS
<1>4. IsFiniteSet(U) /\ IsFiniteSet(V)
  BY UnitsFinite
<1> HIDE DEF U, V, m
<1>5. Cardinality(U) <= Cardinality(V)
  <2>1. m \in Injection(U, V)
    BY <1>1, <1>2, <1>3 DEF Injection, IsInjective
  <2>2. QED  BY <1>4, <2>1, FS_Injection
<1>6. QED  BY <1>5, TotalIsCount DEF U, V

LEMMA TotalPlus ==
  ASSUME NEW f, NEW g, NEW h, NEW S, IsFiniteSet(S), NatOn(f, S), NatOn(g, S),
         \A s \in S : h[s] = f[s] + g[s]
  PROVE  Total(h, S) = Total(f, S) + Total(g, S)
<1> DEFINE B == {T \in SUBSET S : Total(h, T) # Total(f, T) + Total(g, T)}
<1>0. B \subseteq SUBSET S
  OBVIOUS
<1>1. SUFFICES ASSUME B # {}  PROVE FALSE
  OBVIOUS
<1> HIDE DEF B
<1>2. PICK T \in B : \A U \in B : U \subseteq T => U = T
  BY <1>0, <1>1, SmallestSubset
<1>3. IsFiniteSet(T) /\ NatOn(f, T) /\ NatOn(g, T) /\ NatOn(h, T)
  BY <1>0, FS_Subset DEF NatOn
<1>4. T # {}
  <2>1. \A k : Units(k, {}) = {}
    BY DEF Units
  <2>2. \A k : Total(k, {}) = 0
    BY <2>1, FS_EmptySet, TotalIsCount DEF NatOn
  <2>3. QED  BY <2>2 DEF B
<1>5. PICK x \in T : TRUE
  BY <1>4
<1> DEFINE R == T \ {x}
<1>6. /\ R \in SUBSET S /\ R \notin B
      /\ IsFiniteSet(R) /\ NatOn(f, R) /\ NatOn(g, R)
  BY <1>0, <1>2, <1>3, FS_Subset DEF NatOn
<1>7. /\ Total(f, T) = f[x] + Total(f, R) /\ Total(g, T) = g[x] + Total(g, R)
      /\ Total(h, T) = h[x] + Total(h, R)
  BY <1>3, TotalWithout
<1>8. Total(f, R) \in Nat /\ Total(g, R) \in Nat
  BY <1>6, TotalType
<1>9. Total(h, T) = Total(f, T) + Total(g, T)
  BY <1>0, <1>3, <1>6, <1>7, <1>8 DEF NatOn, B
<1>10. QED  BY <1>9 DEF B

LEMMA TotalChange ==
  ASSUME NEW S, IsFiniteSet(S), NEW f \in [S -> Nat], NEW x \in S, NEW n \in Nat
  PROVE  Total([f EXCEPT ![x] = n], S) + f[x] = Total(f, S) + n
<1> DEFINE g == [f EXCEPT ![x] = n]
           R == S \ {x}
<1>1. NatOn(f, S) /\ NatOn(g, S) /\ g[x] = n /\ \A s \in R : g[s] = f[s]
  BY DEF NatOn
<1>2. IsFiniteSet(R) /\ NatOn(f, R)
  BY <1>1, FS_Subset DEF NatOn
<1> HIDE DEF g, R
<1>3. Total(f, S) = f[x] + Total(f, R) /\ Total(g, S) = g[x] + Total(g, R)
  BY <1>1, TotalWithout DEF R
<1>4. Total(f, R) = Total(g, R) /\ Total(f, R) \in Nat
  BY <1>1, <1>2, TotalSame, TotalType
<1>5. QED  BY <1>1, <1>3, <1>4 DEF g

-----------------------------------------------------------------------------
(* The invariant.                                                          *)

Answered(k) == answers[k] # None /\ answers[k] # Failed

\* What would be free if nothing had been stored since the round began.
Room(s) == Capacity[s] - used[s] + stored[s]

\* An answer tells of no more than there would be, and a primary's of no more than
\* was not promised at some moment of the round.
IsTold(k) ==
  LET x == answers[k] IN
  /\ x.store \in Store /\ x.role \in Role[x.store] /\ x.total = Capacity[x.store]
  /\ x.used \in Nat /\ x.total - x.used <= Room(x.store)
  /\ x.reserved \in Nat /\ x.sold \in Nat
  /\ x.store = Primary /\ x.role = "primary" =>
       Total(Capacity, Committable) - x.reserved - x.sold <= unpromised

RoundInv ==
  /\ stored \in [Store -> Nat] /\ unpromised \in Int
  /\ Running =>
       /\ DOMAIN answers = Entry
       /\ Uncommitted <= unpromised
       /\ \A k \in Entry : Answered(k) => IsTold(k)

\* What was checked still fits when it is saved.
GrantFits ==
  granting # None /\ granting.checked =>
    registry + Total(grants, Customer) + granting.gb <= Capacity[Primary]

SalesInv == TypeOK /\ RoundInv /\ GrantFits /\ DisplayAgrees

-----------------------------------------------------------------------------
(* Constants, the larger and the smaller of two.                           *)

LEMMA StoresFinite ==
  /\ Committable \subseteq Store /\ IsFiniteSet(Committable)
  /\ IsFiniteSet(Customer) /\ IsFiniteSet(Entry)
  /\ NatOn(Capacity, Committable) /\ Capacity[Primary] \in Nat
<1>1. Committable \subseteq Store /\ IsFiniteSet(Store) /\ IsFiniteSet(Customer)
  BY StoreAssumption DEF Committable
<1>2. Len(Entries) \in Nat /\ Entry = 1..Len(Entries)
  BY EntryAssumption DEF Entry
<1>3. IsFiniteSet(Entry)
  BY <1>2, FS_Interval
<1>4. QED  BY <1>1, <1>3, StoreAssumption, FS_Subset DEF NatOn

LEMMA EntryStore ==
  ASSUME NEW k \in Entry
  PROVE  Entries[k].store \in Store /\ Capacity[Entries[k].store] \in Nat
<1>1. Entries[k] \in EntryType
  <2>1. Entries \in Seq(EntryType)
    BY EntryAssumption
  <2>2. Len(Entries) \in Nat /\ k \in 1..Len(Entries)
    BY <2>1 DEF Entry
  <2>3. QED  BY <2>1, <2>2
<1>2. Entries[k].store \in Store
  BY <1>1 DEF EntryType
<1>3. QED  BY <1>2, StoreAssumption

LEMMA MaxOfTwo ==
  ASSUME NEW a \in Int, NEW b \in Int
  PROVE  /\ Max({a, b}) \in {a, b}
         /\ Max({a, b}) >= a /\ Max({a, b}) >= b
<1>1. \E x \in {a, b} : \A y \in {a, b} : x >= y
  <2>1. CASE a >= b  BY <2>1
  <2>2. CASE b >= a  BY <2>2
  <2>3. QED  BY <2>1, <2>2
<1>2. QED  BY <1>1 DEF Max

LEMMA MinOfTwo ==
  ASSUME NEW a \in Int, NEW b \in Int
  PROVE  /\ Min({a, b}) \in {a, b}
         /\ Min({a, b}) <= a /\ Min({a, b}) <= b
<1>1. \E x \in {a, b} : \A y \in {a, b} : x <= y
  <2>1. CASE a <= b  BY <2>1
  <2>2. CASE b <= a  BY <2>2
  <2>3. QED  BY <2>1, <2>2
<1>2. QED  BY <1>1 DEF Min

LEMMA GrantsType ==
  ASSUME NEW g \in [Customer -> 0..MaxQuota]
  PROVE  /\ NatOn(g, Customer) /\ g \in [Customer -> Nat]
         /\ Total(g, Customer) \in Nat
<1>1. NatOn(g, Customer) /\ g \in [Customer -> Nat]
  BY BoundAssumption DEF NatOn
<1>2. QED  BY <1>1, StoresFinite, TotalType

-----------------------------------------------------------------------------
(* What a round looks back at.                                             *)

LEMMA RoomType ==
  ASSUME TypeOK, stored \in [Store -> Nat], NEW s \in Store
  PROVE  Room(s) \in Int /\ Capacity[s] \in Nat /\ used[s] \in Nat /\ stored[s] \in Nat
BY StoreAssumption DEF Room, TypeOK

LEMMA UncommittedType ==
  ASSUME TypeOK
  PROVE  Uncommitted \in Int /\ Total(Capacity, Committable) \in Nat
<1>1. Total(Capacity, Committable) \in Nat /\ Total(grants, Customer) \in Nat
  BY StoresFinite, TotalType, GrantsType DEF TypeOK
<1>2. QED  BY <1>1, BoundAssumption DEF Uncommitted, TypeOK

\* As what would be free and what was not promised grow, what was told stays backed.
LEMMA ToldStays ==
  ASSUME TypeOK, TypeOK', RoundInv, Running,
         stored' \in [Store -> Nat], unpromised' \in Int,
         \A s \in Store : Room(s) <= Room(s)', unpromised <= unpromised',
         NEW k \in Entry, Answered(k), answers'[k] = answers[k]
  PROVE  IsTold(k)'
<1>1. IsTold(k)
  BY DEF RoundInv
<1>2. /\ answers[k].store \in Store /\ answers[k].total \in Nat /\ answers[k].used \in Nat
      /\ answers[k].reserved \in Nat /\ answers[k].sold \in Nat
  BY <1>1, StoreAssumption DEF IsTold
<1>3. Room(answers[k].store) \in Int /\ Room(answers[k].store)' \in Int
  <2>1. Room(answers[k].store) \in Int
    BY <1>2, RoomType DEF RoundInv
  <2>2. \A s \in Store : Room(s)' \in Int
    BY StoreAssumption DEF Room, TypeOK
  <2>3. QED  BY <1>2, <2>1, <2>2
<1>4. answers[k].total - answers[k].used <= Room(answers[k].store)'
  <2>1. answers[k].total - answers[k].used <= Room(answers[k].store)
    BY <1>1 DEF IsTold
  <2>2. Room(answers[k].store) <= Room(answers[k].store)'
    BY <1>2
  <2>3. QED  BY <1>2, <1>3, <2>1, <2>2
<1>5. answers[k].store = Primary /\ answers[k].role = "primary" =>
        Total(Capacity, Committable) - answers[k].reserved - answers[k].sold <= unpromised'
  <2>1. Total(Capacity, Committable) \in Nat /\ unpromised \in Int
    BY UncommittedType DEF RoundInv
  <2>2. answers[k].store = Primary /\ answers[k].role = "primary" =>
          Total(Capacity, Committable) - answers[k].reserved - answers[k].sold <= unpromised
    BY <1>1 DEF IsTold
  <2>3. QED  BY <1>2, <2>1, <2>2
<1>6. QED  BY <1>1, <1>4, <1>5 DEF IsTold, Room

LEMMA LookStays ==
  ASSUME TypeOK, TypeOK', RoundInv, UNCHANGED answers, Look
  PROVE  RoundInv'
<1>1. CASE ~Running
  BY <1>1 DEF RoundInv, Running, Look, roundVars
<1>2. CASE Running
  <2>1. /\ stored' = [s \in Store |-> stored[s] + Max({0, used'[s] - used[s]})]
        /\ unpromised' = Max({unpromised, (Uncommitted)'})
    BY <1>2 DEF Look
  <2>2. (Uncommitted)' \in Int
    <3>1. Total(Capacity, Committable) \in Nat /\ Total(grants', Customer) \in Nat
      BY StoresFinite, TotalType, GrantsType DEF TypeOK
    <3>2. QED  BY <3>1, BoundAssumption DEF Uncommitted, TypeOK
  <2>3. unpromised' \in Int /\ unpromised <= unpromised' /\ (Uncommitted)' <= unpromised'
    BY <2>1, <2>2, MaxOfTwo DEF RoundInv
  <2>4. ASSUME NEW s \in Store
        PROVE  stored'[s] \in Nat /\ Room(s) <= Room(s)'
    <3> DEFINE more == Max({0, used'[s] - used[s]})
    <3>1. Room(s) \in Int /\ Capacity[s] \in Nat /\ used[s] \in Nat /\ stored[s] \in Nat
          /\ used'[s] \in Nat
      BY RoomType DEF RoundInv, TypeOK
    <3>2. more \in {0, used'[s] - used[s]} /\ more >= 0 /\ more >= used'[s] - used[s]
      <4>1. 0 \in Int /\ used'[s] - used[s] \in Int
        BY <3>1
      <4>2. QED  BY ONLY <4>1, MaxOfTwo
    <3>3. stored'[s] = stored[s] + more
      BY <2>1
    <3> HIDE DEF more
    <3>4. QED  BY <3>1, <3>2, <3>3 DEF Room
  <2>5. stored' \in [Store -> Nat]
    BY <2>1, <2>4
  <2>6. ASSUME NEW k \in Entry, Answered(k)'  PROVE IsTold(k)'
    BY <1>2, <2>3, <2>4, <2>5, <2>6, ToldStays DEF Answered
  <2>7. DOMAIN answers' = Entry
    BY <1>2 DEF RoundInv
  <2>8. QED  BY <2>3, <2>5, <2>6, <2>7 DEF RoundInv, Entry
<1>3. QED  BY <1>1, <1>2

-----------------------------------------------------------------------------
(* The stores and the file service.                                        *)

LEMMA InitSales == Init => SalesInv
<1> SUFFICES ASSUME Init  PROVE SalesInv
  OBVIOUS
<1>1. TypeOK
  <2>1. used \in Usage
    BY DEF Init
  <2>2. used \in [Store -> Nat] /\ \A s \in Store : used[s] <= MaxUsed[s]
    <3> DEFINE most == Max({MaxUsed[s] : s \in Store} \cup {0})
    <3>1. used \in [Store -> 0..most]
      BY <2>1 DEF Usage
    <3> HIDE DEF most
    <3>2. used \in [Store -> Nat]
      BY <3>1
    <3>3. QED  BY <2>1, <3>2 DEF Usage
  <2>3. QED  BY <2>2, BoundAssumption DEF Init, TypeOK, Running
<1>2. RoundInv /\ GrantFits /\ DisplayAgrees
  BY DEF Init, RoundInv, Running, GrantFits, DisplayAgrees
<1>3. QED  BY <1>1, <1>2 DEF SalesInv

LEMMA WriteSales ==
  ASSUME SalesInv, NEW s \in Store, Write(s)
  PROVE  SalesInv'
<1>1. TypeOK'
  BY BoundAssumption DEF SalesInv, TypeOK, Write, Change, Running, networkVars
<1>2. RoundInv'
  BY <1>1, LookStays DEF SalesInv, Write, networkVars
<1>3. GrantFits' /\ DisplayAgrees'
  BY DEF SalesInv, GrantFits, DisplayAgrees, Write, networkVars, Entry
<1>4. QED  BY <1>1, <1>2, <1>3 DEF SalesInv

LEMMA UpdateListSales ==
  ASSUME SalesInv, UpdateList
  PROVE  SalesInv'
<1>1. TypeOK'
  BY BoundAssumption DEF SalesInv, TypeOK, UpdateList, Change, Running, networkVars
<1>2. RoundInv'
  BY <1>1, LookStays DEF SalesInv, UpdateList, networkVars
<1>3. GrantFits' /\ DisplayAgrees'
  BY DEF SalesInv, GrantFits, DisplayAgrees, UpdateList, networkVars, Entry
<1>4. QED  BY <1>1, <1>2, <1>3 DEF SalesInv

LEMMA GrantCheckSales ==
  ASSUME SalesInv, NEW c \in Customer, NEW gb \in 1..MaxQuota, GrantCheck(c, gb)
  PROVE  SalesInv'
<1>1. PICK checked \in BOOLEAN :
        /\ checked => gb <= Surplus(registry')
        /\ granting' = [customer |-> c, gb |-> gb, checked |-> checked]
        /\ ChangeIf(registry' # listed \/ ~checked)
  BY DEF GrantCheck
<1>2. /\ registry' \in {listed, 0, registry}
      /\ UNCHANGED <<used, listed, grants, answers, cache, stored, unpromised>>
  BY DEF GrantCheck, Reload, networkVars, roundVars
<1>3. changes' \in 0..MaxChanges
  BY <1>1, BoundAssumption DEF SalesInv, TypeOK, ChangeIf, Change
<1>4. TypeOK'
  <2>1. granting' \in [customer : Customer, gb : 1..MaxQuota, checked : BOOLEAN]
    BY <1>1
  <2>2. registry' \in 0..MaxQuota
    BY <1>2, BoundAssumption DEF SalesInv, TypeOK
  <2>3. QED  BY <1>2, <1>3, <2>1, <2>2 DEF SalesInv, TypeOK, Running, Entry
<1>5. RoundInv'
  <2>1. (Uncommitted)' = Uncommitted
    BY <1>2 DEF Uncommitted
  <2>2. QED
    BY <1>2, <2>1 DEF SalesInv, RoundInv, Running, Answered, IsTold, Room, Entry
<1>6. GrantFits'
  <2>1. /\ registry' \in Nat /\ Total(grants, Customer) \in Nat /\ Capacity[Primary] \in Nat
        /\ gb \in Nat
    BY <1>4, BoundAssumption, GrantsType, StoresFinite DEF SalesInv, TypeOK
  <2>2. checked => registry' + Total(grants, Customer) + gb <= Capacity[Primary]
    BY <1>1, <2>1 DEF Surplus
  <2>3. QED  BY <1>1, <1>2, <2>2 DEF GrantFits
<1>7. DisplayAgrees'
  BY <1>2 DEF SalesInv, DisplayAgrees, Entry
<1>8. QED  BY <1>4, <1>5, <1>6, <1>7 DEF SalesInv

LEMMA GrantSaveSales ==
  ASSUME SalesInv, GrantSave
  PROVE  SalesInv'
<1>1. TypeOK'
  BY BoundAssumption DEF SalesInv, TypeOK, GrantSave, Running, networkVars
<1>2. RoundInv'
  BY <1>1, LookStays DEF SalesInv, GrantSave, networkVars
<1>3. GrantFits' /\ DisplayAgrees'
  BY DEF SalesInv, GrantFits, DisplayAgrees, GrantSave, networkVars, Entry
<1>4. QED  BY <1>1, <1>2, <1>3 DEF SalesInv

LEMMA RevokeSales ==
  ASSUME SalesInv, NEW c \in Customer, Revoke(c)
  PROVE  SalesInv'
<1>1. TypeOK'
  BY BoundAssumption DEF SalesInv, TypeOK, Revoke, Running, networkVars
<1>2. RoundInv'
  BY <1>1, LookStays DEF SalesInv, Revoke, networkVars
<1>3. GrantFits' /\ DisplayAgrees'
  BY DEF SalesInv, GrantFits, DisplayAgrees, Revoke, networkVars, Entry
<1>4. QED  BY <1>1, <1>2, <1>3 DEF SalesInv

-----------------------------------------------------------------------------
(* The answers of a round.                                                 *)

\* What an entry gets is a failure, or tells of no more than there was.
LEMMA AnswerStays ==
  ASSUME SalesInv, TypeOK', Running, NEW k \in Entry, NEW v,
         answers' = [answers EXCEPT ![k] = v],
         UNCHANGED <<used, listed, grants>>,
         stored' \in [Store -> Nat], unpromised' \in Int, unpromised <= unpromised',
         \A s \in Store : stored[s] <= stored'[s],
         Answered(k)' => IsTold(k)'
  PROVE  RoundInv'
<1>1. /\ DOMAIN answers = Entry /\ DOMAIN answers' = Entry
      /\ \A j \in Entry \ {k} : answers'[j] = answers[j]
  BY DEF SalesInv, RoundInv
<1>2. (Uncommitted)' <= unpromised'
  <2>1. (Uncommitted)' = Uncommitted
    BY DEF Uncommitted
  <2>2. Uncommitted \in Int /\ unpromised \in Int /\ Uncommitted <= unpromised
    BY UncommittedType DEF SalesInv, RoundInv
  <2>3. QED  BY <2>1, <2>2
<1>3. \A s \in Store : Room(s) <= Room(s)'
  <2> TAKE s \in Store
  <2>1. Capacity[s] \in Nat /\ used[s] \in Nat /\ stored[s] \in Nat /\ stored'[s] \in Nat
    BY RoomType DEF SalesInv, RoundInv
  <2>2. QED  BY <2>1 DEF Room
<1>4. ASSUME NEW j \in Entry \ {k}, Answered(j)'  PROVE IsTold(j)'
  BY <1>1, <1>3, <1>4, ToldStays DEF Answered, SalesInv
<1>5. \A j \in Entry : Answered(j)' => IsTold(j)'
  BY <1>4
<1>6. QED  BY <1>1, <1>2, <1>5 DEF RoundInv, Entry

\* Any number a primary may tell of its quotas.
LEMMA QuotasType ==
  ASSUME SalesInv, NEW s \in Store, NEW role, NEW quotas \in Quotas(s, role)
  PROVE  quotas \in 0..MaxQuota
BY BoundAssumption DEF Quotas, Reload, SalesInv, TypeOK

LEMMA FetchSales ==
  ASSUME SalesInv, NEW k \in Entry, Fetch(k)
  PROVE  SalesInv'
<1> DEFINE s == Entries[k].store
           accounts(role) == s = Primary /\ role = "primary"
           x(role, inUse, quotas) == Summary(s, role, inUse, quotas)
<1>1. s \in Store /\ Capacity[s] \in Nat /\ used[s] \in Nat /\ stored[s] \in Nat
  BY EntryStore, RoomType DEF SalesInv, RoundInv
<1>2. PICK role \in Role[s], inUse \in {used[s], 0} : \E quotas \in Quotas(s, role) :
        /\ answers' = [answers EXCEPT ![k] =
              IF Valid(x(role, inUse, quotas)) /\ Expected(Entries[k], x(role, inUse, quotas))
              THEN x(role, inUse, quotas) ELSE Failed]
        /\ registry' = IF accounts(role) THEN quotas ELSE registry
        /\ stored' = [stored EXCEPT ![s] = @ + used[s] - inUse]
        /\ unpromised' = IF accounts(role)
                         THEN Max({unpromised, Uncommitted + listed - quotas})
                         ELSE unpromised
        /\ ChangeIf(inUse # used[s] \/ (accounts(role) /\ quotas # listed))
  BY DEF Fetch
<1>3. PICK quotas \in Quotas(s, role) :
        /\ answers' = [answers EXCEPT ![k] =
              IF Valid(x(role, inUse, quotas)) /\ Expected(Entries[k], x(role, inUse, quotas))
              THEN x(role, inUse, quotas) ELSE Failed]
        /\ registry' = IF accounts(role) THEN quotas ELSE registry
        /\ stored' = [stored EXCEPT ![s] = @ + used[s] - inUse]
        /\ unpromised' = IF accounts(role)
                         THEN Max({unpromised, Uncommitted + listed - quotas})
                         ELSE unpromised
        /\ ChangeIf(inUse # used[s] \/ (accounts(role) /\ quotas # listed))
  BY <1>2
<1> DEFINE y == x(role, inUse, quotas)
           v == IF Valid(y) /\ Expected(Entries[k], y) THEN y ELSE Failed
<1>4. /\ Running /\ UNCHANGED <<used, listed, grants, granting, cache>>
      /\ s = Primary => granting = None
  BY DEF Fetch
<1>5. v \in {Failed, y} /\ answers' = [answers EXCEPT ![k] = v]
  BY <1>3
<1>6. quotas \in 0..MaxQuota /\ quotas \in Nat
  BY <1>1, BoundAssumption, QuotasType
<1>7. stored' \in [Store -> Nat] /\ \A t \in Store : stored[t] <= stored'[t]
  <2>1. stored[s] + used[s] - inUse \in Nat /\ stored[s] <= stored[s] + used[s] - inUse
    BY <1>1
  <2>2. stored \in [Store -> Nat]
    BY DEF SalesInv, RoundInv
  <2> HIDE DEF s
  <2> DEFINE more == stored[s] + used[s] - inUse
  <2>3. stored' = [stored EXCEPT ![s] = more] /\ more \in Nat /\ stored[s] <= more
    BY <1>3, <2>1
  <2> HIDE DEF more
  <2>4. stored' \in [Store -> Nat]
    BY <2>2, <2>3
  <2>5. ASSUME NEW t \in Store  PROVE stored[t] <= stored'[t]
    <3>1. CASE t = s  BY <1>1, <2>2, <2>3, <3>1
    <3>2. CASE t # s
      <4>1. stored'[t] = stored[t] /\ stored[t] \in Nat
        BY <2>2, <2>3, <3>2
      <4>2. QED  BY <4>1
    <3>3. QED  BY <3>1, <3>2
  <2>6. QED  BY <2>4, <2>5
<1>8. /\ Uncommitted \in Int /\ unpromised \in Int /\ Uncommitted <= unpromised
      /\ Total(Capacity, Committable) \in Nat
      /\ listed \in Nat /\ Total(grants, Customer) \in Nat
  BY <1>4, UncommittedType, BoundAssumption, GrantsType DEF SalesInv, RoundInv, TypeOK
<1>9. /\ unpromised' \in Int /\ unpromised <= unpromised'
      /\ accounts(role) => Uncommitted + listed - quotas <= unpromised'
  <2>1. CASE accounts(role)
    <3>1. unpromised' = Max({unpromised, Uncommitted + listed - quotas})
      BY <1>3, <2>1
    <3>2. Uncommitted + listed - quotas \in Int
      BY <1>6, <1>8
    <3>3. QED  BY <1>8, <3>1, <3>2, MaxOfTwo
  <2>2. CASE ~accounts(role)
    BY <1>3, <1>8, <2>2
  <2>3. QED  BY <2>1, <2>2
<1>10. y = [store |-> s, role |-> role, total |-> Capacity[s], used |-> inUse,
            reserved |-> quotas,
            sold |-> IF accounts(role) THEN Total(grants, Customer) ELSE 0]
  BY DEF Summary
<1>11. DOMAIN answers = Entry
  BY <1>4 DEF SalesInv, RoundInv
<1> HIDE DEF v, y, x
<1>12. Answered(k)' => IsTold(k)'
  <2> SUFFICES ASSUME Answered(k)'  PROVE IsTold(k)'
    OBVIOUS
  <2>1. answers'[k] = y
    BY <1>5, <1>11 DEF Answered
  <2>2. /\ answers'[k].store = s /\ answers'[k].role = role
        /\ answers'[k].total = Capacity[s] /\ answers'[k].used = inUse
        /\ answers'[k].reserved = quotas
        /\ answers'[k].sold = IF accounts(role) THEN Total(grants, Customer) ELSE 0
    BY <1>10, <2>1
  <2>3. Capacity[s] - inUse <= Room(s)'
    <3>1. stored'[s] = stored[s] + used[s] - inUse /\ used' = used
      BY <1>1, <1>3, <1>4 DEF SalesInv, RoundInv
    <3>2. inUse \in Nat
      BY <1>1
    <3> HIDE DEF s
    <3>3. QED  BY <1>1, <3>1, <3>2 DEF Room
  <2>4. accounts(role) =>
          Total(Capacity, Committable) - quotas - Total(grants, Customer) <= unpromised'
    BY <1>6, <1>8, <1>9 DEF Uncommitted
  <2>5. inUse \in Nat
    BY <1>1
  <2> HIDE DEF s
  <2>6. QED
    BY <1>1, <1>6, <1>8, <2>2, <2>3, <2>4, <2>5 DEF IsTold, Room
<1>13. TypeOK'
  <2>1. changes' \in 0..MaxChanges
    BY <1>3, BoundAssumption DEF SalesInv, TypeOK, ChangeIf, Change
  <2>2. DOMAIN answers' = Entry
    BY <1>5, <1>11
  <2>3. registry' \in 0..MaxQuota
    BY <1>3, <1>6 DEF SalesInv, TypeOK
  <2>4. QED  BY <1>4, <2>1, <2>2, <2>3 DEF SalesInv, TypeOK, Entry
<1>14. RoundInv'
  <2> HIDE DEF s
  <2>1. QED  BY <1>4, <1>5, <1>7, <1>9, <1>12, <1>13, AnswerStays
<1>15. GrantFits' /\ DisplayAgrees'
  <2>1. granting # None => registry' = registry
    BY <1>3, <1>4
  <2>2. QED  BY <1>4, <2>1 DEF SalesInv, GrantFits, DisplayAgrees, Entry
<1>16. QED  BY <1>13, <1>14, <1>15 DEF SalesInv

LEMMA FetchFailsSales ==
  ASSUME SalesInv, NEW k \in Entry, FetchFails(k)
  PROVE  SalesInv'
<1>1. /\ Running /\ answers' = [answers EXCEPT ![k] = Failed]
      /\ UNCHANGED <<used, listed, registry, grants, granting, cache, stored, unpromised>>
  BY DEF FetchFails, roundVars
<1>2. stored \in [Store -> Nat] /\ unpromised \in Int /\ DOMAIN answers = Entry
  BY <1>1 DEF SalesInv, RoundInv
<1>3. TypeOK'
  <2>1. changes' \in 0..MaxChanges
    BY BoundAssumption DEF SalesInv, TypeOK, FetchFails, Change
  <2>2. QED  BY <1>1, <1>2, <2>1 DEF SalesInv, TypeOK, Entry
<1>4. RoundInv'
  <2>1. ~Answered(k)'
    BY <1>1, <1>2 DEF Answered
  <2>2. unpromised <= unpromised' /\ \A s \in Store : stored[s] <= stored'[s]
    BY <1>1, <1>2
  <2>3. QED  BY <1>1, <1>2, <1>3, <2>1, <2>2, AnswerStays
<1>5. GrantFits' /\ DisplayAgrees'
  BY <1>1 DEF SalesInv, GrantFits, DisplayAgrees, Entry
<1>6. QED  BY <1>3, <1>4, <1>5 DEF SalesInv

LEMMA StartRoundSales ==
  ASSUME SalesInv, StartRound
  PROVE  SalesInv'
<1>1. /\ answers' = [k \in Entry |-> None] /\ cache' = None /\ unpromised' = Uncommitted
      /\ UNCHANGED <<used, listed, registry, grants, granting, changes, stored>>
  BY DEF StartRound
<1>2. TypeOK'
  BY <1>1 DEF SalesInv, TypeOK, Entry
<1>3. RoundInv'
  <2>1. Uncommitted \in Int /\ (Uncommitted)' = Uncommitted
    BY <1>1, UncommittedType DEF Uncommitted, SalesInv
  <2>2. /\ DOMAIN answers' = Entry /\ \A k \in Entry : ~Answered(k)'
    BY <1>1 DEF Answered
  <2>3. QED  BY <1>1, <2>1, <2>2 DEF SalesInv, RoundInv, Entry
<1>4. GrantFits' /\ DisplayAgrees'
  BY <1>1 DEF SalesInv, GrantFits, DisplayAgrees
<1>5. QED  BY <1>2, <1>3, <1>4 DEF SalesInv

-----------------------------------------------------------------------------
(* The page.                                                               *)

\* The answers that make up the sums.
Safe == {k \in Counted : answers[k].role \in {"primary", "secondary"}}
Sizes == [k \in Safe |-> answers[k].total]
Uses == [k \in Safe |-> answers[k].used]
InSum == Total(Sizes, Safe)
UsedSum == Total(Uses, Safe)
Primaries == {k \in Safe : answers[k].role = "primary"}

LEMMA AggregateIs ==
  Aggregate = [free |-> IF Cardinality(Primaries) # 1 THEN None
                        ELSE Sellable(InSum, UsedSum, CHOOSE p \in Primaries : TRUE),
               total |-> InSum,
               nodes |-> [k \in Entry |->
                            [online |-> k \in Counted, class |-> CapacityClass(k),
                             size |-> IF Online(k) THEN answers[k].total ELSE 0]]]
BY DEF Aggregate, Safe, Sizes, Uses, InSum, UsedSum, Primaries

\* Every entry that counts tells of a store, and each of another one.
LEMMA CountedTold ==
  ASSUME SalesInv, Running, \A k \in Entry : answers[k] # None
  PROVE  /\ Counted \subseteq Entry
         /\ \A k \in Counted : IsTold(k)
         /\ \A j, k \in Counted : answers[j].store = answers[k].store => j = k
<1>1. Counted \subseteq Entry /\ \A k \in Counted : IsTold(k)
  BY DEF Counted, Online, Answered, SalesInv, RoundInv
<1>2. ASSUME NEW j \in Counted, NEW k \in Counted, answers[j].store = answers[k].store
      PROVE  j = k
  <2>1. Len(Entries) \in Nat /\ j \in 1..Len(Entries) /\ k \in 1..Len(Entries)
    BY <1>1, EntryAssumption DEF Entry
  <2>2. ~(j < k)
    BY <1>2, <2>1 DEF Counted
  <2>3. ~(k < j)
    BY <1>2, <2>1 DEF Counted
  <2>4. QED  BY <2>1, <2>2, <2>3
<1>3. QED  BY <1>1, <1>2

LEMMA SafeTold ==
  ASSUME SalesInv, Running, \A k \in Entry : answers[k] # None
  PROVE  /\ Safe \subseteq Counted /\ IsFiniteSet(Safe)
         /\ NatOn(Sizes, Safe) /\ NatOn(Uses, Safe)
         /\ InSum \in Nat /\ UsedSum \in Nat
<1>1. Safe \subseteq Counted /\ Safe \subseteq Entry
  BY CountedTold DEF Safe
<1>2. IsFiniteSet(Safe)
  BY <1>1, StoresFinite, FS_Subset
<1>3. NatOn(Sizes, Safe) /\ NatOn(Uses, Safe)
  <2> SUFFICES ASSUME NEW k \in Safe
               PROVE  answers[k].total \in Nat /\ answers[k].used \in Nat
    BY DEF NatOn, Sizes, Uses
  <2>1. IsTold(k)
    BY <1>1, CountedTold
  <2>2. QED  BY <2>1, StoreAssumption DEF IsTold
<1>4. QED  BY <1>1, <1>2, <1>3, TotalType DEF InSum, UsedSum

\* The only primary of a sum is an answer that counts.
LEMMA OnePrimary ==
  ASSUME SalesInv, Running, \A k \in Entry : answers[k] # None,
         Cardinality(Primaries) = 1
  PROVE  LET p == CHOOSE p \in Primaries : TRUE
         IN  p \in Safe /\ IsTold(p) /\ answers[p].role = "primary"
<1> DEFINE p == CHOOSE p \in Primaries : TRUE
<1>1. Primaries # {}
  BY FS_EmptySet
<1>2. p \in Primaries
  BY <1>1
<1> HIDE DEF p
<1>3. p \in Safe /\ answers[p].role = "primary"
  BY <1>2 DEF Primaries
<1>4. IsTold(p)
  BY <1>3, SafeTold, CountedTold
<1>5. QED  BY <1>3, <1>4 DEF p

\* Sellable is what it is named for.
LEMMA SellableIs ==
  ASSUME NEW total \in Int, NEW inUse \in Int, NEW p,
         answers[p].reserved \in Int, answers[p].sold \in Int
  PROVE  LET free == total - answers[p].reserved - answers[p].sold
         IN  /\ Sellable(total, inUse, p) \in Nat
             /\ \/ Sellable(total, inUse, p) = 0
                \/ /\ Sellable(total, inUse, p) <= free
                   /\ Sellable(total, inUse, p) <= total - inUse
<1> DEFINE free == total - answers[p].reserved - answers[p].sold
           least == Min({free, total - inUse})
<1>1. free \in Int /\ total - inUse \in Int
  OBVIOUS
<1>2. least \in Int /\ least <= free /\ least <= total - inUse
  BY <1>1, MinOfTwo
<1>3. Sellable(total, inUse, p) = Max({0, least})
  BY DEF Sellable
<1> HIDE DEF free, least
<1>4. Max({0, least}) \in {0, least} /\ Max({0, least}) >= 0
  BY <1>2, MaxOfTwo
<1>5. QED  BY <1>1, <1>2, <1>3, <1>4 DEF free

LEMMA PublishSales ==
  ASSUME SalesInv, Publish
  PROVE  SalesInv'
<1>1. /\ Running /\ \A k \in Entry : answers[k] # None
      /\ cache' = Aggregate /\ answers' = <<>>
      /\ UNCHANGED <<used, listed, registry, grants, granting, changes>>
  BY DEF Publish
<1>2. InSum \in Nat /\ UsedSum \in Nat
  BY <1>1, SafeTold
<1>3. cache'.total = InSum
  BY <1>1, AggregateIs
<1>4. cache'.free \in Nat \cup {None}
  <2>1. CASE Cardinality(Primaries) # 1
    BY <1>1, <2>1, AggregateIs
  <2>2. CASE Cardinality(Primaries) = 1
    <3> DEFINE p == CHOOSE p \in Primaries : TRUE
    <3>1. answers[p].reserved \in Nat /\ answers[p].sold \in Nat
      BY <1>1, <2>2, OnePrimary DEF IsTold
    <3>2. cache'.free = Sellable(InSum, UsedSum, p)
      BY <1>1, <2>2, AggregateIs
    <3> HIDE DEF p
    <3>0. answers[p].reserved \in Int /\ answers[p].sold \in Int /\ InSum \in Int /\ UsedSum \in Int
      BY <1>2, <3>1
    <3>3. Sellable(InSum, UsedSum, p) \in Nat
      BY ONLY <3>0, SellableIs
    <3>4. QED  BY <3>2, <3>3
  <2>3. QED  BY <2>1, <2>2
<1>5. TypeOK'
  BY <1>1, <1>2, <1>3, <1>4 DEF SalesInv, TypeOK, Running
<1>6. RoundInv' /\ GrantFits'
  <2>1. stored' \in [Store -> Nat] /\ unpromised' \in Int
    BY DEF Publish
  <2>2. QED  BY <1>1, <2>1 DEF SalesInv, RoundInv, Running, GrantFits
<1>7. DisplayAgrees'
  <2> DEFINE shown == {k \in Entry : /\ cache'.nodes[k].online
                                     /\ cache'.nodes[k].class = "committable"}
             size == [k \in Entry |-> cache'.nodes[k].size]
  <2>1. \A k \in Entry :
          /\ cache'.nodes[k].online <=> k \in Counted
          /\ cache'.nodes[k].class = CapacityClass(k)
          /\ k \in Counted => cache'.nodes[k].size = answers[k].total
    BY <1>1, AggregateIs DEF Counted
  <2>2. \A k \in Counted : CapacityClass(k) = "committable" <=> k \in Safe
    BY DEF CapacityClass, Safe
  <2>3. shown = Safe
    BY <1>1, <2>1, <2>2, SafeTold, CountedTold
  <2>4. \A k \in Safe : Sizes[k] = size[k]
    BY <1>1, <2>1, SafeTold, CountedTold DEF Sizes
  <2> HIDE DEF shown, size
  <2>5. Total(Sizes, Safe) = Total(size, Safe)
    BY <1>1, <2>4, SafeTold, TotalSame
  <2>6. cache'.total = Total(size, shown)
    BY <1>3, <2>3, <2>5 DEF InSum
  <2>7. QED  BY <2>6 DEF DisplayAgrees, Entry, size, shown
<1>8. QED  BY <1>5, <1>6, <1>7 DEF SalesInv

LEMMA NextSales == SalesInv /\ [Next]_vars => SalesInv'
<1> SUFFICES ASSUME SalesInv, [Next]_vars  PROVE SalesInv'
  OBVIOUS
<1>1. CASE UNCHANGED vars
  BY <1>1 DEF vars, networkVars, roundVars, SalesInv, TypeOK, RoundInv, Running, Answered,
              IsTold, Room, Uncommitted, GrantFits, DisplayAgrees, Entry
<1>2. CASE Next
  BY <1>2, WriteSales, UpdateListSales, GrantCheckSales, GrantSaveSales, RevokeSales,
     FetchSales, FetchFailsSales, StartRoundSales, PublishSales DEF Next
<1>3. QED  BY <1>1, <1>2

-----------------------------------------------------------------------------
(* Theorems.                                                               *)

\* The invariant of the sales: answers tell no more than there was in the round,
\* and a grant that was checked still fits when it is saved (aggregate,
\* _public_summary, grant_quota).
THEOREM SalesInductive == Spec => []SalesInv
<1>1. Init => SalesInv
  BY InitSales
<1>2. SalesInv /\ [Next]_vars => SalesInv'
  BY NextSales
<1>3. QED  BY <1>1, <1>2, PTL DEF Spec

\* Types; what the page says is free is not negative (free_sellable).
THEOREM SalesTypeCorrect == Spec => []TypeOK
<1>1. SalesInv => TypeOK
  BY DEF SalesInv
<1>2. QED  BY <1>1, SalesInductive, PTL

\* The list of nodes and the sum of the page agree, whatever the configuration
\* says of a node (_capacity_class, aggregate).
THEOREM PageAgrees == Spec => []DisplayAgrees
<1>1. SalesInv => DisplayAgrees
  BY DEF SalesInv
<1>2. QED  BY <1>1, SalesInductive, PTL

-----------------------------------------------------------------------------
(* What is for sale was there.                                             *)

FreeOf == [s \in Store |-> Max({0, Room(s)})]

LEMMA FreeOfType ==
  ASSUME SalesInv, Running
  PROVE  NatOn(FreeOf, Store) /\ \A s \in Store : FreeOf[s] >= Room(s)
<1> SUFFICES ASSUME NEW s \in Store  PROVE FreeOf[s] \in Nat /\ FreeOf[s] >= Room(s)
  BY DEF NatOn
<1>1. Room(s) \in Int /\ FreeOf[s] = Max({0, Room(s)})
  BY RoomType DEF SalesInv, RoundInv, FreeOf
<1>2. /\ Max({0, Room(s)}) \in {0, Room(s)}
      /\ Max({0, Room(s)}) >= 0 /\ Max({0, Room(s)}) >= Room(s)
  <2>1. 0 \in Int /\ Room(s) \in Int
    BY <1>1
  <2>2. QED  BY ONLY <2>1, MaxOfTwo
<1>3. QED  BY <1>1, <1>2

\* What counts has the capacity of different stores.
LEMMA SizesAreOfStores ==
  ASSUME SalesInv, Running, \A k \in Entry : answers[k] # None
  PROVE  InSum <= Total(Capacity, Committable)
<1> DEFINE h == [k \in Safe |-> answers[k].store]
<1>1. ASSUME NEW k \in Safe
      PROVE  h[k] \in Committable /\ Sizes[k] <= Capacity[h[k]]
  <2>1. IsTold(k) /\ answers[k].role \in {"primary", "secondary"}
    BY SafeTold, CountedTold DEF Safe
  <2>2. answers[k].store \in Committable /\ answers[k].total = Capacity[answers[k].store]
    BY <2>1 DEF IsTold, Committable
  <2>3. Capacity[answers[k].store] \in Nat
    BY <2>2, StoresFinite DEF NatOn
  <2>4. QED  BY <2>2, <2>3 DEF Sizes
<1>2. \A j, k \in Safe : h[j] = h[k] => j = k
  BY SafeTold, CountedTold
<1> HIDE DEF h
<1>3. QED  BY <1>1, <1>2, SafeTold, StoresFinite, TotalInto DEF InSum

\* What counts and is not in use was free at different stores.
LEMMA FreeIsOfStores ==
  ASSUME SalesInv, Running, \A k \in Entry : answers[k] # None
  PROVE  InSum <= UsedSum + Total(FreeOf, Committable)
<1> DEFINE h == [k \in Safe |-> answers[k].store]
           free == [k \in Safe |-> FreeOf[answers[k].store]]
           both == [k \in Safe |-> Uses[k] + free[k]]
<1>1. NatOn(FreeOf, Committable) /\ IsFiniteSet(Committable) /\ IsFiniteSet(Safe)
  BY FreeOfType, StoresFinite, SafeTold DEF NatOn
<1>2. ASSUME NEW k \in Safe
      PROVE  /\ h[k] \in Committable /\ free[k] \in Nat /\ free[k] = FreeOf[h[k]]
             /\ Uses[k] \in Nat /\ Sizes[k] \in Nat
             /\ both[k] = Uses[k] + free[k] /\ Sizes[k] <= both[k]
  <2>1. IsTold(k) /\ answers[k].role \in {"primary", "secondary"}
    BY SafeTold, CountedTold DEF Safe
  <2>2. answers[k].store \in Committable
    BY <2>1 DEF IsTold, Committable
  <2>3. /\ FreeOf[answers[k].store] \in Nat /\ Room(answers[k].store) \in Int
        /\ FreeOf[answers[k].store] >= Room(answers[k].store)
    BY <2>1, FreeOfType, RoomType DEF IsTold, NatOn, SalesInv, RoundInv
  <2>4. /\ Uses[k] \in Nat /\ Sizes[k] \in Nat
        /\ Uses[k] = answers[k].used /\ Sizes[k] = answers[k].total
    BY SafeTold DEF NatOn, Uses, Sizes
  <2>5. answers[k].total - answers[k].used <= Room(answers[k].store)
    BY <2>1 DEF IsTold
  <2>6. QED  BY <2>2, <2>3, <2>4, <2>5
<1>3. \A j, k \in Safe : h[j] = h[k] => j = k
  BY SafeTold, CountedTold
<1> HIDE DEF h, free, both
<1>4. NatOn(free, Safe) /\ NatOn(Uses, Safe) /\ NatOn(both, Safe) /\ NatOn(Sizes, Safe)
  BY <1>2 DEF NatOn
<1>5. Total(free, Safe) <= Total(FreeOf, Committable)
  <2>1. \A k \in Safe : h[k] \in Committable /\ free[k] <= FreeOf[h[k]]
    BY <1>2
  <2>2. QED  BY <1>1, <1>3, <1>4, <2>1, TotalInto
<1>6. InSum <= Total(both, Safe)
  <2> DEFINE same == [k \in Safe |-> k]
  <2>1. /\ \A k \in Safe : same[k] \in Safe /\ Sizes[k] <= both[same[k]]
        /\ \A j, k \in Safe : same[j] = same[k] => j = k
    BY <1>2
  <2> HIDE DEF same
  <2>2. QED  BY <1>1, <1>4, <2>1, TotalInto DEF InSum
<1>7. Total(both, Safe) = UsedSum + Total(free, Safe)
  BY <1>1, <1>2, <1>4, TotalPlus DEF UsedSum
<1>8. /\ InSum \in Nat /\ UsedSum \in Nat /\ Total(free, Safe) \in Nat
      /\ Total(FreeOf, Committable) \in Nat
  BY <1>1, <1>4, SafeTold, TotalType
<1>9. QED  BY <1>5, <1>6, <1>7, <1>8

\* What the primary that counts said of its commitments, if it is the one modelled.
ByPrimary == \A k \in Counted : answers[k].role = "primary" => answers[k].store = Primary

\* What a page published from a round offers.
LEMMA PublishBacked ==
  ASSUME SalesInv, Publish, cache'.free # None
  PROVE  /\ cache'.free <= Total(FreeOf, Committable)
         /\ ByPrimary => cache'.free <= Max({0, unpromised})
<1> DEFINE p == CHOOSE p \in Primaries : TRUE
           x == Total(FreeOf, Committable)
           free == InSum - answers[p].reserved - answers[p].sold
<1>1. Running /\ (\A k \in Entry : answers[k] # None) /\ cache' = Aggregate
  BY DEF Publish
<1>2. Cardinality(Primaries) = 1 /\ cache'.free = Sellable(InSum, UsedSum, p)
  BY <1>1, AggregateIs
<1>3. p \in Safe /\ IsTold(p) /\ answers[p].role = "primary" /\ p \in Counted
  BY <1>1, <1>2, OnePrimary DEF Safe
<1> HIDE DEF p
<1>4. /\ answers[p].reserved \in Nat /\ answers[p].sold \in Nat
      /\ ByPrimary =>
           Total(Capacity, Committable) - answers[p].reserved - answers[p].sold <= unpromised
  BY <1>3 DEF IsTold, ByPrimary
<1>5. /\ InSum \in Nat /\ UsedSum \in Nat /\ Total(Capacity, Committable) \in Nat
      /\ unpromised \in Int /\ x \in Nat
  <2>1. NatOn(FreeOf, Committable)
    BY <1>1, FreeOfType, StoresFinite DEF NatOn
  <2>2. QED  BY <1>1, <2>1, SafeTold, StoresFinite, TotalType DEF SalesInv, RoundInv
<1>6. InSum <= Total(Capacity, Committable) /\ InSum <= UsedSum + x
  BY <1>1, SizesAreOfStores, FreeIsOfStores
<1> HIDE DEF x
<1>7. (ByPrimary => free <= unpromised) /\ InSum - UsedSum <= x
  BY <1>4, <1>5, <1>6
<1>8. /\ cache'.free \in Nat
      /\ cache'.free = 0 \/ (cache'.free <= free /\ cache'.free <= InSum - UsedSum)
  BY <1>2, <1>4, <1>5, SellableIs
<1>9. Max({0, unpromised}) \in Int /\ Max({0, unpromised}) >= 0
      /\ Max({0, unpromised}) >= unpromised
  BY <1>5, MaxOfTwo
<1>10. free \in Int /\ InSum - UsedSum \in Int
  BY <1>4, <1>5
<1> HIDE DEF free
<1>11. cache'.free <= x
  BY <1>5, <1>7, <1>8, <1>10
<1>12. ASSUME ByPrimary  PROVE cache'.free <= Max({0, unpromised})
  <2> DEFINE m == Max({0, unpromised})
  <2>1. m \in Int /\ m >= 0 /\ m >= unpromised
    BY <1>9
  <2>2. free <= unpromised
    BY <1>7, <1>12
  <2> HIDE DEF m
  <2>3. cache'.free <= m
    BY <1>5, <1>8, <1>10, <2>1, <2>2
  <2>4. QED  BY <2>3 DEF m
<1>13. QED  BY <1>11, <1>12 DEF x

\* A round ends in Publish.
LEMMA RoundEnds ==
  ASSUME SalesInv, [Next]_vars, Running, ~Running'
  PROVE  Publish
<1>1. DOMAIN answers = Entry /\ answers' = <<>>
  BY DEF SalesInv, RoundInv, Running
<1>2. answers' # answers
  BY DEF Running
<1>3. ASSUME NEW k \in Entry, Fetch(k) \/ FetchFails(k)  PROVE FALSE
  <2>1. PICK v : answers' = [answers EXCEPT ![k] = v]
    BY <1>3 DEF Fetch, FetchFails
  <2>2. k \in DOMAIN answers'
    BY <1>1, <2>1
  <2>3. QED  BY <1>1, <2>2
<1>4. ~StartRound
  BY DEF StartRound
<1>5. QED
  BY <1>2, <1>3, <1>4 DEF Next, vars, networkVars, Write, UpdateList, GrantCheck, GrantSave, Revoke

-----------------------------------------------------------------------------
(* Grants.                                                                 *)

LEMMA SavedGrantFits ==
  ASSUME SalesInv, GrantSave, granting.checked
  PROVE  registry + Total(grants', Customer) <= Capacity[Primary]
<1> DEFINE c == granting.customer
           gb == granting.gb
<1>1. /\ granting # None /\ grants' = [grants EXCEPT ![c] = gb]
      /\ c \in Customer /\ gb \in Nat
  BY BoundAssumption DEF GrantSave, SalesInv, TypeOK
<1>2. registry + Total(grants, Customer) + gb <= Capacity[Primary]
  BY <1>1 DEF SalesInv, GrantFits
<1>3. grants \in [Customer -> Nat] /\ Total(grants, Customer) \in Nat /\ registry \in Nat
  BY GrantsType, BoundAssumption DEF SalesInv, TypeOK
<1> HIDE DEF c, gb
<1>4. Total(grants', Customer) + grants[c] = Total(grants, Customer) + gb
  BY <1>1, <1>3, StoresFinite, TotalChange
<1>5. Total(grants', Customer) \in Nat
  <2>1. grants' \in [Customer -> Nat]
    BY <1>1, <1>3
  <2>2. QED  BY <2>1, StoresFinite, TotalType DEF NatOn
<1>6. grants[c] \in Nat /\ Capacity[Primary] \in Nat
  BY <1>1, <1>3, StoresFinite
<1>7. QED  BY <1>1, <1>2, <1>3, <1>4, <1>5, <1>6

\* Only saving makes a grant larger.
LEMMA OnlySaveGrants ==
  ASSUME SalesInv, [Next]_vars, NEW c \in Customer, grants'[c] > grants[c]
  PROVE  GrantSave
<1>1. grants[c] \in Nat
  BY BoundAssumption DEF SalesInv, TypeOK
<1>2. grants' # grants
  BY <1>1
<1>3. ASSUME NEW d \in Customer, Revoke(d)  PROVE FALSE
  <2>1. grants'[c] = grants[c] \/ grants'[c] = 0
    BY <1>3 DEF Revoke, SalesInv, TypeOK
  <2>2. QED  BY <1>1, <2>1
<1>4. QED
  BY <1>2, <1>3 DEF Next, vars, networkVars, Write, UpdateList, GrantCheck, Fetch,
                    FetchFails, StartRound, Publish

-----------------------------------------------------------------------------
\* When a page is made the committable stores have free what it offers, but for what
\* was stored since the round began or could not be told; and what it offers was not
\* promised, at one moment of the round, by the primary whose commitments the page
\* goes by, as far as it could read its quotas (aggregate, _validate_summary,
\* _fetch_summary_tep, _public_summary).
THEOREM SalesAreBacked == Spec => SellableIsBacked
<1>1. SalesInv /\ [Next]_vars =>
        (Running /\ ~Running' /\ cache'.free # None =>
           /\ cache'.free <= Total([s \in Store |->
                                     Max({0, Capacity[s] - used[s] + stored[s]})], Committable)
           /\ (\A k \in Counted : answers[k].role = "primary" => answers[k].store = Primary)
                => cache'.free <= Max({0, unpromised}))
  BY RoundEnds, PublishBacked DEF FreeOf, Room, ByPrimary
<1>2. QED  BY <1>1, SalesInductive, PTL DEF Spec, SellableIsBacked

\* A grant that was checked and is saved leaves the primary able to keep all it has
\* promised, by the registry it went by (grant_quota, _reload_if_changed).
THEOREM CheckedGrantsFit == Spec => GrantsFit
<1>1. SalesInv /\ [Next]_vars =>
        \A c \in Customer : grants'[c] > grants[c] /\ granting.checked =>
          registry + Total(grants', Customer) <= Capacity[Primary]
  BY OnlySaveGrants, SavedGrantFits
<1>2. QED  BY <1>1, SalesInductive, PTL DEF Spec, GrantsFit
=============================================================================
