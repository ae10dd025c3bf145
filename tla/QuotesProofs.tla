---------------------------- MODULE QuotesProofs ----------------------------
(***************************************************************************)
(* Proofs about Quotes for any fares, offers, quotes and sessions, and     *)
(* integers of any width.                                                  *)
(***************************************************************************)
EXTENDS Quotes, FiniteSetTheorems, TLAPS

(***************************************************************************)
(* Sums over finite sets, as MapThenSumSet computes them: by taking out an *)
(* arbitrary element at a time.  What the library's induction theorems     *)
(* would give is proved from a smallest counterexample instead.            *)
(***************************************************************************)

Chosen(s) == CHOOSE x \in s : TRUE

\* g holds the sums of v over the subsets of D.
Adds(v, D, g) ==
    g = [s \in SUBSET D |-> IF s = {} THEN 0 ELSE v[Chosen(s)] + g[s \ {Chosen(s)}]]

LEMMA SmallestSet ==
  ASSUME NEW D, IsFiniteSet(D), NEW Bad \in SUBSET SUBSET D, Bad # {}
  PROVE  \E T \in Bad : \A U \in SUBSET T : U # T => U \notin Bad
<1>1. Bad \subseteq FiniteSubsetsOf(D)
  BY FS_FiniteSubsetsOfFinite
<1>2. IsWellFoundedOn(StrictSubsetOrdering(D), FiniteSubsetsOf(D))
  BY FS_StrictSubsetOrderingWellFounded
<1>3. PICK T \in Bad : \A U \in Bad : ~(<<U, T>> \in StrictSubsetOrdering(D))
  BY <1>1, <1>2, WFMin
<1>4. ASSUME NEW U \in SUBSET T, U # T, U \in Bad PROVE FALSE
  <2>1. U \in SUBSET D /\ T \in SUBSET D
    OBVIOUS
  <2>2. <<U, T>> \in StrictSubsetOrdering(D)
    BY <1>4, <2>1 DEF StrictSubsetOrdering
  <2> QED
    BY <1>3, <1>4, <2>2
<1> QED
  BY <1>4

LEMMA ChosenInSet ==
  ASSUME NEW s, s # {}
  PROVE  Chosen(s) \in s /\ s \ {Chosen(s)} \in SUBSET s /\ s \ {Chosen(s)} # s
  BY DEF Chosen

LEMMA AddsNone ==
  ASSUME NEW v, NEW D, NEW g, Adds(v, D, g)
  PROVE  g[{}] = 0
  BY DEF Adds

LEMMA AddsSome ==
  ASSUME NEW v, NEW D, NEW g, Adds(v, D, g), NEW s, s \subseteq D, s # {}
  PROVE  g[s] = v[Chosen(s)] + g[s \ {Chosen(s)}]
  BY DEF Adds

\* The sum over T depends on the values on T only.
LEMMA SumsAgree ==
  ASSUME NEW v, NEW w, NEW D, NEW E, NEW g, NEW h, Adds(v, D, g), Adds(w, E, h),
         NEW T, IsFiniteSet(T), T \subseteq D, T \subseteq E,
         \A x \in T : v[x] = w[x]
  PROVE  g[T] = h[T]
<1> DEFINE Bad == {s \in SUBSET T : g[s] # h[s]}
<1>1. CASE Bad = {}
  BY <1>1
<1>2. CASE Bad # {}
  <2>1. Bad \in SUBSET SUBSET T
    OBVIOUS
  <2> HIDE DEF Bad
  <2>2. PICK s \in Bad : \A U \in SUBSET s : U # s => U \notin Bad
    BY <1>2, <2>1, SmallestSet
  <2>3. s \in SUBSET T /\ s \in SUBSET D /\ s \in SUBSET E
    BY <2>1, <2>2
  <2>4. s # {}
    <3>1. g[{}] = 0 /\ h[{}] = 0
      BY AddsNone
    <3> QED
      BY <2>2, <3>1 DEF Bad
  <2>5. /\ Chosen(s) \in s /\ s \ {Chosen(s)} \in SUBSET s /\ s \ {Chosen(s)} # s
    BY <2>4, ChosenInSet
  <2>6. g[s \ {Chosen(s)}] = h[s \ {Chosen(s)}]
    BY <2>2, <2>3, <2>5 DEF Bad
  <2>7. v[Chosen(s)] = w[Chosen(s)]
    BY <2>3, <2>5
  <2>8. g[s] = v[Chosen(s)] + g[s \ {Chosen(s)}]
    BY <2>3, <2>4 DEF Adds
  <2>9. h[s] = w[Chosen(s)] + h[s \ {Chosen(s)}]
    BY <2>3, <2>4 DEF Adds
  <2> QED
    BY <2>2, <2>4, <2>6, <2>7, <2>8, <2>9 DEF Bad
<1> QED
  BY <1>1, <1>2

\* Every finite set has its sums.
LEMMA SumsExist ==
  ASSUME NEW v, NEW D, IsFiniteSet(D)
  PROVE  \E g : Adds(v, D, g)
<1> DEFINE Bad == {T \in SUBSET D : ~ \E g : Adds(v, T, g)}
<1>1. CASE Bad = {}
  BY <1>1
<1>2. CASE Bad # {}
  <2>1. Bad \in SUBSET SUBSET D
    OBVIOUS
  <2> HIDE DEF Bad
  <2>2. PICK T \in Bad : \A U \in SUBSET T : U # T => U \notin Bad
    BY <1>2, <2>1, SmallestSet
  <2>3. T \in SUBSET D /\ IsFiniteSet(T)
    BY <2>1, <2>2, FS_Subset
  <2> DEFINE Sums(U) == CHOOSE g : Adds(v, U, g)
             G == [s \in SUBSET T |-> IF s = {} THEN 0 ELSE v[Chosen(s)] +
                                         Sums(s \ {Chosen(s)})[s \ {Chosen(s)}]]
  <2>4. ASSUME NEW U \in SUBSET T, U # T PROVE Adds(v, U, Sums(U))
    <3>1. \E g : Adds(v, U, g)
      BY <2>2, <2>3, <2>4 DEF Bad
    <3> QED
      BY <3>1
  <2> HIDE DEF Sums
  <2>5. ASSUME NEW U \in SUBSET T, U # T PROVE G[U] = Sums(U)[U]
    <3>1. Adds(v, U, Sums(U))
      BY <2>4, <2>5
    <3>2. CASE U = {}
      BY <3>1, <3>2, AddsNone
    <3>3. CASE U # {}
      <4> DEFINE W == U \ {Chosen(U)}
      <4>1. Chosen(U) \in U /\ W \in SUBSET U /\ W # U
        BY <3>3, ChosenInSet
      <4>2. W \in SUBSET T /\ W # T /\ IsFiniteSet(W)
        BY <2>3, <4>1, FS_Subset
      <4>3. Adds(v, W, Sums(W))
        BY <2>4, <4>2
      <4>4. Sums(U)[W] = Sums(W)[W]
        BY <3>1, <4>1, <4>2, <4>3, SumsAgree
      <4>5. Sums(U)[U] = v[Chosen(U)] + Sums(U)[W]
        BY <3>1, <3>3, AddsSome
      <4>6. G[U] = v[Chosen(U)] + Sums(W)[W]
        BY <3>3
      <4> HIDE DEF G, W
      <4> QED
        BY <4>4, <4>5, <4>6
    <3> QED
      BY <3>2, <3>3
  <2>6. ASSUME NEW s \in SUBSET T, s # {}
        PROVE  Sums(s \ {Chosen(s)})[s \ {Chosen(s)}] = G[s \ {Chosen(s)}]
    <3> DEFINE U == s \ {Chosen(s)}
    <3>1. U \in SUBSET T /\ U # T
      BY <2>6, ChosenInSet
    <3> HIDE DEF U, G
    <3>2. G[U] = Sums(U)[U]
      BY <2>5, <3>1
    <3> QED
      BY <3>2 DEF U
  <2>7. G = [s \in SUBSET T |-> IF s = {} THEN 0 ELSE v[Chosen(s)] + G[s \ {Chosen(s)}]]
    <3> DEFINE L(s) == IF s = {} THEN 0 ELSE v[Chosen(s)] +
                                         Sums(s \ {Chosen(s)})[s \ {Chosen(s)}]
               R(s) == IF s = {} THEN 0 ELSE v[Chosen(s)] + G[s \ {Chosen(s)}]
    <3>1. ASSUME NEW s \in SUBSET T PROVE L(s) = R(s)
      <4> HIDE DEF G
      <4> QED
        BY <2>6
    <3>2. G = [s \in SUBSET T |-> L(s)]
      OBVIOUS
    <3> HIDE DEF L, R, G
    <3>3. G = [s \in SUBSET T |-> R(s)]
      BY <3>1, <3>2
    <3> QED
      BY <3>3 DEF R
  <2> HIDE DEF G
  <2>8. Adds(v, T, G)
    BY <2>7 DEF Adds
  <2> QED
    BY <2>2, <2>8 DEF Bad
<1> QED
  BY <1>1, <1>2

\* Sums of natural numbers are natural numbers.
LEMMA SumsType ==
  ASSUME NEW v, NEW D, NEW g, Adds(v, D, g), NEW T \in SUBSET D, IsFiniteSet(T),
         \A x \in T : v[x] \in Nat
  PROVE  g[T] \in Nat
<1> DEFINE Bad == {s \in SUBSET T : g[s] \notin Nat}
<1>1. CASE Bad = {}
  BY <1>1
<1>2. CASE Bad # {}
  <2>1. Bad \in SUBSET SUBSET T
    OBVIOUS
  <2> HIDE DEF Bad
  <2>2. PICK s \in Bad : \A U \in SUBSET s : U # s => U \notin Bad
    BY <1>2, <2>1, SmallestSet
  <2>3. s \in SUBSET T /\ s \in SUBSET D /\ g[s] \notin Nat
    BY <2>2 DEF Bad
  <2>4. s # {}
    <3>1. s = {} => g[s] = 0
      BY AddsNone
    <3> QED
      BY <2>3, <3>1
  <2>5. Chosen(s) \in s /\ s \ {Chosen(s)} \in SUBSET s /\ s \ {Chosen(s)} # s
    BY <2>4, ChosenInSet
  <2>6. g[s \ {Chosen(s)}] \in Nat
    BY <2>2, <2>3, <2>5 DEF Bad
  <2>7. g[s] = v[Chosen(s)] + g[s \ {Chosen(s)}]
    BY <2>3, <2>4 DEF Adds
  <2> QED
    BY <2>3, <2>5, <2>6, <2>7
<1> QED
  BY <1>1, <1>2

\* The order of summation does not matter.
LEMMA SumsInsert ==
  ASSUME NEW v, NEW D, NEW g, Adds(v, D, g), IsFiniteSet(D), \A x \in D : v[x] \in Nat,
         NEW T \in SUBSET D, NEW x \in D \ T
  PROVE  g[T \cup {x}] = g[T] + v[x]
<1> DEFINE Bad == {S \in SUBSET D : \E y \in D \ S : g[S \cup {y}] # g[S] + v[y]}
<1>1. CASE Bad = {}
  BY <1>1
<1>2. CASE Bad # {}
  <2>1. Bad \in SUBSET SUBSET D
    OBVIOUS
  <2> HIDE DEF Bad
  <2>2. PICK S \in Bad : \A U \in SUBSET S : U # S => U \notin Bad
    BY <1>2, <2>1, SmallestSet
  <2>3. PICK y \in D \ S : g[S \cup {y}] # g[S] + v[y]
    BY <2>2 DEF Bad
  <2> DEFINE R == S \cup {y}
             z == Chosen(R)
  <2>4. S \in SUBSET D /\ R \in SUBSET D /\ R # {}
    BY <2>1, <2>2
  <2>5. z \in R
    BY <2>4, ChosenInSet
  <2>6. g[R] = v[z] + g[R \ {z}]
    <3> HIDE DEF R
    <3> QED
      BY <2>4 DEF Adds
  <2>7. ASSUME NEW Q \in SUBSET D PROVE g[Q] \in Nat
    <3>1. IsFiniteSet(Q)
      BY <2>7, FS_Subset
    <3> QED
      BY <3>1, SumsType
  <2>8. CASE z = y
    <3>1. R \ {z} = S
      BY <2>8
    <3>2. g[R] = v[y] + g[S] /\ v[y] \in Nat /\ g[S] \in Nat
      BY <2>4, <2>6, <2>7, <2>8, <3>1
    <3> QED
      BY <2>3, <3>2
  <2>9. CASE z # y
    <3> DEFINE U == S \ {z}
    <3> HIDE DEF z
    <3>1. z \in S /\ R \ {z} = U \cup {y} /\ S = U \cup {z}
      BY <2>5, <2>9
    <3>2. U \in SUBSET S /\ U # S /\ U \in SUBSET D /\ U \notin Bad
      BY <2>2, <2>4, <3>1
    <3>3. y \in D \ U /\ z \in D \ U
      BY <2>4, <3>1
    <3> HIDE DEF U, R
    <3>4. g[U \cup {y}] = g[U] + v[y] /\ g[U \cup {z}] = g[U] + v[z]
      BY <3>2, <3>3 DEF Bad
    <3>5. g[U] \in Nat /\ v[y] \in Nat /\ v[z] \in Nat
      BY <2>7, <3>2, <3>3
    <3>6. g[R] = v[z] + (g[U] + v[y]) /\ g[S] = g[U] + v[z]
      BY <2>6, <3>1, <3>4
    <3> QED
      BY <2>3, <3>5, <3>6 DEF R
  <2> QED
    BY <2>8, <2>9
<1> QED
  BY <1>1, <1>2

-----------------------------------------------------------------------------
(***************************************************************************)
(* Exact, the unbounded total.                                             *)
(***************************************************************************)

Cost(offers, count) == [f \in DOMAIN offers |-> (offers[f].price + offers[f].taxes) * count]

LEMMA ExactIsSum ==
  ASSUME NEW offers, NEW count, IsFiniteSet(DOMAIN offers)
  PROVE  \E g : /\ Adds(Cost(offers, count), DOMAIN offers, g)
                /\ Exact(offers, count) = g[DOMAIN offers]
<1> DEFINE D == DOMAIN offers
           Iterates(g) == g = [s \in SUBSET D |->
              IF s = {} THEN 0
              ELSE (offers[CHOOSE x \in s : TRUE].price + offers[CHOOSE x \in s : TRUE].taxes)
                      * count + g[s \ {CHOOSE x \in s : TRUE}]]
           Iterate == CHOOSE g : Iterates(g)
<1>1. ASSUME NEW g PROVE Adds(Cost(offers, count), D, g) <=> Iterates(g)
  <2> DEFINE L(s) == IF s = {} THEN 0 ELSE Cost(offers, count)[Chosen(s)] + g[s \ {Chosen(s)}]
             R(s) == IF s = {} THEN 0 ELSE (offers[Chosen(s)].price + offers[Chosen(s)].taxes)
                                              * count + g[s \ {Chosen(s)}]
  <2>1. ASSUME NEW s \in SUBSET D PROVE L(s) = R(s)
    <3>1. CASE s = {}
      BY <3>1
    <3>2. CASE s # {}
      <4>1. Chosen(s) \in D
        BY <3>2, ChosenInSet
      <4> QED
        BY <3>2, <4>1 DEF Cost
    <3> QED
      BY <3>1, <3>2
  <2>2. Adds(Cost(offers, count), D, g) <=> g = [s \in SUBSET D |-> L(s)]
    BY DEF Adds
  <2>3. Iterates(g) <=> g = [s \in SUBSET D |-> R(s)]
    BY DEF Chosen
  <2> HIDE DEF L, R, Iterates
  <2>4. [s \in SUBSET D |-> L(s)] = [s \in SUBSET D |-> R(s)]
    BY <2>1
  <2> QED
    BY <2>2, <2>3, <2>4
<1>2. Exact(offers, count) = Iterate[D]
  BY DEF Exact, MapThenSumSet, MapThenFoldSet
<1>3. \E g : Adds(Cost(offers, count), D, g)
  BY SumsExist
<1> HIDE DEF Iterates
<1>4. \E g : Iterates(g)
  BY <1>1, <1>3
<1>5. Iterates(Iterate)
  BY <1>4
<1> HIDE DEF Iterate
<1> QED
  BY <1>1, <1>2, <1>5

LEMMA ExactNone ==
  ASSUME NEW offers, NEW count, DOMAIN offers = {}
  PROVE  Exact(offers, count) = 0
<1>1. IsFiniteSet(DOMAIN offers)
  BY FS_EmptySet
<1>2. PICK g : /\ Adds(Cost(offers, count), DOMAIN offers, g)
               /\ Exact(offers, count) = g[DOMAIN offers]
  BY <1>1, ExactIsSum
<1>3. g[{}] = 0
  BY <1>2, AddsNone
<1> QED
  BY <1>2, <1>3

\* Two lists of the same costs have the same total.
LEMMA ExactAgrees ==
  ASSUME NEW p, NEW q, NEW m, NEW n, IsFiniteSet(DOMAIN p), DOMAIN q = DOMAIN p,
         \A f \in DOMAIN p : (p[f].price + p[f].taxes) * m = (q[f].price + q[f].taxes) * n
  PROVE  Exact(p, m) = Exact(q, n)
<1>1. PICK g : /\ Adds(Cost(p, m), DOMAIN p, g) /\ Exact(p, m) = g[DOMAIN p]
  BY ExactIsSum
<1>2. PICK h : /\ Adds(Cost(q, n), DOMAIN q, h) /\ Exact(q, n) = h[DOMAIN q]
  BY ExactIsSum
<1>3. \A f \in DOMAIN p : Cost(p, m)[f] = Cost(q, n)[f]
  BY DEF Cost
<1>4. g[DOMAIN p] = h[DOMAIN p]
  BY <1>1, <1>2, <1>3, SumsAgree
<1> QED
  BY <1>1, <1>2, <1>4

\* One offer more adds its cost.
LEMMA ExactInsert ==
  ASSUME NEW read, IsFiniteSet(DOMAIN read), NEW count \in Nat, NEW f, f \notin DOMAIN read,
         NEW o, o.price \in Nat, o.taxes \in Nat,
         \A g \in DOMAIN read : read[g].price \in Nat /\ read[g].taxes \in Nat
  PROVE  /\ Exact(read, count) \in Nat
         /\ Exact(WithFare(read, f, o), count) = Exact(read, count) + (o.price + o.taxes) * count
         /\ IsFiniteSet(DOMAIN WithFare(read, f, o))
<1> DEFINE D == DOMAIN read
           more == WithFare(read, f, o)
           v == Cost(read, count)
           w == Cost(more, count)
<1>1. /\ DOMAIN more = D \cup {f} /\ more[f] = o
      /\ \A g \in D : more[g] = read[g]
  BY DEF WithFare
<1>2. IsFiniteSet(D \cup {f})
  BY FS_AddElement
<1>3. PICK g : Adds(v, D, g) /\ Exact(read, count) = g[D]
  BY ExactIsSum
<1>4. PICK h : Adds(w, D \cup {f}, h) /\ Exact(more, count) = h[D \cup {f}]
  BY <1>1, <1>2, ExactIsSum
<1>5. \A x \in D : v[x] = w[x] /\ v[x] \in Nat
  <2> HIDE DEF more
  <2>1. \A x \in D : (read[x].price + read[x].taxes) * count \in Nat
    OBVIOUS
  <2> QED
    BY <1>1, <2>1 DEF Cost
<1>6. w[f] = (o.price + o.taxes) * count /\ w[f] \in Nat
  <2> HIDE DEF more
  <2>1. (o.price + o.taxes) * count \in Nat
    OBVIOUS
  <2> QED
    BY <1>1, <2>1 DEF Cost
<1> HIDE DEF v, w, more
<1>7. g[D] = h[D]
  BY <1>3, <1>4, <1>5, SumsAgree
<1>8. g[D] \in Nat
  BY <1>3, <1>5, SumsType
<1>9. h[D \cup {f}] = h[D] + w[f]
  <2>1. \A x \in D \cup {f} : w[x] \in Nat
    BY <1>5, <1>6
  <2> QED
    BY <1>2, <1>4, <2>1, SumsInsert
<1> QED
  BY <1>1, <1>2, <1>3, <1>4, <1>6, <1>7, <1>8, <1>9 DEF more

-----------------------------------------------------------------------------
(***************************************************************************)
(* The guard of quote.Create, for integers of any width.                   *)
(***************************************************************************)

LEMMA DivisionIsExact ==
  ASSUME NEW a \in Nat, NEW n \in Nat \ {0}, NEW s \in Nat
  PROVE  s > a \div n <=> s * n > a
<1> DEFINE q == a \div n
<1>1. q \in Nat /\ q * n <= a /\ a < q * n + n
  OBVIOUS
<1> HIDE DEF q
<1>2. CASE s > q
  <2>1. PICK k \in Nat : s = q + 1 + k
    <3>1. s - (q + 1) \in Nat
      BY <1>1, <1>2
    <3> QED
      BY <1>1, <3>1
  <2>2. s * n = q * n + n + k * n /\ k * n >= 0
    BY <1>1, <2>1
  <2>3. s * n \in Nat /\ q * n \in Nat /\ k * n \in Nat
    BY <1>1, <2>1
  <2> QED
    BY <1>1, <1>2, <2>2, <2>3 DEF q
<1>3. CASE s <= q
  <2>1. PICK k \in Nat : q = s + k
    <3>1. q - s \in Nat
      BY <1>1, <1>3
    <3> QED
      BY <1>1, <3>1
  <2>2. q * n = s * n + k * n
    BY <1>1, <2>1
  <2>3. s * n \in Nat /\ q * n \in Nat /\ k * n \in Nat
    BY <1>1, <2>1
  <2> QED
    BY <1>1, <1>3, <2>2, <2>3 DEF q
<1> QED
  BY <1>1, <1>2, <1>3

LEMMA InRangeIsExact ==
  ASSUME NEW n \in Nat, n <= MaxInt
  PROVE  Int64(n) = n
<1>1. (n + MaxInt + 1) % (2 * (MaxInt + 1)) = n + MaxInt + 1
  BY QuotesAssumption
<1> QED
  BY <1>1, QuotesAssumption DEF Int64

\* The guard refuses an offer exactly if the unbounded sum leaves the integers.
LEMMA OverflowsIsExact ==
  ASSUME NEW o \in Offers, NEW total \in Nat, total <= MaxInt, NEW count \in Nat \ {0}
  PROVE  /\ o.price \in Nat /\ o.taxes \in Nat
         /\ Overflows(o, total, count) <=> total + (o.price + o.taxes) * count > MaxInt
<1>1. MaxInt \in Nat /\ o.price \in 0..MaxInt /\ o.taxes \in 0..MaxInt
  BY QuotesAssumption
<1>2. o.price \in Nat /\ o.taxes \in Nat
  BY <1>1
<1> DEFINE s == o.price + o.taxes
           a == MaxInt - total
<1>3. s \in Nat /\ a \in Nat
  BY <1>1, <1>2
<1>4. o.price > MaxInt - o.taxes <=> s > MaxInt
  BY <1>1, <1>2
<1> HIDE DEF s, a
<1>5. s > a \div count <=> s * count > a
  BY <1>3, DivisionIsExact
<1>6. s * count \in Nat /\ s <= s * count
  <2>1. PICK k \in Nat : count = k + 1
    <3>1. count - 1 \in Nat
      OBVIOUS
    <3> QED
      BY <3>1
  <2>2. s * count = s * k + s /\ s * k \in Nat
    BY <1>3, <2>1
  <2> QED
    BY <1>3, <2>2
<1>7. s * count > a <=> total + s * count > MaxInt
  BY <1>1, <1>6 DEF a
<1>8. s > MaxInt => total + s * count > MaxInt
  BY <1>1, <1>3, <1>6
<1>9. Overflows(o, total, count) <=> s > MaxInt \/ s > a \div count
  BY <1>4 DEF Overflows, s, a
<1> QED
  BY <1>2, <1>5, <1>7, <1>8, <1>9 DEF s

-----------------------------------------------------------------------------
(***************************************************************************)
(* The inductive invariant.  What a request has read FOR SHARE still       *)
(* stands, and its total is the exact one; a request that books a quote    *)
(* has the quote to itself, and the fares it has locked and checked are    *)
(* active; a booking is the quote it used, whose row changes no more.      *)
(***************************************************************************)

Listed(items) == items \in ItemLists /\ IsFiniteSet(DOMAIN items)

Priced(quote) ==
    /\ quote = [status |-> quote.status, count |-> quote.count, total |-> quote.total,
                items |-> quote.items]
    /\ quote.status \in {"ACTIVE", "USED"}
    /\ quote.count \in Nat \ {0}
    /\ Listed(quote.items)
    /\ quote.total \in 0..MaxInt
    /\ quote.total = Exact(quote.items, quote.count)

Quoting(c) ==
    /\ tx[c] = [op |-> tx[c].op, items |-> tx[c].items, count |-> tx[c].count,
                read |-> tx[c].read, total |-> tx[c].total]
    /\ tx[c].items \subseteq Fares
    /\ tx[c].count \in Nat \ {0}
    /\ Listed(tx[c].read)
    /\ \A f \in DOMAIN tx[c].read : fares[f].active /\ fares[f].offer = tx[c].read[f]

QuotingSoFar(c) ==
    /\ tx[c].total \in 0..MaxInt
    /\ tx[c].total = Exact(tx[c].read, tx[c].count)

Refused(c) == Exact(tx[c].read, tx[c].count) > MaxInt

Books(c) ==
    /\ tx[c] = [op |-> tx[c].op, quote |-> tx[c].quote, locked |-> tx[c].locked,
                checked |-> tx[c].checked]
    /\ tx[c].quote \in Quotes
    /\ Priced(quotes[tx[c].quote]) /\ quotes[tx[c].quote].status = "ACTIVE"
    /\ tx[c].checked => tx[c].locked
    /\ tx[c].checked => \A f \in DOMAIN quotes[tx[c].quote].items : fares[f].active

Session(c) ==
    /\ tx[c].op \in {"idle", "quote", "refused", "book"}
    /\ tx[c].op \in {"quote", "refused"} => Quoting(c)
    /\ tx[c].op = "quote" => QuotingSoFar(c)
    /\ tx[c].op = "refused" => Refused(c)
    /\ tx[c].op = "book" => Books(c)

\* The lock on a quote.
Alone == \A c, d \in Sessions :
    tx[c].op = "book" /\ tx[d].op = "book" /\ tx[c].quote = tx[d].quote => c = d

Booked ==
    /\ \A b \in bookings : /\ b.quote \in Quotes
                           /\ Priced(quotes[b.quote]) /\ quotes[b.quote].status = "USED"
                           /\ b.total = quotes[b.quote].total
                           /\ b.segments = Segments(quotes[b.quote])
    /\ \A b, d \in bookings : b.quote = d.quote => b = d

Rows ==
    /\ fares \in [Fares -> [offer : Offers, active : BOOLEAN]]
    /\ quotes = [q \in Quotes |-> quotes[q]]
    /\ \A q \in Quotes : quotes[q] # NULL => Priced(quotes[q])
    /\ tx = [c \in Sessions |-> tx[c]]

Inv == Rows /\ (\A c \in Sessions : Session(c)) /\ Alone /\ Booked

LEMMA InvInit == Init => Inv
<1> SUFFICES ASSUME Init PROVE Inv
  OBVIOUS
<1>1. Rows
  <2>1. fares \in [Fares -> [offer : Offers, active : BOOLEAN]]
    <3> DEFINE S == {[offer |-> o, active |-> TRUE] : o \in Offers}
    <3>1. S \subseteq [offer : Offers, active : BOOLEAN]
      <4> SUFFICES ASSUME NEW o \in Offers
                   PROVE  [offer |-> o, active |-> TRUE] \in [offer : Offers, active : BOOLEAN]
        BY Zenon
      <4> QED
        OBVIOUS
    <3>2. fares \in [Fares -> S]
      BY DEF Init
    <3> HIDE DEF S
    <3> QED
      BY <3>1, <3>2
  <2>2. quotes = [q \in Quotes |-> quotes[q]] /\ tx = [c \in Sessions |-> tx[c]]
    BY DEF Init
  <2>3. \A q \in Quotes : quotes[q] = NULL
    BY DEF Init
  <2> QED
    BY <2>1, <2>2, <2>3 DEF Rows
<1>2. \A c \in Sessions : tx[c].op = "idle"
  BY DEF Init, Idle
<1> QED
  BY <1>1, <1>2 DEF Init, Inv, Session, Alone, Booked

LEMMA PricedIsNotNull ==
  ASSUME NEW quote, Priced(quote)
  PROVE  quote # NULL
<1>1. quote \in [status : {"ACTIVE", "USED"}, count : Nat, total : Nat, items : ItemLists]
  BY QuotesAssumption DEF Priced, Listed
<1> QED
  BY <1>1, QuotesAssumption

\* A request keeps its knowledge while nobody touches what it has locked.
LEMMA SessionKept ==
  ASSUME NEW c \in Sessions, Session(c), tx'[c] = tx[c],
         tx[c].op \in {"quote", "refused"} =>
            \A f \in DOMAIN tx[c].read : fares'[f] = fares[f],
         tx[c].op = "book" => quotes'[tx[c].quote] = quotes[tx[c].quote],
         tx[c].op = "book" /\ tx[c].checked =>
            \A f \in DOMAIN quotes[tx[c].quote].items : fares'[f] = fares[f]
  PROVE  Session(c)'
<1>1. tx[c].op \in {"quote", "refused"} => Quoting(c)'
  BY DEF Session, Quoting
<1>2. (tx[c].op = "quote" => QuotingSoFar(c)') /\ (tx[c].op = "refused" => Refused(c)')
  BY DEF Session, QuotingSoFar, Refused
<1>3. tx[c].op = "book" => Books(c)'
  BY DEF Session, Books
<1> QED
  BY <1>1, <1>2, <1>3 DEF Session

LEMMA BookedKept ==
  ASSUME Booked, quotes' = quotes, bookings' = bookings
  PROVE  Booked'
<1>1. ASSUME NEW b \in bookings'
      PROVE  /\ b.quote \in Quotes
             /\ Priced(quotes'[b.quote]) /\ quotes'[b.quote].status = "USED"
             /\ b.total = quotes'[b.quote].total
             /\ b.segments = Segments(quotes'[b.quote])
  BY DEF Booked
<1> QED
  BY <1>1 DEF Booked

\* One request moves, and the fares do not.
LEMMA InvMoves ==
  ASSUME Inv, NEW c \in Sessions, NEW r, tx' = [tx EXCEPT ![c] = r], UNCHANGED <<fares, quotes, bookings>>,
         Session(c)',
         r.op = "book" => \A d \in Sessions \ {c} : tx[d].op = "book" => tx[d].quote # r.quote
  PROVE  Inv'
<1>1. tx'[c] = r /\ \A d \in Sessions \ {c} : tx'[d] = tx[d]
  BY DEF Inv, Rows
<1>2. ASSUME NEW d \in Sessions PROVE Session(d)'
  <2>1. CASE d # c
    <3>1. tx'[d] = tx[d] /\ Session(d)
      BY <1>1, <2>1 DEF Inv
    <3> QED
      BY <3>1, SessionKept
  <2> QED
    BY <2>1
<1>3. Alone'
  BY <1>1 DEF Inv, Alone
<1>4. Booked'
  BY BookedKept DEF Inv
<1>5. Rows'
  <2>1. tx' = [d \in Sessions |-> tx'[d]]
    BY DEF Inv, Rows
  <2> QED
    BY <2>1 DEF Inv, Rows
<1> QED
  BY <1>2, <1>3, <1>4, <1>5 DEF Inv

-----------------------------------------------------------------------------
LEMMA ChangeKeeps ==
  ASSUME Inv, NEW f \in Fares, Change(f)
  PROVE  Inv'
<1>1. /\ UNCHANGED <<quotes, bookings, tx>>
      /\ \A c \in Sessions : f \notin Shared(c)
      /\ \/ \E o \in Offers : fares' = [fares EXCEPT ![f].offer = o]
         \/ fares' = [fares EXCEPT ![f].active = ~@]
  BY DEF Change
<1>2. /\ fares' \in [Fares -> [offer : Offers, active : BOOLEAN]]
      /\ \A g \in Fares : g # f => fares'[g] = fares[g]
  BY <1>1 DEF Inv, Rows
<1>3. ASSUME NEW c \in Sessions PROVE Session(c)'
  <2>1. Session(c)
    BY DEF Inv
  <2>2. tx[c].op \in {"quote", "refused"} =>
           \A g \in DOMAIN tx[c].read : fares'[g] = fares[g]
    <3> SUFFICES ASSUME tx[c].op \in {"quote", "refused"}, NEW g \in DOMAIN tx[c].read
                 PROVE  fares'[g] = fares[g]
      OBVIOUS
    <3>1. Shared(c) = DOMAIN tx[c].read
      BY DEF Shared
    <3>2. g \in Fares
      BY <2>1 DEF Session, Quoting, Listed, ItemLists
    <3> QED
      BY <1>1, <1>2, <3>1, <3>2
  <2>3. tx[c].op = "book" /\ tx[c].checked =>
           \A g \in DOMAIN quotes[tx[c].quote].items : fares'[g] = fares[g]
    <3> SUFFICES ASSUME tx[c].op = "book", tx[c].checked,
                        NEW g \in DOMAIN quotes[tx[c].quote].items
                 PROVE  fares'[g] = fares[g]
      OBVIOUS
    <3>1. Shared(c) = DOMAIN quotes[tx[c].quote].items
      BY <2>1 DEF Shared, Session, Books
    <3>2. g \in Fares
      BY <2>1 DEF Session, Books, Priced, Listed, ItemLists
    <3> QED
      BY <1>1, <1>2, <3>1, <3>2
  <2> QED
    BY <1>1, <2>1, <2>2, <2>3, SessionKept
<1>4. Rows' /\ Alone'
  BY <1>1, <1>2 DEF Inv, Rows, Alone
<1>5. Booked'
  BY <1>1, BookedKept DEF Inv
<1> QED
  BY <1>3, <1>4, <1>5 DEF Inv

LEMMA AskKeeps ==
  ASSUME Inv, NEW c \in Sessions, NEW items \in SUBSET Fares, NEW count \in 1..MaxCount,
         Ask(c, items, count)
  PROVE  Inv'
<1> DEFINE none == [f \in {} |-> NULL]
           r == [op |-> "quote", items |-> items, count |-> count, read |-> none, total |-> 0]
<1>1. tx' = [tx EXCEPT ![c] = r] /\ UNCHANGED <<fares, quotes, bookings>>
  BY DEF Ask
<1>2. tx'[c] = r
  BY <1>1 DEF Inv, Rows
<1>3. DOMAIN none = {} /\ count \in Nat \ {0}
  BY QuotesAssumption
<1>4. Listed(none)
  <2>1. none \in [{} -> Offers]
    OBVIOUS
  <2>2. {} \in SUBSET Fares
    OBVIOUS
  <2> HIDE DEF none
  <2> QED
    BY <1>3, <2>1, <2>2, FS_EmptySet DEF Listed, ItemLists
<1> HIDE DEF none
<1>5. Exact(none, count) = 0
  BY <1>3, ExactNone
<1>6. Quoting(c)'
  BY <1>2, <1>3, <1>4 DEF Quoting
<1>7. QuotingSoFar(c)'
  BY <1>2, <1>5, QuotesAssumption DEF QuotingSoFar
<1>8. Session(c)'
  BY <1>2, <1>6, <1>7 DEF Session
<1> QED
  BY <1>1, <1>8, InvMoves

LEMMA SmallestInSet ==
  ASSUME NEW S \in SUBSET Nat, S # {}
  PROVE  Min(S) \in S
<1>1. PICK n \in S : TRUE
  OBVIOUS
<1> DEFINE Bad == {0..k : k \in {m \in S : m <= n}}
<1>2. IsFiniteSet(0..n)
  BY FS_Interval
<1>3. Bad \in SUBSET SUBSET (0..n) /\ 0..n \in Bad
  OBVIOUS
<1>4. PICK T \in Bad : \A U \in SUBSET T : U # T => U \notin Bad
  <2> HIDE DEF Bad
  <2>1. Bad # {}
    BY <1>3
  <2> DEFINE all == 0..n
  <2>2. IsFiniteSet(all) /\ Bad \in SUBSET SUBSET all
    BY <1>2, <1>3
  <2> HIDE DEF all
  <2> QED
    BY <2>1, <2>2, SmallestSet
<1>5. PICK k \in S : k <= n /\ T = 0..k
  BY <1>4
<1>6. ASSUME NEW m \in S, m < k PROVE FALSE
  <2>1. 0..m \in Bad
    BY <1>5, <1>6
  <2>2. 0..m \in SUBSET T /\ 0..m # T
    <3>1. k \in 0..k /\ k \notin 0..m
      BY <1>6
    <3> QED
      BY <1>5, <1>6, <3>1
  <2> QED
    BY <1>4, <2>1, <2>2
<1>7. \A m \in S : k <= m
  BY <1>6
<1> QED
  BY <1>5, <1>7 DEF Min

\* Reading an offer extends an exact total, or proves that there is none in range.
LEMMA ReadFareKeeps ==
  ASSUME Inv, NEW c \in Sessions, ReadFare(c)
  PROVE  Inv'
<1> DEFINE f == Min(Unread(c))
           o == fares[f].offer
           read == WithFare(tx[c].read, f, o)
           more == tx[c].total + (o.price + o.taxes) * tx[c].count
           t == [op |-> "quote", items |-> tx[c].items, count |-> tx[c].count,
                 read |-> read, total |-> tx[c].total]
           refused == [op |-> "refused", items |-> tx[c].items, count |-> tx[c].count,
                       read |-> read, total |-> tx[c].total]
           accepted == [op |-> "quote", items |-> tx[c].items, count |-> tx[c].count,
                        read |-> read, total |-> Int64(more)]
<1>1. /\ tx[c].op = "quote" /\ Unread(c) # {} /\ fares[f].active
      /\ UNCHANGED <<fares, quotes, bookings>>
  BY DEF ReadFare
<1>2. Quoting(c) /\ QuotingSoFar(c)
  BY <1>1 DEF Inv, Session
<1>3. f \in Fares /\ f \notin DOMAIN tx[c].read
  <2>1. Unread(c) \in SUBSET Nat /\ Unread(c) \in SUBSET Fares
    BY <1>2, QuotesAssumption DEF Unread, Quoting
  <2>2. f \in Unread(c)
    BY <1>1, <2>1, SmallestInSet
  <2> QED
    BY <2>1, <2>2 DEF Unread
<1>4. o \in Offers /\ o.price \in Nat /\ o.taxes \in Nat
  <2>1. o \in Offers
    BY <1>3 DEF Inv, Rows
  <2>2. \A x \in Offers : x.price \in Nat /\ x.taxes \in Nat
    BY QuotesAssumption
  <2> QED
    BY <2>1, <2>2
<1>5. tx' = [tx EXCEPT ![c] = IF Overflows(o, tx[c].total, tx[c].count) THEN refused ELSE accepted]
  <2> HIDE DEF f, o, read
  <2>1. [tx[c] EXCEPT !.read = read] = t
    BY <1>1, <1>2 DEF Quoting
  <2>2. tx' = [tx EXCEPT ![c] = IF Overflows(o, t.total, t.count)
                                THEN [t EXCEPT !.op = "refused"]
                                ELSE [t EXCEPT !.total = Int64(more)]]
    <3> DEFINE u == [tx[c] EXCEPT !.read = WithFare(tx[c].read, f, o)]
    <3>1. tx' = [tx EXCEPT ![c] = IF Overflows(o, u.total, u.count)
                                THEN [u EXCEPT !.op = "refused"]
                                ELSE [u EXCEPT !.total = Int64(u.total +
                                                 (o.price + o.taxes) * u.count)]]
      BY DEF ReadFare, f, o
    <3>2. u = t
      BY <2>1 DEF read
    <3>3. t.total = tx[c].total /\ t.count = tx[c].count
      OBVIOUS
    <3> HIDE DEF u, t
    <3> QED
      BY <3>1, <3>2, <3>3
  <2>3. [t EXCEPT !.op = "refused"] = refused
    OBVIOUS
  <2>4. [t EXCEPT !.total = Int64(more)] = accepted
    <3> HIDE DEF more
    <3> QED
      OBVIOUS
  <2>5. t.total = tx[c].total /\ t.count = tx[c].count
    OBVIOUS
  <2> HIDE DEF t, refused, accepted, more
  <2> QED
    BY <2>2, <2>3, <2>4, <2>5
<1>6. /\ Exact(tx[c].read, tx[c].count) \in Nat
      /\ Exact(read, tx[c].count) = Exact(tx[c].read, tx[c].count) + (o.price + o.taxes) * tx[c].count
      /\ IsFiniteSet(DOMAIN read)
  <2>1. \A g \in DOMAIN tx[c].read : tx[c].read[g] \in Offers
    BY <1>2 DEF Quoting, Listed, ItemLists
  <2>2. \A x \in Offers : x.price \in Nat /\ x.taxes \in Nat
    BY QuotesAssumption
  <2>3. IsFiniteSet(DOMAIN tx[c].read) /\ tx[c].count \in Nat
    BY <1>2 DEF Quoting, Listed
  <2> HIDE DEF f, o
  <2> QED
    BY <1>3, <1>4, <2>1, <2>2, <2>3, ExactInsert
<1>7. Listed(read)
  <2> HIDE DEF f, o
  <2>1. PICK S \in SUBSET Fares : tx[c].read \in [S -> Offers]
    BY <1>2 DEF Quoting, Listed, ItemLists
  <2>2. S \cup {f} \in SUBSET Fares
    BY <1>3, <2>1
  <2>3. read \in [S \cup {f} -> Offers]
    BY <1>4, <2>1 DEF WithFare
  <2> HIDE DEF read
  <2> QED
    BY <1>6, <2>2, <2>3 DEF Listed, ItemLists
<1>8. \A g \in DOMAIN read : fares[g].active /\ fares[g].offer = read[g]
  BY <1>1, <1>2 DEF Quoting, WithFare
<1>9. Overflows(o, tx[c].total, tx[c].count) <=> more > MaxInt
  <2>1. tx[c].total \in Nat /\ tx[c].total <= MaxInt /\ tx[c].count \in Nat \ {0}
    BY <1>2, QuotesAssumption DEF Quoting, QuotingSoFar
  <2> HIDE DEF f, o
  <2> QED
    BY <1>4, <2>1, OverflowsIsExact
<1>10. more = Exact(read, tx[c].count) /\ more \in Nat
  <2>1. (o.price + o.taxes) * tx[c].count \in Nat
    BY <1>2, <1>4 DEF Quoting
  <2> HIDE DEF f, o, read
  <2> QED
    BY <1>2, <1>6, <2>1 DEF QuotingSoFar
<1>11. tx[c].items \subseteq Fares /\ tx[c].count \in Nat \ {0}
  BY <1>2 DEF Quoting
<1> HIDE DEF f, o, read, more, t
<1>12. CASE Overflows(o, tx[c].total, tx[c].count)
  <2>1. tx' = [tx EXCEPT ![c] = refused]
    BY <1>5, <1>12
  <2>2. tx'[c] = refused
    BY <2>1 DEF Inv, Rows
  <2>3. Quoting(c)'
    BY <1>1, <1>7, <1>8, <1>11, <2>2 DEF Quoting
  <2>4. Refused(c)'
    BY <1>9, <1>10, <1>12, <2>2 DEF Refused
  <2>5. Session(c)'
    BY <2>2, <2>3, <2>4 DEF Session
  <2> QED
    BY <1>1, <2>1, <2>5, InvMoves
<1>13. CASE ~Overflows(o, tx[c].total, tx[c].count)
  <2>1. tx' = [tx EXCEPT ![c] = accepted]
    BY <1>5, <1>13
  <2>2. tx'[c] = accepted
    BY <2>1 DEF Inv, Rows
  <2>3. Quoting(c)'
    BY <1>1, <1>7, <1>8, <1>11, <2>2 DEF Quoting
  <2>4. more <= MaxInt /\ Int64(more) = more
    BY <1>9, <1>10, <1>13, InRangeIsExact, QuotesAssumption
  <2>5. QuotingSoFar(c)'
    BY <1>10, <2>2, <2>4, QuotesAssumption DEF QuotingSoFar
  <2>6. Session(c)'
    BY <2>2, <2>3, <2>5 DEF Session
  <2> QED
    BY <1>1, <2>1, <2>6, InvMoves
<1> QED
  BY <1>12, <1>13

\* The quote is what the offers read cost, and nobody has used it.
LEMMA QuoteKeeps ==
  ASSUME Inv, NEW c \in Sessions, NEW q \in Quotes, Quote(c, q)
  PROVE  Inv'
<1> DEFINE row == [status |-> "ACTIVE", count |-> tx[c].count, total |-> tx[c].total,
                   items |-> tx[c].read]
<1>1. /\ tx[c].op = "quote" /\ quotes[q] = NULL
      /\ quotes' = [quotes EXCEPT ![q] = row]
      /\ tx' = [tx EXCEPT ![c] = Idle]
      /\ UNCHANGED <<fares, bookings>>
  BY DEF Quote, End
<1>2. Quoting(c) /\ QuotingSoFar(c)
  BY <1>1 DEF Inv, Session
<1>3. Priced(row)
  <2>1. row.status = "ACTIVE" /\ row.count = tx[c].count /\ row.total = tx[c].total
        /\ row.items = tx[c].read
    OBVIOUS
  <2> HIDE DEF row
  <2>2. row = [status |-> row.status, count |-> row.count, total |-> row.total,
               items |-> row.items]
    BY <2>1 DEF row
  <2> QED
    BY <1>2, <2>1, <2>2 DEF Priced, Quoting, QuotingSoFar
<1> HIDE DEF row
<1>4. quotes'[q] = row /\ \A p \in Quotes : p # q => quotes'[p] = quotes[p]
  BY <1>1 DEF Inv, Rows
<1>5. tx'[c] = Idle /\ \A d \in Sessions : d # c => tx'[d] = tx[d]
  BY <1>1 DEF Inv, Rows
<1>6. ASSUME NEW p \in Quotes, Priced(quotes[p]) PROVE quotes'[p] = quotes[p]
  <2>1. quotes[p] # NULL
    BY <1>6, PricedIsNotNull
  <2> QED
    BY <1>1, <1>4, <2>1
<1>7. ASSUME NEW d \in Sessions PROVE Session(d)'
  <2>1. CASE d = c
    BY <1>5, <2>1 DEF Session, Idle
  <2>2. CASE d # c
    <3>1. tx'[d] = tx[d] /\ Session(d)
      BY <1>5, <2>2 DEF Inv
    <3>2. tx[d].op = "book" => quotes'[tx[d].quote] = quotes[tx[d].quote]
      BY <1>6, <3>1 DEF Session, Books
    <3> QED
      BY <1>1, <3>1, <3>2, SessionKept
  <2> QED
    BY <2>1, <2>2
<1>8. Alone'
  <2>1. tx'[c].op = "idle"
    BY <1>5 DEF Idle
  <2> QED
    BY <1>5, <2>1 DEF Inv, Alone
<1>9. Booked'
  <2>1. ASSUME NEW b \in bookings'
        PROVE  /\ b.quote \in Quotes
               /\ Priced(quotes'[b.quote]) /\ quotes'[b.quote].status = "USED"
               /\ b.total = quotes'[b.quote].total
               /\ b.segments = Segments(quotes'[b.quote])
    <3>1. /\ b.quote \in Quotes
          /\ Priced(quotes[b.quote]) /\ quotes[b.quote].status = "USED"
          /\ b.total = quotes[b.quote].total
          /\ b.segments = Segments(quotes[b.quote])
      BY <1>1 DEF Inv, Booked
    <3>2. quotes'[b.quote] = quotes[b.quote]
      BY <1>6, <3>1
    <3> QED
      BY <3>1, <3>2
  <2> QED
    BY <1>1, <2>1 DEF Inv, Booked
<1>10. Rows'
  <2>1. \A p \in Quotes : quotes'[p] # NULL => Priced(quotes'[p])
    BY <1>3, <1>4 DEF Inv, Rows
  <2>2. quotes' = [p \in Quotes |-> quotes'[p]] /\ tx' = [d \in Sessions |-> tx'[d]]
    BY <1>1 DEF Inv, Rows
  <2> QED
    BY <1>1, <2>1, <2>2 DEF Inv, Rows
<1> QED
  BY <1>7, <1>8, <1>9, <1>10 DEF Inv

\* The lock on the quote is free.
LEMMA BookKeeps ==
  ASSUME Inv, NEW c \in Sessions, NEW q \in Quotes, Book(c, q)
  PROVE  Inv'
<1> DEFINE r == [op |-> "book", quote |-> q, locked |-> FALSE, checked |-> FALSE]
<1>1. /\ tx' = [tx EXCEPT ![c] = r] /\ UNCHANGED <<fares, quotes, bookings>>
      /\ quotes[q] # NULL /\ quotes[q].status = "ACTIVE" /\ QuoteFree(q)
  BY DEF Book
<1>2. tx'[c] = r
  BY <1>1 DEF Inv, Rows
<1>3. Priced(quotes[q])
  BY <1>1 DEF Inv, Rows
<1>4. Books(c)'
  <2>1. /\ r.quote = q /\ r.checked = FALSE
        /\ r = [op |-> r.op, quote |-> r.quote, locked |-> r.locked, checked |-> r.checked]
    OBVIOUS
  <2> HIDE DEF r
  <2> QED
    BY <1>1, <1>2, <1>3, <2>1 DEF Books
<1>5. Session(c)'
  BY <1>2, <1>4 DEF Session
<1>6. \A d \in Sessions \ {c} : tx[d].op = "book" => tx[d].quote # r.quote
  BY <1>1 DEF QuoteFree
<1> QED
  BY <1>1, <1>5, <1>6, InvMoves

LEMMA LockFaresKeeps ==
  ASSUME Inv, NEW c \in Sessions, LockFares(c)
  PROVE  Inv'
<1> DEFINE r == [op |-> "book", quote |-> tx[c].quote, locked |-> TRUE, checked |-> tx[c].checked]
<1>1. tx[c].op = "book" /\ UNCHANGED <<fares, quotes, bookings>>
  BY DEF LockFares
<1>2. Books(c)
  BY <1>1 DEF Inv, Session
<1>3. tx' = [tx EXCEPT ![c] = r]
  <2>1. [tx[c] EXCEPT !.locked = TRUE] = r
    <3> DEFINE t == tx[c]
    <3>1. t = [op |-> t.op, quote |-> t.quote, locked |-> t.locked, checked |-> t.checked]
      BY <1>2 DEF Books
    <3>2. t.op = "book"
      BY <1>1
    <3> DEFINE yes == TRUE
    <3> HIDE DEF t, yes
    <3>3. [t EXCEPT !.locked = yes] = [op |-> "book", quote |-> t.quote, locked |-> yes, checked |-> t.checked]
      BY <3>1, <3>2
    <3> QED
      BY <3>3 DEF t, yes
  <2> HIDE DEF r
  <2> QED
    BY <2>1 DEF LockFares
<1>4. tx'[c] = r
  BY <1>3 DEF Inv, Rows
<1>5. Session(c)'
  BY <1>1, <1>2, <1>4 DEF Session, Books
<1>6. \A d \in Sessions \ {c} : tx[d].op = "book" => tx[d].quote # r.quote
  BY <1>1 DEF Inv, Alone
<1> QED
  BY <1>1, <1>3, <1>5, <1>6, InvMoves

LEMMA CheckFaresKeeps ==
  ASSUME Inv, NEW c \in Sessions, CheckFares(c)
  PROVE  Inv'
<1> DEFINE r == [op |-> "book", quote |-> tx[c].quote, locked |-> tx[c].locked, checked |-> TRUE]
<1>1. /\ tx[c].op = "book" /\ tx[c].locked /\ UNCHANGED <<fares, quotes, bookings>>
      /\ \A f \in DOMAIN quotes[tx[c].quote].items : fares[f].active
  BY DEF CheckFares
<1>2. Books(c)
  BY <1>1 DEF Inv, Session
<1>3. tx' = [tx EXCEPT ![c] = r]
  <2>1. [tx[c] EXCEPT !.checked = TRUE] = r
    <3> DEFINE t == tx[c]
    <3>1. t = [op |-> t.op, quote |-> t.quote, locked |-> t.locked, checked |-> t.checked]
      BY <1>2 DEF Books
    <3>2. t.op = "book"
      BY <1>1
    <3> DEFINE yes == TRUE
    <3> HIDE DEF t, yes
    <3>3. [t EXCEPT !.checked = yes] = [op |-> "book", quote |-> t.quote, locked |-> t.locked, checked |-> yes]
      BY <3>1, <3>2
    <3> QED
      BY <3>3 DEF t, yes
  <2> HIDE DEF r
  <2> QED
    BY <2>1 DEF CheckFares
<1>4. tx'[c] = r
  BY <1>3 DEF Inv, Rows
<1>5. Session(c)'
  BY <1>1, <1>2, <1>4 DEF Session, Books
<1>6. \A d \in Sessions \ {c} : tx[d].op = "book" => tx[d].quote # r.quote
  BY <1>1 DEF Inv, Alone
<1> QED
  BY <1>1, <1>3, <1>5, <1>6, InvMoves

\* The booking is made from the row its request alone has locked; the row is USED from now on.
LEMMA CreateKeeps ==
  ASSUME Inv, NEW c \in Sessions, Create(c)
  PROVE  Inv'
<1> DEFINE q == tx[c].quote
           row == quotes[q]
           used == [status |-> "USED", count |-> row.count, total |-> row.total,
                    items |-> row.items]
           new == [quote |-> q, by |-> c, total |-> row.total, segments |-> Segments(row)]
<1>1. /\ tx[c].op = "book"
      /\ bookings' = bookings \cup {new}
      /\ quotes' = [quotes EXCEPT ![q].status = "USED"]
      /\ tx' = [tx EXCEPT ![c] = Idle]
      /\ UNCHANGED fares
  BY DEF Create, End
<1>2. q \in Quotes /\ Priced(row) /\ row.status = "ACTIVE"
  BY <1>1 DEF Inv, Session, Books
<1>3. quotes'[q] = used /\ \A p \in Quotes : p # q => quotes'[p] = quotes[p]
  <2> HIDE DEF q
  <2>1. quotes'[q] = [row EXCEPT !.status = "USED"]
    BY <1>1, <1>2 DEF Inv, Rows
  <2>2. row = [status |-> row.status, count |-> row.count, total |-> row.total,
               items |-> row.items]
    BY <1>2 DEF Priced
  <2>3. \A p \in Quotes : p # q => quotes'[p] = quotes[p]
    BY <1>1 DEF Inv, Rows
  <2> HIDE DEF row
  <2>4. [row EXCEPT !.status = "USED"] = used
    BY <2>2
  <2> QED
    BY <2>1, <2>3, <2>4
<1>4. Priced(used) /\ used.status = "USED" /\ used.total = row.total /\ Segments(used) = Segments(row)
  <2>1. /\ used.status = "USED" /\ used.count = row.count /\ used.total = row.total
        /\ used.items = row.items
    OBVIOUS
  <2>2. used = [status |-> used.status, count |-> used.count, total |-> used.total,
                items |-> used.items]
    OBVIOUS
  <2> HIDE DEF used, row
  <2> QED
    BY <1>2, <2>1, <2>2 DEF Priced, Segments
<1>5. new.quote = q /\ new.total = row.total /\ new.segments = Segments(row)
  OBVIOUS
<1> HIDE DEF row, used, new
<1>6. tx'[c] = Idle /\ \A d \in Sessions : d # c => tx'[d] = tx[d]
  BY <1>1 DEF Inv, Rows
<1>7. ASSUME NEW d \in Sessions PROVE Session(d)'
  <2>1. CASE d = c
    BY <1>6, <2>1 DEF Session, Idle
  <2>2. CASE d # c
    <3>1. tx'[d] = tx[d] /\ Session(d)
      BY <1>6, <2>2 DEF Inv
    <3>2. tx[d].op = "book" => quotes'[tx[d].quote] = quotes[tx[d].quote]
      <4>1. tx[d].op = "book" => tx[d].quote # q /\ tx[d].quote \in Quotes
        BY <1>1, <2>2, <3>1 DEF Inv, Alone, Session, Books
      <4> QED
        BY <1>3, <4>1
    <3> QED
      BY <1>1, <3>1, <3>2, SessionKept
  <2> QED
    BY <2>1, <2>2
<1>8. Alone'
  <2>1. tx'[c].op = "idle"
    BY <1>6 DEF Idle
  <2> QED
    BY <1>6, <2>1 DEF Inv, Alone
<1>9. \A b \in bookings : b.quote # q
  BY <1>2 DEF Inv, Booked, row
<1>10. Booked'
  <2>1. ASSUME NEW b \in bookings'
        PROVE  /\ b.quote \in Quotes
               /\ Priced(quotes'[b.quote]) /\ quotes'[b.quote].status = "USED"
               /\ b.total = quotes'[b.quote].total
               /\ b.segments = Segments(quotes'[b.quote])
    <3>1. CASE b = new
      BY <1>2, <1>3, <1>4, <1>5, <3>1
    <3>2. CASE b \in bookings
      <4>1. /\ b.quote \in Quotes
            /\ Priced(quotes[b.quote]) /\ quotes[b.quote].status = "USED"
            /\ b.total = quotes[b.quote].total
            /\ b.segments = Segments(quotes[b.quote])
        BY <3>2 DEF Inv, Booked
      <4>2. quotes'[b.quote] = quotes[b.quote]
        BY <1>3, <1>9, <3>2, <4>1
      <4> QED
        BY <4>1, <4>2
    <3> QED
      BY <1>1, <3>1, <3>2
  <2>2. \A b, d \in bookings' : b.quote = d.quote => b = d
    BY <1>1, <1>5, <1>9 DEF Inv, Booked
  <2> QED
    BY <2>1, <2>2 DEF Booked
<1>11. Rows'
  <2>1. \A p \in Quotes : quotes'[p] # NULL => Priced(quotes'[p])
    BY <1>3, <1>4 DEF Inv, Rows
  <2>2. quotes' = [p \in Quotes |-> quotes'[p]] /\ tx' = [d \in Sessions |-> tx'[d]]
    BY <1>1 DEF Inv, Rows
  <2> QED
    BY <1>1, <2>1, <2>2 DEF Inv, Rows
<1> QED
  BY <1>7, <1>8, <1>10, <1>11 DEF Inv

LEMMA RollbackKeeps ==
  ASSUME Inv, NEW c \in Sessions, Rollback(c)
  PROVE  Inv'
<1>1. tx' = [tx EXCEPT ![c] = Idle] /\ UNCHANGED <<fares, quotes, bookings>>
  BY DEF Rollback, End
<1>2. tx'[c] = Idle
  BY <1>1 DEF Inv, Rows
<1>3. Session(c)'
  BY <1>2 DEF Session, Idle
<1> QED
  BY <1>1, <1>3, InvMoves DEF Idle

LEMMA StutterKeeps ==
  ASSUME Inv, UNCHANGED vars
  PROVE  Inv'
<1>1. UNCHANGED <<fares, quotes, bookings, tx>>
  BY DEF vars
<1>2. ASSUME NEW c \in Sessions PROVE Session(c)'
  <2>1. Session(c)
    BY DEF Inv
  <2> QED
    BY <1>1, <2>1, SessionKept
<1>3. Rows' /\ Alone'
  BY <1>1 DEF Inv, Rows, Alone
<1>4. Booked'
  BY <1>1, BookedKept DEF Inv
<1> QED
  BY <1>2, <1>3, <1>4 DEF Inv

LEMMA InvStep == Inv /\ [Next]_vars => Inv'
<1> SUFFICES ASSUME Inv, [Next]_vars PROVE Inv'
  OBVIOUS
<1>1. ASSUME NEW f \in Fares, Change(f) PROVE Inv'
  BY <1>1, ChangeKeeps
<1>2. ASSUME NEW c \in Sessions, NEW items \in SUBSET Fares, NEW count \in 1..MaxCount,
             Ask(c, items, count)
      PROVE  Inv'
  BY <1>2, AskKeeps
<1>3. ASSUME NEW c \in Sessions, ReadFare(c) PROVE Inv'
  BY <1>3, ReadFareKeeps
<1>4. ASSUME NEW c \in Sessions, NEW q \in Quotes, Quote(c, q) PROVE Inv'
  BY <1>4, QuoteKeeps
<1>5. ASSUME NEW c \in Sessions, NEW q \in Quotes, Book(c, q) PROVE Inv'
  BY <1>5, BookKeeps
<1>6. ASSUME NEW c \in Sessions, LockFares(c) \/ CheckFares(c) PROVE Inv'
  BY <1>6, LockFaresKeeps, CheckFaresKeeps
<1>7. ASSUME NEW c \in Sessions, Create(c) \/ Rollback(c) PROVE Inv'
  BY <1>7, CreateKeeps, RollbackKeeps
<1>8. CASE UNCHANGED vars
  BY <1>8, StutterKeeps
<1> QED
  BY <1>1, <1>2, <1>3, <1>4, <1>5, <1>6, <1>7, <1>8 DEF Next

\* What requests have locked and read, and what quotes and bookings say, is as the invariant
\* above has it in every state of quote.Create, booking.Create and the operator.
THEOREM Invariant == Spec => []Inv
<1>1. Init => Inv
  BY InvInit
<1>2. Inv /\ [Next]_vars => Inv'
  BY InvStep
<1> QED
  BY <1>1, <1>2, PTL DEF Spec

-----------------------------------------------------------------------------
\* The guard of quote.Create, a division of what is left of the 64 bits by the number of
\* passengers, refuses a request exactly if the sum in unbounded integers is out of range,
\* whatever the width, the prices, the number of items and the number of passengers.
THEOREM TotalIsExact == Spec => []TotalExact
<1>1. Inv => TotalExact
  <2> SUFFICES ASSUME Inv, NEW c \in Sessions
               PROVE  /\ tx[c].op = "quote" => tx[c].total = Exact(tx[c].read, tx[c].count)
                      /\ tx[c].op = "refused" => Exact(tx[c].read, tx[c].count) > MaxInt
    BY DEF TotalExact
  <2> QED
    BY DEF Inv, Session, QuotingSoFar, Refused
<1> QED
  BY <1>1, Invariant, PTL

\* The amounts quote.Create adds up are exact multiples: an item's price alone, for all
\* passengers, is at most the total.
LEMMA PartIsBounded ==
  ASSUME NEW quote, Priced(quote), NEW f \in DOMAIN quote.items
  PROVE  quote.items[f].price * quote.count <= MaxInt
<1> DEFINE items == quote.items
           n == quote.count
           D == DOMAIN items
           read == [g \in D \ {f} |-> items[g]]
           o == items[f]
<1>1. /\ n \in Nat \ {0} /\ Listed(items) /\ quote.total = Exact(items, n)
      /\ quote.total \in 0..MaxInt
  BY DEF Priced
<1>2. \A g \in D : items[g].price \in Nat /\ items[g].taxes \in Nat
  <2>1. \A g \in D : items[g] \in Offers
    BY <1>1 DEF Listed, ItemLists
  <2>2. \A x \in Offers : x.price \in Nat /\ x.taxes \in Nat
    BY QuotesAssumption
  <2> QED
    BY <2>1, <2>2
<1>3. items = [g \in D |-> items[g]]
  BY <1>1 DEF Listed, ItemLists
<1> HIDE DEF items, n
<1>4. DOMAIN read = D \ {f} /\ \A g \in D \ {f} : read[g] = items[g]
  OBVIOUS
<1>5. WithFare(read, f, o) = items
  <2>1. D = (D \ {f}) \cup {f}
    BY DEF items
  <2> DEFINE w == WithFare(read, f, o)
  <2>2. w = [g \in D |-> IF g = f THEN o ELSE read[g]]
    BY <1>4, <2>1 DEF WithFare
  <2>3. \A g \in D : (IF g = f THEN o ELSE read[g]) = items[g]
    BY <1>4
  <2> HIDE DEF w, read, o, D
  <2>4. w = [g \in D |-> items[g]]
    BY <2>2, <2>3
  <2> QED
    BY <1>3, <2>4 DEF w
<1>6. IsFiniteSet(D \ {f})
  BY <1>1, FS_Subset DEF Listed
<1>7. /\ o.price \in Nat /\ o.taxes \in Nat
      /\ \A g \in DOMAIN read : read[g].price \in Nat /\ read[g].taxes \in Nat
  BY <1>2, <1>4 DEF items
<1> HIDE DEF read, o
<1>8. /\ Exact(read, n) \in Nat
      /\ Exact(items, n) = Exact(read, n) + (o.price + o.taxes) * n
  <2>1. n \in Nat /\ f \notin DOMAIN read /\ IsFiniteSet(DOMAIN read)
    BY <1>1, <1>4, <1>6
  <2> QED
    BY <1>5, <1>7, <2>1, ExactInsert
<1>9. o.price * n \in Nat /\ o.taxes * n \in Nat /\ (o.price + o.taxes) * n = o.price * n + o.taxes * n
  BY <1>1, <1>7
<1>10. o.price * n <= Exact(items, n)
  BY <1>8, <1>9
<1>11. o.price * n <= MaxInt
  BY <1>1, <1>8, <1>9, <1>10, QuotesAssumption DEF items, n
<1> QED
  BY <1>11 DEF o, items, n

\* A booking costs what its quote says, its segments add up to that without wrapping
\* around, and no quote makes two bookings, however many requests run at a time and
\* without the unique constraint on price_quote_id.
THEOREM BookedAsQuotedHolds == Spec => []BookedAsQuoted
<1>1. Inv => BookedAsQuoted
  <2> SUFFICES ASSUME Inv, NEW b \in bookings
               PROVE  /\ b.total = quotes[b.quote].total
                      /\ b.total = Exact(b.segments, 1)
                      /\ \A s \in DOMAIN b.segments : b.segments[s].price <= MaxInt
    BY DEF BookedAsQuoted, Inv, Booked
  <2> DEFINE quote == quotes[b.quote]
             items == quote.items
             n == quote.count
  <2>1. Priced(quote) /\ b.total = quote.total /\ b.segments = Segments(quote)
    BY DEF Inv, Booked
  <2>2. /\ n \in Nat \ {0} /\ IsFiniteSet(DOMAIN items) /\ quote.total = Exact(items, n)
        /\ \A f \in DOMAIN items : items[f] \in Offers
    BY <2>1 DEF Priced, Listed, ItemLists
  <2>3. \A x \in Offers : x.price \in Nat /\ x.taxes \in Nat
    BY QuotesAssumption
  <2>4. /\ DOMAIN b.segments = DOMAIN items
        /\ \A f \in DOMAIN items : /\ b.segments[f].price = items[f].price * n
                                   /\ b.segments[f].taxes = items[f].taxes * n
    BY <2>1 DEF Segments
  <2> HIDE DEF quote, items, n
  <2>5. \A f \in DOMAIN items : (items[f].price + items[f].taxes) * n
                                = (b.segments[f].price + b.segments[f].taxes) * 1
    BY <2>2, <2>3, <2>4
  <2>6. Exact(items, n) = Exact(b.segments, 1)
    BY <2>2, <2>4, <2>5, ExactAgrees
  <2>7. \A s \in DOMAIN b.segments : b.segments[s].price <= MaxInt
    BY <2>1, <2>4, PartIsBounded DEF items, n
  <2> QED
    BY <2>1, <2>2, <2>6, <2>7 DEF quote
<1> QED
  BY <1>1, Invariant, PTL

\* A quote carries what all its offers cost at the moment it commits, and neither a quote
\* nor a booking commits over a withdrawn offer: the shared locks keep every offer that has
\* been read as it was.
THEOREM OffersStandHolds == Spec => OffersStand
<1> DEFINE Stands ==
       /\ \A q \in Quotes : quotes[q] = NULL /\ quotes'[q] # NULL =>
             \A f \in DOMAIN quotes'[q].items :
                 fares[f].active /\ fares[f].offer = quotes'[q].items[f]
       /\ \A b \in bookings' \ bookings :
             \A f \in DOMAIN b.segments : fares[f].active
<1>1. Inv /\ [Next]_vars => [Stands]_vars
  <2> SUFFICES ASSUME Inv, Next PROVE Stands
    OBVIOUS
  <2>1. CASE UNCHANGED <<quotes, bookings>>
    BY <2>1
  <2>2. ASSUME NEW c \in Sessions, NEW p \in Quotes, Quote(c, p) PROVE Stands
    <3> DEFINE row == [status |-> "ACTIVE", count |-> tx[c].count, total |-> tx[c].total,
                       items |-> tx[c].read]
    <3>1. /\ tx[c].op = "quote" /\ bookings' = bookings
          /\ quotes' = [quotes EXCEPT ![p] = row]
      BY <2>2 DEF Quote
    <3>2. \A f \in DOMAIN tx[c].read : fares[f].active /\ fares[f].offer = tx[c].read[f]
      BY <3>1 DEF Inv, Session, Quoting
    <3>3. row.items = tx[c].read
      OBVIOUS
    <3> HIDE DEF row
    <3>4. quotes'[p] = row /\ \A q \in Quotes : q # p => quotes'[q] = quotes[q]
      BY <3>1 DEF Inv, Rows
    <3> QED
      BY <3>1, <3>2, <3>3, <3>4
  <2>3. ASSUME NEW c \in Sessions, Create(c) PROVE Stands
    <3> DEFINE q == tx[c].quote
               new == [quote |-> q, by |-> c, total |-> quotes[q].total,
                       segments |-> Segments(quotes[q])]
    <3>1. /\ tx[c].op = "book" /\ tx[c].checked
          /\ bookings' = bookings \cup {new}
          /\ quotes' = [quotes EXCEPT ![q].status = "USED"]
      BY <2>3 DEF Create
    <3>2. Books(c)
      BY <3>1 DEF Inv, Session
    <3>3. \A f \in DOMAIN quotes[q].items : fares[f].active
      BY <3>1, <3>2 DEF Books
    <3>4. DOMAIN new.segments = DOMAIN quotes[q].items
      BY DEF Segments
    <3>5. quotes[q] # NULL
      BY <3>2, PricedIsNotNull DEF Books
    <3> HIDE DEF new, q
    <3>6. \A p \in Quotes : p # q => quotes'[p] = quotes[p]
      BY <3>1 DEF Inv, Rows
    <3> QED
      BY <3>1, <3>3, <3>4, <3>5, <3>6
  <2> HIDE DEF Stands
  <2>4. ASSUME NEW f \in Fares, Change(f) PROVE Stands
    BY <2>1, <2>4 DEF Change
  <2>5. ASSUME NEW c \in Sessions, NEW items \in SUBSET Fares, NEW count \in 1..MaxCount,
               Ask(c, items, count)
        PROVE  Stands
    BY <2>1, <2>5 DEF Ask
  <2>6. ASSUME NEW c \in Sessions, ReadFare(c) PROVE Stands
    BY <2>1, <2>6 DEF ReadFare
  <2>7. ASSUME NEW c \in Sessions, NEW q \in Quotes, Book(c, q) PROVE Stands
    BY <2>1, <2>7 DEF Book
  <2>8. ASSUME NEW c \in Sessions, LockFares(c) \/ CheckFares(c) \/ Rollback(c) PROVE Stands
    BY <2>1, <2>8 DEF LockFares, CheckFares, Rollback
  <2> QED
    BY <2>2, <2>3, <2>4, <2>5, <2>6, <2>7, <2>8 DEF Next
<1> QED
  BY <1>1, Invariant, PTL DEF Spec, OffersStand

=============================================================================
