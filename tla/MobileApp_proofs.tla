-------------------------- MODULE MobileApp_proofs --------------------------
(***************************************************************************)
(* Proofs about the mobile application.  BookingApp: for any price list,   *)
(* any number of bookings, edits and lost requests, a player is charged    *)
(* what the screen showed, and the draft, the quote and the hold go        *)
(* together.  AppLogin: for any phones and any number of requests in       *)
(* flight, a phone number has one account, and whoever signs out with      *)
(* nothing under way stays out.                                            *)
(***************************************************************************)
EXTENDS AppLogin, BookingApp, SequenceTheorems, FiniteSetTheorems, TLAPS


\* A finite set has an element of the greatest measure.
LEMMA Greatest ==
    ASSUME NEW S, IsFiniteSet(S), S # {}, NEW m \in [S -> Int]
    PROVE  \E x \in S : \A y \in S : m[y] <= m[x]
<1> DEFINE Bad == {T \in SUBSET S : T # {} /\ ~ \E x \in T : \A y \in T : m[y] <= m[x]}
<1> SUFFICES ASSUME Bad # {} PROVE FALSE
  OBVIOUS
<1>1. Bad \subseteq FiniteSubsetsOf(S)
  BY FS_FiniteSubsetsOfFinite
<1>2. PICK T \in Bad : \A U \in Bad : <<U, T>> \notin StrictSubsetOrdering(S)
  <2> HIDE DEF Bad
  <2>1. IsWellFoundedOn(StrictSubsetOrdering(S), FiniteSubsetsOf(S))
    BY FS_StrictSubsetOrderingWellFounded
  <2>2. QED BY <1>1, <2>1, WFMin
<1>3. PICK x \in T : TRUE
  OBVIOUS
<1>4. T \ {x} \notin Bad
  BY <1>2, <1>3 DEF StrictSubsetOrdering
<1>5. CASE T \ {x} = {}
  <2>1. T = {x}
    BY <1>3, <1>5
  <2>2. QED BY <2>1
<1>6. CASE T \ {x} # {}
  <2>1. PICK z \in T \ {x} : \A y \in T \ {x} : m[y] <= m[z]
    BY <1>4, <1>6
  <2>2. m[x] \in Int /\ m[z] \in Int /\ \A y \in T : m[y] \in Int
    BY <1>3, <2>1
  <2>3. CASE m[x] <= m[z]
    BY <2>1, <2>3
  <2>4. CASE m[z] <= m[x]
    <3>1. \A y \in T : m[y] <= m[x]
      BY <2>1, <2>2, <2>4
    <3>2. QED BY <1>3, <3>1
  <2>5. QED BY <2>2, <2>3, <2>4
<1>7. QED BY <1>5, <1>6

-----------------------------------------------------------------------------
(* The tariff.                                                             *)

\* Of the packages that fit some are the longest, and of those one comes first.
LEMMA PackageExists ==
    ASSUME NEW S \in SUBSET Packs, IsFiniteSet(S), S # {}
    PROVE  \E p \in S : \A q \in S : p.min > q.min \/ (p.min = q.min /\ ~Before(q, p))
<1>1. \A p \in S : p.min \in Int /\ p.place \in Int
  BY DEF Packs
<1>2. PICK m : m = [p \in S |-> p.min]
  OBVIOUS
<1>3. m \in [S -> Int]
  BY <1>1, <1>2
<1>4. PICK x \in S : \A y \in S : m[y] <= m[x]
  BY <1>3, Greatest
<1>5. PICK L : L = {p \in S : p.min = x.min}
  OBVIOUS
<1>6. L # {} /\ IsFiniteSet(L) /\ L \subseteq S
  BY <1>5, FS_Subset
<1>7. PICK n : n = [p \in L |-> -p.place]
  OBVIOUS
<1>8. n \in [L -> Int]
  BY <1>1, <1>6, <1>7
<1>9. PICK z \in L : \A y \in L : n[y] <= n[z]
  BY <1>6, <1>8, Greatest
<1>10. ASSUME NEW q \in S
       PROVE  z.min > q.min \/ (z.min = q.min /\ ~Before(q, z))
  <2>1. q.min <= z.min
    BY <1>2, <1>4, <1>5, <1>6, <1>9
  <2>2. CASE q.min = z.min
    <3>1. q \in L
      BY <1>5, <1>9, <2>2
    <3>2. n[q] <= n[z] /\ n[q] = -q.place /\ n[z] = -z.place
      BY <1>7, <1>9, <3>1
    <3>3. z.place <= q.place
      BY <1>1, <1>6, <1>9, <3>2
    <3>4. QED BY <1>1, <1>6, <1>9, <2>2, <3>3 DEF Before
  <2>3. QED BY <1>1, <1>6, <1>9, <2>1, <2>2
<1>11. QED BY <1>6, <1>9, <1>10

\* What a list offers is some of its rows.
LEMMA ChosenIsPart ==
    ASSUME NEW S
    PROVE  Chosen(S) \subseteq S
BY DEF Chosen

\* Every discount is between nothing and ninety percent.
LEMMA PickPackageType ==
    ASSUME NEW S \in SUBSET Packs, IsFiniteSet(S), NEW h \in Nat
    PROVE  PickPackage(S, h) \in 0..90
<1> DEFINE fits == {p \in S : h >= p.min}
<1>1. CASE fits = {}
  BY <1>1 DEF PickPackage
<1>2. CASE fits # {}
  <2>1. fits \in SUBSET Packs /\ IsFiniteSet(fits)
    BY FS_Subset
  <2>2. PICK p \in fits : p = CHOOSE z \in fits : \A q \in fits :
            z.min > q.min \/ (z.min = q.min /\ ~Before(q, z))
    <3> HIDE DEF fits
    <3>1. QED BY <1>2, <2>1, PackageExists
  <2>3. PickPackage(S, h) = p.pct
    BY <1>2, <2>2 DEF PickPackage
  <2>4. p.pct \in 0..90
    BY <2>1 DEF Packs
  <2>5. QED BY <2>3, <2>4
<1>3. QED BY <1>1, <1>2

\* A discount is at most 90 percent, for any list, length and window.
LEMMA PercentType ==
    ASSUME NEW ids, NEW l, IsPriceList(l, ids), NEW h \in Nat, NEW w
    PROVE  Percent(l, h, w) \in 0..90
<1>1. /\ Chosen(l.pkgs) \in SUBSET Packs /\ IsFiniteSet(Chosen(l.pkgs))
      /\ Chosen(l.wins) \subseteq Windows(ids)
  <2>1. l.pkgs \in SUBSET Packs /\ IsFiniteSet(l.pkgs) /\ l.wins \in SUBSET Windows(ids)
    BY DEF IsPriceList, Lists
  <2>2. QED BY <2>1, ChosenIsPart, FS_Subset
<1> DEFINE named == {v \in Chosen(l.wins) : v.id = w /\ v.pct > 0}
<1>2. CASE named = {}
  BY <1>1, <1>2, PickPackageType DEF Percent
<1>3. CASE named # {}
  <2>1. PICK v \in named : v = CHOOSE z \in named : TRUE
    BY <1>3
  <2>2. v.pct \in 0..90
    BY <1>1, <2>1 DEF Windows
  <2>3. Percent(l, h, w) = v.pct
    BY <1>3, <2>1 DEF Percent
  <2>4. QED BY <2>2, <2>3
<1>4. QED BY <1>2, <1>3

\* A rounded amount is a natural number.
LEMMA RoundType ==
    ASSUME NEW a \in Nat, NEW b \in Nat \ {0}
    PROVE  Round(a, b) \in Nat
BY DEF Round

\* A discount of at most the whole leaves a price.
LEMMA DiscountFits ==
    ASSUME NEW base \in Nat, NEW pct \in 0..90
    PROVE  base - Round(base * pct, 100) \in Nat
<1>1. PICK x \in Nat : x = base * pct
  OBVIOUS
<1>2. x <= base * 90
  <2>1. pct \in Nat /\ pct <= 90
    OBVIOUS
  <2>2. base * pct <= base * 90
    BY <2>1, Z3
  <2>3. QED BY <1>1, <2>2
<1>3. (2 * x + 100) \div 200 <= base
  BY <1>2
<1>4. Round(base * pct, 100) = (2 * x + 100) \div 200
  BY <1>1 DEF Round
<1>5. (2 * x + 100) \div 200 \in Nat
  OBVIOUS
<1>6. QED BY <1>3, <1>4, <1>5

\* The charge, in kopecks, and the quote, in rubles, are natural numbers.
LEMMA ChargeType ==
    ASSUME NEW ids, NEW l, IsPriceList(l, ids), NEW h \in Nat, NEW w
    PROVE  Charge(l, h, w) \in Nat /\ Quote(l, h, w) \in Nat
<1>1. l.rate \in Nat
  BY DEF IsPriceList, Lists
<1>2. PICK base : base = l.rate * h * 100
  OBVIOUS
<1>3. base \in Nat
  <2>1. l.rate * h \in Nat
    BY <1>1
  <2>2. QED BY <1>2, <2>1
<1>4. PICK pct : pct = Percent(l, h, w)
  OBVIOUS
<1>5. pct \in 0..90
  BY <1>4, PercentType
<1>6. Charge(l, h, w) = base - Round(base * pct, 100)
  BY <1>2, <1>4 DEF Charge
<1>7. Charge(l, h, w) \in Nat
  BY <1>3, <1>5, <1>6, DiscountFits
<1>8. QED BY <1>7, RoundType DEF Quote, Rub

\* When places and hours stand in one order, the last tier that fits is the longest package.
LEMMA TierIsPackage ==
    ASSUME NEW S \in SUBSET Packs, IsFiniteSet(S), S # {}, NEW h \in Nat,
           \A p, q \in S : p.place = q.place => p = q,
           \A p, q \in S : Before(p, q) => p.min < q.min
    PROVE  TierDiscount(S, h) = PickPackage(S, h)
<1> DEFINE fits == {p \in S : h >= p.min}
<1>1. fits \in SUBSET S /\ IsFiniteSet(fits) /\ \A p \in S : p.min \in Int /\ p.place \in Int
  BY FS_Subset DEF Packs
<1>2. CASE fits = {}
  BY <1>2 DEF TierDiscount, PickPackage
<1>3. CASE fits # {}
  <2>1. \E p \in fits : \A q \in fits : ~Before(p, q)
    <3>1. PICK m : m = [p \in fits |-> p.place]
      OBVIOUS
    <3>2. m \in [fits -> Int]
      BY <1>1, <3>1
    <3>3. PICK x \in fits : \A y \in fits : m[y] <= m[x]
      <4> HIDE DEF fits
      <4>1. QED BY <1>1, <1>3, <3>2, Greatest
    <3>4. ASSUME NEW q \in fits
          PROVE  ~Before(x, q)
      <4>1. q.place <= x.place
        BY <3>1, <3>3
      <4>2. q.place = x.place => q = x
        BY <1>1, <3>3
      <4>3. QED BY <1>1, <3>3, <4>1, <4>2 DEF Before
    <3>5. QED BY <3>3, <3>4
  <2>2. PICK x \in fits : /\ x = CHOOSE p \in fits : \A q \in fits : ~Before(p, q)
                          /\ \A q \in fits : ~Before(x, q)
    BY <2>1
  <2>3. PICK z \in fits :
            /\ z = CHOOSE p \in fits : \A q \in fits :
                       p.min > q.min \/ (p.min = q.min /\ ~Before(q, p))
            /\ \A q \in fits : z.min > q.min \/ (z.min = q.min /\ ~Before(q, z))
    <3>1. fits \in SUBSET Packs
      BY <1>1
    <3> HIDE DEF fits
    <3>2. QED BY <1>1, <1>3, <3>1, PackageExists
  <2>4. x = z
    <3>1. x.place < z.place => Before(x, z)
      BY DEF Before
    <3>2. z.place < x.place => Before(z, x)
      BY DEF Before
    <3>3. Before(z, x) => z.min < x.min
      BY <1>1
    <3>4. ~Before(x, z) /\ (z.min > x.min \/ z.min = x.min)
      BY <2>2, <2>3
    <3>5. x.place = z.place
      BY <1>1, <3>1, <3>2, <3>3, <3>4
    <3>6. QED BY <1>1, <3>5
  <2>5. TierDiscount(S, h) = x.pct
    BY <1>3, <2>2 DEF TierDiscount
  <2>6. PickPackage(S, h) = z.pct
    BY <1>3, <2>3 DEF PickPackage
  <2>7. QED BY <2>4, <2>5, <2>6
<1>4. QED BY <1>2, <1>3

\* The server's price is exact: an amount in rubles less a whole percent is in kopecks.
LEMMA ExactCharge ==
    ASSUME NEW a \in Nat, NEW pct \in 0..90
    PROVE  /\ a * (100 - pct) = a * 100 - Round(a * 100 * pct, 100)
           /\ a * (100 - pct) \in Int
<1>1. PICK y \in Nat : y = a * pct
  OBVIOUS
<1>2. a * (100 - pct) = a * 100 - y
  BY <1>1
<1>3. a * 100 * pct = 100 * y
  BY <1>1
<1>4. Round(100 * y, 100) = y
  BY DEF Round
<1>5. QED BY <1>2, <1>3, <1>4

\* Whichever way the phone's float falls, it agrees with the server's rounding.
LEMMA RoundsAgree ==
    ASSUME NEW n \in Int, NEW price \in FloatRounds(n, 100)
    PROVE  Agrees(price, n)
BY DEF FloatRounds, Agrees, Rub, Round

\* The price the phone works out from the packages it was sent agrees with the server's.
LEMMA PhoneAndServer ==
    ASSUME NEW ids, NEW l, IsPriceList(l, ids), "none" \notin ids, Global(l.pkgs) # {},
           Chosen(l.pkgs) = Global(l.pkgs), NEW h \in Nat,
           \A p, q \in Global(l.pkgs) : Before(p, q) => p.min < q.min
    PROVE  \A price \in BookingPrices(l.rate, h, TierDiscount(Global(l.pkgs), h)) :
               Agrees(price, Charge(l, h, "none"))
<1>1. PICK S : S = Global(l.pkgs)
  OBVIOUS
<1>2. /\ S \in SUBSET Packs /\ IsFiniteSet(S) /\ l.rate \in Nat
      /\ \A p, q \in S : p.place = q.place => p = q
  <2>1. S \subseteq l.pkgs
    BY <1>1 DEF Global
  <2>2. l.pkgs \in SUBSET Packs /\ IsFiniteSet(l.pkgs)
    BY DEF IsPriceList, Lists
  <2>3. QED BY <2>1, <2>2, FS_Subset DEF IsPriceList, Lists
<1>3. TierDiscount(S, h) = PickPackage(S, h) /\ PickPackage(S, h) \in 0..90
  BY <1>1, <1>2, TierIsPackage, PickPackageType
<1>4. Percent(l, h, "none") = PickPackage(S, h)
  <2>1. \A w \in Chosen(l.wins) : w.id # "none"
    <3>1. Chosen(l.wins) \subseteq Windows(ids)
      BY ChosenIsPart DEF IsPriceList, Lists
    <3>2. QED BY <3>1 DEF Windows
  <2>2. QED BY <1>1, <2>1 DEF Percent
<1>5. PICK a : a = l.rate * h
  OBVIOUS
<1>6. PICK pct : pct = PickPackage(S, h)
  OBVIOUS
<1>7. a \in Nat /\ pct \in 0..90
  BY <1>2, <1>3, <1>5, <1>6
<1>8. BookingPrices(l.rate, h, pct) = FloatRounds(a * (100 - pct), 100)
  BY <1>5 DEF BookingPrices
<1>9. Charge(l, h, "none") = a * 100 - Round(a * 100 * pct, 100)
  BY <1>4, <1>5, <1>6 DEF Charge
<1>10. a * (100 - pct) = Charge(l, h, "none") /\ a * (100 - pct) \in Int
  BY <1>7, <1>9, ExactCharge
<1>11. QED BY <1>1, <1>3, <1>6, <1>8, <1>10, RoundsAgree

-----------------------------------------------------------------------------
(* The edits keep a price list a price list.                               *)

\* The last place of a list.
LEMMA MaxOf ==
    ASSUME NEW S \in SUBSET Int, IsFiniteSet(S), S # {}
    PROVE  Max(S) \in S /\ \A x \in S : x <= Max(S)
<1>1. PICK m : m = [x \in S |-> x]
  OBVIOUS
<1>2. PICK x \in S : \A y \in S : m[y] <= m[x]
  BY <1>1, Greatest
<1>3. \A y \in S : x >= y
  BY <1>1, <1>2
<1>4. QED BY <1>3 DEF Max

\* A new package gets a place of its own.
LEMMA CreatePackageKeeps ==
    ASSUME NEW ids, NEW l, IsPriceList(l, ids),
           NEW min \in 1..12, NEW pct \in 0..90, NEW zoned \in BOOLEAN
    PROVE  LET e == CreatePackage(l, min, pct, zoned) IN IsPriceList(e, ids) /\ e.wins = l.wins
<1>1. l \in Lists(ids) /\ IsFiniteSet(l.pkgs) /\ l.pkgs \in SUBSET Packs
  BY DEF IsPriceList, Lists
<1> DEFINE S == {-1} \cup {p.place : p \in l.pkgs}
<1>2. S \in SUBSET Int /\ IsFiniteSet(S) /\ S # {}
  <2>1. \A p \in l.pkgs : p.place \in Int
    BY <1>1 DEF Packs
  <2>2. IsFiniteSet({p.place : p \in l.pkgs})
    <3>1. PICK f : f = [p \in l.pkgs |-> p.place]
      OBVIOUS
    <3>2. {p.place : p \in l.pkgs} = {f[p] : p \in l.pkgs}
      BY <3>1
    <3>3. f \in Surjection(l.pkgs, {f[p] : p \in l.pkgs})
      BY <3>1 DEF Surjection
    <3>4. QED BY <1>1, <3>2, <3>3, FS_Surjection
  <2>3. IsFiniteSet({-1})
    BY FS_Singleton
  <2>4. IsFiniteSet(S)
    BY <2>2, <2>3, FS_Union
  <2>5. QED BY <2>1, <2>4
<1>3. PICK place \in Int : place = Max(S) + 1 /\ \A p \in l.pkgs : p.place < place
  <2>1. Max(S) \in S /\ \A x \in S : x <= Max(S)
    <3> HIDE DEF S
    <3>1. QED BY <1>2, MaxOf
  <2>2. \A p \in l.pkgs : p.place \in S
    OBVIOUS
  <2> HIDE DEF S
  <2>3. Max(S) \in Int /\ \A x \in S : x \in Int
    BY <1>2, <2>1
  <2>4. \A p \in l.pkgs : p.place < Max(S) + 1
    BY <2>1, <2>2, <2>3
  <2>5. QED BY <2>3, <2>4
<1>4. PICK new : new = [min |-> min, pct |-> pct, zoned |-> zoned, active |-> TRUE, place |-> place]
  OBVIOUS
<1>5. new \in Packs /\ new.place = place
  BY <1>4 DEF Packs
<1>6. PICK e : e = [l EXCEPT !.pkgs = @ \cup {new}]
  OBVIOUS
<1>7. e = CreatePackage(l, min, pct, zoned)
  BY <1>3, <1>4, <1>6 DEF CreatePackage
<1>8. e \in Lists(ids) /\ e.pkgs = l.pkgs \cup {new} /\ e.wins = l.wins
  BY <1>1, <1>5, <1>6 DEF Lists
<1>9. IsFiniteSet(e.pkgs)
  BY <1>1, <1>8, FS_AddElement
<1>10. \A p, q \in e.pkgs : p.place = q.place => p = q
  <2>1. \A p, q \in l.pkgs : p.place = q.place => p = q
    BY DEF IsPriceList
  <2>2. \A p \in l.pkgs : p.place # new.place
    BY <1>1, <1>3, <1>5 DEF Packs
  <2>3. QED BY <1>8, <2>1, <2>2
<1>11. QED BY <1>7, <1>8, <1>9, <1>10 DEF IsPriceList

\* An edited package keeps its place.
LEMMA UpdatePackageKeeps ==
    ASSUME NEW ids, NEW l, IsPriceList(l, ids), NEW p \in l.pkgs,
           NEW min \in 1..12, NEW pct \in 0..90, NEW active \in BOOLEAN
    PROVE  LET e == UpdatePackage(l, p, min, pct, active) IN
           IsPriceList(e, ids) /\ e.wins = l.wins
<1>1. l \in Lists(ids) /\ IsFiniteSet(l.pkgs) /\ l.pkgs \in SUBSET Packs
  BY DEF IsPriceList, Lists
<1>2. PICK new : new = [p EXCEPT !.min = min, !.pct = pct, !.active = active]
  OBVIOUS
<1>3. new \in Packs /\ new.place = p.place
  <2>1. p \in Packs
    BY <1>1
  <2>2. QED BY <1>2, <2>1 DEF Packs
<1>4. PICK e : e = [l EXCEPT !.pkgs = (@ \ {p}) \cup {new}]
  OBVIOUS
<1>5. e = UpdatePackage(l, p, min, pct, active)
  BY <1>2, <1>4 DEF UpdatePackage
<1>6. e \in Lists(ids) /\ e.pkgs = (l.pkgs \ {p}) \cup {new} /\ e.wins = l.wins
  BY <1>1, <1>3, <1>4 DEF Lists
<1>7. IsFiniteSet(e.pkgs)
  <2>1. IsFiniteSet(l.pkgs \ {p})
    BY <1>1, FS_Subset
  <2>2. QED BY <1>6, <2>1, FS_AddElement
<1>8. \A x, y \in e.pkgs : x.place = y.place => x = y
  <2>1. \A x, y \in l.pkgs : x.place = y.place => x = y
    BY DEF IsPriceList
  <2>2. \A x \in l.pkgs \ {p} : x.place # new.place
    BY <1>3, <2>1
  <2>3. QED BY <1>6, <2>1, <2>2
<1>9. QED BY <1>5, <1>6, <1>7, <1>8 DEF IsPriceList

\* A list without one of its packages is a price list.
LEMMA DeletePackageKeeps ==
    ASSUME NEW ids, NEW l, IsPriceList(l, ids), NEW p \in l.pkgs
    PROVE  LET e == DeletePackage(l, p) IN IsPriceList(e, ids) /\ e.wins = l.wins
<1>1. l \in Lists(ids) /\ IsFiniteSet(l.pkgs)
  BY DEF IsPriceList
<1>2. PICK e : e = DeletePackage(l, p)
  OBVIOUS
<1>3. e \in Lists(ids) /\ e.pkgs = l.pkgs \ {p} /\ e.wins = l.wins
  BY <1>1, <1>2 DEF Lists, DeletePackage
<1>4. QED BY <1>1, <1>2, <1>3, FS_Subset DEF IsPriceList

\* Windows are added with an id of their own, replaced under their id, or taken away.
LEMMA WindowsKept ==
    ASSUME NEW ids, NEW l, IsPriceList(l, ids), NEW wins \in SUBSET Windows(ids),
           \A w, v \in wins : w.id = v.id => w = v
    PROVE  LET e == [l EXCEPT !.wins = wins] IN IsPriceList(e, ids) /\ e.wins = wins
<1>1. l \in Lists(ids) /\ IsFiniteSet(l.pkgs)
  BY DEF IsPriceList
<1>2. PICK e : e = [l EXCEPT !.wins = wins]
  OBVIOUS
<1>3. e \in Lists(ids) /\ e.pkgs = l.pkgs /\ e.wins = wins
  BY <1>1, <1>2 DEF Lists
<1>4. QED BY <1>1, <1>2, <1>3 DEF IsPriceList

IdsOf(l) == {w.id : w \in l.wins}

\* A new window with an id of its own leaves the ids distinct.
LEMMA CreateWindowKeeps ==
    ASSUME NEW ids, NEW l, IsPriceList(l, ids), NEW new \in Windows(ids), new.id \notin IdsOf(l)
    PROVE  LET e == [l EXCEPT !.wins = @ \cup {new}] IN
           IsPriceList(e, ids) /\ IdsOf(e) = IdsOf(l) \cup {new.id}
<1>1. l.wins \in SUBSET Windows(ids) /\ \A w, v \in l.wins : w.id = v.id => w = v
  BY DEF IsPriceList, Lists
<1>2. PICK wins : wins = l.wins \cup {new}
  OBVIOUS
<1>3. PICK e : e = [l EXCEPT !.wins = wins]
  OBVIOUS
<1>4. wins \in SUBSET Windows(ids) /\ \A w, v \in wins : w.id = v.id => w = v
  BY <1>1, <1>2 DEF IdsOf
<1>5. IsPriceList(e, ids) /\ e.wins = wins
  BY <1>3, <1>4, WindowsKept
<1>6. e = [l EXCEPT !.wins = @ \cup {new}]
  BY <1>2, <1>3
<1>7. IdsOf(e) = IdsOf(l) \cup {new.id}
  BY <1>2, <1>5 DEF IdsOf
<1>8. QED BY <1>5, <1>6, <1>7

\* An edited window keeps its id.
LEMMA UpdateWindowKeeps ==
    ASSUME NEW ids, NEW l, IsPriceList(l, ids), NEW o \in l.wins, NEW new \in Windows(ids),
           new.id = o.id
    PROVE  LET e == [l EXCEPT !.wins = (@ \ {o}) \cup {new}] IN
           IsPriceList(e, ids) /\ IdsOf(e) = IdsOf(l)
<1>1. l.wins \in SUBSET Windows(ids) /\ \A w, v \in l.wins : w.id = v.id => w = v
  BY DEF IsPriceList, Lists
<1>2. PICK wins : wins = (l.wins \ {o}) \cup {new}
  OBVIOUS
<1>3. PICK e : e = [l EXCEPT !.wins = wins]
  OBVIOUS
<1>4. wins \in SUBSET Windows(ids) /\ \A w, v \in wins : w.id = v.id => w = v
  <2>1. \A w \in l.wins \ {o} : w.id # new.id
    BY <1>1
  <2>2. QED BY <1>1, <1>2, <2>1
<1>5. IsPriceList(e, ids) /\ e.wins = wins
  BY <1>3, <1>4, WindowsKept
<1>6. e = [l EXCEPT !.wins = (@ \ {o}) \cup {new}]
  BY <1>2, <1>3
<1>7. IdsOf(e) = IdsOf(l)
  BY <1>2, <1>5 DEF IdsOf
<1>8. QED BY <1>5, <1>6, <1>7

\* A list without one of its windows is a price list.
LEMMA DeleteWindowKeeps ==
    ASSUME NEW ids, NEW l, IsPriceList(l, ids), NEW o \in l.wins
    PROVE  LET e == DeleteWindow(l, o) IN
           IsPriceList(e, ids) /\ IdsOf(e) \subseteq IdsOf(l)
<1>1. l.wins \in SUBSET Windows(ids) /\ \A w, v \in l.wins : w.id = v.id => w = v
  BY DEF IsPriceList, Lists
<1>2. PICK wins : wins = l.wins \ {o}
  OBVIOUS
<1>3. DeleteWindow(l, o) = [l EXCEPT !.wins = wins]
  BY <1>2 DEF DeleteWindow
<1>4. wins \in SUBSET Windows(ids) /\ \A w, v \in wins : w.id = v.id => w = v
  BY <1>1, <1>2
<1>5. IsPriceList(DeleteWindow(l, o), ids) /\ DeleteWindow(l, o).wins = wins
  BY <1>3, <1>4, WindowsKept
<1>6. QED BY <1>2, <1>5 DEF IdsOf

\* A new rate touches neither packages nor windows.
LEMMA UpdateZoneKeeps ==
    ASSUME NEW ids, NEW l, IsPriceList(l, ids), NEW rate \in Nat
    PROVE  LET e == UpdateZone(l, rate) IN IsPriceList(e, ids) /\ e.wins = l.wins
<1>1. l \in Lists(ids) /\ IsFiniteSet(l.pkgs)
  BY DEF IsPriceList
<1>2. PICK e : e = UpdateZone(l, rate)
  OBVIOUS
<1>3. e \in Lists(ids) /\ e.pkgs = l.pkgs /\ e.wins = l.wins
  BY <1>1, <1>2 DEF Lists, UpdateZone
<1>4. QED BY <1>1, <1>2, <1>3 DEF IsPriceList

IdsUpTo(l, n) == IdsOf(l) \subseteq FirstIds \cup {NewIds[k] : k \in 1..n}

\* Whatever one press of the page of prices asks for, the list stays a price list.
LEMMA EditedList ==
    ASSUME IsPriceList(list, WindowIds), upsets \in Nat, upsets < MaxUpsets,
           IdsUpTo(list, upsets), NEW l \in Edited
    PROVE  IsPriceList(l, WindowIds) /\ IdsUpTo(l, upsets + 1)
<1>1. IdsOf(l) \subseteq IdsOf(list) => IdsUpTo(l, upsets + 1)
  <2>1. 1..upsets \subseteq 1..(upsets + 1)
    OBVIOUS
  <2>2. QED BY <2>1 DEF IdsUpTo
<1>2. CASE l \in EditedPackages \cup {UpdateZone(list, 200)}
  <2>1. CASE \E zoned \in BOOLEAN : l = CreatePackage(list, 5, 20, zoned)
    <3>1. PICK zoned \in BOOLEAN : l = CreatePackage(list, 5, 20, zoned)
      BY <2>1
    <3>2. 5 \in 1..12 /\ 20 \in 0..90
      OBVIOUS
    <3>3. IsPriceList(l, WindowIds) /\ l.wins = list.wins
      BY <3>1, <3>2, CreatePackageKeeps
    <3>4. QED BY <1>1, <3>3 DEF IdsOf
  <2>2. CASE \E p \in list.pkgs : l = UpdatePackage(list, p, 8, 10, TRUE)
    <3>1. PICK p \in list.pkgs : l = UpdatePackage(list, p, 8, 10, TRUE)
      BY <2>2
    <3>2. 8 \in 1..12 /\ 10 \in 0..90
      OBVIOUS
    <3>3. IsPriceList(l, WindowIds) /\ l.wins = list.wins
      BY <3>1, <3>2, UpdatePackageKeeps
    <3>4. QED BY <1>1, <3>3 DEF IdsOf
  <2>3. CASE \E p \in list.pkgs : l = DeletePackage(list, p)
    <3>1. IsPriceList(l, WindowIds) /\ l.wins = list.wins
      BY <2>3, DeletePackageKeeps
    <3>2. QED BY <1>1, <3>1 DEF IdsOf
  <2>4. CASE l = UpdateZone(list, 200)
    <3>1. IsPriceList(l, WindowIds) /\ l.wins = list.wins
      BY <2>4, UpdateZoneKeeps
    <3>2. QED BY <1>1, <3>1 DEF IdsOf
  <2>5. QED BY <1>2, <2>1, <2>2, <2>3, <2>4 DEF EditedPackages
<1>3. CASE l = CreateWindow(list, NewIds[upsets + 1], 14, 18, 10, TRUE)
  <2>1. upsets + 1 \in 1..MaxUpsets
    BY BookingAppAssumption
  <2>2. NewIds[upsets + 1] \in WindowIds
    BY <2>1 DEF WindowIds
  <2>3. NewIds[upsets + 1] \notin IdsOf(list)
    <3>1. \A k \in 1..upsets : k \in 1..MaxUpsets /\ k # upsets + 1
      BY <2>1, BookingAppAssumption
    <3>2. QED BY <2>1, <3>1, BookingAppAssumption DEF IdsUpTo
  <2>4. IsPriceList(l, WindowIds) /\ IdsOf(l) = IdsOf(list) \cup {NewIds[upsets + 1]}
    <3>1. PICK new : new = [id |-> NewIds[upsets + 1], from |-> 14, to |-> 18, pct |-> 10,
                            zoned |-> TRUE, active |-> TRUE]
      OBVIOUS
    <3>2. new \in Windows(WindowIds) /\ new.id = NewIds[upsets + 1]
      BY <2>2, <3>1 DEF Windows
    <3>3. l = [list EXCEPT !.wins = @ \cup {new}]
      BY <1>3, <3>1 DEF CreateWindow
    <3>4. QED BY <2>3, <3>2, <3>3, CreateWindowKeeps
  <2>5. upsets + 1 \in 1..(upsets + 1)
    OBVIOUS
  <2>6. QED BY <2>4, <2>5 DEF IdsUpTo
<1>4. ASSUME NEW o \in list.wins, NEW active \in BOOLEAN,
             l = UpdateWindow(list, o, 22, 6, 30, active)
      PROVE  IsPriceList(l, WindowIds) /\ IdsUpTo(l, upsets + 1)
  <2>1. PICK new : new = [o EXCEPT !.from = 22, !.to = 6, !.pct = 30, !.active = active]
    OBVIOUS
  <2>2. o \in Windows(WindowIds)
    BY DEF IsPriceList, Lists
  <2>3. new \in Windows(WindowIds) /\ new.id = o.id
    <3>1. PICK from \in 0..23, to \in 0..23, pct \in 0..90 : from = 22 /\ to = 6 /\ pct = 30
      OBVIOUS
    <3>2. new = [o EXCEPT !.from = from, !.to = to, !.pct = pct, !.active = active]
      BY <2>1, <3>1
    <3>3. QED BY <2>2, <3>2 DEF Windows
  <2>4. l = [list EXCEPT !.wins = (@ \ {o}) \cup {new}]
    BY <1>4, <2>1 DEF UpdateWindow
  <2>5. IsPriceList(l, WindowIds) /\ IdsOf(l) = IdsOf(list)
    BY <2>3, <2>4, UpdateWindowKeeps
  <2>6. QED BY <1>1, <2>5
<1>5. CASE \E o \in list.wins : l = DeleteWindow(list, o)
  <2>1. IsPriceList(l, WindowIds) /\ IdsOf(l) \subseteq IdsOf(list)
    BY <1>5, DeleteWindowKeeps
  <2>2. QED BY <1>1, <2>1
<1>6. ASSUME l \in EditedWindows
      PROVE  \/ l = CreateWindow(list, NewIds[upsets + 1], 14, 18, 10, TRUE)
             \/ \E o \in list.wins : \/ \E active \in BOOLEAN :
                                            l = UpdateWindow(list, o, 22, 6, 30, active)
                                     \/ l = DeleteWindow(list, o)
  BY <1>6 DEF EditedWindows
<1>7. l \in EditedPackages \cup {UpdateZone(list, 200)} \/ l \in EditedWindows
  BY DEF Edited
<1>8. QED BY <1>2, <1>3, <1>4, <1>5, <1>6, <1>7

-----------------------------------------------------------------------------
(* The steps of BookingApp.                                                *)

\* A step counts at most one upset or one turn.
LEMMA BoundsStep == CheckoutNext => Upset \/ Turn \/ UNCHANGED bounds
<1>1. Server => Upset \/ Turn \/ UNCHANGED bounds
  BY DEF Server, ServePay, ServeQuote, Edit, ServeCreate, ServeCancel, Scheduler, bounds
<1>2. Arrivals => Upset \/ Turn \/ UNCHANGED bounds
  BY DEF Arrivals, QuoteAnswered, PricingArrives, PayAnswered, Paid, CreateAnswered, bounds
<1>3. Losses => Upset \/ Turn \/ UNCHANGED bounds
  BY DEF Losses, LosePricing, LosePay, Kill, LoseCreate, LoseCancel, LoseReleased, bounds
<1>4. Player => Upset \/ Turn \/ UNCHANGED bounds
  BY DEF Player, SelectSeat, GoTime, SelectHours, PickDate, SelectPackage, ChangeDraft, Continue,
         Checkout, TapPay, LeavePayment, BackToTime, BackToMap, OpenSession, CloseSession, Refresh,
         CancelBooking, Finish, bounds
<1>5. Extension => Upset \/ Turn \/ UNCHANGED bounds
  BY DEF Extension, OpenExtend, QuoteExtend, ChooseMode, ChooseMinutes, ChooseHours, ChoosePackage,
         Choosing, PayExtend, ExtendSession, CloseExtend, bounds
<1>6. QED BY <1>1, <1>2, <1>3, <1>4, <1>5 DEF CheckoutNext

\* Only an administrator changes the price list.
LEMMA ListStep == CheckoutNext => UNCHANGED list \/ Edit
<1>1. Server => UNCHANGED list \/ Edit
  BY DEF Server, ServePay, ServeQuote, ServeCreate, ServeCancel, Release, Scheduler, backend
<1>2. Arrivals => UNCHANGED list
  BY DEF Arrivals, QuoteAnswered, PricingArrives, PayAnswered, Paid, CreateAnswered, backend
<1>3. Losses => UNCHANGED list
  BY DEF Losses, LosePricing, LosePay, Kill, LoseCreate, LoseCancel, LoseReleased, Release, backend
<1>4. Player => UNCHANGED list
  BY DEF Player, SelectSeat, GoTime, SelectHours, PickDate, SelectPackage, ChangeDraft, Continue,
         Checkout, TapPay, LeavePayment, BackToTime, BackToMap, OpenSession, CloseSession, Refresh,
         CancelBooking, Finish, backend
<1>5. Extension => UNCHANGED list
  BY DEF Extension, OpenExtend, QuoteExtend, ChooseMode, ChooseMinutes, ChooseHours, ChoosePackage,
         Choosing, PayExtend, ExtendSession, CloseExtend, backend
<1>6. QED BY <1>1, <1>2, <1>3, <1>4, <1>5 DEF CheckoutNext

-----------------------------------------------------------------------------
(* The phone's packages and what the player may make of the draft.         *)

KnownTypes == {Unset} \cup [pkgs : SUBSET Packs, wins : SUBSET Windows(WindowIds)]

\* A window is at least one hour long and at most a day.
LEMMA LengthType ==
    ASSUME NEW ids, NEW w \in Windows(ids)
    PROVE  Length(w) \in 1..24
BY DEF Length, Windows

\* What the time screen offers as packages, from the server or from its own table.
LEMMA PackagesTyped ==
    ASSUME BookingAppAssumption, NEW k \in KnownTypes, NEW p \in Packages(k)
    PROVE  p.id \in PackageIds /\ p.from \in Nat /\ p.hours \in 1..24
<1>1. CASE p \in DefaultPackages
  BY <1>1 DEF DefaultPackages, PackageIds
<1>2. CASE \E W \in SUBSET Windows(WindowIds) :
               \E w \in W : p = [id |-> w.id, from |-> w.from, hours |-> Length(w)]
  <2>1. PICK w \in Windows(WindowIds) : p = [id |-> w.id, from |-> w.from, hours |-> Length(w)]
    BY <1>2
  <2>2. Length(w) \in 1..24 /\ w.id \in WindowIds /\ w.from \in Nat
    BY LengthType DEF Windows
  <2>3. QED BY <2>1, <2>2 DEF PackageIds
<1>3. QED
  <2>1. PICK wins : wins = (IF k = Unset THEN {} ELSE k.wins)
    OBVIOUS
  <2>2. wins \in SUBSET Windows(WindowIds)
    BY <2>1 DEF KnownTypes
  <2>3. p \in TimePackages(wins)
    BY <2>1 DEF Packages
  <2>4. QED BY <1>1, <1>2, <2>2, <2>3 DEF TimePackages

\* The start of a booking is an hour of today or of tomorrow.
LEMMA StartTyped ==
    ASSUME BookingAppAssumption, NEW k \in KnownTypes, NEW d \in Nat, NEW p
    PROVE  StartDate(d, p, Packages(k), Now) \in Nat
<1> DEFINE chosen == {q \in Packages(k) : q.id = p}
<1>1. CASE chosen = {}
  BY <1>1 DEF StartDate
<1>2. CASE chosen # {}
  <2>1. PICK c \in chosen : c = CHOOSE q \in chosen : TRUE
    BY <1>2
  <2>2. c.from \in Nat
    BY <2>1, PackagesTyped
  <2>3. StartDate(d, p, Packages(k), Now) = IF c.from < Now THEN c.from + 24 ELSE c.from
    BY <1>2, <2>1 DEF StartDate
  <2>4. QED BY <2>2, <2>3 DEF Now
<1>3. QED BY <1>1, <1>2

\* The three choices of the time screen are changes of the draft.
LEMMA ChangesDraft ==
    ASSUME BookingAppAssumption, CheckoutTypeOK, SelectHours \/ PickDate \/ SelectPackage
    PROVE  \E d \in Nat, h \in 1..24, p \in PackageIds : ChangeDraft(d, h, p)
<1>1. picked \in Nat /\ hours \in 1..24 /\ "none" \in PackageIds /\ known \in KnownTypes
  BY DEF CheckoutTypeOK, PackageIds, KnownTypes
<1>2. CASE SelectHours
  <2>1. PICK h \in PresetHours(Tiers(known)) \cup CustomHours : ChangeDraft(picked, h, "none")
    BY <1>2 DEF SelectHours
  <2>2. PresetHours(Tiers(known)) \subseteq 1..24
    BY <1>1 DEF PresetHours, Tiers, KnownTypes, Packs
  <2>3. CustomHours \subseteq 1..24
    BY BookingAppAssumption
  <2>4. QED BY <1>1, <2>1, <2>2, <2>3
<1>3. CASE PickDate
  <2>1. PICK d \in Dates : ChangeDraft(d, hours, "none")
    BY <1>3 DEF PickDate
  <2>2. d \in Nat
    BY BookingAppAssumption
  <2>3. QED BY <1>1, <2>1, <2>2
<1>4. CASE SelectPackage
  <2>1. PICK p \in Packages(known) :
            ChangeDraft(picked, hours, "none") \/ ChangeDraft(picked, p.hours, p.id)
    BY <1>4 DEF SelectPackage
  <2>2. p.hours \in 1..24 /\ p.id \in PackageIds
    BY <1>1, PackagesTyped
  <2>3. QED BY <1>1, <2>1, <2>2
<1>5. QED BY <1>2, <1>3, <1>4

\* The release of a booking, answered or not.
Released(r, ok) ==
    /\ r \in cancels /\ cancels' = cancels \ {r} /\ Resume(r, ok)
    /\ \/ UNCHANGED rows
       \/ rows[r].st \in {"pending", "paid"} /\ rows' = [rows EXCEPT ![r] = Closed(r, "cancelled")]
    /\ UNCHANGED <<list, selected, known, hours, package, ref, creates, refused, paying, ext>>

\* The three ends of a DELETE are releases.
LEMMA Releases ==
    ASSUME NEW r \in Rows, ServeCancel(r) \/ LoseReleased(r) \/ LoseCancel(r)
    PROVE  \E ok \in BOOLEAN : Released(r, ok)
BY DEF ServeCancel, LoseReleased, LoseCancel, Release, Released, backend

\* The steps, with the releases and the changes of the draft each as one.
ServerSteps ==
    \/ ServePay \/ ServeQuote \/ Edit
    \/ \E s \in Slots : ServeCreate(s)
    \/ \E r \in Rows : Scheduler(r)
LossSteps == LosePricing \/ LosePay \/ Kill \/ \E s \in Slots : LoseCreate(s)
ReleaseSteps == \E r \in Rows, ok \in BOOLEAN : Released(r, ok)
DraftSteps == \E d \in Nat, h \in 1..24, p \in PackageIds : ChangeDraft(d, h, p)
PlayerSteps ==
    \/ SelectSeat \/ GoTime \/ Continue \/ Checkout \/ TapPay \/ LeavePayment \/ BackToTime
    \/ BackToMap \/ OpenSession \/ CloseSession \/ Refresh \/ CancelBooking \/ Finish

Step ==
    \/ ServerSteps \/ Arrivals \/ LossSteps \/ ReleaseSteps \/ DraftSteps \/ PlayerSteps
    \/ Extension

\* Every step is one of the classes above.
LEMMA Steps ==
    ASSUME BookingAppAssumption, CheckoutTypeOK, CheckoutNext
    PROVE  Step
<1>1. CASE Server
  BY <1>1, Releases DEF Server, ServerSteps, ReleaseSteps, Step
<1>2. CASE Losses
  BY <1>2, Releases DEF Losses, LossSteps, ReleaseSteps, Step
<1>3. CASE Player
  BY <1>3, ChangesDraft DEF Player, DraftSteps, PlayerSteps, Step
<1>4. QED BY <1>1, <1>2, <1>3 DEF CheckoutNext, Step

-----------------------------------------------------------------------------
(* Screens in step.                                                        *)

\* A quote is asked for by the time screen while the seat is selected, and forgotten with it.
LEMMA QuotesOnBookingStep ==
    ASSUME CheckoutTypeOK, ScreensInStep, Step
    PROVE  QuotesOnBooking'
<1> QuotesOnBooking /\ WaitingScreens /\ ExtendScreen
  BY DEF ScreensInStep
<1>1. CASE ServeQuote
  <2>1. asking \in QuoteTypes
    BY DEF CheckoutTypeOK
  <2>2. asking'.at # "none" /\ asking.at = "sent"
    BY <1>1, <2>1 DEF ServeQuote, QuoteTypes
  <2>3. QED BY <1>1, <2>2 DEF ServeQuote, NoQuote, OnBooking, QuotesOnBooking
<1>2. CASE ServerSteps
  BY <1>1, <1>2 DEF ServerSteps, ServePay, Edit, ServeCreate, Scheduler, quoting, booking,
                    OnBooking, QuotesOnBooking
<1>3. CASE Arrivals
  BY <1>3 DEF Arrivals, QuoteAnswered, PricingArrives, PayAnswered, Paid, CreateAnswered, quoting,
              Redraft, Ask, NoQuote, OnBooking, QuotesOnBooking
<1>4. CASE LossSteps
  BY <1>4 DEF LossSteps, LosePricing, LosePay, Kill, LoseCreate, quoting, OnBooking, QuotesOnBooking
<1>5. CASE ReleaseSteps
  <2>1. PICK r \in Rows, ok \in BOOLEAN : Released(r, ok)
    BY <1>5 DEF ReleaseSteps
  <2>2. ASSUME OpenTime
        PROVE  QuotesOnBooking'
    BY <2>1, <2>2 DEF Released, OpenTime, Ask, NoQuote, OnBooking, QuotesOnBooking
  <2>3. ASSUME UNCHANGED quoting, route' # route => awaiting.who = "session"
        PROVE  QuotesOnBooking'
    BY <2>1, <2>3 DEF Released, quoting, OnBooking, QuotesOnBooking, WaitingScreens
  <2>4. QED BY <2>1, <2>2, <2>3 DEF Released, Resume
<1>6. CASE DraftSteps
  BY <1>6 DEF DraftSteps, ChangeDraft, Redraft, Ask, NoQuote, OnBooking, QuotesOnBooking
<1>7. CASE GoTime
  BY <1>7 DEF GoTime, OpenTime, quoting, Ask, NoQuote, OnBooking, QuotesOnBooking
<1>8. CASE PlayerSteps
  BY <1>7, <1>8 DEF PlayerSteps, SelectSeat, Continue, Checkout, TapPay, LeavePayment, BackToTime,
                    BackToMap, OpenSession, CloseSession, Refresh, CancelBooking, Finish, quoting,
                    booking, OnBooking, QuotesOnBooking
<1>9. CASE Extension
  BY <1>9 DEF Extension, OpenExtend, QuoteExtend, ChooseMode, ChooseMinutes, ChooseHours,
              ChoosePackage, Choosing, PayExtend, ExtendSession, CloseExtend, quoting, booking,
              OnBooking, QuotesOnBooking, ExtendScreen
<1>10. QED BY <1>2, <1>3, <1>4, <1>5, <1>6, <1>8, <1>9 DEF Step

\* Past the map the draft has a start.
LEMMA StartedOnBookingStep ==
    ASSUME BookingAppAssumption, CheckoutTypeOK, ScreensInStep, Step
    PROVE  StartedOnBooking'
<1> StartedOnBooking /\ WaitingScreens /\ ExtendScreen /\ Unset \notin Nat
  BY BookingAppAssumption DEF ScreensInStep
<1>1. ASSUME NEW d \in Nat, NEW p, NEW k \in KnownTypes
      PROVE  StartDate(d, p, Packages(k), Now) # Unset
  BY <1>1, StartTyped
<1>2. Now \in Nat /\ picked \in Nat /\ known \in KnownTypes /\ Sent(list) \in KnownTypes
  BY DEF Now, CheckoutTypeOK, KnownTypes, Sent, Global, IsPriceList, Lists
<1>3. CASE OpenTime
  BY <1>1, <1>2, <1>3 DEF OpenTime, StartedOnBooking
<1>4. ASSUME NEW d \in Nat, NEW h, NEW p, NEW k \in KnownTypes, Redraft(d, h, p, k)
      PROVE  StartedOnBooking'
  BY <1>1, <1>2, <1>4 DEF Redraft, StartedOnBooking
<1>5. CASE ServerSteps
  BY <1>5 DEF ServerSteps, ServePay, ServeQuote, Edit, ServeCreate, Scheduler, draft, booking,
              OnBooking, StartedOnBooking
<1>6. CASE Arrivals
  BY <1>2, <1>4, <1>6 DEF Arrivals, QuoteAnswered, PricingArrives, PayAnswered, Paid,
                          CreateAnswered, draft, OnBooking, StartedOnBooking
<1>7. CASE LossSteps
  BY <1>7 DEF LossSteps, LosePricing, LosePay, Kill, LoseCreate, draft, OnBooking, StartedOnBooking
<1>8. CASE ReleaseSteps
  BY <1>3, <1>8 DEF ReleaseSteps, Released, Resume, OnBooking, StartedOnBooking
<1>9. CASE DraftSteps
  BY <1>2, <1>4, <1>9 DEF DraftSteps, ChangeDraft
<1>10. CASE PlayerSteps
  BY <1>3, <1>10 DEF PlayerSteps, SelectSeat, GoTime, Continue, Checkout, TapPay, LeavePayment,
                     BackToTime, BackToMap, OpenSession, CloseSession, Refresh, CancelBooking,
                     Finish, draft, booking, OnBooking, StartedOnBooking
<1>11. CASE Extension
  BY <1>11 DEF Extension, OpenExtend, QuoteExtend, ChooseMode, ChooseMinutes, ChooseHours,
               ChoosePackage, Choosing, PayExtend, ExtendSession, CloseExtend, draft, booking,
               OnBooking, StartedOnBooking
<1>12. QED BY <1>5, <1>6, <1>7, <1>8, <1>9, <1>10, <1>11 DEF Step

\* Before the time screen was seen nothing is held.
LEMMA NothingBeforeStartStep ==
    ASSUME BookingAppAssumption, CheckoutTypeOK, ScreensInStep, RowsExist, Step
    PROVE  NothingBeforeStart'
<1> /\ NothingBeforeStart /\ StartedOnBooking /\ WaitingScreens /\ ExtendScreen /\ HoldsOnPayment
    /\ AnswersHeard /\ Unset \notin Nat
  BY BookingAppAssumption DEF ScreensInStep
<1>1. ASSUME NEW d \in Nat, NEW p, NEW k \in KnownTypes
      PROVE  StartDate(d, p, Packages(k), Now) # Unset
  BY <1>1, StartTyped
<1>2. Now \in Nat /\ picked \in Nat /\ known \in KnownTypes /\ Sent(list) \in KnownTypes
  BY DEF Now, CheckoutTypeOK, KnownTypes, Sent, Global, IsPriceList, Lists
<1>3. CASE OpenTime
  BY <1>1, <1>2, <1>3 DEF OpenTime, NothingBeforeStart
<1>4. ASSUME NEW d \in Nat, NEW h, NEW p, NEW k \in KnownTypes, Redraft(d, h, p, k)
      PROVE  NothingBeforeStart'
  BY <1>1, <1>2, <1>4 DEF Redraft, NothingBeforeStart
<1>5. pay \in PayTypes
  BY DEF CheckoutTypeOK
<1>6. CASE ServerSteps
  <2>1. CASE ServePay
    BY <2>1 DEF ServePay, draft, holding, NoPay, NothingBeforeStart
  <2>2. CASE ~ServePay
    BY <1>6, <2>2 DEF ServerSteps, ServeQuote, Edit, ServeCreate, Scheduler, draft, booking,
                      holding, paying, NothingBeforeStart
  <2>3. QED BY <2>1, <2>2
<1>7. CASE Arrivals
  <2>1. ASSUME NEW s \in Slots, CreateAnswered(s)
        PROVE  NothingBeforeStart'
    <3>1. creates[s].at = "made" => startAt # Unset
      BY DEF StartedOnBooking, OnBooking, AnswersHeard, HoldsOnPayment
    <3>2. QED BY <2>1, <3>1 DEF CreateAnswered, draft, paying, NothingBeforeStart
  <2>2. CASE PricingArrives
    BY <1>2, <1>4, <2>2 DEF PricingArrives, draft, holding, paying, NothingBeforeStart
  <2>3. CASE QuoteAnswered \/ PayAnswered \/ Paid
    BY <2>3 DEF QuoteAnswered, PayAnswered, Paid, draft, holding, paying, NoPay, NothingBeforeStart
  <2>4. QED BY <1>7, <2>1, <2>2, <2>3 DEF Arrivals
<1>8. CASE LossSteps
  <2>1. CASE Kill
    <3>1. pay'.at = "idle" \/ (pay'.at = "sent" /\ ~pay'.heard)
      BY <1>5, <2>1 DEF Kill, PayTypes, NoPay
    <3>2. QED BY <2>1, <3>1 DEF Kill, NothingBeforeStart
  <2>2. CASE ~Kill
    BY <1>8, <2>2 DEF LossSteps, LosePricing, LosePay, LoseCreate, draft, holding, paying, NoPay,
              NothingBeforeStart
  <2>3. QED BY <2>1, <2>2
<1>9. CASE ReleaseSteps
  BY <1>3, <1>9 DEF ReleaseSteps, Released, Resume, paying, NothingBeforeStart, WaitingScreens
<1>10. CASE DraftSteps
  BY <1>2, <1>4, <1>10 DEF DraftSteps, ChangeDraft
<1>11. CASE PlayerSteps
  BY <1>3, <1>5, <1>11 DEF PlayerSteps, SelectSeat, GoTime, Continue, Checkout, TapPay,
              LeavePayment,
                     BackToTime, BackToMap, OpenSession, CloseSession, Refresh, CancelBooking,
                     Finish, TakeHold, draft, booking, holding, paying, OnBooking,
                     NothingBeforeStart,
                     StartedOnBooking, PayTypes
<1>12. CASE Extension
  BY <1>12 DEF Extension, OpenExtend, QuoteExtend, ChooseMode, ChooseMinutes, ChooseHours,
               ChoosePackage, Choosing, PayExtend, ExtendSession, CloseExtend, draft, booking,
               holding, paying, NothingBeforeStart
<1>13. QED BY <1>6, <1>7, <1>8, <1>9, <1>10, <1>11, <1>12 DEF Step

\* A request that is no longer listened for.
LEMMA CancelledType ==
    ASSUME CheckoutTypeOK, NEW s \in Slots
    PROVE  /\ creates[s] \in CreateTypes /\ Cancelled(s) \in CreateTypes /\ ~Cancelled(s).live
           /\ Cancelled(s).at \in {"made", "no"} => ~Live(s) /\ Cancelled(s) = creates[s]
<1>1. creates[s] \in CreateTypes
  BY DEF CheckoutTypeOK
<1>2. QED BY <1>1 DEF Cancelled, NoCreate, CreateTypes, Live

\* What becomes of a request for a hold.
RowFor(key) ==
    [NoRow EXCEPT !.st = "pending", !.hours = key.hours, !.at = key.start,
                  !.price = Charge(list, key.hours, key.window), !.by = list]

Served(s) ==
    /\ creates[s].at = "sent" /\ creates'[s] \in CreateTypes
    /\ \A t \in Slots \ {s} : creates'[t] = creates[t]
    /\ \/ UNCHANGED rows /\ creates'[s].at # "made"
       \/ /\ Available(creates[s].key.start, creates[s].key.hours, 0) /\ Ongoing = {}
          /\ \E r \in Rows :
                /\ rows[r].st = "none" /\ rows' = [rows EXCEPT ![r] = RowFor(creates[s].key)]
                /\ creates'[s].at = "made" => /\ creates'[s].row = r
                                              /\ creates'[s].price = Rub(rows'[r].price)
    /\ \/ creates'[s] = NoCreate
       \/ /\ Live(s) /\ creates'[s].live /\ creates'[s].key = creates[s].key
          /\ creates'[s].at \in {"made", "no"}
    /\ UNCHANGED <<list, route, selected, pricing, draft, quoting, pending, ref, refused, paying,
                   leaving, booked, ext>>

RowForType ==
    \A key \in Keys : /\ RowFor(key) \in RowTypes /\ RowFor(key).st = "pending"
                      /\ RowFor(key).price = Charge(list, key.hours, key.window)
                      /\ RowFor(key).by = list /\ RowFor(key).hours = key.hours
                      /\ RowFor(key).at = key.start /\ RowFor(key).shown = 0
                      /\ RowFor(key).longer = Unset /\ ~RowFor(key).confirmed

\* The row of a new hold.
LEMMA RowForTyped ==
    ASSUME IsPriceList(list, WindowIds)
    PROVE  RowForType
<1> SUFFICES ASSUME NEW key \in Keys
             PROVE  /\ RowFor(key) \in RowTypes /\ RowFor(key).st = "pending"
                    /\ RowFor(key).price = Charge(list, key.hours, key.window)
                    /\ RowFor(key).by = list /\ RowFor(key).hours = key.hours
                    /\ RowFor(key).at = key.start /\ RowFor(key).shown = 0
                    /\ RowFor(key).longer = Unset /\ ~RowFor(key).confirmed
  BY DEF RowForType
<1>1. PICK price : price = Charge(list, key.hours, key.window)
  OBVIOUS
<1>2. key.hours \in Nat /\ key.start \in Nat
  BY DEF Keys
<1>3. price \in Nat
  BY <1>1, <1>2, ChargeType
<1>4. list \in Lists(WindowIds)
  BY DEF IsPriceList
<1>5. RowFor(key) = [NoRow EXCEPT !.st = "pending", !.hours = key.hours, !.at = key.start,
                                  !.price = price, !.by = list]
  BY <1>1 DEF RowFor
<1>6. RowFor(key) = [st |-> "pending", hours |-> key.hours, at |-> key.start, price |-> price,
                     by |-> list, shown |-> 0, asked |-> FALSE, confirmed |-> FALSE,
                     longer |-> Unset]
  BY <1>5 DEF NoRow
<1>7. RowFor(key) \in RowTypes
  BY <1>2, <1>3, <1>4, <1>6 DEF RowTypes, BookingStatuses
<1>8. QED BY <1>1, <1>6, <1>7

\* Serving a request writes one row and one answer, or none.
LEMMA ServesCreate ==
    ASSUME CheckoutTypeOK, ScreensInStep, NEW s \in Slots, ServeCreate(s)
    PROVE  Served(s)
<1>1. /\ creates \in [Slots -> CreateTypes] /\ creates[s].at = "sent" /\ creates[s].key \in Keys
      /\ rows \in [Rows -> RowTypes] /\ creates[s] \in CreateTypes
  BY DEF CheckoutTypeOK, ServeCreate, ScreensInStep, SlotsNamed
<1>2. PICK c : c = creates[s]
  OBVIOUS
<1>3. NoCreate \in CreateTypes /\ NoCreate.at = "idle" /\ c \in CreateTypes
  BY <1>1, <1>2 DEF NoCreate, CreateTypes
<1>4. CASE UNCHANGED rows /\ creates' = [creates EXCEPT ![s] =
                                             IF @.live THEN [@ EXCEPT !.at = "no"] ELSE NoCreate]
  <2>1. creates'[s] = (IF c.live THEN [c EXCEPT !.at = "no"] ELSE NoCreate)
    BY <1>1, <1>2, <1>4
  <2>2. \A t \in Slots \ {s} : creates'[t] = creates[t]
    BY <1>1, <1>4
  <2>3. /\ creates'[s] \in CreateTypes /\ creates'[s].at # "made"
        /\ \/ creates'[s] = NoCreate
           \/ c.live /\ creates'[s].live /\ creates'[s].key = c.key /\ creates'[s].at = "no"
    BY <1>3, <2>1 DEF CreateTypes
  <2>4. QED BY <1>1, <1>2, <1>4, <2>2, <2>3, ServeCreate(s) DEF Served, Live, ServeCreate
<1>5. ASSUME NEW r \in Rows, FirstFree(r), rows' = [rows EXCEPT ![r] = RowFor(c.key)],
             Available(c.key.start, c.key.hours, 0), Ongoing = {},
             creates' = [creates EXCEPT ![s] =
                   IF @.live THEN [@ EXCEPT !.at = "made", !.row = r, !.price = Rub(rows'[r].price)]
                   ELSE NoCreate]
      PROVE  Served(s)
  <2>1. rows'[r] = RowFor(c.key) /\ rows'[r].price \in Nat
    <3>1. RowFor(c.key) \in RowTypes
      BY <1>1, <1>2, RowForTyped DEF RowForType, CheckoutTypeOK
    <3>2. QED BY <1>1, <1>5, <3>1 DEF RowTypes
  <2>2. PICK price \in Nat : price = Rub(rows'[r].price)
    BY <2>1, RoundType DEF Rub
  <2>3. creates'[s] = (IF c.live THEN [c EXCEPT !.at = "made", !.row = r, !.price = price]
                       ELSE NoCreate)
    BY <1>1, <1>2, <1>5, <2>2
  <2>4. \A t \in Slots \ {s} : creates'[t] = creates[t]
    BY <1>1, <1>5
  <2>5. /\ creates'[s] \in CreateTypes
        /\ creates'[s].at = "made" => creates'[s].row = r /\ creates'[s].price = price
        /\ \/ creates'[s] = NoCreate
           \/ c.live /\ creates'[s].live /\ creates'[s].key = c.key /\ creates'[s].at = "made"
    <3>1. CASE c.live
      <4>1. creates'[s] = [at |-> "made", key |-> c.key, row |-> r, price |-> price, live |-> TRUE]
        BY <1>3, <2>3, <3>1 DEF CreateTypes
      <4>2. c.key \in {Unset} \cup Keys
        BY <1>3 DEF CreateTypes
      <4>3. QED BY <2>2, <3>1, <4>1, <4>2 DEF CreateTypes
    <3>2. CASE ~c.live
      BY <1>3, <2>3, <3>2
    <3>3. QED BY <3>1, <3>2
  <2>6. rows[r].st = "none"
    BY <1>5 DEF FirstFree
  <2>7. QED BY <1>1, <1>2, <1>5, <2>2, <2>4, <2>5, <2>6, ServeCreate(s) DEF Served, Live,
              ServeCreate
<1>6. QED BY <1>2, <1>4, <1>5 DEF ServeCreate, RowFor

\* Away from the payment screen no hold is kept and none is waited for.
LEMMA HoldsOnPaymentStep ==
    ASSUME CheckoutTypeOK, ScreensInStep, Step
    PROVE  HoldsOnPayment'
<1> HoldsOnPayment /\ WaitingScreens /\ ExtendScreen /\ AnswersHeard
  BY DEF ScreensInStep
<1>1. ASSUME NEW s \in Slots
      PROVE  creates[s] \in CreateTypes /\ ~Cancelled(s).live
  BY CancelledType
<1>2. ASSUME creates' = [s \in Slots |-> Cancelled(s)], ref' = 0
      PROVE  HoldsOnPayment'
  BY <1>1, <1>2 DEF HoldsOnPayment, Live
<1>3. ASSUME NEW s \in Slots, ServeCreate(s)
      PROVE  HoldsOnPayment'
  <2>1. \A t \in Slots : creates'[t].live => creates[t].live
    BY <1>3, ServesCreate DEF Served, Live, NoCreate
  <2>2. QED BY <1>3, <2>1 DEF ServeCreate, HoldsOnPayment, Live
<1>4. CASE ServerSteps
  BY <1>3, <1>4 DEF ServerSteps, ServePay, ServeQuote, Edit, Scheduler, holding, booking,
                    HoldsOnPayment, Live
<1>5. ASSUME NEW s \in Slots, CreateAnswered(s) \/ LoseCreate(s)
      PROVE  HoldsOnPayment'
  <2>1. route = "payment" /\ selected
    BY <1>5 DEF CreateAnswered, LoseCreate, AnswersHeard, HoldsOnPayment
  <2>2. QED BY <1>5, <2>1 DEF CreateAnswered, LoseCreate, HoldsOnPayment
<1>6. CASE Arrivals
  BY <1>2, <1>5, <1>6 DEF Arrivals, QuoteAnswered, PricingArrives, PayAnswered, Paid, TakeHold,
                          holding, HoldsOnPayment, Live
<1>7. CASE LossSteps
  BY <1>2, <1>5, <1>7 DEF LossSteps, LosePricing, LosePay, Kill, holding, HoldsOnPayment, Live
<1>8. CASE ReleaseSteps
  BY <1>8 DEF ReleaseSteps, Released, Resume, OpenTime, HoldsOnPayment, WaitingScreens, Live
<1>9. CASE DraftSteps
  BY <1>9 DEF DraftSteps, ChangeDraft, holding, HoldsOnPayment, Live
<1>10. CASE PlayerSteps
  BY <1>2, <1>10 DEF PlayerSteps, SelectSeat, GoTime, Continue, Checkout, TapPay, LeavePayment,
                     BackToTime, BackToMap, OpenSession, CloseSession, Refresh, CancelBooking,
                     Finish, OpenTime, holding, booking, HoldsOnPayment, Live
<1>11. CASE Extension
  BY <1>11 DEF Extension, OpenExtend, QuoteExtend, ChooseMode, ChooseMinutes, ChooseHours,
               ChoosePackage, Choosing, PayExtend, ExtendSession, CloseExtend, holding, booking,
               HoldsOnPayment, ExtendScreen, Live
<1>12. QED BY <1>4, <1>6, <1>7, <1>8, <1>9, <1>10, <1>11 DEF Step

\* An answer on its way is one the screen waits for.
LEMMA AnswersHeardStep ==
    ASSUME CheckoutTypeOK, ScreensInStep, Step
    PROVE  AnswersHeard'
<1> AnswersHeard
  BY DEF ScreensInStep
<1>1. creates \in [Slots -> CreateTypes]
  BY DEF CheckoutTypeOK
<1>2. ASSUME NEW s \in Slots
      PROVE  Cancelled(s).at \in {"made", "no"} => Cancelled(s).live
  BY CancelledType DEF AnswersHeard
<1>3. ASSUME creates' = [s \in Slots |-> Cancelled(s)]
      PROVE  AnswersHeard'
  BY <1>2, <1>3 DEF AnswersHeard, Live
<1>4. ASSUME NEW key, TakeHold(key)
      PROVE  AnswersHeard'
  <2>1. \A s \in Slots : creates'[s] = Cancelled(s) \/ creates'[s].at = "sent"
    BY <1>4 DEF TakeHold, NoCreate
  <2>2. QED BY <1>2, <2>1 DEF AnswersHeard, Live
<1>5. ASSUME NEW s \in Slots, ServeCreate(s)
      PROVE  AnswersHeard'
  BY <1>5, ServesCreate DEF Served, NoCreate, AnswersHeard, Live
<1>6. ASSUME NEW s \in Slots, creates' = [creates EXCEPT ![s] = NoCreate]
      PROVE  AnswersHeard'
  BY <1>1, <1>6 DEF NoCreate, AnswersHeard, Live
<1>7. CASE ServerSteps
  BY <1>5, <1>7 DEF ServerSteps, ServePay, ServeQuote, Edit, Scheduler, holding, booking,
                    AnswersHeard, Live
<1>8. CASE Arrivals
  BY <1>3, <1>4, <1>6, <1>8 DEF Arrivals, QuoteAnswered, PricingArrives, PayAnswered, Paid,
                                CreateAnswered, holding, AnswersHeard, Live
<1>9. CASE LossSteps
  BY <1>3, <1>6, <1>9 DEF LossSteps, LosePricing, LosePay, Kill, LoseCreate, holding, AnswersHeard,
              Live
<1>10. CASE ReleaseSteps
  BY <1>10 DEF ReleaseSteps, Released, AnswersHeard, Live
<1>11. CASE DraftSteps
  BY <1>11 DEF DraftSteps, ChangeDraft, holding, AnswersHeard, Live
<1>12. CASE PlayerSteps
  BY <1>3, <1>4, <1>12 DEF PlayerSteps, SelectSeat, GoTime, Continue, Checkout, TapPay,
              LeavePayment,
                     BackToTime, BackToMap, OpenSession, CloseSession, Refresh, CancelBooking,
                     Finish, holding, booking, AnswersHeard, Live
<1>13. CASE Extension
  BY <1>13 DEF Extension, OpenExtend, QuoteExtend, ChooseMode, ChooseMinutes, ChooseHours,
               ChoosePackage, Choosing, PayExtend, ExtendSession, CloseExtend, holding, booking,
               AnswersHeard, Live
<1>14. QED BY <1>7, <1>8, <1>9, <1>10, <1>11, <1>12, <1>13 DEF Step

\* The screen that waits for a release is still there.
LEMMA WaitingScreensStep ==
    ASSUME CheckoutTypeOK, ScreensInStep, Step
    PROVE  WaitingScreens'
<1> WaitingScreens /\ NothingBeforeStart /\ ExtendScreen
  BY DEF ScreensInStep
<1>1. CASE ServerSteps
  BY <1>1 DEF ServerSteps, ServePay, ServeQuote, Edit, ServeCreate, Scheduler, leaving, draft,
              booking,
              WaitingScreens
<1>2. CASE Arrivals
  BY <1>2 DEF Arrivals, QuoteAnswered, PricingArrives, PayAnswered, Paid, CreateAnswered, leaving,
              draft, OnBooking, WaitingScreens
<1>3. CASE LossSteps
  BY <1>3 DEF LossSteps, LosePricing, LosePay, Kill, LoseCreate, leaving, draft, NoWait,
              WaitingScreens
<1>4. CASE ReleaseSteps
  BY <1>4 DEF ReleaseSteps, Released, Resume, NoWait, WaitingScreens
<1>5. CASE DraftSteps
  BY <1>5 DEF DraftSteps, ChangeDraft, leaving, WaitingScreens
<1>6. CASE PlayerSteps
  BY <1>6 DEF PlayerSteps, SelectSeat, GoTime, Continue, Checkout, TapPay, LeavePayment,
              BackToTime, BackToMap, OpenSession, CloseSession, Refresh, CancelBooking, Finish,
              leaving, draft, booking, NoWait, WaitingScreens, NothingBeforeStart
<1>7. CASE ExtendSession
  BY <1>7 DEF ExtendSession, leaving, draft, booking, NoWait, WaitingScreens, ExtendScreen
<1>8. CASE ChooseMode \/ ChooseMinutes \/ ChooseHours \/ ChoosePackage
  BY <1>8 DEF ChooseMode, ChooseMinutes, ChooseHours, ChoosePackage, Choosing, leaving, draft,
              booking,
              WaitingScreens
<1>9. CASE Extension
  BY <1>7, <1>8, <1>9 DEF Extension, OpenExtend, QuoteExtend, PayExtend, CloseExtend, leaving,
              draft,
              booking, NoWait, WaitingScreens, ExtendScreen
<1>10. QED BY <1>1, <1>2, <1>3, <1>4, <1>5, <1>6, <1>9 DEF Step

\* The extension screen is open while its request is out.
LEMMA ExtendScreenStep ==
    ASSUME CheckoutTypeOK, ScreensInStep, Step
    PROVE  ExtendScreen'
<1> ExtendScreen /\ NothingBeforeStart /\ WaitingScreens
  BY DEF ScreensInStep
<1>1. CASE ServerSteps
  BY <1>1 DEF ServerSteps, ServePay, ServeQuote, Edit, ServeCreate, Scheduler, leaving, draft,
              booking,
              ExtendScreen
<1>2. CASE Arrivals
  BY <1>2 DEF Arrivals, QuoteAnswered, PricingArrives, PayAnswered, Paid, CreateAnswered, leaving,
              draft, OnBooking, ExtendScreen, NothingBeforeStart
<1>3. CASE LossSteps
  BY <1>3 DEF LossSteps, LosePricing, LosePay, Kill, LoseCreate, leaving, draft, NoExt, ExtendScreen
<1>4. CASE ReleaseSteps
  BY <1>4 DEF ReleaseSteps, Released, Resume, OpenTime, NoWait, ExtendScreen
<1>5. CASE DraftSteps
  BY <1>5 DEF DraftSteps, ChangeDraft, leaving, ExtendScreen
<1>6. CASE PlayerSteps
  BY <1>6 DEF PlayerSteps, SelectSeat, GoTime, OpenTime, Continue, Checkout, TapPay, LeavePayment,
              BackToTime, BackToMap, OpenSession, CloseSession, Refresh, CancelBooking, Finish,
              leaving, draft, booking, ExtendScreen
<1>7. ext \in ExtTypes
  BY DEF CheckoutTypeOK
<1>8. ASSUME ChooseMode \/ ChooseMinutes \/ ChooseHours \/ ChoosePackage
      PROVE  ExtendScreen'
  BY <1>8 DEF ChooseMode, ChooseMinutes, ChooseHours, ChoosePackage, Choosing, leaving, draft,
              booking,
              ExtendScreen
<1>9. ASSUME OpenExtend \/ ExtendSession \/ CloseExtend
      PROVE  ExtendScreen'
  <2>1. \/ ext'.at = "closed" /\ ~ext'.sent
        \/ ext'.at = "asking" /\ route' = "extend"
        \/ UNCHANGED route /\ ext'.at = ext.at /\ ext.sent
    BY <1>7, <1>9 DEF OpenExtend, ExtendSession, CloseExtend, NoExt, ExtTypes
  <2>2. QED BY <1>9, <2>1 DEF OpenExtend, ExtendSession, CloseExtend, leaving, draft, booking,
                              ExtendScreen
<1>10. ASSUME QuoteExtend \/ PayExtend
       PROVE  ExtendScreen'
  BY <1>7, <1>10 DEF QuoteExtend, PayExtend, ExtTypes, leaving, draft, booking, ExtendScreen
<1>11. CASE Extension
  BY <1>8, <1>9, <1>10, <1>11 DEF Extension
<1>12. QED BY <1>1, <1>2, <1>3, <1>4, <1>5, <1>6, <1>11 DEF Step

\* The booking the phone calls its own exists.
LEMMA BookedExistsStep ==
    ASSUME CheckoutTypeOK, ScreensInStep, RowsExist, Step
    PROVE  BookedExists'
<1> BookedExists
  BY DEF ScreensInStep
<1>1. ASSUME booked' = OngoingRow
      PROVE  BookedExists'
  BY <1>1 DEF OngoingRow, Ongoing, NotMine, BookedExists
<1>2. CASE ServerSteps
  BY <1>2 DEF ServerSteps, ServePay, ServeQuote, Edit, ServeCreate, Scheduler, BookedExists
<1>3. CASE Arrivals
  BY <1>3 DEF Arrivals, QuoteAnswered, PricingArrives, PayAnswered, Paid, CreateAnswered,
              BookedExists, RowsExist
<1>4. CASE LossSteps
  BY <1>1, <1>4 DEF LossSteps, LosePricing, LosePay, Kill, LoseCreate, BookedExists
<1>5. CASE ReleaseSteps
  BY <1>5 DEF ReleaseSteps, Released, Resume, NotMine, BookedExists
<1>6. CASE DraftSteps
  BY <1>6 DEF DraftSteps, ChangeDraft, BookedExists
<1>7. CASE PlayerSteps
  BY <1>1, <1>7 DEF PlayerSteps, SelectSeat, GoTime, Continue, Checkout, TapPay, LeavePayment,
              BackToTime, BackToMap, OpenSession, CloseSession, Refresh, CancelBooking, Finish,
              NotMine, BookedExists
<1>8. CASE Extension
  BY <1>8 DEF Extension, OpenExtend, QuoteExtend, ChooseMode, ChooseMinutes, ChooseHours,
              ChoosePackage, Choosing, PayExtend, ExtendSession, CloseExtend, BookedExists
<1>9. QED BY <1>2, <1>3, <1>4, <1>5, <1>6, <1>7, <1>8 DEF Step

\* What a quote or a hold is asked for.
LEMMA KeyTyped ==
    ASSUME NEW start \in Nat, NEW h \in 1..24, NEW p \in PackageIds
    PROVE  Key(start, h, p) \in Keys
<1>1. TimeWindow(p) \in WindowIds \cup {"none"}
  BY DEF TimeWindow, PackageIds
<1>2. QED BY <1>1 DEF Key, Keys

\* A request on its way says what it asks for.
LEMMA SlotsNamedStep ==
    ASSUME BookingAppAssumption, CheckoutTypeOK, ScreensInStep, Step
    PROVE  SlotsNamed'
<1> SlotsNamed
  BY DEF ScreensInStep
<1>1. creates \in [Slots -> CreateTypes]
  BY DEF CheckoutTypeOK
<1>2. ASSUME NEW s \in Slots
      PROVE  Cancelled(s).at = "sent" => Cancelled(s).key \in Keys
  <2>1. creates[s] \in CreateTypes
    BY <1>1
  <2>2. QED BY <2>1 DEF Cancelled, SlotsNamed, NoCreate, CreateTypes
<1>3. ASSUME creates' = [s \in Slots |-> Cancelled(s)]
      PROVE  SlotsNamed'
  BY <1>2, <1>3 DEF SlotsNamed
<1>4. ASSUME NEW key \in Keys, TakeHold(key)
      PROVE  SlotsNamed'
  <2>1. \A s \in Slots : creates'[s] = Cancelled(s) \/ creates'[s].key = key
    BY <1>4 DEF TakeHold, NoCreate
  <2>2. QED BY <1>2, <2>1 DEF SlotsNamed
<1>5. ASSUME NEW s \in Slots, ServeCreate(s)
      PROVE  SlotsNamed'
  BY <1>5, ServesCreate DEF Served, NoCreate, SlotsNamed
<1>6. ASSUME NEW s \in Slots, creates' = [creates EXCEPT ![s] = NoCreate]
      PROVE  SlotsNamed'
  BY <1>1, <1>6 DEF NoCreate, SlotsNamed
<1>7. CASE ServerSteps
  BY <1>5, <1>7 DEF ServerSteps, ServePay, ServeQuote, Edit, Scheduler, holding, booking, SlotsNamed
<1>8. CASE PricingArrives
  <2>1. CASE UNCHANGED holding
    BY <2>1 DEF holding, SlotsNamed
  <2>2. CASE Redraft(picked, hours, package, Sent(list)) /\ TakeHold(Key(startAt', hours, package))
    <3>1. /\ picked \in Nat /\ Sent(list) \in KnownTypes
          /\ hours \in 1..24 /\ package \in PackageIds
      BY DEF CheckoutTypeOK, KnownTypes, Sent, Global, IsPriceList, Lists
    <3>2. startAt' \in Nat
      BY <2>2, <3>1, StartTyped DEF Redraft
    <3>3. QED BY <1>4, <2>2, <3>1, <3>2, KeyTyped
  <2>3. QED BY <1>8, <2>1, <2>2 DEF PricingArrives, holding
<1>9. CASE Arrivals
  BY <1>3, <1>6, <1>8, <1>9 DEF Arrivals, QuoteAnswered, PayAnswered, Paid, CreateAnswered, holding,
                                SlotsNamed
<1>10. CASE LossSteps
  BY <1>3, <1>6, <1>10 DEF LossSteps, LosePricing, LosePay, Kill, LoseCreate, holding, SlotsNamed
<1>11. CASE ReleaseSteps
  BY <1>11 DEF ReleaseSteps, Released, SlotsNamed
<1>12. CASE DraftSteps
  BY <1>12 DEF DraftSteps, ChangeDraft, holding, SlotsNamed
<1>13. CASE Checkout
  <2>1. DraftKey \in Keys
    BY <1>13, KeyTyped DEF Checkout, ScreensInStep, StartedOnBooking, OnBooking, CheckoutTypeOK,
                DraftKey
  <2>2. QED BY <1>4, <1>13, <2>1 DEF Checkout
<1>14. CASE PlayerSteps
  BY <1>3, <1>13, <1>14 DEF PlayerSteps, SelectSeat, GoTime, Continue, TapPay, LeavePayment,
                     BackToTime, BackToMap, OpenSession, CloseSession, Refresh, CancelBooking,
                     Finish, holding, booking, SlotsNamed
<1>15. CASE Extension
  BY <1>15 DEF Extension, OpenExtend, QuoteExtend, ChooseMode, ChooseMinutes, ChooseHours,
               ChoosePackage, Choosing, PayExtend, ExtendSession, CloseExtend, holding, booking,
               SlotsNamed
<1>16. QED BY <1>7, <1>9, <1>10, <1>11, <1>12, <1>14, <1>15 DEF Step

-----------------------------------------------------------------------------
(* What a step makes of the bookings.                                      *)

\* What an existing booking keeps: a pending one its price, one that holds the seat its time.
Keeps(row, new) ==
    row.st # "none" =>
        /\ new.st # "none"
        /\ new.st = "pending" => row.st = "pending" /\ new.price = row.price /\ new.by = row.by
        /\ new.st \in Holding => row.st \in Holding /\ new.hours = row.hours /\ new.at = row.at

RowsKept == \A r \in Rows : Keeps(rows[r], rows'[r])

RowIs(r, row) == row \in RowTypes /\ rows' = [rows EXCEPT ![r] = row]

\* One row that moves as rows may keeps the table as it should be.
LEMMA RowMoves ==
    ASSUME CheckoutTypeOK, NEW r \in Rows, NEW row, RowIs(r, row), Keeps(rows[r], row)
    PROVE  rows' \in [Rows -> RowTypes] /\ RowsKept
<1>1. rows \in [Rows -> RowTypes]
  BY DEF CheckoutTypeOK
<1>2. rows' \in [Rows -> RowTypes] /\ rows'[r] = row /\ \A q \in Rows \ {r} : rows'[q] = rows[q]
  BY <1>1 DEF RowIs
<1>3. \A q \in Rows \ {r} : Keeps(rows[q], rows'[q])
  BY <1>2 DEF Keeps
<1>4. QED BY <1>2, <1>3 DEF RowsKept

\* A booking that is over.
LEMMA ClosedType ==
    ASSUME CheckoutTypeOK, NEW r \in Rows, NEW st \in {"cancelled", "over"}
    PROVE  /\ Closed(r, st) \in RowTypes /\ Closed(r, st).st = st
           /\ Closed(r, st).asked = rows[r].asked /\ Closed(r, st).confirmed = rows[r].confirmed
           /\ Closed(r, st).shown = 0 /\ Closed(r, st).longer = Unset
           /\ Keeps(rows[r], Closed(r, st))
<1>1. rows[r] \in RowTypes
  BY DEF CheckoutTypeOK
<1>2. NoRow \in RowTypes /\ NoRow.shown = 0 /\ NoRow.longer = Unset
  BY DEF NoRow, RowTypes, BookingStatuses
<1>3. Closed(r, st) = [NoRow EXCEPT !.st = st, !.asked = rows[r].asked,
                                    !.confirmed = rows[r].confirmed]
  BY DEF Closed
<1>4. st \in BookingStatuses /\ rows[r].asked \in BOOLEAN /\ rows[r].confirmed \in BOOLEAN
  BY <1>1 DEF RowTypes, BookingStatuses
<1>5. /\ Closed(r, st) \in RowTypes /\ Closed(r, st).st = st
      /\ Closed(r, st).asked = rows[r].asked /\ Closed(r, st).confirmed = rows[r].confirmed
      /\ Closed(r, st).shown = 0 /\ Closed(r, st).longer = Unset
  BY <1>2, <1>3, <1>4 DEF RowTypes
<1>6. QED BY <1>5 DEF Keeps, Holding

\* A paid booking keeps all but its status and the price the screen showed.
PaidRow(row, new, amount) ==
    /\ new.st \in {"paid", "active"} /\ new.shown = amount
    /\ new.price = row.price /\ new.by = row.by
    /\ new.hours = row.hours /\ new.at = row.at /\ new.asked = row.asked
    /\ new.confirmed = row.confirmed /\ new.longer = row.longer

\* A payment that is served marks its row and keeps its price.
LEMMA Pays ==
    ASSUME CheckoutTypeOK, RowsExist, ServePay, ~UNCHANGED rows
    PROVE  /\ pay.at = "sent" /\ pay.row \in Rows /\ rows[pay.row].st = "pending"
           /\ \E row : RowIs(pay.row, row) /\ PaidRow(rows[pay.row], row, pay.shown)
           /\ pay' = NoPay \/ pay' = [pay EXCEPT !.at = "yes", !.st = rows'[pay.row].st]
<1>1. /\ pay.at = "sent" /\ rows[pay.row].st = "pending"
      /\ rows' = [rows EXCEPT
             ![pay.row].st = IF rows[pay.row].at <= Now THEN "active" ELSE "paid",
             ![pay.row].shown = pay.shown]
      /\ pay' = NoPay \/ pay' = [pay EXCEPT !.at = "yes", !.st = rows'[pay.row].st]
  BY DEF ServePay
<1>2. PICK r \in Rows : r = pay.row
  BY <1>1 DEF RowsExist
<1>3. PICK st \in {"paid", "active"} : st = IF rows[r].at <= Now THEN "active" ELSE "paid"
  OBVIOUS
<1>4. PICK amount \in Nat : amount = pay.shown
  BY DEF CheckoutTypeOK, PayTypes
<1>5. rows \in [Rows -> RowTypes] /\ rows[r] \in RowTypes
  BY DEF CheckoutTypeOK
<1>6. PICK row : row = [rows[r] EXCEPT !.st = st, !.shown = amount]
  OBVIOUS
<1>7. rows' = [rows EXCEPT ![r] = row]
  BY <1>1, <1>2, <1>3, <1>4, <1>5, <1>6
<1>8. row \in RowTypes /\ PaidRow(rows[r], row, amount)
  BY <1>3, <1>4, <1>5, <1>6 DEF RowTypes, BookingStatuses, PaidRow
<1>9. QED BY <1>1, <1>2, <1>4, <1>7, <1>8 DEF RowIs

\* A paid row moved as rows may.
LEMMA PaidRowKeeps ==
    ASSUME NEW row, NEW new, NEW amount, row.st = "pending", PaidRow(row, new, amount)
    PROVE  Keeps(row, new)
BY DEF PaidRow, Keeps, Holding

\* Two of the fields a step may change alone.
LEMMA FieldType ==
    ASSUME NEW row \in RowTypes, NEW b \in BOOLEAN
    PROVE  /\ [row EXCEPT !.confirmed = b] \in RowTypes /\ Keeps(row, [row EXCEPT !.confirmed = b])
           /\ [row EXCEPT !.asked = b] \in RowTypes /\ Keeps(row, [row EXCEPT !.asked = b])
           /\ row.st = "paid" => /\ [row EXCEPT !.st = "active"] \in RowTypes
                                 /\ Keeps(row, [row EXCEPT !.st = "active"])
<1>1. PICK e : e = [row EXCEPT !.confirmed = b]
  OBVIOUS
<1>2. e \in RowTypes /\ Keeps(row, e)
  BY <1>1 DEF RowTypes, Keeps
<1>3. PICK f : f = [row EXCEPT !.asked = b]
  OBVIOUS
<1>4. f \in RowTypes /\ Keeps(row, f)
  BY <1>3 DEF RowTypes, Keeps
<1>5. PICK g : g = [row EXCEPT !.st = "active"]
  OBVIOUS
<1>6. row.st = "paid" => g \in RowTypes /\ Keeps(row, g)
  BY <1>5 DEF RowTypes, BookingStatuses, Keeps, Holding
<1>7. QED BY <1>1, <1>2, <1>3, <1>4, <1>5, <1>6

-----------------------------------------------------------------------------
(* The extension.                                                          *)

\* A window offered for an extension is known by its id.
LEMMA PresetIsOne ==
    ASSUME NEW ids, NEW l, IsPriceList(l, ids), NEW w \in WindowPresets(l),
           NEW v \in WindowPresets(l),
           w.id = v.id
    PROVE  w = v
<1>1. PICK x \in Chosen(l.wins) : w = [id |-> x.id, hours |-> Length(x)]
  BY DEF WindowPresets
<1>2. PICK y \in Chosen(l.wins) : v = [id |-> y.id, hours |-> Length(y)]
  BY DEF WindowPresets
<1>3. x \in l.wins /\ y \in l.wins /\ x.id = y.id
  BY <1>1, <1>2, ChosenIsPart
<1>4. x = y
  BY <1>3 DEF IsPriceList
<1>5. QED BY <1>1, <1>2, <1>4

\* The price of minutes is a natural number.
LEMMA MinuteChargeType ==
    ASSUME NEW ids, NEW l, IsPriceList(l, ids), NEW m \in {15, 55}
    PROVE  Rub(MinuteCharge(l, m)) \in Nat
<1>1. PICK a \in Nat : a = l.rate * m * 100
  <2>1. l.rate \in Nat /\ m \in Nat
    BY DEF IsPriceList, Lists
  <2>2. l.rate * m \in Nat
    BY <2>1
  <2>3. QED BY <2>2
<1>2. Round(a, 60) \in Nat
  BY RoundType
<1>3. MinuteCharge(l, m) = Round(a, 60)
  BY <1>1 DEF MinuteCharge
<1>4. QED BY <1>2, <1>3, RoundType DEF Rub

\* What the extension costs is a price; by the list that was quoted, it is what the button says.
LEMMA ExtensionPrice ==
    ASSUME CheckoutTypeOK, PackageIsOffered
    PROVE  /\ PayAmount \in Nat /\ Rub(ExtensionCharge(list)) \in Nat
           /\ ext.at = "quoted" /\ ext.list = list => PayAmount = Rub(ExtensionCharge(list))
<1>1. /\ ext.hours \in Nat /\ ext.minutes \in {15, 55} /\ ext.mode \in {"minutes", "hours"}
      /\ IsPriceList(list, WindowIds)
  BY DEF CheckoutTypeOK, ExtTypes
<1>2. CASE ext.mode = "minutes"
  <2>1. /\ Rub(ExtensionCharge(list)) \in Nat
        /\ ExtensionCharge(list) = MinuteCharge(list, ext.minutes)
    BY <1>1, <1>2, MinuteChargeType DEF ExtensionCharge
  <2>2. CASE ext.at = "quoted"
    <3>1. PayAmount = Rub(MinuteCharge(ext.list, ext.minutes))
      BY <1>2, <2>2 DEF PayAmount
    <3>2. PayAmount \in Nat
      BY <1>1, <2>2, <3>1, MinuteChargeType DEF PackageIsOffered
    <3>3. QED BY <2>1, <3>1, <3>2
  <2>3. CASE ext.at # "quoted"
    <3>1. PayAmount = Round(150 * ext.minutes, 60)
      BY <1>2, <2>3 DEF PackageIsOffered, PayAmount
    <3>2. 150 * ext.minutes \in Nat
      BY <1>1
    <3>3. PayAmount \in Nat
      BY <3>1, <3>2, RoundType
    <3>4. QED BY <2>1, <2>3, <3>3
  <2>4. QED BY <2>2, <2>3
<1>3. CASE ext.mode # "minutes"
  <2>1. /\ Rub(ExtensionCharge(list)) \in Nat
        /\ Rub(ExtensionCharge(list)) = Quote(list, ext.hours, ext.package)
    BY <1>1, <1>3, ChargeType DEF ExtensionCharge, Quote
  <2>2. CASE ext.at = "quoted"
    <3>1. PayAmount = Quote(ext.list, ext.hours, ext.package)
      <4>1. CASE ext.package = "none"
        BY <1>3, <2>2, <4>1 DEF PayAmount
      <4>2. CASE ext.package # "none"
        <5>1. PICK v \in WindowPresets(ext.list) : v.id = ext.package /\ v.hours = ext.hours
          BY <4>2 DEF PackageIsOffered
        <5>2. PICK w \in WindowPresets(ext.list) :
                  /\ w.id = ext.package
                  /\ w = CHOOSE z \in WindowPresets(ext.list) : z.id = ext.package
          BY <5>1
        <5>3. w = v
          BY <2>2, <5>1, <5>2, PresetIsOne DEF PackageIsOffered
        <5>4. PayAmount = Quote(ext.list, w.hours, w.id)
          BY <1>3, <2>2, <4>2, <5>2 DEF PayAmount
        <5>5. QED BY <5>1, <5>3, <5>4
      <4>3. QED BY <4>1, <4>2
    <3>2. PayAmount \in Nat
      BY <1>1, <2>2, <3>1, ChargeType DEF PackageIsOffered
    <3>3. QED BY <2>1, <3>1, <3>2
  <2>3. CASE ext.at # "quoted"
    <3>1. PayAmount = 150 * ext.hours
      BY <1>3, <2>3 DEF PackageIsOffered, PayAmount
    <3>2. QED BY <1>1, <2>1, <2>3, <3>1
  <2>4. QED BY <2>2, <2>3
<1>4. QED BY <1>2, <1>3

\* The longer booking.
LEMMA Extends ==
    ASSUME CheckoutTypeOK, PackageIsOffered, ScreensInStep, ExtendSession, ~UNCHANGED rows
    PROVE  /\ booked.row \in Rows /\ rows[booked.row].st = "active"
           /\ \E row : /\ RowIs(booked.row, row) /\ row.st = "active"
                       /\ row.shown = rows[booked.row].shown
                       /\ row.price = rows[booked.row].price
                       /\ row.asked = rows[booked.row].asked
                       /\ row.confirmed = rows[booked.row].confirmed
                       /\ row.longer.same => row.longer.shown = row.longer.charged
<1>1. PICK more, same :
          /\ more = IF ext.mode = "minutes" THEN 1 ELSE ext.hours
          /\ same = (ext.at = "quoted" /\ ext.list = list)
  OBVIOUS
<1>2. PICK amount, charged : amount = PayAmount /\ charged = Rub(ExtensionCharge(list))
  OBVIOUS
<1>3. /\ more \in Nat /\ same \in BOOLEAN /\ amount \in Nat /\ charged \in Nat
      /\ same => amount = charged
  <2>1. ext.hours \in Nat
    BY DEF CheckoutTypeOK, ExtTypes
  <2>2. QED BY <1>1, <1>2, <2>1, ExtensionPrice
<1>4. /\ rows[booked.row].st = "active"
      /\ rows' = [rows EXCEPT
                     ![booked.row].hours = @ + more,
                     ![booked.row].longer = [shown |-> amount, charged |-> charged, same |-> same]]
  BY <1>1, <1>2 DEF ExtendSession
<1>5. PICK r \in Rows : r = booked.row
  BY DEF ScreensInStep, BookedExists, ExtendScreen, ExtendSession
<1>6. PICK longer : longer = [shown |-> amount, charged |-> charged, same |-> same]
  OBVIOUS
<1>7. longer \in [shown : Nat, charged : Nat, same : BOOLEAN]
  BY <1>3, <1>6
<1>9. longer.same => longer.shown = longer.charged
  BY <1>3, <1>6
<1>10. rows \in [Rows -> RowTypes] /\ rows[r] \in RowTypes
  BY DEF CheckoutTypeOK
<1>11. PICK row : row = [rows[r] EXCEPT !.hours = @ + more, !.longer = longer]
  OBVIOUS
<1>12. rows' = [rows EXCEPT ![r] = row]
  BY <1>4, <1>5, <1>6, <1>10, <1>11
<1>13. row \in RowTypes
  <2>1. PICK sum \in Nat : sum = rows[r].hours + more
    BY <1>3, <1>10 DEF RowTypes
  <2>2. row = [rows[r] EXCEPT !.hours = sum, !.longer = longer]
    BY <1>11, <2>1
  <2>3. QED BY <1>7, <1>10, <2>1, <2>2 DEF RowTypes
<1>14. /\ row.st = rows[r].st /\ row.shown = rows[r].shown /\ row.price = rows[r].price
       /\ row.asked = rows[r].asked /\ row.confirmed = rows[r].confirmed /\ row.longer = longer
  BY <1>10, <1>11 DEF RowTypes
<1>15. QED BY <1>4, <1>5, <1>9, <1>12, <1>13, <1>14 DEF RowIs

\* Bookings stay bookings, and keep their price and time; only an extension adds hours.
LEMMA RowsStep ==
    ASSUME BookingAppAssumption, CheckoutTypeOK, ScreensInStep, RowsExist, PackageIsOffered, Step
    PROVE  rows' \in [Rows -> RowTypes] /\ (RowsKept \/ ExtendSession)
<1> DEFINE Goal == rows' \in [Rows -> RowTypes] /\ RowsKept
<1>1. rows \in [Rows -> RowTypes]
  BY DEF CheckoutTypeOK
<1>2. ASSUME UNCHANGED rows
      PROVE  Goal
  BY <1>1, <1>2 DEF RowsKept, Keeps
<1>3. ASSUME NEW r \in Rows, NEW st \in {"cancelled", "over"},
             rows' = [rows EXCEPT ![r] = Closed(r, st)]
      PROVE  Goal
  BY <1>3, ClosedType, RowMoves DEF RowIs
<1>4. ASSUME NEW s \in Slots, ServeCreate(s)
      PROVE  Goal
  <2>1. CASE UNCHANGED rows
    BY <1>2, <2>1
  <2>2. CASE ~UNCHANGED rows
    <3>1. PICK r \in Rows : /\ rows[r].st = "none"
                            /\ rows' = [rows EXCEPT ![r] = RowFor(creates[s].key)]
      BY <1>4, <2>2, ServesCreate DEF Served
    <3>2. RowFor(creates[s].key) \in RowTypes
      BY <1>4, RowForTyped DEF ServeCreate, ScreensInStep, SlotsNamed, CheckoutTypeOK, RowForType
    <3>3. Keeps(rows[r], RowFor(creates[s].key))
      BY <3>1 DEF Keeps
    <3>4. QED BY <3>1, <3>2, <3>3, RowMoves DEF RowIs
  <2>3. QED BY <2>1, <2>2
<1>5. ASSUME ServePay
      PROVE  Goal
  <2>1. CASE UNCHANGED rows
    BY <1>2, <2>1
  <2>2. CASE ~UNCHANGED rows
    <3>1. PICK r \in Rows : r = pay.row /\ rows[r].st = "pending"
      BY <1>5, <2>2, Pays
    <3>2. PICK row : RowIs(r, row) /\ PaidRow(rows[r], row, pay.shown)
      BY <1>5, <2>2, <3>1, Pays
    <3>3. QED BY <3>1, <3>2, PaidRowKeeps, RowMoves
  <2>3. QED BY <2>1, <2>2
<1>6. ASSUME NEW r \in Rows, Scheduler(r)
      PROVE  Goal
  <2>1. CASE rows[r].st = "paid" /\ rows' = [rows EXCEPT ![r].st = "active"]
    <3>1. PICK row : row = [rows[r] EXCEPT !.st = "active"]
      OBVIOUS
    <3>2. row \in RowTypes /\ Keeps(rows[r], row)
      BY <1>1, <2>1, <3>1, FieldType
    <3>3. rows' = [rows EXCEPT ![r] = row]
      BY <1>1, <2>1, <3>1
    <3>4. QED BY <3>2, <3>3, RowMoves DEF RowIs
  <2>2. QED BY <1>3, <1>6, <2>1 DEF Scheduler
<1>7. CASE ServerSteps
  BY <1>2, <1>4, <1>5, <1>6, <1>7 DEF ServerSteps, ServeQuote, Edit, backend
<1>8. ASSUME Paid
      PROVE  Goal
  <2>1. PICK r \in Rows : r = pay.row
    BY <1>8 DEF Paid, RowsExist
  <2>2. PICK b \in BOOLEAN : b = (rows[pay.row].st # "cancelled" /\ pay.row \notin cancels)
    OBVIOUS
  <2>3. PICK row : row = [rows[r] EXCEPT !.confirmed = b]
    OBVIOUS
  <2>4. row \in RowTypes /\ Keeps(rows[r], row)
    BY <1>1, <2>3, FieldType
  <2>5. rows' = [rows EXCEPT ![r] = row]
    BY <1>1, <1>8, <2>1, <2>2, <2>3 DEF Paid
  <2>6. QED BY <2>4, <2>5, RowMoves DEF RowIs
<1>9. CASE Arrivals
  BY <1>2, <1>8, <1>9 DEF Arrivals, QuoteAnswered, PricingArrives, PayAnswered, CreateAnswered,
              backend
<1>10. CASE LossSteps
  BY <1>2, <1>10 DEF LossSteps, LosePricing, LosePay, Kill, LoseCreate, backend
<1>11. CASE ReleaseSteps
  BY <1>2, <1>3, <1>11 DEF ReleaseSteps, Released
<1>12. CASE DraftSteps
  BY <1>2, <1>12 DEF DraftSteps, ChangeDraft, backend
<1>13. ASSUME CancelBooking
       PROVE  Goal
  <2>1. PICK r \in Rows : r = booked.row
    BY <1>13 DEF CancelBooking, ScreensInStep, BookedExists
  <2>2. PICK row : row = [rows[r] EXCEPT !.asked = TRUE]
    OBVIOUS
  <2>3. row \in RowTypes /\ Keeps(rows[r], row)
    BY <1>1, <2>2, FieldType
  <2>4. rows' = [rows EXCEPT ![r] = row]
    BY <1>1, <1>13, <2>1, <2>2 DEF CancelBooking
  <2>5. QED BY <2>3, <2>4, RowMoves DEF RowIs
<1>14. ASSUME Finish
       PROVE  Goal
  BY <1>3, <1>14 DEF Finish, ScreensInStep, BookedExists
<1>15. CASE PlayerSteps
  BY <1>2, <1>13, <1>14, <1>15 DEF PlayerSteps, SelectSeat, GoTime, Continue, Checkout, TapPay,
         LeavePayment, BackToTime, BackToMap, OpenSession, CloseSession, Refresh, backend
<1>16. CASE ExtendSession
  <2>1. CASE UNCHANGED rows
    BY <1>2, <2>1
  <2>2. CASE ~UNCHANGED rows
    <3>1. PICK r, row : r \in Rows /\ r = booked.row /\ RowIs(r, row)
      BY <1>16, <2>2, Extends
    <3>2. QED BY <1>1, <1>16, <3>1 DEF RowIs
  <2>3. QED BY <2>1, <2>2
<1>17. CASE Extension
  BY <1>2, <1>16, <1>17 DEF Extension, OpenExtend, QuoteExtend, ChooseMode, ChooseMinutes,
              ChooseHours,
               ChoosePackage, Choosing, PayExtend, CloseExtend, backend
<1>18. QED BY <1>7, <1>9, <1>10, <1>11, <1>12, <1>15, <1>17 DEF Step

\* An existing booking stays, is not pending again, and while it is pending keeps its price.
RowsStay ==
    \A r \in Rows : rows[r].st # "none" =>
        /\ rows'[r].st # "none"
        /\ rows'[r].st = "pending" => /\ rows[r].st = "pending"
                                      /\ rows'[r].price = rows[r].price /\ rows'[r].by = rows[r].by

\* No step takes a booking back or touches the price of a pending one.
LEMMA RowsStayStep ==
    ASSUME BookingAppAssumption, CheckoutTypeOK, ScreensInStep, RowsExist, PackageIsOffered, Step
    PROVE  RowsStay
<1>1. CASE RowsKept
  BY <1>1 DEF RowsKept, Keeps, RowsStay
<1>2. CASE ExtendSession
  <2>1. CASE UNCHANGED rows
    BY <2>1 DEF RowsStay
  <2>2. CASE ~UNCHANGED rows
    <3>1. PICK r, row : r \in Rows /\ r = booked.row /\ RowIs(r, row) /\ row.st = "active"
      BY <1>2, <2>2, Extends
    <3>2. rows \in [Rows -> RowTypes]
      BY DEF CheckoutTypeOK
    <3>3. QED BY <3>1, <3>2 DEF RowIs, RowsStay
  <2>3. QED BY <2>1, <2>2
<1>3. QED BY <1>1, <1>2, RowsStep

\* The hold of the payment screen is kept, forgotten, or comes with an answer.
Answer(s) == CreateAnswered(s) /\ creates[s].at = "made"
RefMoves ==
    \/ ref' \in {0, ref} /\ pending' \in {0, pending}
    \/ \E s \in Slots : Answer(s) /\ ref' = creates[s].row /\ pending' = creates[s].row

\* The payment screen takes a hold from an answer alone.
LEMMA RefStep ==
    ASSUME Step
    PROVE  RefMoves
<1>1. CASE ServerSteps
  BY <1>1 DEF ServerSteps, ServePay, ServeQuote, Edit, ServeCreate, Scheduler, holding, booking,
              RefMoves
<1>2. CASE Arrivals
  BY <1>2 DEF Arrivals, QuoteAnswered, PricingArrives, PayAnswered, Paid, CreateAnswered, Answer,
              TakeHold, holding, RefMoves
<1>3. CASE LossSteps
  BY <1>3 DEF LossSteps, LosePricing, LosePay, Kill, LoseCreate, holding, RefMoves
<1>4. CASE ReleaseSteps
  BY <1>4 DEF ReleaseSteps, Released, Resume, RefMoves
<1>5. CASE DraftSteps
  BY <1>5 DEF DraftSteps, ChangeDraft, holding, RefMoves
<1>6. CASE PlayerSteps
  BY <1>6 DEF PlayerSteps, SelectSeat, GoTime, Continue, Checkout, TapPay, LeavePayment,
              BackToTime, BackToMap, OpenSession, CloseSession, Refresh, CancelBooking, Finish,
              TakeHold, holding, booking, RefMoves
<1>7. CASE Extension
  BY <1>7 DEF Extension, OpenExtend, QuoteExtend, ChooseMode, ChooseMinutes, ChooseHours,
              ChoosePackage, Choosing, PayExtend, ExtendSession, CloseExtend, holding, booking,
              RefMoves
<1>8. QED BY <1>1, <1>2, <1>3, <1>4, <1>5, <1>6, <1>7 DEF Step

\* A hold that was made and whose answer is under way was so before, or is served now.
MadeMoves ==
    \A s \in Slots : creates'[s].at = "made" =>
        \/ Made(s) /\ creates'[s] = creates[s]
        \/ ServeCreate(s)

\* An answer that brings a hold was there before, or is written now.
LEMMA MadeStep ==
    ASSUME CheckoutTypeOK, Step
    PROVE  MadeMoves
<1>1. creates \in [Slots -> CreateTypes]
  BY DEF CheckoutTypeOK
<1>2. ASSUME UNCHANGED creates
      PROVE  MadeMoves
  BY <1>2 DEF MadeMoves, Made
<1>3. ASSUME \A s \in Slots : creates'[s] = Cancelled(s) \/ creates'[s].at = "sent"
      PROVE  MadeMoves
  BY <1>3, CancelledType DEF MadeMoves, Made
<1>4. ASSUME NEW key, TakeHold(key)
      PROVE  MadeMoves
  BY <1>3, <1>4 DEF TakeHold, NoCreate
<1>5. ASSUME creates' = [s \in Slots |-> Cancelled(s)]
      PROVE  MadeMoves
  BY <1>3, <1>5
<1>6. ASSUME NEW s \in Slots, creates' = [creates EXCEPT ![s] = NoCreate]
      PROVE  MadeMoves
  BY <1>1, <1>6 DEF MadeMoves, Made, NoCreate
<1>7. ASSUME NEW s \in Slots, ServeCreate(s)
      PROVE  MadeMoves
  <2>1. \A t \in Slots \ {s} : creates'[t] = creates[t]
    BY <1>1, <1>7 DEF ServeCreate
  <2>2. QED BY <1>7, <2>1 DEF MadeMoves, Made
<1>8. CASE ServerSteps
  BY <1>2, <1>7, <1>8 DEF ServerSteps, ServePay, ServeQuote, Edit, Scheduler, holding, booking
<1>9. CASE Arrivals
  BY <1>2, <1>4, <1>5, <1>6, <1>9 DEF Arrivals, QuoteAnswered, PricingArrives, PayAnswered, Paid,
                                      CreateAnswered, holding
<1>10. CASE LossSteps
  BY <1>2, <1>5, <1>6, <1>10 DEF LossSteps, LosePricing, LosePay, Kill, LoseCreate, holding
<1>11. CASE ReleaseSteps
  BY <1>2, <1>11 DEF ReleaseSteps, Released
<1>12. CASE DraftSteps
  BY <1>2, <1>12 DEF DraftSteps, ChangeDraft, holding
<1>13. CASE PlayerSteps
  BY <1>2, <1>4, <1>5, <1>13 DEF PlayerSteps, SelectSeat, GoTime, Continue, Checkout, TapPay,
              LeavePayment, BackToTime, BackToMap, OpenSession, CloseSession, Refresh,
              CancelBooking, Finish, holding, booking
<1>14. CASE Extension
  BY <1>2, <1>14 DEF Extension, OpenExtend, QuoteExtend, ChooseMode, ChooseMinutes, ChooseHours,
              ChoosePackage, Choosing, PayExtend, ExtendSession, CloseExtend, holding, booking
<1>15. QED BY <1>8, <1>9, <1>10, <1>11, <1>12, <1>13, <1>14 DEF Step

\* A payment under way is for the booking it was sent for.
PayMoves ==
    \/ pay'.at = "idle"
    \/ TapPay
    \/ /\ pay.at # "idle" /\ pay'.row = pay.row /\ pay'.shown = pay.shown
       /\ \/ pay'.at = pay.at
          \/ pay'.at = "profile" /\ pay.at = "yes"
          \/ pay'.at = "yes" /\ rows'[pay.row].st # "pending"

\* A payment under way keeps its booking and its amount.
LEMMA PayStep ==
    ASSUME CheckoutTypeOK, RowsExist, Step
    PROVE  pay' \in PayTypes /\ PayMoves
<1> DEFINE Goal == pay' \in PayTypes /\ PayMoves
<1>1. pay \in PayTypes /\ NoPay \in PayTypes /\ NoPay.at = "idle"
  BY DEF CheckoutTypeOK, NoPay, PayTypes, BookingStatuses
<1>2. ASSUME UNCHANGED pay
      PROVE  Goal
  BY <1>1, <1>2 DEF PayMoves
<1>3. ASSUME pay' = NoPay
      PROVE  Goal
  BY <1>1, <1>3 DEF PayMoves
<1>4. ASSUME ServePay
      PROVE  Goal
  <2>1. CASE UNCHANGED rows
    <3>1. pay' = NoPay
      <4>1. SUFFICES ASSUME pay' # NoPay PROVE FALSE
        OBVIOUS
      <4>2. PICK r \in Rows : r = pay.row
        BY <1>4 DEF ServePay, RowsExist
      <4>3. PICK st \in {"active", "paid"} : st = IF rows[r].at <= Now THEN "active" ELSE "paid"
        OBVIOUS
      <4>4. /\ rows[r].st = "pending"
            /\ rows' = [rows EXCEPT ![r].st = st, ![r].shown = pay.shown]
        BY <1>4, <4>1, <4>2, <4>3 DEF ServePay
      <4>5. rows \in [Rows -> RowTypes] /\ rows[r] \in RowTypes
        BY DEF CheckoutTypeOK
      <4>6. rows'[r].st = st
        BY <4>4, <4>5 DEF RowTypes
      <4>7. QED BY <2>1, <4>4, <4>6
    <3>2. QED BY <1>3, <3>1
  <2>2. CASE ~UNCHANGED rows
    <3>1. PICK r \in Rows : r = pay.row
      BY <1>4, <2>2, Pays
    <3>2. PICK row : RowIs(r, row) /\ PaidRow(rows[r], row, pay.shown)
      BY <1>4, <2>2, <3>1, Pays
    <3>3. rows'[r] = row /\ row.st \in {"paid", "active"}
      BY <3>1, <3>2 DEF RowIs, PaidRow, CheckoutTypeOK
    <3>4. CASE pay' = [pay EXCEPT !.at = "yes", !.st = row.st]
      <4>1. row.st \in BookingStatuses
        BY <3>3 DEF BookingStatuses
      <4>2. pay' \in PayTypes /\ pay'.at = "yes" /\ pay'.row = pay.row /\ pay'.shown = pay.shown
        BY <1>1, <3>4, <4>1 DEF PayTypes
      <4>3. QED BY <1>4, <3>1, <3>3, <4>2 DEF PayMoves, ServePay
    <3>5. QED BY <1>3, <1>4, <2>2, <3>1, <3>3, <3>4, Pays
  <2>3. QED BY <2>1, <2>2
<1>5. CASE ServerSteps
  BY <1>2, <1>4, <1>5 DEF ServerSteps, ServeQuote, Edit, ServeCreate, Scheduler, paying, booking
<1>6. ASSUME PayAnswered
      PROVE  Goal
  BY <1>1, <1>6 DEF PayAnswered, PayTypes, PayMoves
<1>7. CASE Arrivals
  BY <1>2, <1>3, <1>6, <1>7 DEF Arrivals, QuoteAnswered, PricingArrives, Paid, CreateAnswered,
              paying
<1>8. ASSUME Kill
      PROVE  Goal
  <2>1. CASE pay' = NoPay
    BY <1>3, <2>1
  <2>2. CASE pay' = [pay EXCEPT !.here = FALSE, !.heard = FALSE] /\ pay.at = "sent"
    BY <1>1, <2>2 DEF PayTypes, PayMoves
  <2>3. QED BY <1>8, <2>1, <2>2 DEF Kill
<1>9. CASE LossSteps
  BY <1>2, <1>3, <1>8, <1>9 DEF LossSteps, LosePricing, LosePay, LoseCreate, paying
<1>10. CASE ReleaseSteps
  BY <1>2, <1>10 DEF ReleaseSteps, Released, paying
<1>11. CASE DraftSteps
  BY <1>2, <1>11 DEF DraftSteps, ChangeDraft, paying
<1>12. ASSUME TapPay
       PROVE  Goal
  <2>1. PICK amount \in Nat : amount = IF late THEN 0 ELSE total
    BY DEF CheckoutTypeOK
  <2>2. pay' = [at |-> "sent", row |-> ref, st |-> "none", shown |-> amount, here |-> TRUE,
                heard |-> TRUE]
    BY <1>12, <2>1 DEF TapPay
  <2>3. ref \in {0} \cup Rows
    BY DEF CheckoutTypeOK
  <2>4. QED BY <1>12, <2>2, <2>3 DEF PayTypes, PayMoves, BookingStatuses
<1>13. ASSUME LeavePayment
       PROVE  Goal
  <2>1. pay' = [pay EXCEPT !.here = FALSE]
    BY <1>13 DEF LeavePayment
  <2>2. QED BY <1>1, <2>1 DEF PayTypes, PayMoves
<1>14. CASE PlayerSteps
  BY <1>2, <1>12, <1>13, <1>14 DEF PlayerSteps, SelectSeat, GoTime, Continue, Checkout, BackToTime,
              BackToMap, OpenSession, CloseSession, Refresh, CancelBooking, Finish, paying, booking
<1>15. CASE Extension
  BY <1>2, <1>15 DEF Extension, OpenExtend, QuoteExtend, ChooseMode, ChooseMinutes, ChooseHours,
              ChoosePackage, Choosing, PayExtend, ExtendSession, CloseExtend, paying, booking
<1>16. QED BY <1>5, <1>7, <1>9, <1>10, <1>11, <1>14, <1>15 DEF Step

\* The bookings the phone holds on to go on existing.
LEMMA RowsExistStep ==
    ASSUME BookingAppAssumption, CheckoutTypeOK, ScreensInStep, RowsExist, PackageIsOffered, Step
    PROVE  RowsExist'
<1>1. RowsStay
  BY RowsStayStep
<1>2. ref \in {0} \cup Rows /\ creates \in [Slots -> CreateTypes] /\ rows \in [Rows -> RowTypes]
  BY DEF CheckoutTypeOK
<1>3. ref' # 0 => rows'[ref'].st # "none"
  <2>1. CASE ref' \in {0, ref}
    BY <1>1, <1>2, <2>1 DEF RowsStay, RowsExist
  <2>2. CASE \E s \in Slots : creates[s].at = "made" /\ ref' = creates[s].row
    BY <1>1, <2>2 DEF RowsStay, RowsExist, Made
  <2>3. QED BY <2>1, <2>2, RefStep DEF RefMoves, Answer
<1>4. ASSUME NEW s \in Slots, creates'[s].at = "made"
      PROVE  creates'[s].row \in Rows /\ rows'[creates'[s].row].st # "none"
  <2>1. CASE Made(s) /\ creates'[s] = creates[s]
    BY <1>1, <2>1 DEF RowsStay, RowsExist
  <2>2. CASE ServeCreate(s)
    <3>1. PICK r \in Rows : /\ rows' = [rows EXCEPT ![r] = RowFor(creates[s].key)]
                            /\ creates'[s].row = r
      BY <1>4, <2>2, ServesCreate DEF Served
    <3>2. RowFor(creates[s].key).st = "pending"
      BY <2>2, RowForTyped DEF ServeCreate, ScreensInStep, SlotsNamed, CheckoutTypeOK, RowForType
    <3>3. QED BY <1>2, <3>1, <3>2
  <2>3. QED BY <1>4, <2>1, <2>2, MadeStep DEF MadeMoves
<1>5. /\ pay'.at # "idle" => pay'.row \in Rows /\ rows'[pay'.row].st # "none"
      /\ pay'.at \in {"yes", "profile"} => rows'[pay'.row].st # "pending"
  <2>1. CASE TapPay
    <3>1. pay'.at = "sent" /\ pay'.row = ref /\ ref # 0 /\ UNCHANGED rows
      BY <2>1 DEF TapPay, backend
    <3>2. QED BY <1>2, <3>1 DEF RowsExist
  <2>2. QED BY <1>1, <2>1, PayStep DEF PayMoves, RowsStay, RowsExist
<1>6. QED BY <1>3, <1>4, <1>5 DEF RowsExist, Made

-----------------------------------------------------------------------------
(* A confirmed booking is let go.                                          *)

Sealed(r) == rows[r].confirmed /\ ~rows[r].asked
PaidNow(r) == Paid /\ pay.row = r /\ r \notin cancels

\* A confirmed booking was let go of before the step, or is confirmed by it.
LEMMA SealedStep ==
    ASSUME BookingAppAssumption, CheckoutTypeOK, ScreensInStep, RowsExist, PackageIsOffered,
           ConfirmedIsLetGo, Step, NEW r \in Rows, rows'[r].confirmed, ~rows'[r].asked
    PROVE  rows'[r].st \in {"paid", "active", "over"} /\ (Sealed(r) \/ PaidNow(r))
<1> DEFINE Goal == rows'[r].st \in {"paid", "active", "over"} /\ (Sealed(r) \/ PaidNow(r))
<1>1. rows \in [Rows -> RowTypes] /\ rows[r] \in RowTypes
  BY DEF CheckoutTypeOK
<1>2. Sealed(r) => rows[r].st \in {"paid", "active", "over"} /\ r \notin cancels
  BY DEF Sealed, ConfirmedIsLetGo
<1>3. ASSUME rows'[r] = rows[r]
      PROVE  Goal
  BY <1>2, <1>3 DEF Sealed
<1>4. ASSUME NEW q \in Rows, NEW st \in {"cancelled", "over"},
             rows' = [rows EXCEPT ![q] = Closed(q, st)],
             st = "over" \/ rows[q].st = "pending" \/ q \in cancels
      PROVE  Goal
  <2>1. CASE q = r
    <3>1. rows'[r] = Closed(r, st)
      BY <1>1, <1>4, <2>1
    <3>2. Sealed(r) /\ rows'[r].st = st
      BY <3>1, ClosedType DEF Sealed
    <3>3. QED BY <1>2, <1>4, <2>1, <3>2
  <2>2. CASE q # r
    BY <1>1, <1>3, <1>4, <2>2
  <2>3. QED BY <2>1, <2>2
<1>5. ASSUME NEW s \in Slots, ServeCreate(s)
      PROVE  Goal
  <2>1. CASE rows'[r] = rows[r]
    BY <1>3, <2>1
  <2>2. CASE rows'[r] # rows[r]
    <3>1. rows'[r] = RowFor(creates[s].key)
      BY <1>1, <1>5, <2>2, ServesCreate DEF Served
    <3>2. ~RowFor(creates[s].key).confirmed
      BY <1>5, RowForTyped DEF ServeCreate, ScreensInStep, SlotsNamed, CheckoutTypeOK, RowForType
    <3>3. QED BY <3>1, <3>2
  <2>3. QED BY <2>1, <2>2
<1>6. ASSUME ServePay
      PROVE  Goal
  <2>1. CASE UNCHANGED rows
    BY <1>3, <2>1
  <2>2. CASE ~UNCHANGED rows
    <3>1. PICK row : RowIs(pay.row, row) /\ PaidRow(rows[pay.row], row, pay.shown)
      BY <1>6, <2>2, Pays
    <3>2. CASE pay.row = r
      <4>1. rows'[r] = row
        BY <1>1, <3>1, <3>2 DEF RowIs
      <4>2. QED BY <3>1, <3>2, <4>1 DEF PaidRow, Sealed
    <3>3. CASE pay.row # r
      BY <1>1, <1>3, <3>1, <3>3 DEF RowIs
    <3>4. QED BY <3>2, <3>3
  <2>3. QED BY <2>1, <2>2
<1>7. ASSUME NEW q \in Rows, Scheduler(q)
      PROVE  Goal
  <2>1. CASE rows[q].st = "paid" /\ rows' = [rows EXCEPT ![q].st = "active"]
    <3>1. CASE q = r
      <4>1. rows'[r] = [rows[r] EXCEPT !.st = "active"]
        BY <1>1, <2>1, <3>1
      <4>2. Sealed(r) /\ rows'[r].st = "active"
        BY <1>1, <4>1 DEF RowTypes, Sealed
      <4>3. QED BY <4>2
    <3>2. CASE q # r
      BY <1>1, <1>3, <2>1, <3>2
    <3>3. QED BY <3>1, <3>2
  <2>2. QED BY <1>4, <1>7, <2>1 DEF Scheduler
<1>8. CASE ServerSteps
  BY <1>3, <1>5, <1>6, <1>7, <1>8 DEF ServerSteps, ServeQuote, Edit, backend
<1>9. ASSUME Paid
      PROVE  Goal
  <2>1. CASE pay.row = r
    <3>1. rows'[r] = [rows[r] EXCEPT !.confirmed = rows[r].st # "cancelled" /\ r \notin cancels]
      BY <1>1, <1>9, <2>1 DEF Paid
    <3>2. rows[r].st # "cancelled" /\ r \notin cancels /\ rows'[r].st = rows[r].st
      BY <1>1, <3>1 DEF RowTypes
    <3>3. rows[r].st \in {"paid", "active", "over"}
      BY <1>1, <1>9, <2>1, <3>2 DEF Paid, RowsExist, RowTypes, BookingStatuses
    <3>4. QED BY <1>9, <2>1, <3>2, <3>3 DEF PaidNow
  <2>2. CASE pay.row # r
    BY <1>1, <1>3, <1>9, <2>2 DEF Paid
  <2>3. QED BY <2>1, <2>2
<1>10. CASE Arrivals
  BY <1>3, <1>9, <1>10 DEF Arrivals, QuoteAnswered, PricingArrives, PayAnswered, CreateAnswered,
              backend
<1>11. CASE LossSteps
  BY <1>3, <1>11 DEF LossSteps, LosePricing, LosePay, Kill, LoseCreate, backend
<1>12. CASE ReleaseSteps
  BY <1>3, <1>4, <1>12 DEF ReleaseSteps, Released
<1>13. CASE DraftSteps
  BY <1>3, <1>13 DEF DraftSteps, ChangeDraft, backend
<1>14. ASSUME CancelBooking
       PROVE  Goal
  <2>1. CASE booked.row = r
    <3>1. rows'[r] = [rows[r] EXCEPT !.asked = TRUE]
      BY <1>1, <1>14, <2>1 DEF CancelBooking
    <3>2. QED BY <1>1, <3>1 DEF RowTypes
  <2>2. CASE booked.row # r
    BY <1>1, <1>3, <1>14, <2>2 DEF CancelBooking
  <2>3. QED BY <2>1, <2>2
<1>15. ASSUME Finish
       PROVE  Goal
  BY <1>4, <1>15 DEF Finish, ScreensInStep, BookedExists
<1>16. CASE PlayerSteps
  BY <1>3, <1>14, <1>15, <1>16 DEF PlayerSteps, SelectSeat, GoTime, Continue, Checkout, TapPay,
         LeavePayment, BackToTime, BackToMap, OpenSession, CloseSession, Refresh, backend
<1>17. ASSUME ExtendSession
       PROVE  Goal
  <2>1. CASE UNCHANGED rows
    BY <1>3, <2>1
  <2>2. CASE ~UNCHANGED rows
    <3>1. PICK row : /\ RowIs(booked.row, row) /\ row.st = "active"
                     /\ row.asked = rows[booked.row].asked
                     /\ row.confirmed = rows[booked.row].confirmed
      BY <1>17, <2>2, Extends
    <3>2. CASE booked.row = r
      <4>1. rows'[r] = row
        BY <1>1, <3>1, <3>2 DEF RowIs
      <4>2. QED BY <3>1, <3>2, <4>1 DEF Sealed
    <3>3. CASE booked.row # r
      BY <1>1, <1>3, <3>1, <3>3 DEF RowIs
    <3>4. QED BY <3>2, <3>3
  <2>3. QED BY <2>1, <2>2
<1>18. CASE Extension
  BY <1>3, <1>17, <1>18 DEF Extension, OpenExtend, QuoteExtend, ChooseMode, ChooseMinutes,
              ChooseHours,
               ChoosePackage, Choosing, PayExtend, CloseExtend, backend
<1>19. QED BY <1>8, <1>10, <1>11, <1>12, <1>13, <1>16, <1>18 DEF Step

\* What the app asks to release.
CancelsMoves ==
    \/ cancels' \subseteq cancels \cup ({pending, ref} \ {0})
    \/ CancelBooking /\ cancels' = cancels \cup {booked.row}

\* The phone asks to release only what it holds, or what the player gives up.
LEMMA CancelsStep ==
    ASSUME Step
    PROVE  CancelsMoves
<1>1. CASE ServerSteps
  BY <1>1 DEF ServerSteps, ServePay, ServeQuote, Edit, ServeCreate, Scheduler, leaving, booking,
              CancelsMoves
<1>2. CASE Arrivals
  BY <1>2 DEF Arrivals, QuoteAnswered, PricingArrives, PayAnswered, Paid, CreateAnswered, leaving,
              CancelsMoves
<1>3. CASE LossSteps
  BY <1>3 DEF LossSteps, LosePricing, LosePay, Kill, LoseCreate, leaving, CancelsMoves
<1>4. CASE ReleaseSteps
  BY <1>4 DEF ReleaseSteps, Released, CancelsMoves
<1>5. CASE DraftSteps
  BY <1>5 DEF DraftSteps, ChangeDraft, leaving, CancelsMoves
<1>6. CASE PlayerSteps
  BY <1>6 DEF PlayerSteps, SelectSeat, GoTime, Continue, Checkout, TapPay, LeavePayment,
              BackToTime, BackToMap, OpenSession, CloseSession, Refresh, CancelBooking, Finish,
              leaving, booking, CancelsMoves
<1>7. CASE Extension
  BY <1>7 DEF Extension, OpenExtend, QuoteExtend, ChooseMode, ChooseMinutes, ChooseHours,
              ChoosePackage, Choosing, PayExtend, ExtendSession, CloseExtend, leaving, booking,
              CancelsMoves
<1>8. QED BY <1>1, <1>2, <1>3, <1>4, <1>5, <1>6, <1>7 DEF Step

\* Nothing takes hold of a confirmed booking again.
LEMMA ConfirmedIsLetGoStep ==
    ASSUME BookingAppAssumption, CheckoutTypeOK, ScreensInStep, RowsExist, PackageIsOffered,
           ConfirmedIsLetGo, Step
    PROVE  ConfirmedIsLetGo'
<1> SUFFICES ASSUME NEW r \in Rows, rows'[r].confirmed, ~rows'[r].asked
             PROVE  /\ rows'[r].st \in {"paid", "active", "over"}
                    /\ r \notin cancels' /\ pending' # r /\ ref' # r
                    /\ \A s \in Slots : ~(creates'[s].at = "made" /\ creates'[s].row = r)
  BY DEF ConfirmedIsLetGo, Made
<1>1. rows'[r].st \in {"paid", "active", "over"} /\ (Sealed(r) \/ PaidNow(r))
  BY SealedStep
<1>2. r # 0
  BY DEF Rows
<1>3. CASE PaidNow(r)
  <2>1. \A s \in Slots : creates'[s].at # "made"
    BY <1>3, CancelledType DEF PaidNow, Paid, ScreensInStep, AnswersHeard, Made
  <2>2. QED BY <1>1, <1>2, <1>3, <2>1 DEF PaidNow, Paid, leaving
<1>4. CASE Sealed(r)
  <2>1. /\ rows[r].st # "none" /\ r \notin cancels /\ pending # r /\ ref # r
        /\ \A s \in Slots : ~(Made(s) /\ creates[s].row = r)
    BY <1>4 DEF Sealed, ConfirmedIsLetGo
  <2>2. r \notin cancels'
    <3>1. CASE CancelBooking
      <4>1. booked.row # r
        BY <3>1 DEF CancelBooking, CheckoutTypeOK, RowTypes
      <4>2. QED BY <2>1, <3>1, <4>1 DEF CancelBooking
    <3>2. QED BY <2>1, <3>1, CancelsStep DEF CancelsMoves
  <2>3. pending' # r /\ ref' # r
    BY <1>2, <2>1, RefStep DEF RefMoves, Answer, Made
  <2>4. ASSUME NEW s \in Slots, creates'[s].at = "made", creates'[s].row = r
        PROVE  FALSE
    <3>1. CASE ServeCreate(s)
      BY <2>1, <2>4, <3>1, ServesCreate, RowsStayStep DEF Served
    <3>2. QED BY <2>1, <2>4, <3>1, MadeStep DEF MadeMoves
  <2>5. QED BY <1>1, <2>2, <2>3, <2>4
<1>5. QED BY <1>1, <1>3, <1>4

-----------------------------------------------------------------------------
(* Requests fit the draft.                                                 *)

\* The quote under way is for the draft.
LEMMA AskingFits ==
    ASSUME CheckoutTypeOK, ScreensInStep, RequestsFit, Step
    PROVE  (asking # NoQuote => asking.key = DraftKey)'
<1> DEFINE Goal == asking' # NoQuote => asking'.key = DraftKey'
<1>1. (asking # NoQuote => asking.key = DraftKey) /\ QuotesOnBooking
  BY DEF RequestsFit, ScreensInStep
<1>2. ASSUME UNCHANGED <<asking, startAt, hours, package>>
      PROVE  Goal
  BY <1>1, <1>2 DEF DraftKey
<1>3. ASSUME asking' = NoQuote
      PROVE  Goal
  BY <1>3 DEF NoQuote
<1>4. ASSUME OpenTime, UNCHANGED <<hours, package>>
      PROVE  Goal
  BY <1>3, <1>4 DEF OpenTime, Ask, NoQuote, DraftKey
<1>5. ASSUME NEW d, NEW h, NEW p, NEW k, Redraft(d, h, p, k)
      PROVE  Goal
  BY <1>1, <1>5 DEF Redraft, Ask, NoQuote, DraftKey, QuotesOnBooking
<1>6. ASSUME ServeQuote
      PROVE  Goal
  <2>1. asking \in QuoteTypes
    BY DEF CheckoutTypeOK
  <2>2. asking'.key = asking.key
    BY <1>6, <2>1 DEF ServeQuote, QuoteTypes
  <2>3. asking # NoQuote
    BY <1>6 DEF ServeQuote, NoQuote
  <2>4. QED BY <1>1, <1>6, <2>2, <2>3 DEF ServeQuote, draft, DraftKey
<1>7. CASE ServerSteps
  BY <1>2, <1>6, <1>7 DEF ServerSteps, ServePay, Edit, ServeCreate, Scheduler, quoting, draft,
              booking
<1>8. CASE Arrivals
  BY <1>2, <1>3, <1>5, <1>8 DEF Arrivals, QuoteAnswered, PricingArrives, PayAnswered, Paid,
                               CreateAnswered, quoting, draft
<1>9. CASE LossSteps
  BY <1>2, <1>3, <1>9 DEF LossSteps, LosePricing, LosePay, Kill, LoseCreate, quoting, draft
<1>10. CASE ReleaseSteps
  BY <1>2, <1>4, <1>10 DEF ReleaseSteps, Released, Resume, quoting
<1>11. CASE DraftSteps
  BY <1>5, <1>11 DEF DraftSteps, ChangeDraft
<1>12. CASE PlayerSteps
  BY <1>2, <1>3, <1>4, <1>12 DEF PlayerSteps, SelectSeat, GoTime, Continue, Checkout, TapPay,
                LeavePayment, BackToTime, BackToMap, OpenSession, CloseSession, Refresh,
                CancelBooking, Finish, quoting, draft, booking
<1>13. CASE Extension
  BY <1>2, <1>13 DEF Extension, OpenExtend, QuoteExtend, ChooseMode, ChooseMinutes, ChooseHours,
              ChoosePackage, Choosing, PayExtend, ExtendSession, CloseExtend, quoting, draft,
              booking
<1>14. QED BY <1>7, <1>8, <1>9, <1>10, <1>11, <1>12, <1>13 DEF Step

QuoteFits == OnBooking /\ selected /\ asking = NoQuote /\ quote # Unset => quote.fits

\* The quote in the store is for the draft, or another is under way.
LEMMA QuoteFitsStep ==
    ASSUME CheckoutTypeOK, ScreensInStep, RequestsFit, Step
    PROVE  QuoteFits'
<1>1. QuoteFits /\ (asking # NoQuote => asking.key = DraftKey) /\ QuotesOnBooking /\ WaitingScreens
  BY DEF RequestsFit, ScreensInStep, QuoteFits
<1>2. ASSUME UNCHANGED <<asking, quote, selected>>, OnBooking' => OnBooking
      PROVE  QuoteFits'
  BY <1>1, <1>2 DEF QuoteFits
<1>3. ASSUME ~OnBooking' \/ ~selected'
      PROVE  QuoteFits'
  BY <1>3 DEF QuoteFits
<1>4. ASSUME OpenTime, UNCHANGED selected
      PROVE  QuoteFits'
  BY <1>4 DEF OpenTime, Ask, NoQuote, QuoteFits
<1>5. ASSUME NEW d, NEW h, NEW p, NEW k, Redraft(d, h, p, k), UNCHANGED <<route, selected>>
      PROVE  QuoteFits'
  <2>1. quote \in {Unset} \cup [fits : BOOLEAN, price : Nat]
    BY DEF CheckoutTypeOK
  <2>2. PICK start : start = StartDate(d, p, Packages(k), Now)
    OBVIOUS
  <2>3. CASE Key(start, h, p) = DraftKey
    <3>1. quote' = (IF quote = Unset THEN Unset ELSE [quote EXCEPT !.fits = @ /\ TRUE])
      BY <1>5, <2>2, <2>3 DEF Redraft, Kept
    <3>2. quote # Unset => (quote'.fits <=> quote.fits)
      BY <2>1, <3>1
    <3>3. asking' = asking
      BY <1>5, <2>2, <2>3 DEF Redraft
    <3>4. QED BY <1>1, <1>5, <3>1, <3>2, <3>3 DEF QuoteFits, OnBooking
  <2>4. CASE Key(start, h, p) # DraftKey
    BY <1>3, <1>5, <2>2, <2>4 DEF Redraft, Ask, NoQuote, QuoteFits
  <2>5. QED BY <2>3, <2>4
<1>6. ASSUME ServeQuote
      PROVE  QuoteFits'
  <2>1. asking \in QuoteTypes
    BY DEF CheckoutTypeOK
  <2>2. asking'.at # "none"
    BY <1>6, <2>1 DEF ServeQuote, QuoteTypes
  <2>3. QED BY <2>2 DEF QuoteFits, NoQuote
<1>7. CASE ServerSteps
  BY <1>2, <1>6, <1>7 DEF ServerSteps, ServePay, Edit, ServeCreate, Scheduler, quoting, booking,
              OnBooking
<1>8. ASSUME QuoteAnswered
      PROVE  QuoteFits'
  <2>1. asking # NoQuote
    BY <1>8 DEF QuoteAnswered, NoQuote
  <2>2. quote' = Unset \/ quote'.fits
    <3>1. PICK b : b = (asking.key = DraftKey)
      OBVIOUS
    <3>2. b = TRUE
      BY <1>1, <2>1, <3>1, Zenon
    <3>3. quote' = Unset \/ quote' = [fits |-> b, price |-> asking.price]
      BY <1>8, <3>1, Zenon DEF QuoteAnswered
    <3>4. quote' = Unset \/ quote'.fits = b
      BY <3>3
    <3>5. QED BY <3>2, <3>4, Zenon
  <2>3. QED BY <2>2 DEF QuoteFits
<1>9. CASE Arrivals
  BY <1>2, <1>3, <1>5, <1>8, <1>9 DEF Arrivals, PricingArrives, PayAnswered, Paid, CreateAnswered,
                                      quoting, OnBooking
<1>10. CASE LossSteps
  BY <1>2, <1>3, <1>10 DEF LossSteps, LosePricing, LosePay, Kill, LoseCreate, quoting, OnBooking
<1>11. CASE ReleaseSteps
  <2>1. PICK r \in Rows, ok \in BOOLEAN : Released(r, ok)
    BY <1>11 DEF ReleaseSteps
  <2>2. CASE OpenTime
    BY <1>4, <2>1, <2>2 DEF Released
  <2>3. CASE ~OpenTime
    BY <1>2, <2>1, <2>3 DEF Released, Resume, quoting, OnBooking
  <2>4. QED BY <2>2, <2>3
<1>12. CASE DraftSteps
  BY <1>5, <1>12 DEF DraftSteps, ChangeDraft
<1>13. CASE PlayerSteps
  BY <1>2, <1>3, <1>4, <1>13 DEF PlayerSteps, SelectSeat, GoTime, Continue, Checkout, TapPay,
                LeavePayment, BackToTime, BackToMap, OpenSession, CloseSession, Refresh,
                CancelBooking, Finish, quoting, booking, OnBooking
<1>14. CASE Extension
  BY <1>2, <1>14 DEF Extension, OpenExtend, QuoteExtend, ChooseMode, ChooseMinutes, ChooseHours,
              ChoosePackage, Choosing, PayExtend, ExtendSession, CloseExtend, quoting, booking,
              OnBooking
<1>15. QED BY <1>7, <1>9, <1>10, <1>11, <1>12, <1>13, <1>14 DEF Step

\* A request the payment screen listens to was already, or is for the new draft.
LiveMoves ==
    \A s \in Slots : creates'[s].live =>
        (Live(s) /\ creates'[s].key = creates[s].key) \/ creates'[s].key = DraftKey'

\* A request the screen waits for is an old one or is for the draft.
LEMMA LiveStep ==
    ASSUME CheckoutTypeOK, ScreensInStep, Step
    PROVE  LiveMoves
<1>1. creates \in [Slots -> CreateTypes]
  BY DEF CheckoutTypeOK
<1>2. ASSUME UNCHANGED creates
      PROVE  LiveMoves
  BY <1>2 DEF LiveMoves, Live
<1>3. ASSUME creates' = [s \in Slots |-> Cancelled(s)]
      PROVE  LiveMoves
  BY <1>3, CancelledType DEF LiveMoves, Live
<1>4. ASSUME NEW key, key = DraftKey', TakeHold(key)
      PROVE  LiveMoves
  <2>1. \A s \in Slots : creates'[s] = Cancelled(s) \/ creates'[s].key = key
    BY <1>4 DEF TakeHold, NoCreate
  <2>2. QED BY <1>4, <2>1, CancelledType DEF LiveMoves
<1>5. ASSUME NEW s \in Slots, creates' = [creates EXCEPT ![s] = NoCreate]
      PROVE  LiveMoves
  BY <1>1, <1>5 DEF LiveMoves, Live, NoCreate
<1>6. ASSUME NEW s \in Slots, ServeCreate(s)
      PROVE  LiveMoves
  BY <1>6, ServesCreate DEF Served, LiveMoves, Live, NoCreate
<1>7. CASE ServerSteps
  BY <1>2, <1>6, <1>7 DEF ServerSteps, ServePay, ServeQuote, Edit, Scheduler, holding, booking
<1>8. ASSUME PricingArrives
      PROVE  LiveMoves
  BY <1>2, <1>4, <1>8 DEF PricingArrives, Redraft, DraftKey, holding
<1>9. CASE Arrivals
  BY <1>2, <1>3, <1>5, <1>8, <1>9 DEF Arrivals, QuoteAnswered, PayAnswered, Paid, CreateAnswered,
              holding
<1>10. CASE LossSteps
  BY <1>2, <1>3, <1>5, <1>10 DEF LossSteps, LosePricing, LosePay, Kill, LoseCreate, holding
<1>11. CASE ReleaseSteps
  BY <1>2, <1>11 DEF ReleaseSteps, Released
<1>12. CASE DraftSteps
  BY <1>2, <1>12 DEF DraftSteps, ChangeDraft, holding
<1>13. ASSUME Checkout
       PROVE  LiveMoves
  BY <1>4, <1>13 DEF Checkout, DraftKey, draft
<1>14. CASE PlayerSteps
  BY <1>2, <1>3, <1>13, <1>14 DEF PlayerSteps, SelectSeat, GoTime, Continue, TapPay,
              LeavePayment, BackToTime, BackToMap, OpenSession, CloseSession, Refresh,
              CancelBooking, Finish, holding, booking
<1>15. CASE Extension
  BY <1>2, <1>15 DEF Extension, OpenExtend, QuoteExtend, ChooseMode, ChooseMinutes, ChooseHours,
              ChoosePackage, Choosing, PayExtend, ExtendSession, CloseExtend, holding, booking
<1>16. QED BY <1>7, <1>9, <1>10, <1>11, <1>12, <1>14, <1>15 DEF Step

\* On the payment screen the draft changes only with the hold.
Forgotten == ref' = 0 /\ \A s \in Slots : creates'[s].live => creates'[s].key = DraftKey'

\* While the payment screen is open the draft stays, or the hold is forgotten.
LEMMA DraftHeld ==
    ASSUME CheckoutTypeOK, ScreensInStep, Step, route = "payment", selected
    PROVE  UNCHANGED <<hours, package, startAt>> \/ Forgotten
<1> DEFINE Goal == UNCHANGED <<hours, package, startAt>> \/ Forgotten
<1>1. ASSUME creates' = [s \in Slots |-> Cancelled(s)], ref' = 0
      PROVE  Goal
  BY <1>1, CancelledType DEF Forgotten
<1>2. ASSUME PricingArrives
      PROVE  Goal
  <2>1. CASE startAt' = startAt
    BY <1>2, <2>1 DEF PricingArrives, Redraft, draft
  <2>2. CASE startAt' # startAt
    <3>1. /\ TakeHold(Key(startAt', hours, package)) /\ UNCHANGED <<hours, package>>
      BY <1>2, <2>2 DEF PricingArrives, Redraft, OnBooking
    <3>2. \A s \in Slots : \/ creates'[s] = Cancelled(s)
                          \/ creates'[s].key = Key(startAt', hours, package)
      BY <3>1 DEF TakeHold, NoCreate
    <3>3. QED BY <3>1, <3>2, CancelledType DEF TakeHold, Forgotten, DraftKey
  <2>3. QED BY <2>1, <2>2
<1>3. CASE ServerSteps
  BY <1>3 DEF ServerSteps, ServePay, ServeQuote, Edit, ServeCreate, Scheduler, draft, booking
<1>4. CASE Arrivals
  BY <1>1, <1>2, <1>4 DEF Arrivals, QuoteAnswered, PayAnswered, Paid, CreateAnswered, draft
<1>5. CASE LossSteps
  BY <1>1, <1>5 DEF LossSteps, LosePricing, LosePay, Kill, LoseCreate, draft
<1>6. CASE ReleaseSteps
  BY <1>6 DEF ReleaseSteps, Released, Resume, ScreensInStep, WaitingScreens
<1>7. CASE DraftSteps
  BY <1>7 DEF DraftSteps, ChangeDraft
<1>8. CASE PlayerSteps
  BY <1>8 DEF PlayerSteps, SelectSeat, GoTime, Continue, Checkout, TapPay,
              LeavePayment, BackToTime, BackToMap, OpenSession, CloseSession, Refresh,
              CancelBooking, Finish, draft, booking
<1>9. CASE Extension
  BY <1>9 DEF Extension, OpenExtend, QuoteExtend, ChooseMode, ChooseMinutes, ChooseHours,
              ChoosePackage, Choosing, PayExtend, ExtendSession, CloseExtend, draft, booking
<1>10. QED BY <1>3, <1>4, <1>5, <1>6, <1>7, <1>8, <1>9 DEF Step

\* Quotes and holds are for the draft after the step, too.
LEMMA RequestsFitStep ==
    ASSUME BookingAppAssumption, CheckoutTypeOK, ScreensInStep, RowsExist, PackageIsOffered,
           RequestsFit, Step
    PROVE  RequestsFit'
<1>1. /\ creates \in [Slots -> CreateTypes] /\ rows \in [Rows -> RowTypes] /\ ref \in {0} \cup Rows
  BY DEF CheckoutTypeOK
<1>2. /\ ref # 0 \/ (\E s \in Slots : Live(s)) => route = "payment" /\ selected
      /\ \A s \in Slots : Made(s) => Live(s)
  BY DEF ScreensInStep, HoldsOnPayment, AnswersHeard, Made
<1>3. (ref # 0 \/ \E s \in Slots : Live(s)) => RowsKept
  <2>1. ExtendSession => route = "extend"
    BY DEF ExtendSession, ScreensInStep, ExtendScreen
  <2>2. QED BY <1>2, <2>1, RowsStep
<1>4. ASSUME NEW s \in Slots, creates'[s].live
      PROVE  creates'[s].key = DraftKey'
  <2>1. CASE Live(s) /\ creates'[s].key = creates[s].key
    <3>1. creates[s].key = DraftKey
      BY <2>1 DEF RequestsFit
    <3>2. QED BY <1>2, <1>4, <2>1, <3>1, DraftHeld DEF Forgotten, DraftKey
  <2>2. QED BY <1>4, <2>1, LiveStep DEF LiveMoves
<1>5. ASSUME NEW s \in Slots, creates'[s].at = "made", rows'[creates'[s].row].st \in Holding
      PROVE  /\ rows'[creates'[s].row].hours = creates'[s].key.hours
             /\ rows'[creates'[s].row].at = creates'[s].key.start
  <2>1. CASE Made(s) /\ creates'[s] = creates[s]
    <3>1. RowsKept /\ creates[s].row \in Rows /\ rows[creates[s].row].st # "none"
      BY <1>2, <1>3, <2>1 DEF RowsExist
    <3>2. QED BY <1>5, <2>1, <3>1 DEF RowsKept, Keeps, RequestsFit
  <2>2. CASE ServeCreate(s)
    <3>1. PICK r \in Rows : /\ rows' = [rows EXCEPT ![r] = RowFor(creates[s].key)]
                            /\ creates'[s].row = r /\ creates'[s].key = creates[s].key
      BY <1>5, <2>2, ServesCreate DEF Served, NoCreate
    <3>2. /\ RowFor(creates[s].key).hours = creates[s].key.hours
          /\ RowFor(creates[s].key).at = creates[s].key.start
      BY <2>2, RowForTyped DEF ServeCreate, ScreensInStep, SlotsNamed, CheckoutTypeOK, RowForType
    <3>3. QED BY <1>1, <3>1, <3>2
  <2>3. QED BY <1>5, <2>1, <2>2, MadeStep DEF MadeMoves
<1>6. ASSUME ref' # 0, rows'[ref'].st \in Holding
      PROVE  rows'[ref'].hours = hours' /\ rows'[ref'].at = startAt'
  <2>1. CASE ref' = ref
    <3>1. UNCHANGED <<hours, startAt>>
      BY <1>2, <1>6, <2>1, DraftHeld DEF Forgotten
    <3>2. RowsKept /\ rows[ref].st # "none"
      BY <1>3, <1>6, <2>1 DEF RowsExist
    <3>3. QED BY <1>1, <1>6, <2>1, <3>1, <3>2 DEF RowsKept, Keeps, RequestsFit
  <2>2. ASSUME NEW s \in Slots, Answer(s), ref' = creates[s].row
        PROVE  rows'[ref'].hours = hours' /\ rows'[ref'].at = startAt'
    <3>1. UNCHANGED <<rows, hours, package, startAt>> /\ Made(s)
      BY <2>2 DEF Answer, CreateAnswered, backend, draft, Made
    <3>2. creates[s].key = DraftKey
      BY <1>2, <3>1 DEF RequestsFit
    <3>3. QED BY <1>6, <2>2, <3>1, <3>2 DEF RequestsFit, DraftKey, Key
  <2>3. QED BY <1>6, <2>1, <2>2, RefStep DEF RefMoves
<1>7. QED BY <1>4, <1>5, <1>6, AskingFits, QuoteFitsStep DEF RequestsFit, QuoteFits, Live, Made

-----------------------------------------------------------------------------
(* Prices are charges.                                                     *)

\* A price under way is the quote by the list it names.
LEMMA AskingPriced ==
    ASSUME CheckoutTypeOK, PricesAreCharges, Step
    PROVE  (asking.at = "priced" =>
               asking.price = Quote(asking.by, asking.key.hours, asking.key.window))'
<1> DEFINE Goal == asking'.at = "priced" =>
                       asking'.price = Quote(asking'.by, asking'.key.hours, asking'.key.window)
<1>1. asking.at = "priced" => asking.price = Quote(asking.by, asking.key.hours, asking.key.window)
  BY DEF PricesAreCharges
<1>2. ASSUME asking' = asking \/ asking'.at # "priced"
      PROVE  Goal
  BY <1>1, <1>2
<1>3. ASSUME ServeQuote
      PROVE  Goal
  <2>1. asking \in QuoteTypes
    BY DEF CheckoutTypeOK
  <2>2. CASE asking' = [asking EXCEPT !.at = "no"]
    <3>1. asking'.at = "no"
      BY <2>1, <2>2 DEF QuoteTypes
    <3>2. QED BY <1>2, <3>1
  <2>3. PICK key, price : key = asking.key /\ price = Quote(list, key.hours, key.window)
    OBVIOUS
  <2>4. CASE asking' = [asking EXCEPT !.at = "priced", !.by = list, !.price = price]
    <3>1. asking'.by = list /\ asking'.price = price /\ asking'.key = key
      BY <2>1, <2>3, <2>4 DEF QuoteTypes
    <3>2. QED BY <2>3, <3>1
  <2>5. QED BY <1>3, <2>2, <2>3, <2>4 DEF ServeQuote
<1>4. ASSUME OpenTime \/ \E d, h, p, k : Redraft(d, h, p, k)
      PROVE  Goal
  <2>1. asking' = asking \/ asking' = NoQuote \/ \E key : asking' = Ask(key)
    BY <1>4 DEF OpenTime, Redraft
  <2>2. asking' = asking \/ asking'.at # "priced"
    <3>1. NoQuote.at = "none" /\ \A key : Ask(key).at = "sent"
      BY DEF NoQuote, Ask
    <3>2. QED BY <2>1, <3>1
  <2>3. QED BY <1>2, <2>2
<1>5. NoQuote.at # "priced"
  BY DEF NoQuote
<1>6. CASE ServerSteps
  BY <1>2, <1>3, <1>6 DEF ServerSteps, ServePay, Edit, ServeCreate, Scheduler, quoting, booking
<1>7. CASE Arrivals
  BY <1>2, <1>4, <1>5, <1>7 DEF Arrivals, QuoteAnswered, PricingArrives, PayAnswered, Paid,
                                CreateAnswered, quoting
<1>8. CASE LossSteps
  BY <1>2, <1>5, <1>8 DEF LossSteps, LosePricing, LosePay, Kill, LoseCreate, quoting
<1>9. CASE ReleaseSteps
  BY <1>2, <1>4, <1>9 DEF ReleaseSteps, Released, Resume, quoting
<1>10. CASE DraftSteps
  BY <1>4, <1>10 DEF DraftSteps, ChangeDraft
<1>11. CASE PlayerSteps
  BY <1>2, <1>4, <1>5, <1>11 DEF PlayerSteps, SelectSeat, GoTime, Continue, Checkout, TapPay,
                LeavePayment, BackToTime, BackToMap, OpenSession, CloseSession, Refresh,
                CancelBooking, Finish, quoting, booking
<1>12. CASE Extension
  BY <1>2, <1>12 DEF Extension, OpenExtend, QuoteExtend, ChooseMode, ChooseMinutes, ChooseHours,
              ChoosePackage, Choosing, PayExtend, ExtendSession, CloseExtend, quoting, booking
<1>13. QED BY <1>6, <1>7, <1>8, <1>9, <1>10, <1>11, <1>12 DEF Step

\* The answer of a request brings what its row costs.
LEMMA HoldsPriced ==
    ASSUME BookingAppAssumption, CheckoutTypeOK, ScreensInStep, RowsExist, PackageIsOffered,
           PricesAreCharges, Step, NEW s \in Slots, creates'[s].at = "made",
           rows'[creates'[s].row].st = "pending"
    PROVE  /\ rows'[creates'[s].row].price =
                  Charge(rows'[creates'[s].row].by, creates'[s].key.hours, creates'[s].key.window)
           /\ creates'[s].price = Rub(rows'[creates'[s].row].price)
<1>1. CASE Made(s) /\ creates'[s] = creates[s]
  <2>1. PICK r \in Rows : r = creates[s].row
    BY <1>1 DEF RowsExist
  <2>2. /\ rows[r].st = "pending" /\ rows'[r].price = rows[r].price /\ rows'[r].by = rows[r].by
    BY <1>1, <2>1, RowsStayStep DEF RowsExist, RowsStay
  <2>3. /\ rows[r].price = Charge(rows[r].by, creates[s].key.hours, creates[s].key.window)
        /\ creates[s].price = Rub(rows[r].price)
    BY <1>1, <2>1, <2>2 DEF PricesAreCharges
  <2>4. QED BY <1>1, <2>1, <2>2, <2>3
<1>2. CASE ServeCreate(s)
  <2>1. PICK r \in Rows : /\ rows' = [rows EXCEPT ![r] = RowFor(creates[s].key)]
                          /\ creates'[s].row = r /\ creates'[s].key = creates[s].key
                          /\ creates'[s].price = Rub(rows'[r].price)
    BY <1>2, ServesCreate DEF Served, NoCreate
  <2>2. PICK key \in Keys : key = creates[s].key
    BY <1>2 DEF ServeCreate, ScreensInStep, SlotsNamed
  <2>3. RowFor(key).price = Charge(list, key.hours, key.window) /\ RowFor(key).by = list
    BY RowForTyped DEF CheckoutTypeOK, RowForType
  <2>4. rows'[r] = RowFor(key)
    BY <2>1, <2>2 DEF CheckoutTypeOK
  <2>5. QED BY <2>1, <2>2, <2>3, <2>4
<1>3. QED BY <1>1, <1>2, MadeStep DEF MadeMoves

\* While the payment screen holds a seat, only a quote for it writes another price.
TotalMoves ==
    \/ UNCHANGED <<total, late>>
    \/ /\ asking.at = "priced" /\ total' = asking.price /\ late' = (asking.by # rows[ref].by)
       /\ UNCHANGED <<rows, hours, package, startAt>>

\* While a hold is kept its price on the screen stays, or a late quote replaced it.
LEMMA TotalStep ==
    ASSUME CheckoutTypeOK, ScreensInStep, Step, ref # 0, ref' = ref, ~ \E s \in Slots : Answer(s)
    PROVE  TotalMoves
<1>1. route = "payment" /\ selected /\ WaitingScreens
  BY DEF ScreensInStep, HoldsOnPayment
<1>2. CASE ServerSteps
  BY <1>2 DEF ServerSteps, ServePay, ServeQuote, Edit, ServeCreate, Scheduler, quoting, booking,
              TotalMoves
<1>3. ASSUME PricingArrives
      PROVE  TotalMoves
  <2>1. CASE startAt' = startAt
    BY <1>3, <2>1 DEF PricingArrives, Redraft, quoting, TotalMoves
  <2>2. CASE startAt' # startAt
    BY <1>1, <1>3, <2>2 DEF PricingArrives, TakeHold, draft
  <2>3. QED BY <2>1, <2>2
<1>4. ASSUME QuoteAnswered
      PROVE  TotalMoves
  BY <1>4 DEF QuoteAnswered, backend, draft, TotalMoves
<1>5. CASE Arrivals
  BY <1>3, <1>4, <1>5 DEF Arrivals, PayAnswered, Paid, CreateAnswered, Answer, quoting, TotalMoves
<1>6. CASE LossSteps
  BY <1>6 DEF LossSteps, LosePricing, LosePay, Kill, LoseCreate, quoting, TotalMoves
<1>7. CASE ReleaseSteps
  BY <1>1, <1>7 DEF ReleaseSteps, Released, Resume, quoting, WaitingScreens, TotalMoves
<1>8. CASE DraftSteps
  BY <1>1, <1>8 DEF DraftSteps, ChangeDraft
<1>9. CASE PlayerSteps
  BY <1>1, <1>9 DEF PlayerSteps, SelectSeat, GoTime, Continue, Checkout, TapPay,
                LeavePayment, BackToTime, BackToMap, OpenSession, CloseSession, Refresh,
                CancelBooking, Finish, quoting, booking, TotalMoves
<1>10. CASE Extension
  BY <1>10 DEF Extension, OpenExtend, QuoteExtend, ChooseMode, ChooseMinutes, ChooseHours,
              ChoosePackage, Choosing, PayExtend, ExtendSession, CloseExtend, quoting, booking,
              TotalMoves
<1>11. QED BY <1>2, <1>5, <1>6, <1>7, <1>8, <1>9, <1>10 DEF Step

\* The hold costs what the screen says, unless a late quote came.
LEMMA HoldPriced ==
    ASSUME BookingAppAssumption, CheckoutTypeOK, ScreensInStep, RowsExist, PackageIsOffered,
           RequestsFit, PricesAreCharges, Step, ref' # 0, rows'[ref'].st = "pending"
    PROVE  /\ rows'[ref'].price = Charge(rows'[ref'].by, hours', TimeWindow(package'))
           /\ late' \/ total' = Rub(rows'[ref'].price)
<1>1. CASE ref' = ref /\ ~ \E s \in Slots : Answer(s)
  <2>1. PICK r \in Rows : r = ref
    BY <1>1 DEF CheckoutTypeOK
  <2>2. rows[r].st = "pending" /\ rows'[r].price = rows[r].price /\ rows'[r].by = rows[r].by
    BY <1>1, <2>1, RowsStayStep DEF RowsExist, RowsStay
  <2>3. /\ rows[r].price = Charge(rows[r].by, hours, TimeWindow(package))
        /\ late \/ total = Rub(rows[r].price)
    BY <1>1, <2>1, <2>2 DEF PricesAreCharges
  <2>4. UNCHANGED <<hours, package, startAt>>
    BY <1>1, DraftHeld DEF ScreensInStep, HoldsOnPayment, Forgotten
  <2>5. CASE UNCHANGED <<total, late>>
    BY <1>1, <2>1, <2>2, <2>3, <2>4, <2>5
  <2>6. CASE asking.at = "priced" /\ total' = asking.price /\ late' = (asking.by # rows[ref].by)
    <3>1. asking.key = DraftKey
      BY <2>6 DEF RequestsFit, NoQuote
    <3>2. asking.price = Quote(asking.by, hours, TimeWindow(package))
      BY <2>6, <3>1 DEF PricesAreCharges, DraftKey, Key
    <3>3. asking.by = rows[r].by => total' = Rub(rows[r].price)
      BY <2>3, <2>6, <3>2 DEF Quote
    <3>4. asking.by # rows[r].by => late'
      BY <2>1, <2>6
    <3>5. QED BY <1>1, <2>1, <2>2, <2>3, <2>4, <3>3, <3>4
  <2>7. QED BY <1>1, <2>5, <2>6, TotalStep DEF TotalMoves
<1>2. ASSUME NEW s \in Slots, Answer(s)
      PROVE  /\ rows'[ref'].price = Charge(rows'[ref'].by, hours', TimeWindow(package'))
             /\ late' \/ total' = Rub(rows'[ref'].price)
  <2>1. /\ UNCHANGED <<rows, hours, package, startAt>> /\ Made(s) /\ Live(s)
        /\ ref' = creates[s].row /\ total' = creates[s].price
    BY <1>2 DEF Answer, CreateAnswered, backend, draft, Made, ScreensInStep, AnswersHeard
  <2>2. creates[s].key = DraftKey
    BY <2>1 DEF RequestsFit
  <2>3. creates[s].key.hours = hours /\ creates[s].key.window = TimeWindow(package)
    BY <2>2 DEF DraftKey, Key
  <2>4. QED BY <2>1, <2>3 DEF PricesAreCharges
<1>3. QED BY <1>1, <1>2, RefStep DEF RefMoves

\* The amount seen when Pay was tapped is what the row costs.
LEMMA PayPriced ==
    ASSUME BookingAppAssumption, CheckoutTypeOK, ScreensInStep, RowsExist, PackageIsOffered,
           PricesAreCharges, Step, pay'.at = "sent", pay'.shown # 0,
           rows'[pay'.row].st = "pending"
    PROVE  pay'.shown = Rub(rows'[pay'.row].price)
<1>1. CASE TapPay
  <2>1. UNCHANGED rows /\ pay'.row = ref /\ ref # 0 /\ ~late /\ pay'.shown = total
    BY <1>1 DEF TapPay, backend
  <2>2. QED BY <2>1 DEF PricesAreCharges
<1>2. CASE pay.at # "idle" /\ pay'.row = pay.row /\ pay'.shown = pay.shown /\ pay.at = "sent"
  <2>1. PICK r \in Rows : r = pay.row
    BY <1>2 DEF RowsExist
  <2>2. rows[r].st = "pending" /\ rows'[r].price = rows[r].price
    BY <1>2, <2>1, RowsStayStep DEF RowsExist, RowsStay
  <2>3. QED BY <1>2, <2>1, <2>2 DEF PricesAreCharges
<1>3. QED BY <1>1, <1>2, PayStep DEF PayMoves

\* The four together.
LEMMA PricesAreChargesStep ==
    ASSUME BookingAppAssumption, CheckoutTypeOK, ScreensInStep, RowsExist, PackageIsOffered,
           RequestsFit, PricesAreCharges, Step
    PROVE  PricesAreCharges'
BY AskingPriced, HoldsPriced, HoldPriced, PayPriced DEF PricesAreCharges, Made

-----------------------------------------------------------------------------
(* What was charged is what was shown.                                     *)

Honest(row) ==
    /\ row.shown # 0 => Rub(row.price) = row.shown
    /\ row.longer # Unset /\ row.longer.same => row.longer.shown = row.longer.charged

\* No step makes a row charge something else than was shown.
LEMMA HonestStep ==
    ASSUME BookingAppAssumption, CheckoutTypeOK, ScreensInStep, RowsExist, PackageIsOffered,
           PricesAreCharges, Step, \A r \in Rows : Honest(rows[r]), NEW r \in Rows
    PROVE  Honest(rows'[r])
<1>1. rows \in [Rows -> RowTypes] /\ rows[r] \in RowTypes
  BY DEF CheckoutTypeOK
<1>2. ASSUME rows'[r] = rows[r]
      PROVE  Honest(rows'[r])
  BY <1>2
<1>3. ASSUME NEW q \in Rows, NEW st \in {"cancelled", "over"},
             rows' = [rows EXCEPT ![q] = Closed(q, st)]
      PROVE  Honest(rows'[r])
  <2>1. CASE q = r
    <3>1. rows'[r] = Closed(r, st)
      BY <1>1, <1>3, <2>1
    <3>2. QED BY <3>1, ClosedType DEF Honest
  <2>2. QED BY <1>1, <1>2, <1>3, <2>1
<1>4. ASSUME NEW s \in Slots, ServeCreate(s)
      PROVE  Honest(rows'[r])
  <2>1. CASE rows'[r] = rows[r]
    BY <1>2, <2>1
  <2>2. CASE rows'[r] # rows[r]
    <3>1. rows'[r] = RowFor(creates[s].key)
      BY <1>1, <1>4, <2>2, ServesCreate DEF Served
    <3>2. RowFor(creates[s].key).shown = 0 /\ RowFor(creates[s].key).longer = Unset
      BY <1>4, RowForTyped DEF ServeCreate, ScreensInStep, SlotsNamed, CheckoutTypeOK, RowForType
    <3>3. QED BY <3>1, <3>2 DEF Honest
  <2>3. QED BY <2>1, <2>2
<1>5. ASSUME ServePay
      PROVE  Honest(rows'[r])
  <2>1. CASE UNCHANGED rows
    BY <1>2, <2>1
  <2>2. CASE ~UNCHANGED rows
    <3>1. PICK row : RowIs(pay.row, row) /\ PaidRow(rows[pay.row], row, pay.shown)
      BY <1>5, <2>2, Pays
    <3>2. CASE pay.row = r
      <4>1. rows'[r] = row /\ pay.at = "sent" /\ rows[r].st = "pending"
        BY <1>1, <1>5, <2>2, <3>1, <3>2, Pays DEF RowIs
      <4>2. pay.shown # 0 => pay.shown = Rub(rows[r].price)
        BY <3>2, <4>1 DEF PricesAreCharges
      <4>3. QED BY <3>1, <3>2, <4>1, <4>2 DEF PaidRow, Honest
    <3>3. CASE pay.row # r
      BY <1>1, <1>2, <3>1, <3>3 DEF RowIs
    <3>4. QED BY <3>2, <3>3
  <2>3. QED BY <2>1, <2>2
<1>6. ASSUME rows'[r].price = rows[r].price, rows'[r].shown = rows[r].shown,
             rows'[r].longer = rows[r].longer
      PROVE  Honest(rows'[r])
  BY <1>6 DEF Honest
<1>7. ASSUME NEW q \in Rows, Scheduler(q)
      PROVE  Honest(rows'[r])
  <2>1. CASE rows[q].st = "paid" /\ rows' = [rows EXCEPT ![q].st = "active"]
    <3>1. CASE q = r
      <4>1. rows'[r] = [rows[r] EXCEPT !.st = "active"]
        BY <1>1, <2>1, <3>1
      <4>2. QED BY <1>1, <1>6, <4>1 DEF RowTypes
    <3>2. CASE q # r
      BY <1>1, <1>2, <2>1, <3>2
    <3>3. QED BY <3>1, <3>2
  <2>2. QED BY <1>3, <1>7, <2>1 DEF Scheduler
<1>8. CASE ServerSteps
  BY <1>2, <1>4, <1>5, <1>7, <1>8 DEF ServerSteps, ServeQuote, Edit, backend
<1>9. ASSUME Paid
      PROVE  Honest(rows'[r])
  <2>1. CASE pay.row = r
    <3>1. PICK b : rows'[r] = [rows[r] EXCEPT !.confirmed = b]
      BY <1>1, <1>9, <2>1 DEF Paid
    <3>2. QED BY <1>1, <1>6, <3>1 DEF RowTypes
  <2>2. CASE pay.row # r
    BY <1>1, <1>2, <1>9, <2>2 DEF Paid
  <2>3. QED BY <2>1, <2>2
<1>10. CASE Arrivals
  BY <1>2, <1>9, <1>10 DEF Arrivals, QuoteAnswered, PricingArrives, PayAnswered, CreateAnswered,
              backend
<1>11. CASE LossSteps
  BY <1>2, <1>11 DEF LossSteps, LosePricing, LosePay, Kill, LoseCreate, backend
<1>12. CASE ReleaseSteps
  BY <1>2, <1>3, <1>12 DEF ReleaseSteps, Released
<1>13. CASE DraftSteps
  BY <1>2, <1>13 DEF DraftSteps, ChangeDraft, backend
<1>14. ASSUME CancelBooking
       PROVE  Honest(rows'[r])
  <2>1. CASE booked.row = r
    <3>1. rows'[r] = [rows[r] EXCEPT !.asked = TRUE]
      BY <1>1, <1>14, <2>1 DEF CancelBooking
    <3>2. QED BY <1>1, <1>6, <3>1 DEF RowTypes
  <2>2. CASE booked.row # r
    BY <1>1, <1>2, <1>14, <2>2 DEF CancelBooking
  <2>3. QED BY <2>1, <2>2
<1>15. ASSUME Finish
       PROVE  Honest(rows'[r])
  BY <1>3, <1>15 DEF Finish, ScreensInStep, BookedExists
<1>16. CASE PlayerSteps
  BY <1>2, <1>14, <1>15, <1>16 DEF PlayerSteps, SelectSeat, GoTime, Continue, Checkout, TapPay,
         LeavePayment, BackToTime, BackToMap, OpenSession, CloseSession, Refresh, backend
<1>17. ASSUME ExtendSession
       PROVE  Honest(rows'[r])
  <2>1. CASE UNCHANGED rows
    BY <1>2, <2>1
  <2>2. CASE ~UNCHANGED rows
    <3>1. PICK row : /\ RowIs(booked.row, row) /\ row.shown = rows[booked.row].shown
                     /\ row.price = rows[booked.row].price
                     /\ row.longer.same => row.longer.shown = row.longer.charged
      BY <1>17, <2>2, Extends
    <3>2. CASE booked.row = r
      <4>1. rows'[r] = row
        BY <1>1, <3>1, <3>2 DEF RowIs
      <4>2. QED BY <3>1, <3>2, <4>1 DEF Honest
    <3>3. CASE booked.row # r
      BY <1>1, <1>2, <3>1, <3>3 DEF RowIs
    <3>4. QED BY <3>2, <3>3
  <2>3. QED BY <2>1, <2>2
<1>18. CASE Extension
  BY <1>2, <1>17, <1>18 DEF Extension, OpenExtend, QuoteExtend, ChooseMode, ChooseMinutes,
              ChooseHours,
               ChoosePackage, Choosing, PayExtend, CloseExtend, backend
<1>19. QED BY <1>8, <1>10, <1>11, <1>12, <1>13, <1>16, <1>18 DEF Step

-----------------------------------------------------------------------------
(* The extension screen and the price list.                                *)

ExtMoves == ext' \in ExtTypes /\ PackageIsOffered'

\* The package chosen for an extension stays one of those quoted.
LEMMA ExtStep ==
    ASSUME BookingAppAssumption, CheckoutTypeOK, PackageIsOffered, Step
    PROVE  ExtMoves
<1>1. /\ ext \in ExtTypes /\ NoExt \in ExtTypes /\ NoExt.at = "closed" /\ NoExt.package = "none"
      /\ IsPriceList(list, WindowIds)
  BY DEF CheckoutTypeOK, NoExt, ExtTypes
<1>2. ASSUME UNCHANGED ext
      PROVE  ExtMoves
  BY <1>1, <1>2 DEF ExtMoves, PackageIsOffered
<1>3. ASSUME ext' = NoExt
      PROVE  ExtMoves
  BY <1>1, <1>3 DEF ExtMoves, PackageIsOffered
<1>4. CASE ServerSteps \/ Arrivals
  BY <1>2, <1>4 DEF ServerSteps, ServePay, ServeQuote, Edit, ServeCreate, Scheduler, Arrivals,
                    QuoteAnswered, PricingArrives, PayAnswered, Paid, CreateAnswered
<1>5. CASE LossSteps \/ ReleaseSteps \/ DraftSteps
  BY <1>2, <1>3, <1>5 DEF LossSteps, LosePricing, LosePay, Kill, LoseCreate, ReleaseSteps, Released,
                          DraftSteps, ChangeDraft
<1>6. CASE PlayerSteps
  BY <1>2, <1>6 DEF PlayerSteps, SelectSeat, GoTime, Continue, Checkout, TapPay,
                LeavePayment, BackToTime, BackToMap, OpenSession, CloseSession, Refresh,
                CancelBooking, Finish
<1>7. ASSUME OpenExtend
      PROVE  ExtMoves
  <2>1. ext' = [NoExt EXCEPT !.at = "asking"]
    BY <1>7 DEF OpenExtend
  <2>2. ext' \in ExtTypes /\ ext'.at = "asking" /\ ext'.package = "none"
    BY <1>1, <2>1 DEF ExtTypes
  <2>3. QED BY <2>2 DEF ExtMoves, PackageIsOffered
<1>8. ASSUME QuoteExtend
      PROVE  ExtMoves
  <2>1. list \in Lists(WindowIds) /\ ext.package = "none"
    BY <1>1, <1>8 DEF IsPriceList, QuoteExtend, PackageIsOffered
  <2>2. CASE ext' = [ext EXCEPT !.at = "quoted", !.list = list]
    <3>1. ext' \in ExtTypes /\ ext'.list = list /\ ext'.package = "none"
      BY <1>1, <2>1, <2>2 DEF ExtTypes
    <3>2. QED BY <1>1, <1>8, <3>1 DEF QuoteExtend, ExtMoves, PackageIsOffered
  <2>3. CASE ext' = [ext EXCEPT !.at = "failed"]
    <3>1. ext' \in ExtTypes /\ ext'.at = "failed" /\ ext'.package = "none"
      BY <1>1, <2>1, <2>3 DEF ExtTypes
    <3>2. QED BY <3>1 DEF ExtMoves, PackageIsOffered
  <2>4. QED BY <1>8, <2>2, <2>3 DEF QuoteExtend
<1>9. ASSUME ext' \in ExtTypes, ext'.at = ext.at, ext'.list = ext.list, ext'.package = ext.package,
             ext'.hours = ext.hours
      PROVE  ExtMoves
  BY <1>9 DEF ExtMoves, PackageIsOffered
<1>10. ASSUME ChooseMode \/ ChooseMinutes
       PROVE  ExtMoves
  <2>1. \/ \E m \in {"minutes", "hours"} : ext' = [ext EXCEPT !.mode = m]
        \/ \E m \in {15, 55} : ext' = [ext EXCEPT !.minutes = m]
    BY <1>10 DEF ChooseMode, ChooseMinutes, Choosing
  <2>2. QED BY <1>1, <1>9, <2>1 DEF ExtTypes
<1>11. ASSUME ext.at = "quoted", NEW h \in 1..24,
              ext' = [ext EXCEPT !.hours = h, !.package = "none"]
       PROVE  ExtMoves
  <2>1. ext' \in ExtTypes /\ ext'.at = "quoted" /\ ext'.list = ext.list /\ ext'.package = "none"
    BY <1>1, <1>11 DEF ExtTypes
  <2>2. QED BY <1>11, <2>1 DEF ExtMoves, PackageIsOffered
<1>12. ASSUME ChooseHours
       PROVE  ExtMoves
  <2>1. PICK h \in HourPresets(ext.list) : ext' = [ext EXCEPT !.hours = h, !.package = "none"]
    BY <1>12 DEF ChooseHours, Choosing
  <2>2. ext.list.pkgs \in SUBSET Packs
    BY <1>12 DEF ChooseHours, PackageIsOffered, IsPriceList, Lists
  <2>3. \A p \in Chosen(ext.list.pkgs) : p.min \in 1..24
    BY <2>2, ChosenIsPart DEF Packs
  <2>4. h \in 1..24
    BY <2>1, <2>3 DEF HourPresets
  <2>5. QED BY <1>11, <1>12, <2>1, <2>4 DEF ChooseHours
<1>13. ASSUME ChoosePackage
       PROVE  ExtMoves
  <2>1. PICK w \in WindowPresets(ext.list) :
            ext' = IF ext.package = w.id THEN [ext EXCEPT !.hours = 1, !.package = "none"]
                   ELSE [ext EXCEPT !.hours = w.hours, !.package = w.id]
    BY <1>13 DEF ChoosePackage, Choosing
  <2>2. CASE ext.package = w.id
    BY <1>11, <1>13, <2>1, <2>2 DEF ChoosePackage
  <2>3. CASE ext.package # w.id
    <3>1. PICK x \in Chosen(ext.list.wins) : w = [id |-> x.id, hours |-> Length(x)]
      BY <2>1 DEF WindowPresets
    <3>2. x \in Windows(WindowIds)
      BY <1>13, <3>1, ChosenIsPart DEF ChoosePackage, PackageIsOffered, IsPriceList, Lists
    <3>3. w.id \in WindowIds /\ w.hours \in 1..24
      BY <3>1, <3>2, LengthType DEF Windows
    <3>4. PICK id \in WindowIds, h \in 1..24 : id = w.id /\ h = w.hours
      BY <3>3
    <3>5. ext' = [ext EXCEPT !.hours = h, !.package = id]
      BY <2>1, <2>3, <3>4
    <3>6. /\ ext' \in ExtTypes /\ ext'.at = ext.at /\ ext'.list = ext.list /\ ext'.package = id
          /\ ext'.hours = h
      BY <1>1, <3>5 DEF ExtTypes
    <3>7. QED BY <1>13, <2>1, <3>4, <3>6 DEF ChoosePackage, ExtMoves, PackageIsOffered
  <2>4. QED BY <2>2, <2>3
<1>14. ASSUME PayExtend
       PROVE  ExtMoves
  <2>1. ext' = [ext EXCEPT !.sent = TRUE]
    BY <1>14 DEF PayExtend
  <2>2. QED BY <1>1, <1>9, <2>1 DEF ExtTypes
<1>15. ASSUME ExtendSession
       PROVE  ExtMoves
  <2>1. CASE ext' = [ext EXCEPT !.sent = FALSE]
    BY <1>1, <1>9, <2>1 DEF ExtTypes
  <2>2. QED BY <1>3, <1>15, <2>1 DEF ExtendSession
<1>16. CASE Extension
  BY <1>3, <1>7, <1>8, <1>10, <1>12, <1>13, <1>14, <1>15, <1>16 DEF Extension, CloseExtend
<1>17. QED BY <1>4, <1>5, <1>6, <1>16 DEF Step

ListMoves ==
    /\ IsPriceList(list', WindowIds) /\ IdsAreSpent'
    /\ turns' \in 0..MaxTurns /\ upsets' \in 0..MaxUpsets

\* The price list stays one, and every new window has an id that was not used.
LEMMA ListMovesStep ==
    ASSUME BookingAppAssumption, CheckoutTypeOK, IdsAreSpent, CheckoutNext
    PROVE  ListMoves
<1>1. /\ IsPriceList(list, WindowIds) /\ turns \in 0..MaxTurns /\ upsets \in 0..MaxUpsets
      /\ MaxTurns \in Nat /\ MaxUpsets \in Nat
  BY BookingAppAssumption DEF CheckoutTypeOK
<1>2. turns' \in 0..MaxTurns /\ upsets' \in 0..MaxUpsets /\ upsets' \in {upsets, upsets + 1}
  BY <1>1, BoundsStep DEF Upset, Turn, bounds
<1>3. 1..upsets \subseteq 1..upsets'
  BY <1>1, <1>2
<1>4. CASE UNCHANGED list
  BY <1>1, <1>2, <1>3, <1>4 DEF ListMoves, IdsAreSpent
<1>5. CASE Edit
  <2>1. IdsUpTo(list, upsets)
    BY DEF IdsAreSpent, IdsUpTo, IdsOf
  <2>2. upsets < MaxUpsets /\ upsets' = upsets + 1 /\ list' \in Edited
    BY <1>5 DEF Edit, Upset
  <2>3. IsPriceList(list', WindowIds) /\ IdsUpTo(list', upsets')
    BY <1>1, <2>1, <2>2, EditedList
  <2>4. QED BY <1>2, <2>3 DEF ListMoves, IdsAreSpent, IdsUpTo, IdsOf
<1>6. QED BY <1>4, <1>5, ListStep

-----------------------------------------------------------------------------
(* Types.                                                                  *)

Routes == {"map", "time", "summary", "payment", "active", "extend"}
NullableStart == {Unset} \cup Nat
QuoteType == {Unset} \cup [fits : BOOLEAN, price : Nat]

DraftTypes ==
    /\ picked \in Nat /\ hours \in 1..24 /\ package \in PackageIds /\ startAt \in NullableStart
    /\ known \in KnownTypes

\* What the server sends of a list is what the phone can hold.
LEMMA SentType ==
    ASSUME IsPriceList(list, WindowIds)
    PROVE  Sent(list) \in KnownTypes
BY DEF KnownTypes, Sent, Global, IsPriceList, Lists

\* The draft and the lists the phone knows.
LEMMA DraftTypesStep ==
    ASSUME BookingAppAssumption, CheckoutTypeOK, Step
    PROVE  DraftTypes'
<1>1. DraftTypes /\ Now \in Nat /\ Sent(list) \in KnownTypes /\ "none" \in PackageIds
  BY SentType DEF CheckoutTypeOK, DraftTypes, KnownTypes, NullableStart, Now, PackageIds
<1>2. ASSUME UNCHANGED <<picked, hours, package, startAt, known>>
      PROVE  DraftTypes'
  BY <1>1, <1>2 DEF DraftTypes
<1>3. ASSUME OpenTime, UNCHANGED <<hours, package, known>>
      PROVE  DraftTypes'
  <2>1. startAt' \in Nat
    BY <1>1, <1>3, StartTyped DEF OpenTime, DraftTypes
  <2>2. QED BY <1>1, <1>3, <2>1 DEF OpenTime, DraftTypes, NullableStart
<1>4. ASSUME NEW d \in Nat, NEW h \in 1..24, NEW p \in PackageIds, NEW k \in KnownTypes,
             Redraft(d, h, p, k), known' \in KnownTypes
      PROVE  DraftTypes'
  <2>1. startAt' \in Nat
    BY <1>4, StartTyped DEF Redraft
  <2>2. QED BY <1>1, <1>4, <2>1 DEF Redraft, DraftTypes, NullableStart
<1>5. CASE ServerSteps
  BY <1>2, <1>5 DEF ServerSteps, ServePay, ServeQuote, Edit, ServeCreate, Scheduler, draft,
              pricing, booking
<1>6. ASSUME PricingArrives
      PROVE  DraftTypes'
  <2>1. CASE UNCHANGED draft
    BY <1>1, <1>6, <2>1 DEF PricingArrives, draft, DraftTypes
  <2>2. CASE Redraft(picked, hours, package, Sent(list))
    BY <1>1, <1>4, <1>6, <2>2 DEF PricingArrives, DraftTypes
  <2>3. QED BY <1>6, <2>1, <2>2 DEF PricingArrives, draft
<1>7. ASSUME Paid
      PROVE  DraftTypes'
  BY <1>1, <1>7 DEF Paid, pricing, DraftTypes
<1>8. CASE Arrivals
  BY <1>2, <1>6, <1>7, <1>8 DEF Arrivals, QuoteAnswered, PayAnswered, CreateAnswered, draft, pricing
<1>9. ASSUME Kill
      PROVE  DraftTypes'
  BY <1>1, <1>9 DEF Kill, DraftTypes, KnownTypes, NullableStart
<1>10. CASE LossSteps
  BY <1>2, <1>9, <1>10 DEF LossSteps, LosePricing, LosePay, LoseCreate, draft, pricing
<1>11. CASE ReleaseSteps
  <2>1. PICK r \in Rows, ok \in BOOLEAN : Released(r, ok)
    BY <1>11 DEF ReleaseSteps
  <2>2. CASE OpenTime
    BY <1>3, <2>1, <2>2 DEF Released
  <2>3. CASE ~OpenTime
    BY <1>2, <2>1, <2>3 DEF Released, Resume
  <2>4. QED BY <2>2, <2>3
<1>12. CASE DraftSteps
  <2>1. PICK d \in Nat, h \in 1..24, p \in PackageIds : ChangeDraft(d, h, p)
    BY <1>12 DEF DraftSteps
  <2>2. QED BY <1>1, <1>4, <2>1 DEF ChangeDraft, pricing, DraftTypes
<1>13. ASSUME GoTime
       PROVE  DraftTypes'
  BY <1>2, <1>3, <1>13 DEF GoTime
<1>14. CASE PlayerSteps
  BY <1>2, <1>13, <1>14 DEF PlayerSteps, SelectSeat, Continue, Checkout, TapPay,
                LeavePayment, BackToTime, BackToMap, OpenSession, CloseSession, Refresh,
                CancelBooking, Finish, draft, pricing, booking
<1>15. CASE Extension
  BY <1>2, <1>15 DEF Extension, OpenExtend, QuoteExtend, ChooseMode, ChooseMinutes, ChooseHours,
              ChoosePackage, Choosing, PayExtend, ExtendSession, CloseExtend, draft, pricing,
              booking
<1>16. QED BY <1>5, <1>8, <1>10, <1>11, <1>12, <1>14, <1>15 DEF Step

\* A quote kept while the draft moves on.
LEMMA KeptType ==
    ASSUME quote \in QuoteType, NEW key
    PROVE  Kept(key) \in QuoteType
<1>1. CASE quote = Unset
  BY <1>1 DEF Kept, QuoteType
<1>2. CASE quote # Unset
  <2>1. PICK b \in BOOLEAN : b = (quote.fits /\ key = DraftKey)
    OBVIOUS
  <2>2. Kept(key) = [quote EXCEPT !.fits = b]
    BY <1>2, <2>1 DEF Kept
  <2>3. QED BY <1>2, <2>2 DEF QuoteType
<1>3. QED BY <1>1, <1>2

QuoteTypesOK == asking \in QuoteTypes /\ quote \in QuoteType /\ total \in Nat

\* The quote under way, the quote in the store and the price on the screen.
LEMMA QuoteTypesStep ==
    ASSUME BookingAppAssumption, CheckoutTypeOK, ScreensInStep, RequestsFit, Step
    PROVE  QuoteTypesOK'
<1>1. /\ QuoteTypesOK /\ hours \in 1..24 /\ package \in PackageIds /\ picked \in Nat /\ Now \in Nat
      /\ known \in KnownTypes /\ Sent(list) \in KnownTypes /\ IsPriceList(list, WindowIds)
  BY SentType DEF CheckoutTypeOK, QuoteTypesOK, QuoteType, Now, KnownTypes
<1>2. NoQuote \in QuoteTypes /\ NoQuote.at = "none"
  BY DEF NoQuote, QuoteTypes
<1>3. ASSUME UNCHANGED <<asking, quote, total>>
      PROVE  QuoteTypesOK'
  BY <1>1, <1>3 DEF QuoteTypesOK
<1>4. ASSUME NEW key \in Keys
      PROVE  Ask(key) \in QuoteTypes
  BY <1>2, <1>4 DEF Ask, QuoteTypes, NoQuote
<1>5. quote # Unset => quote.price \in Nat
  BY <1>1 DEF QuoteTypesOK, QuoteType
<1>6. ASSUME NEW d \in Nat, NEW h \in 1..24, NEW p \in PackageIds, NEW k \in KnownTypes,
             Redraft(d, h, p, k)
      PROVE  QuoteTypesOK'
  <2>1. PICK start \in Nat : start = StartDate(d, p, Packages(k), Now)
    BY StartTyped
  <2>2. PICK key \in Keys : key = Key(start, h, p)
    BY KeyTyped
  <2>3. asking' \in {Ask(key), asking} /\ quote' = Kept(key) /\ total' \in {quote.price, total}
        /\ (total' # total => quote # Unset)
    BY <1>6, <2>1, <2>2 DEF Redraft
  <2>4. QED BY <1>1, <1>4, <1>5, <2>3, KeptType DEF QuoteTypesOK
<1>7. ASSUME OpenTime
      PROVE  QuoteTypesOK'
  <2>1. PICK start \in Nat : start = StartDate(Now, package, Packages(known), Now)
    BY <1>1, StartTyped
  <2>2. PICK key \in Keys : key = Key(start, hours, package)
    BY <1>1, KeyTyped
  <2>3. asking' \in {Ask(key), NoQuote} /\ quote' = Kept(key) /\ total' \in {quote.price, total}
        /\ (total' # total => quote # Unset)
    BY <1>7, <2>1, <2>2 DEF OpenTime
  <2>4. QED BY <1>1, <1>2, <1>4, <1>5, <2>3, KeptType DEF QuoteTypesOK
<1>8. ASSUME ServeQuote
      PROVE  QuoteTypesOK'
  <2>1. asking # NoQuote /\ asking.at = "sent"
    BY <1>2, <1>8 DEF ServeQuote
  <2>2. asking.key \in Keys
    <3>1. startAt \in Nat
      BY <2>1 DEF ScreensInStep, QuotesOnBooking, StartedOnBooking, CheckoutTypeOK
    <3>2. QED BY <1>1, <2>1, <3>1, KeyTyped DEF RequestsFit, DraftKey
  <2>3. PICK price : price = Quote(list, asking.key.hours, asking.key.window)
    OBVIOUS
  <2>4. price \in Nat
    BY <1>1, <2>2, <2>3, ChargeType DEF Keys
  <2>5. list \in Lists(WindowIds)
    BY <1>1 DEF IsPriceList
  <2>6. \/ asking' = [asking EXCEPT !.at = "no"]
        \/ asking' = [asking EXCEPT !.at = "priced", !.by = list, !.price = price]
    BY <1>8, <2>3 DEF ServeQuote
  <2>7. asking' \in QuoteTypes
    BY <1>1, <2>4, <2>5, <2>6 DEF QuoteTypesOK, QuoteTypes
  <2>8. QED BY <1>1, <1>8, <2>7 DEF ServeQuote, QuoteTypesOK
<1>9. ASSUME QuoteAnswered
      PROVE  QuoteTypesOK'
  <2>1. CASE asking.at = "no" /\ quote' = Unset /\ UNCHANGED total
    BY <1>1, <1>2, <1>9, <2>1 DEF QuoteAnswered, QuoteTypesOK, QuoteType
  <2>2. CASE asking.at = "priced"
    <3>1. PICK b \in BOOLEAN : b = (asking.key = DraftKey)
      OBVIOUS
    <3>2. PICK price \in Nat : price = asking.price
      BY <1>1 DEF QuoteTypesOK, QuoteTypes
    <3>3. quote' = [fits |-> b, price |-> price] /\ total' \in {total, price} /\ asking' = NoQuote
      BY <1>9, <2>2, <3>1, <3>2 DEF QuoteAnswered
    <3>4. QED BY <1>1, <1>2, <3>3 DEF QuoteTypesOK, QuoteType
  <2>3. QED BY <1>9, <2>1, <2>2 DEF QuoteAnswered
<1>10. CASE ServerSteps
  BY <1>3, <1>8, <1>10 DEF ServerSteps, ServePay, Edit, ServeCreate, Scheduler, quoting, booking
<1>11. ASSUME PricingArrives
       PROVE  QuoteTypesOK'
  <2>1. CASE UNCHANGED quoting
    BY <1>3, <2>1 DEF quoting
  <2>2. CASE Redraft(picked, hours, package, Sent(list))
    BY <1>1, <1>6, <2>2
  <2>3. QED BY <1>11, <2>1, <2>2 DEF PricingArrives, quoting
<1>12. ASSUME CreateAnswered(1) \/ CreateAnswered(2)
       PROVE  QuoteTypesOK'
  <2>1. PICK s \in Slots : CreateAnswered(s)
    BY <1>12 DEF Slots
  <2>2. creates[s].price \in Nat
    BY DEF CheckoutTypeOK, CreateTypes
  <2>3. total' \in Nat /\ UNCHANGED <<asking, quote>>
    BY <1>1, <2>1, <2>2 DEF CreateAnswered, QuoteTypesOK
  <2>4. QED BY <1>1, <2>3 DEF QuoteTypesOK
<1>13. CASE Arrivals
  <2>1. CASE \E s \in Slots : CreateAnswered(s)
    BY <1>12, <2>1 DEF Slots
  <2>2. CASE Paid
    BY <1>2, <2>2 DEF Paid, QuoteTypesOK, QuoteType
  <2>3. CASE PayAnswered
    BY <1>3, <2>3 DEF PayAnswered, quoting
  <2>4. QED BY <1>9, <1>11, <1>13, <2>1, <2>2, <2>3 DEF Arrivals
<1>14. CASE LossSteps
  <2>1. CASE Kill
    BY <1>2, <2>1 DEF Kill, QuoteTypesOK, QuoteType
  <2>2. QED BY <1>3, <1>14, <2>1 DEF LossSteps, LosePricing, LosePay, LoseCreate, quoting
<1>15. CASE ReleaseSteps
  BY <1>3, <1>7, <1>15 DEF ReleaseSteps, Released, Resume, quoting
<1>16. CASE DraftSteps
  BY <1>1, <1>6, <1>16 DEF DraftSteps, ChangeDraft
<1>17. ASSUME BackToMap
       PROVE  QuoteTypesOK'
  BY <1>1, <1>2, <1>17 DEF BackToMap, QuoteTypesOK
<1>18. CASE PlayerSteps
  BY <1>3, <1>7, <1>17, <1>18 DEF PlayerSteps, SelectSeat, GoTime, Continue, Checkout, TapPay,
                LeavePayment, BackToTime, OpenSession, CloseSession, Refresh,
                CancelBooking, Finish, quoting, booking
<1>19. CASE Extension
  BY <1>3, <1>19 DEF Extension, OpenExtend, QuoteExtend, ChooseMode, ChooseMinutes, ChooseHours,
              ChoosePackage, Choosing, PayExtend, ExtendSession, CloseExtend, quoting, booking
<1>20. QED BY <1>10, <1>13, <1>14, <1>15, <1>16, <1>18, <1>19 DEF Step

\* The screens and what they remember of the answers.
ScreenTypes == route \in Routes /\ {selected, loading, refused, paid, late} \subseteq BOOLEAN

LEMMA ScreenTypesStep ==
    ASSUME CheckoutTypeOK, Step
    PROVE  ScreenTypes'
<1>1. ScreenTypes
  BY DEF CheckoutTypeOK, ScreenTypes, Routes
<1>2. UNCHANGED paid \/ paid' \in BOOLEAN
  <2>1. CASE ServerSteps \/ Arrivals
    BY <2>1 DEF ServerSteps, ServePay, ServeQuote, Edit, ServeCreate, Scheduler, Arrivals,
                QuoteAnswered, PricingArrives, PayAnswered, Paid, CreateAnswered, paying, booking
  <2>2. CASE LossSteps \/ ReleaseSteps \/ DraftSteps
    BY <2>2 DEF LossSteps, LosePricing, LosePay, Kill, LoseCreate, ReleaseSteps, Released,
                DraftSteps, ChangeDraft, paying
  <2>3. CASE PlayerSteps
    BY <2>3 DEF PlayerSteps, SelectSeat, GoTime, Continue, Checkout, TapPay, LeavePayment,
                BackToTime, BackToMap, OpenSession, CloseSession, Refresh, CancelBooking, Finish,
                paying, booking
  <2>4. CASE Extension
    BY <2>4 DEF Extension, OpenExtend, QuoteExtend, ChooseMode, ChooseMinutes, ChooseHours,
              ChoosePackage, Choosing, PayExtend, ExtendSession, CloseExtend, paying, booking
  <2>5. QED BY <2>1, <2>2, <2>3, <2>4 DEF Step
<1>3. UNCHANGED late \/ late' \in BOOLEAN
  <2>1. CASE ServerSteps \/ Arrivals
    BY <2>1 DEF ServerSteps, ServePay, ServeQuote, Edit, ServeCreate, Scheduler, Arrivals,
                QuoteAnswered, PricingArrives, Redraft, PayAnswered, Paid, CreateAnswered,
                quoting, booking
  <2>2. CASE LossSteps \/ ReleaseSteps \/ DraftSteps
    BY <2>2 DEF LossSteps, LosePricing, LosePay, Kill, LoseCreate, ReleaseSteps, Released,
                Resume, OpenTime, DraftSteps, ChangeDraft, Redraft, quoting
  <2>3. CASE PlayerSteps
    BY <2>3 DEF PlayerSteps, SelectSeat, GoTime, OpenTime, Continue, Checkout, TapPay,
                LeavePayment, BackToTime, BackToMap, OpenSession, CloseSession, Refresh,
                CancelBooking, Finish, quoting, booking
  <2>4. CASE Extension
    BY <2>4 DEF Extension, OpenExtend, QuoteExtend, ChooseMode, ChooseMinutes, ChooseHours,
              ChoosePackage, Choosing, PayExtend, ExtendSession, CloseExtend, quoting, booking
  <2>5. QED BY <2>1, <2>2, <2>3, <2>4 DEF Step
<1>4. /\ UNCHANGED selected \/ selected' \in BOOLEAN
      /\ UNCHANGED loading \/ loading' \in BOOLEAN
      /\ UNCHANGED refused \/ refused' \in BOOLEAN
      /\ UNCHANGED route \/ route' \in Routes
  <2>1. CASE ServerSteps \/ Arrivals
    BY <2>1 DEF ServerSteps, ServePay, ServeQuote, Edit, ServeCreate, Scheduler, Arrivals,
                QuoteAnswered, PricingArrives, PayAnswered, Paid, CreateAnswered, TakeHold,
                pricing, holding, booking, Routes
  <2>2. CASE LossSteps \/ ReleaseSteps \/ DraftSteps
    BY <2>2 DEF LossSteps, LosePricing, LosePay, Kill, LoseCreate, ReleaseSteps, Released,
                Resume, OpenTime, DraftSteps, ChangeDraft, pricing, holding, Routes
  <2>3. CASE PlayerSteps
    BY <2>3 DEF PlayerSteps, SelectSeat, GoTime, OpenTime, Continue, Checkout, TapPay, TakeHold,
                LeavePayment, BackToTime, BackToMap, OpenSession, CloseSession, Refresh,
                CancelBooking, Finish, pricing, holding, booking, Routes
  <2>4. CASE Extension
    BY <2>4 DEF Extension, OpenExtend, QuoteExtend, ChooseMode, ChooseMinutes, ChooseHours,
              ChoosePackage, Choosing, PayExtend, ExtendSession, CloseExtend, pricing, holding,
              booking, Routes
  <2>5. QED BY <2>1, <2>2, <2>3, <2>4 DEF Step
<1>5. QED BY <1>1, <1>2, <1>3, <1>4 DEF ScreenTypes

\* The requests for a hold.
LEMMA CreatesStep ==
    ASSUME BookingAppAssumption, CheckoutTypeOK, ScreensInStep, Step
    PROVE  creates' \in [Slots -> CreateTypes]
<1> DEFINE Goal == creates' \in [Slots -> CreateTypes]
<1>1. creates \in [Slots -> CreateTypes] /\ NoCreate \in CreateTypes
  BY DEF CheckoutTypeOK, NoCreate, CreateTypes
<1>2. ASSUME creates' = [s \in Slots |-> Cancelled(s)]
      PROVE  Goal
  BY <1>2, CancelledType
<1>3. ASSUME NEW key \in Keys, TakeHold(key)
      PROVE  Goal
  <2>1. PICK new : new = [NoCreate EXCEPT !.at = "sent", !.key = key, !.live = TRUE]
    OBVIOUS
  <2>2. new \in CreateTypes
    BY <1>1, <2>1 DEF CreateTypes
  <2>3. PICK s \in Slots : creates' = [t \in Slots |-> IF t # s THEN Cancelled(t) ELSE new]
    BY <1>3, <2>1 DEF TakeHold
  <2>4. QED BY <2>2, <2>3, CancelledType
<1>4. ASSUME NEW s \in Slots, ServeCreate(s)
      PROVE  Goal
  <2>1. PICK c : creates' = [creates EXCEPT ![s] = c]
    BY <1>4 DEF ServeCreate
  <2>2. creates'[s] = c
    BY <1>1, <2>1
  <2>3. c \in CreateTypes
    BY <1>4, <2>2, ServesCreate DEF Served
  <2>4. QED BY <1>1, <2>1, <2>3
<1>5. ASSUME NEW s \in Slots, creates' = [creates EXCEPT ![s] = NoCreate]
      PROVE  Goal
  BY <1>1, <1>5
<1>6. CASE ServerSteps
  BY <1>1, <1>4, <1>6 DEF ServerSteps, ServePay, ServeQuote, Edit, Scheduler, holding, booking
<1>7. CASE PricingArrives
  <2>1. CASE UNCHANGED holding
    BY <1>1, <2>1 DEF holding
  <2>2. CASE Redraft(picked, hours, package, Sent(list)) /\ TakeHold(Key(startAt', hours, package))
    <3>1. /\ picked \in Nat /\ Sent(list) \in KnownTypes
          /\ hours \in 1..24 /\ package \in PackageIds
      BY SentType DEF CheckoutTypeOK
    <3>2. startAt' \in Nat
      BY <2>2, <3>1, StartTyped DEF Redraft
    <3>3. QED BY <1>3, <2>2, <3>1, <3>2, KeyTyped
  <2>3. QED BY <1>7, <2>1, <2>2 DEF PricingArrives, holding
<1>8. CASE Arrivals
  BY <1>1, <1>2, <1>5, <1>7, <1>8 DEF Arrivals, QuoteAnswered, PayAnswered, Paid, CreateAnswered,
                                      holding
<1>9. CASE LossSteps
  BY <1>1, <1>2, <1>5, <1>9 DEF LossSteps, LosePricing, LosePay, Kill, LoseCreate, holding
<1>10. CASE ReleaseSteps
  BY <1>1, <1>10 DEF ReleaseSteps, Released
<1>11. CASE DraftSteps
  BY <1>1, <1>11 DEF DraftSteps, ChangeDraft, holding
<1>12. CASE Checkout
  <2>1. DraftKey \in Keys
    BY <1>12, KeyTyped DEF Checkout, ScreensInStep, StartedOnBooking, OnBooking, CheckoutTypeOK,
                DraftKey
  <2>2. QED BY <1>3, <1>12, <2>1 DEF Checkout
<1>13. CASE PlayerSteps
  BY <1>1, <1>2, <1>12, <1>13 DEF PlayerSteps, SelectSeat, GoTime, Continue, TapPay, LeavePayment,
                     BackToTime, BackToMap, OpenSession, CloseSession, Refresh, CancelBooking,
                     Finish, holding, booking
<1>14. CASE Extension
  BY <1>1, <1>14 DEF Extension, OpenExtend, QuoteExtend, ChooseMode, ChooseMinutes, ChooseHours,
               ChoosePackage, Choosing, PayExtend, ExtendSession, CloseExtend, holding, booking
<1>15. QED BY <1>6, <1>8, <1>9, <1>10, <1>11, <1>13, <1>14 DEF Step

\* The bookings the phone names.
Refs == {0} \cup Rows
Waits == [who : {"nobody", "map", "session"}, row : Refs]
Mine == [row : Refs, st : BookingStatuses]

\* What the phone names exists or is nothing.
LEMMA NamesStep ==
    ASSUME BookingAppAssumption, CheckoutTypeOK, ScreensInStep, RowsExist, Step
    PROVE  {pending', ref'} \subseteq Refs /\ cancels' \subseteq Rows
<1>1. {pending, ref} \subseteq Refs /\ cancels \subseteq Rows
  BY DEF CheckoutTypeOK, Refs
<1>2. {pending', ref'} \subseteq Refs
  <2>1. CASE ref' \in {0, ref} /\ pending' \in {0, pending}
    BY <1>1, <2>1 DEF Refs
  <2>2. CASE \E s \in Slots : Made(s) /\ ref' = creates[s].row /\ pending' = creates[s].row
    BY <2>2 DEF RowsExist, Refs
  <2>3. QED BY <2>1, <2>2, RefStep DEF RefMoves, Answer, Made
<1>3. cancels' \subseteq Rows
  <2>1. CASE CancelBooking /\ cancels' = cancels \cup {booked.row}
    BY <1>1, <2>1 DEF CancelBooking, ScreensInStep, BookedExists
  <2>2. QED BY <1>1, <2>1, CancelsStep DEF CancelsMoves, Refs
<1>4. QED BY <1>2, <1>3

\* The screen that waits, and what for.
LEMMA AwaitingStep ==
    ASSUME CheckoutTypeOK, ScreensInStep, Step
    PROVE  awaiting' \in Waits
<1> DEFINE Goal == awaiting' \in Waits
<1>1. awaiting \in Waits /\ NoWait \in Waits /\ pending \in Refs
  BY DEF CheckoutTypeOK, Waits, Refs, NoWait
<1>2. CASE ServerSteps \/ Arrivals
  BY <1>1, <1>2 DEF ServerSteps, ServePay, ServeQuote, Edit, ServeCreate, Scheduler, Arrivals,
              QuoteAnswered, PricingArrives, PayAnswered, Paid, CreateAnswered, leaving, booking
<1>3. CASE LossSteps \/ DraftSteps
  BY <1>1, <1>3 DEF LossSteps, LosePricing, LosePay, Kill, LoseCreate, DraftSteps, ChangeDraft,
              leaving
<1>4. CASE ReleaseSteps
  BY <1>1, <1>4 DEF ReleaseSteps, Released, Resume
<1>5. CASE GoTime
  BY <1>1, <1>5 DEF GoTime, leaving, Waits
<1>6. CASE CancelBooking
  <2>1. booked.row \in Rows
    BY <1>6 DEF CancelBooking, ScreensInStep, BookedExists
  <2>2. QED BY <1>6, <2>1 DEF CancelBooking, Waits, Refs
<1>7. CASE PlayerSteps
  BY <1>1, <1>5, <1>6, <1>7 DEF PlayerSteps, SelectSeat, Continue, Checkout, TapPay,
              LeavePayment, BackToTime, BackToMap, OpenSession, CloseSession, Refresh,
              Finish, leaving, booking
<1>8. CASE Extension
  BY <1>1, <1>8 DEF Extension, OpenExtend, QuoteExtend, ChooseMode, ChooseMinutes, ChooseHours,
              ChoosePackage, Choosing, PayExtend, ExtendSession, CloseExtend, leaving, booking
<1>9. QED BY <1>2, <1>3, <1>4, <1>7, <1>8 DEF Step

\* The booking the phone calls its own.
LEMMA BookedStep ==
    ASSUME CheckoutTypeOK, Step
    PROVE  booked' \in Mine
<1>1. booked \in Mine /\ NotMine \in Mine /\ pay \in PayTypes /\ rows \in [Rows -> RowTypes]
  BY DEF CheckoutTypeOK, Mine, Refs, NotMine, BookingStatuses
<1>2. OngoingRow \in Mine
  <2>1. CASE Ongoing = {}
    BY <1>1, <2>1 DEF OngoingRow
  <2>2. CASE Ongoing # {}
    <3>1. PICK r \in Ongoing : r = CHOOSE q \in Ongoing : TRUE
      BY <2>2
    <3>2. r \in Rows /\ rows[r].st \in BookingStatuses
      BY <1>1, <3>1 DEF Ongoing, RowTypes
    <3>3. QED BY <2>2, <3>1, <3>2 DEF OngoingRow, Mine, Refs
  <2>3. QED BY <2>1, <2>2
<1>3. CASE ServerSteps
  BY <1>1, <1>3 DEF ServerSteps, ServePay, ServeQuote, Edit, ServeCreate, Scheduler
<1>4. CASE Paid
  BY <1>1, <1>4 DEF Paid, PayTypes, Mine, Refs
<1>5. CASE Arrivals
  BY <1>1, <1>4, <1>5 DEF Arrivals, QuoteAnswered, PricingArrives, PayAnswered, CreateAnswered
<1>6. CASE LossSteps \/ DraftSteps
  BY <1>1, <1>2, <1>6 DEF LossSteps, LosePricing, LosePay, Kill, LoseCreate, DraftSteps, ChangeDraft
<1>7. CASE ReleaseSteps
  BY <1>1, <1>7 DEF ReleaseSteps, Released, Resume
<1>8. CASE PlayerSteps
  BY <1>1, <1>2, <1>8 DEF PlayerSteps, SelectSeat, GoTime, Continue, Checkout, TapPay,
              LeavePayment, BackToTime, BackToMap, OpenSession, CloseSession, Refresh,
              CancelBooking, Finish
<1>9. CASE Extension
  BY <1>1, <1>9 DEF Extension, OpenExtend, QuoteExtend, ChooseMode, ChooseMinutes, ChooseHours,
              ChoosePackage, Choosing, PayExtend, ExtendSession, CloseExtend
<1>10. QED BY <1>3, <1>5, <1>6, <1>7, <1>8, <1>9 DEF Step

-----------------------------------------------------------------------------
(* The invariant.                                                          *)

\* Every variable keeps its type.
LEMMA CheckoutTypesStep ==
    ASSUME BookingAppAssumption, CheckoutInv, CheckoutNext
    PROVE  CheckoutTypeOK'
<1>1. /\ CheckoutTypeOK /\ ScreensInStep /\ RowsExist /\ PackageIsOffered /\ IdsAreSpent
      /\ RequestsFit
  BY DEF CheckoutInv
<1>2. Step
  BY <1>1, Steps
<1>3. IsPriceList(list, WindowIds)' /\ turns' \in 0..MaxTurns /\ upsets' \in 0..MaxUpsets
  <2>1. IsPriceList(list', WindowIds) /\ turns' \in 0..MaxTurns /\ upsets' \in 0..MaxUpsets
    BY <1>1, ListMovesStep DEF ListMoves
  <2>2. QED BY <2>1
<1>4. rows' \in [Rows -> RowTypes]
  BY <1>1, <1>2, RowsStep
<1>5. DraftTypes' /\ QuoteTypesOK' /\ ScreenTypes'
  BY <1>1, <1>2, DraftTypesStep, QuoteTypesStep, ScreenTypesStep
<1>6. creates' \in [Slots -> CreateTypes] /\ pay' \in PayTypes /\ ext' \in ExtTypes
  BY <1>1, <1>2, CreatesStep, PayStep, ExtStep DEF ExtMoves
<1>7. /\ {pending', ref'} \subseteq Refs /\ cancels' \subseteq Rows
      /\ awaiting' \in Waits /\ booked' \in Mine
  BY <1>1, <1>2, NamesStep, AwaitingStep, BookedStep
<1>8. QED
  BY <1>3, <1>4, <1>5, <1>6, <1>7 DEF CheckoutTypeOK, DraftTypes, NullableStart, KnownTypes,
     QuoteTypesOK, QuoteType, ScreenTypes, Routes, Refs, Waits, Mine

\* The invariant is inductive.
LEMMA CheckoutInvStep ==
    ASSUME BookingAppAssumption, CheckoutInv, CheckoutNext
    PROVE  CheckoutInv'
<1>1. /\ CheckoutTypeOK /\ ScreensInStep /\ RowsExist /\ ConfirmedIsLetGo /\ RequestsFit
      /\ PricesAreCharges /\ PackageIsOffered /\ IdsAreSpent
  BY DEF CheckoutInv
<1>2. Step
  BY <1>1, Steps
<1>3. ScreensInStep'
  BY <1>1, <1>2, QuotesOnBookingStep, StartedOnBookingStep, NothingBeforeStartStep,
     HoldsOnPaymentStep, AnswersHeardStep, SlotsNamedStep, WaitingScreensStep, ExtendScreenStep,
     BookedExistsStep DEF ScreensInStep
<1>4. RowsExist' /\ ConfirmedIsLetGo' /\ RequestsFit' /\ PricesAreCharges'
  BY <1>1, <1>2, RowsExistStep, ConfirmedIsLetGoStep, RequestsFitStep, PricesAreChargesStep
<1>5. PackageIsOffered' /\ IdsAreSpent'
  BY <1>1, <1>2, ExtStep, ListMovesStep DEF ExtMoves, ListMoves
<1>6. ChargedAsShown' /\ ExtendedAsShown'
  <2>1. \A r \in Rows : Honest(rows[r])
    BY DEF CheckoutInv, ChargedAsShown, ExtendedAsShown, Honest
  <2>2. \A r \in Rows : Honest(rows'[r])
    BY <1>1, <1>2, <2>1, HonestStep
  <2>3. QED BY <2>2 DEF ChargedAsShown, ExtendedAsShown, Honest
<1>7. QED BY <1>3, <1>4, <1>5, <1>6, CheckoutTypesStep DEF CheckoutInv

\* The invariant is about these variables alone.
LEMMA CheckoutInvStutter ==
    ASSUME CheckoutInv, UNCHANGED checkoutVars
    PROVE  CheckoutInv'
<1> USE DEF checkoutVars
<1>1. CheckoutTypeOK'
  BY DEF CheckoutInv, CheckoutTypeOK
<1>2. ScreensInStep'
  BY DEF CheckoutInv, ScreensInStep, QuotesOnBooking, StartedOnBooking, NothingBeforeStart,
         HoldsOnPayment, AnswersHeard, SlotsNamed, WaitingScreens, ExtendScreen, BookedExists,
         OnBooking, Live
<1>3. RowsExist' /\ ConfirmedIsLetGo'
  BY DEF CheckoutInv, RowsExist, ConfirmedIsLetGo, Made
<1>4. RequestsFit'
  BY DEF CheckoutInv, RequestsFit, DraftKey, OnBooking, Live, Made
<1>5. PricesAreCharges'
  BY DEF CheckoutInv, PricesAreCharges, Made
<1>6. PackageIsOffered' /\ IdsAreSpent' /\ ChargedAsShown' /\ ExtendedAsShown'
  BY DEF CheckoutInv, PackageIsOffered, IdsAreSpent, ChargedAsShown, ExtendedAsShown
<1>7. QED BY <1>1, <1>2, <1>3, <1>4, <1>5, <1>6 DEF CheckoutInv

\* The list at the start is one whose windows may get more ids.
LEMMA FirstListType ==
    ASSUME BookingAppAssumption
    PROVE  IsPriceList(FirstList, WindowIds)
<1>1. Windows(FirstIds) \subseteq Windows(WindowIds)
  BY DEF Windows, WindowIds
<1>2. QED BY <1>1, BookingAppAssumption DEF IsPriceList, Lists

\* The app opens with the invariant, on the map or on a session that has begun.
LEMMA CheckoutInvInit ==
    ASSUME BookingAppAssumption, CheckoutInit
    PROVE  CheckoutInv
<1>1. 1 \in Rows /\ MaxTurns \in Nat /\ MaxUpsets \in Nat
  BY BookingAppAssumption DEF Rows
<1>2. NoRow \in RowTypes /\ [NoRow EXCEPT !.st = "active", !.at = Now, !.hours = 1] \in RowTypes
  BY DEF NoRow, RowTypes, BookingStatuses, Now
<1>3. PICK row \in RowTypes : /\ row = [NoRow EXCEPT !.st = "active", !.at = Now, !.hours = 1]
                              /\ row.st = "active" /\ row.shown = 0 /\ row.longer = Unset
                              /\ ~row.confirmed
  BY <1>2 DEF NoRow
<1>4. PICK st, rs :
          /\ st \in {"none", "active"} /\ rows = rs /\ rs \in [Rows -> {NoRow, row}]
          /\ booked.row \in {0, 1} /\ booked \in [row : {0, 1}, st : {st}]
          /\ st = "active" => booked.row = 1
          /\ st = "active" <=> route = "active"
          /\ route \in {"map", "active"} /\ turns \in {0, MaxTurns}
  BY <1>1, <1>3 DEF CheckoutInit, NotMine
<1>5. CheckoutTypeOK
  <2>1. IsPriceList(list, WindowIds)
    BY FirstListType DEF CheckoutInit
  <2>2. rows \in [Rows -> RowTypes] /\ booked \in [row : {0} \cup Rows, st : BookingStatuses]
    BY <1>1, <1>2, <1>4 DEF BookingStatuses
  <2>3. /\ NoQuote \in QuoteTypes /\ NoCreate \in CreateTypes /\ NoPay \in PayTypes
        /\ NoExt \in ExtTypes
    BY DEF NoQuote, QuoteTypes, NoCreate, CreateTypes, NoPay, PayTypes, NoExt, ExtTypes,
           BookingStatuses
  <2>4. NoWait \in [who : {"nobody", "map", "session"}, row : {0} \cup Rows]
    BY DEF NoWait
  <2>5. /\ {selected, loading, refused, paid, late} \subseteq BOOLEAN /\ cancels \subseteq Rows
        /\ picked \in Nat /\ hours \in 1..24 /\ package \in PackageIds
        /\ startAt \in {Unset} \cup Nat /\ total \in Nat /\ {pending, ref} \subseteq {0} \cup Rows
    <3>1. {selected, loading, refused, paid, late} \subseteq BOOLEAN
      BY DEF CheckoutInit
    <3>2. picked = 20 /\ hours = 1 /\ package = "none" /\ startAt = Unset /\ total = 0
      BY DEF CheckoutInit, Now
    <3>3. pending = 0 /\ ref = 0 /\ cancels = {}
      BY DEF CheckoutInit
    <3>4. QED BY <3>1, <3>2, <3>3 DEF PackageIds
  <2>6. turns \in 0..MaxTurns /\ upsets \in 0..MaxUpsets
    BY <1>1, <1>4 DEF CheckoutInit
  <2>7. /\ known = Unset /\ quote = Unset /\ asking = NoQuote /\ pay = NoPay /\ ext = NoExt
        /\ creates \in [Slots -> CreateTypes] /\ awaiting = NoWait
        /\ route \in {"map", "time", "summary", "payment", "active", "extend"}
    BY <1>4, <2>3 DEF CheckoutInit
  <2>8. QED BY <2>1, <2>2, <2>3, <2>4, <2>5, <2>6, <2>7 DEF CheckoutTypeOK
<1>6. ScreensInStep
  <2>1. ext.at = "closed" /\ ~ext.sent
    BY DEF CheckoutInit, NoExt
  <2>2. \A s \in Slots : creates[s].at = "idle" /\ ~creates[s].live
    BY DEF CheckoutInit, NoCreate
  <2>3. booked.st # "none" => booked.row \in Rows
    BY <1>1, <1>4
  <2>4. asking = NoQuote /\ pending = 0 /\ pay.at = "idle" /\ awaiting.who = "nobody" /\ ref = 0
    BY DEF CheckoutInit, NoPay, NoWait
  <2>5. QED BY <1>4, <2>1, <2>2, <2>3, <2>4 DEF ScreensInStep, QuotesOnBooking, StartedOnBooking,
         NothingBeforeStart, HoldsOnPayment, AnswersHeard, SlotsNamed, WaitingScreens,
         ExtendScreen, BookedExists, OnBooking, Live
<1>7. \A r \in Rows : /\ ~rows[r].confirmed /\ rows[r].shown = 0 /\ rows[r].longer = Unset
  BY <1>3, <1>4 DEF NoRow
<1>8. /\ asking = NoQuote /\ NoQuote.at = "none" /\ quote = Unset /\ ref = 0
      /\ pay.at = "idle" /\ ext.at = "closed" /\ ext.package = "none"
      /\ \A s \in Slots : ~Made(s) /\ ~Live(s)
  BY DEF CheckoutInit, NoQuote, NoPay, NoExt, NoCreate, Made, Live
<1>9. RowsExist /\ ConfirmedIsLetGo /\ RequestsFit /\ PricesAreCharges /\ PackageIsOffered
  BY <1>7, <1>8 DEF RowsExist, ConfirmedIsLetGo, RequestsFit, PricesAreCharges, PackageIsOffered
<1>10. IdsAreSpent
  BY DEF CheckoutInit, IdsAreSpent, FirstIds
<1>11. ChargedAsShown /\ ExtendedAsShown
  BY <1>7 DEF ChargedAsShown, ExtendedAsShown
<1>12. QED BY <1>5, <1>6, <1>9, <1>10, <1>11 DEF CheckoutInv

\* The invariant holds in every state, whatever the lists, the losses and the edits.
THEOREM CheckoutInductive == CheckoutSpec => []CheckoutInv
<1>1. CheckoutInit => CheckoutInv
  BY CheckoutInvInit, BookingAppAssumption
<1>2. CheckoutInv /\ [CheckoutNext]_checkoutVars => CheckoutInv'
  BY CheckoutInvStep, CheckoutInvStutter, BookingAppAssumption
<1>3. QED BY <1>1, <1>2, PTL DEF CheckoutSpec

\* Every variable of the server and of the phone always has its type.
THEOREM CheckoutTyped == CheckoutSpec => []CheckoutTypeOK
<1>1. CheckoutInv => CheckoutTypeOK
  BY DEF CheckoutInv
<1>2. QED BY <1>1, CheckoutInductive, PTL

\* What a player is charged is what the payment screen showed when Pay was tapped
\* (ChargedAsShown), for any number of holds, edits of the prices and lost answers.
THEOREM ShownIsCharged == CheckoutSpec => []ChargedAsShown
<1>1. CheckoutInv => ChargedAsShown
  BY DEF CheckoutInv
<1>2. QED BY <1>1, CheckoutInductive, PTL

\* Past the time screen the quote, and the hold that will be paid, are for the draft on
\* display (DraftInStep), whenever the price list arrives.
THEOREM DraftStaysInStep == CheckoutSpec => []DraftInStep
<1>1. CheckoutInv => DraftInStep
  BY DEF CheckoutInv, RequestsFit, DraftInStep, OnBooking
<1>2. QED BY <1>1, CheckoutInductive, PTL

\* A confirmed booking is never cancelled by what the app does on its own
\* (ConfirmedStays).
THEOREM ConfirmedBookingStays == CheckoutSpec => []ConfirmedStays
<1>1. CheckoutInv => ConfirmedStays
  BY DEF CheckoutInv, ConfirmedIsLetGo, ConfirmedStays
<1>2. QED BY <1>1, CheckoutInductive, PTL

\* An extension costs what its button said when the list is the one quoted
\* (ExtendedAsShown), for any list and any choice.
THEOREM ExtensionAsShown == CheckoutSpec => []ExtendedAsShown
<1>1. CheckoutInv => ExtendedAsShown
  BY DEF CheckoutInv
<1>2. QED BY <1>1, CheckoutInductive, PTL

\* The price the phone works out for hours typed in is the one the server charges, or a ruble
\* under it where that ends in half a ruble (CustomPriceAgrees): both take the same percent of
\* the same amount, the server exactly and the phone in floats.
THEOREM CustomPricesAgree == CheckoutSpec => []CustomPriceAgrees
<1>1. CheckoutInv => CustomPriceAgrees
  <2>1. SUFFICES ASSUME CheckoutInv, known = Sent(list), known.pkgs # {},
                        Chosen(list.pkgs) = Global(list.pkgs),
                        \A p, q \in known.pkgs : Before(p, q) => p.min < q.min,
                        NEW h \in 1..12
                 PROVE  \A price \in BookingPrices(list.rate, h, TierDiscount(known.pkgs, h)) :
                            Agrees(price, Charge(list, h, "none"))
    BY DEF CustomPriceAgrees
  <2>2. IsPriceList(list, WindowIds) /\ "none" \notin WindowIds
    BY <2>1, BookingAppAssumption DEF CheckoutInv, CheckoutTypeOK
  <2>3. known.pkgs = Global(list.pkgs)
    BY <2>1 DEF Sent
  <2>4. QED BY <2>1, <2>2, <2>3, PhoneAndServer
<1>2. QED BY <1>1, CheckoutInductive, PTL

-----------------------------------------------------------------------------
(* AppLogin.                                                               *)


USE LoginAssumption

UserRow == [phone : Phones \cup {None}, named : BOOLEAN]

CheckRow == [phone : Phones, state : {"open", "called", "expired"}, kept : BOOLEAN]

PollRow == [check : Nat, user : Nat \cup {None}, lost : BOOLEAN,
            at : {"idle", "sent", "status", "create", "confirmed", "pending", "error"}]

\* A poll in flight, and the verify screen, are about a session that was begun.
LoginRows ==
    /\ users \in Seq(UserRow) /\ checks \in Seq(CheckRow)
    /\ polls \in [Pollers -> PollRow]
    /\ \A r \in Pollers : polls[r].at # "idle" => polls[r].check \in 1..Len(checks)
    /\ screen = "verify" => check \in 1..Len(checks) /\ phone \in Phones

\* No two rows of users have the same phone.
Unique ==
    \A u, v \in DOMAIN users :
        users[u].phone = users[v].phone /\ users[u].phone \in Phones => u = v

\* Signed out, with nothing on its way that could sign in again.
Out ==
    left /\ ~crossed =>
        /\ authed = FALSE /\ stored = None /\ access = None /\ refresh = None
        /\ \A c \in Callers : calls[c] = NoCall

LoginInv == LoginRows /\ Unique /\ Out

-----------------------------------------------------------------------------
(* Lemmas.                                                                 *)

\* A sequence whose elements are replaced by others of the kind.
LEMMA MapType ==
    ASSUME NEW S, NEW s \in Seq(S), NEW t, DOMAIN t = DOMAIN s,
           t = [i \in DOMAIN t |-> t[i]],
           \A i \in DOMAIN s : t[i] \in S
    PROVE  t \in Seq(S) /\ Len(t) = Len(s)
<1>1. Len(s) \in Nat /\ DOMAIN s = 1..Len(s)
  OBVIOUS
<1>2. t \in [1..Len(s) -> S]
  BY <1>1
<1>3. t \in Seq(S)
  BY <1>1, <1>2, SeqDef
<1>4. DOMAIN t = 1..Len(t) /\ Len(t) \in Nat
  BY <1>3
<1>5. Len(t) = Len(s)
  BY <1>1, <1>4, 1..Len(t) = 1..Len(s)
<1>6. QED BY <1>3, <1>5

\* What a step may do to the rows.
LEMMA LoginRowsStep ==
    ASSUME LoginRows, users' \in Seq(UserRow), checks' \in Seq(CheckRow),
           Len(checks') >= Len(checks), polls' \in [Pollers -> PollRow],
           \A r \in Pollers : polls'[r].at # "idle" =>
               \/ polls[r].at # "idle" /\ polls'[r].check = polls[r].check
               \/ polls'[r].check \in 1..Len(checks'),
           screen' = "verify" =>
               \/ screen = "verify" /\ check' = check /\ phone' = phone
               \/ check' \in 1..Len(checks') /\ phone' \in Phones
    PROVE  LoginRows'
<1>1. Len(checks) \in Nat /\ Len(checks') \in Nat
  BY DEF LoginRows
<1>2. \A i \in 1..Len(checks) : i \in 1..Len(checks')
  BY <1>1
<1>3. ASSUME NEW r \in Pollers, polls'[r].at # "idle" PROVE polls'[r].check \in 1..Len(checks')
  BY <1>2, <1>3 DEF LoginRows
<1>4. screen' = "verify" => check' \in 1..Len(checks') /\ phone' \in Phones
  BY <1>2 DEF LoginRows
<1>5. QED BY <1>3, <1>4 DEF LoginRows

\* A step that leaves the three tables alone.
LEMMA LoginRowsKept ==
    ASSUME LoginRows, UNCHANGED <<users, checks, polls>>,
           screen' = "verify" => screen = "verify" /\ check' = check /\ phone' = phone
    PROVE  LoginRows'
BY DEF LoginRows

\* One poll goes on.
LEMMA PollGoesOn ==
    ASSUME LoginRows, NEW r \in Pollers, polls[r].at # "idle",
           NEW q \in PollRow, q.check = polls[r].check \/ q.at = "idle",
           polls' = [polls EXCEPT ![r] = q]
    PROVE  /\ polls' \in [Pollers -> PollRow]
           /\ \A s \in Pollers : polls'[s].at # "idle" =>
                  polls[s].at # "idle" /\ polls'[s].check = polls[s].check
BY DEF LoginRows

\* A phone with one row has one account.
LEMMA AtMostOne == ASSUME Unique, NEW p \in Phones PROVE Cardinality(Owner(p)) <= 1
<1>1. \A u, v \in Owner(p) : u = v
  BY DEF Unique, Owner
<1>2. CASE Owner(p) = {}
  BY <1>2, FS_EmptySet
<1>3. CASE Owner(p) # {}
  <2>1. PICK u : u \in Owner(p)
    BY <1>3
  <2>2. Owner(p) = {u}
    BY <1>1, <2>1
  <2>3. Cardinality({u}) = 1
    BY FS_Singleton
  <2>4. QED BY <2>2, <2>3
<1>4. QED BY <1>2, <1>3

-----------------------------------------------------------------------------
(* The rows, action by action.                                             *)

\* A poll that is forgotten.
LEMMA ForgetKeeps ==
    ASSUME LoginRows, NEW c, Forget(c)
    PROVE  checks' \in Seq(CheckRow) /\ Len(checks') = Len(checks)
<1>1. DOMAIN checks' = DOMAIN checks /\ checks' = [i \in DOMAIN checks' |-> checks'[i]]
  BY DEF Forget
<1>2. ASSUME NEW i \in DOMAIN checks PROVE checks'[i] \in CheckRow
  <2>1. checks[i] \in CheckRow
    BY DEF LoginRows
  <2>2. checks'[i] = checks[i] \/ checks'[i] = [checks[i] EXCEPT !.kept = FALSE]
    BY DEF Forget
  <2>3. QED BY <2>1, <2>2 DEF CheckRow
<1>3. QED BY <1>1, <1>2, MapType DEF LoginRows

\* The provider's word about a session.
Says(c, st) == checks' = [checks EXCEPT ![c].state = st]

\* A poll that heard the state of its check.
LEMMA HeardKeeps ==
    ASSUME LoginRows, NEW c, NEW st \in {"called", "expired"}, Says(c, st)
    PROVE  checks' \in Seq(CheckRow) /\ Len(checks') = Len(checks)
<1>1. DOMAIN checks' = DOMAIN checks /\ checks' = [i \in DOMAIN checks' |-> checks'[i]]
  BY DEF Says
<1>2. ASSUME NEW i \in DOMAIN checks PROVE checks'[i] \in CheckRow
  <2>1. checks[i] \in CheckRow
    BY DEF LoginRows
  <2>2. checks'[i] = checks[i] \/ checks'[i] = [checks[i] EXCEPT !.state = st]
    BY DEF Says
  <2>3. QED BY <2>1, <2>2 DEF CheckRow
<1>3. QED BY <1>1, <1>2, MapType DEF LoginRows

\* The provider and the restart of the API.
LEMMA ProviderRows ==
    ASSUME LoginRows, Dial \/ Expire \/ RestartApi \/ CooldownOver
    PROVE  LoginRows'
<1> USE DEF server, verify, polling, session, history, budget
<1>1. CASE Dial
  <2>1. checks' \in Seq(CheckRow) /\ Len(checks') = Len(checks)
    BY <1>1, HeardKeeps DEF Dial, Says
  <2>2. QED BY <1>1, <2>1, LoginRowsStep DEF Dial, LoginRows
<1>2. CASE Expire
  <2>1. checks' \in Seq(CheckRow) /\ Len(checks') = Len(checks)
    BY <1>2, HeardKeeps, ForgetKeeps DEF Expire, Says
  <2>2. QED BY <1>2, <2>1, LoginRowsStep DEF Expire, LoginRows
<1>3. CASE RestartApi
  <2>1. checks' \in Seq(CheckRow) /\ Len(checks') = Len(checks)
    <3>1. DOMAIN checks' = DOMAIN checks /\ checks' = [i \in DOMAIN checks' |-> checks'[i]]
      BY <1>3 DEF RestartApi
    <3>2. ASSUME NEW i \in DOMAIN checks PROVE checks'[i] \in CheckRow
      <4>1. checks[i] \in CheckRow
        BY DEF LoginRows
      <4>2. checks'[i] = [checks[i] EXCEPT !.kept = FALSE]
        BY <1>3 DEF RestartApi
      <4>3. QED BY <4>1, <4>2 DEF CheckRow
    <3>3. QED BY <3>1, <3>2, MapType DEF LoginRows
  <2>2. /\ polls' \in [Pollers -> PollRow]
        /\ \A r \in Pollers : polls'[r].at # "idle" =>
               polls[r].at # "idle" /\ polls'[r].check = polls[r].check
    BY <1>3 DEF RestartApi, LoginRows, PollRow
  <2>3. QED BY <1>3, <2>1, <2>2, LoginRowsStep DEF RestartApi, LoginRows
<1>4. CASE CooldownOver
  BY <1>4, LoginRowsKept DEF CooldownOver
<1>5. QED BY <1>1, <1>2, <1>3, <1>4

\* A session begun: the screen shows it, or goes on with the one before.
LEMMA RequestKeeps ==
    ASSUME LoginRows, NEW p \in Phones, Request(p)
    PROVE  /\ checks' \in Seq(CheckRow) /\ Len(checks') >= Len(checks)
           /\ check' = check \/ check' \in 1..Len(checks')
<1>1. checks \in Seq(CheckRow) /\ Len(checks) \in Nat
  BY DEF LoginRows
<1>2. CASE checks' = Append(checks, [phone |-> p, state |-> "open", kept |-> TRUE])
           /\ check' = Len(checks')
  <2>1. [phone |-> p, state |-> "open", kept |-> TRUE] \in CheckRow
    BY DEF CheckRow
  <2>2. checks' \in Seq(CheckRow) /\ Len(checks') = Len(checks) + 1
    BY <1>1, <1>2, <2>1, AppendProperties
  <2>3. QED BY <1>1, <1>2, <2>2
<1>3. CASE UNCHANGED <<checks, check>>
  BY <1>1, <1>3
<1>4. QED BY <1>2, <1>3 DEF Request, Refused

\* The player logs in.
LEMMA VerifyRows == ASSUME LoginRows, Submit \/ Again \/ Back \/ StartPoll PROVE LoginRows'
<1> USE DEF server, verify, polling, session, history, budget
<1>1. CASE Submit
  <2>1. PICK p \in Phones :
           /\ Request(p)
           /\ IF check' # check THEN screen' = "verify" /\ phone' = p
                             ELSE UNCHANGED <<screen, phone>>
    BY <1>1 DEF Submit
  <2>2. /\ checks' \in Seq(CheckRow) /\ Len(checks') >= Len(checks)
        /\ check' = check \/ check' \in 1..Len(checks')
    BY <2>1, RequestKeeps
  <2>3. screen' = "verify" => check' \in 1..Len(checks') /\ phone' \in Phones
    BY <1>1, <2>1, <2>2 DEF Submit
  <2>4. users' = users /\ polls' = polls
    BY <1>1 DEF Submit
  <2>5. QED BY <2>2, <2>3, <2>4, LoginRowsStep DEF LoginRows
<1>2. CASE Again
  <2>1. phone \in Phones /\ Request(phone) /\ screen = "verify"
    BY <1>2 DEF Again, LoginRows
  <2>2. /\ checks' \in Seq(CheckRow) /\ Len(checks') >= Len(checks)
        /\ check' = check \/ check' \in 1..Len(checks')
    BY <2>1, RequestKeeps
  <2>3. users' = users /\ polls' = polls /\ screen' = screen /\ phone' = phone
    BY <1>2 DEF Again
  <2>4. QED BY <2>1, <2>2, <2>3, LoginRowsStep DEF LoginRows
<1>3. CASE Back
  BY <1>3, LoginRowsKept DEF Back
<1>4. CASE StartPoll
  <2>1. PICK r \in Pollers :
            polls' = [polls EXCEPT ![r] = [NoPoll EXCEPT !.check = check, !.at = "sent"]]
    BY <1>4 DEF StartPoll
  <2>2. check \in 1..Len(checks) /\ Len(checks) \in Nat
    BY <1>4 DEF StartPoll, LoginRows
  <2>3. [NoPoll EXCEPT !.check = check, !.at = "sent"] \in PollRow
    <3>1. check \in Nat
      BY <2>2
    <3>2. NoPoll \in PollRow
      BY DEF NoPoll, PollRow
    <3>3. QED BY <3>1, <3>2 DEF PollRow
  <2>4. polls' \in [Pollers -> PollRow]
    BY <2>1, <2>3 DEF LoginRows
  <2>5. \A s \in Pollers : polls'[s].at # "idle" =>
            \/ polls[s].at # "idle" /\ polls'[s].check = polls[s].check
            \/ polls'[s].check \in 1..Len(checks)
    BY <2>1, <2>2 DEF LoginRows, NoPoll
  <2>6. users' = users /\ checks' = checks /\ screen' = screen /\ check' = check /\ phone' = phone
    BY <1>4 DEF StartPoll
  <2>7. QED BY <2>2, <2>4, <2>5, <2>6, LoginRowsStep DEF LoginRows
<1>5. QED BY <1>1, <1>2, <1>3, <1>4

\* A poll, on its way and answered.
LEMMA PollRows == ASSUME LoginRows, NEW r \in Pollers, Poll(r) \/ PollLost(r) PROVE LoginRows'
<1> USE DEF server, verify, polling, session, history, budget
<1> DEFINE Typed == /\ polls' \in [Pollers -> PollRow]
                   /\ \A s \in Pollers : polls'[s].at # "idle" =>
                          polls[s].at # "idle" /\ polls'[s].check = polls[s].check
<1>1. polls[r] \in PollRow /\ NoPoll \in PollRow /\ NoPoll.at = "idle"
  BY DEF LoginRows, NoPoll, PollRow
<1>2. ASSUME NEW at \in {"status", "create", "confirmed", "pending", "error"},
             polls[r].at # "idle", Advance(r, at)
      PROVE  Typed
  BY <1>1, <1>2, PollGoesOn DEF Advance, PollRow, LoginRows
<1>3. ASSUME NEW user \in Nat, polls[r].at # "idle", LogIn(r, user) PROVE Typed
  BY <1>1, <1>3, PollGoesOn DEF LogIn, PollRow, LoginRows
<1>4. ASSUME polls[r].at # "idle", polls' = [polls EXCEPT ![r] = NoPoll] PROVE Typed
  BY <1>1, <1>4, PollGoesOn
<1>5. CASE PollArrives(r)
  <2>1. Typed
    BY <1>2, <1>5 DEF PollArrives
  <2>2. QED BY <1>5, <2>1, LoginRowsStep DEF PollArrives, LoginRows
<1>6. CASE PollStatus(r)
  <2> DEFINE c == polls[r].check
  <2>1. checks[c].state \in {"open", "called", "expired"}
    <3>1. c \in 1..Len(checks)
      BY <1>6 DEF PollStatus, LoginRows
    <3>2. checks[c] \in CheckRow
      BY <3>1 DEF LoginRows
    <3>3. QED BY <3>2 DEF CheckRow
  <2>2. polls[r].at # "idle" /\ users' = users /\ UNCHANGED <<screen, check, phone>>
    BY <1>6 DEF PollStatus
  <2>3. CASE checks[c].state = "open"
    <3>1. Advance(r, "pending") /\ checks' = checks
      BY <1>6, <2>3 DEF PollStatus, Heard
    <3>2. Typed
      BY <1>2, <2>2, <3>1
    <3>3. QED BY <2>2, <3>1, <3>2, LoginRowsStep DEF LoginRows
  <2>4. CASE checks[c].state = "expired"
    <3>1. Advance(r, "error") /\ Forget(c)
      BY <1>6, <2>4 DEF PollStatus, Heard
    <3>2. Typed
      BY <1>2, <2>2, <3>1
    <3>3. checks' \in Seq(CheckRow) /\ Len(checks') = Len(checks)
      BY <3>1, ForgetKeeps
    <3>4. QED BY <2>2, <3>2, <3>3, LoginRowsStep DEF LoginRows
  <2>5. CASE checks[c].state = "called"
    <3>1. /\ Forget(c)
          /\ Advance(r, "create") \/ \E u \in DOMAIN users : LogIn(r, u)
      BY <1>6, <2>5 DEF PollStatus, Heard, Owner
    <3>2. DOMAIN users \subseteq Nat
      BY DEF LoginRows
    <3>3. Typed
      BY <1>2, <1>3, <2>2, <3>1, <3>2
    <3>4. checks' \in Seq(CheckRow) /\ Len(checks') = Len(checks)
      BY <3>1, ForgetKeeps
    <3>5. QED BY <2>2, <3>3, <3>4, LoginRowsStep DEF LoginRows
  <2>6. QED BY <2>1, <2>3, <2>4, <2>5
<1>7. CASE PollCreate(r)
  <2> DEFINE p == checks[polls[r].check].phone
  <2>1. p \in Phones
    <3>1. polls[r].check \in 1..Len(checks)
      BY <1>7 DEF PollCreate, LoginRows
    <3>2. checks[polls[r].check] \in CheckRow
      BY <3>1 DEF LoginRows
    <3>3. QED BY <3>2 DEF CheckRow
  <2>2. NewUser(p) \in UserRow
    BY <2>1 DEF NewUser, UserRow
  <2>3. users' \in Seq(UserRow) /\ Len(users') \in Nat
    <3>1. users' = users \/ users' = Append(users, NewUser(p))
      BY <1>7 DEF PollCreate
    <3>2. users \in Seq(UserRow)
      BY DEF LoginRows
    <3>3. QED BY <2>2, <3>1, <3>2, AppendProperties
  <2>4. Typed
    BY <1>2, <1>3, <1>7, <2>3 DEF PollCreate
  <2>5. QED BY <1>7, <2>3, <2>4, LoginRowsStep DEF PollCreate, LoginRows
<1>8. CASE Confirmed(r)
  <2>1. Typed
    BY <1>4, <1>8 DEF Confirmed
  <2>2. screen' # "verify"
    BY <1>8 DEF Confirmed
  <2>3. QED BY <1>8, <2>1, <2>2, LoginRowsStep DEF Confirmed, LoginRows
<1>9. CASE Pending(r)
  <2>1. Typed
    BY <1>4, <1>9 DEF Pending, Answered
  <2>2. QED BY <1>9, <2>1, LoginRowsStep DEF Pending, LoginRows
<1>10. CASE PollFails(r)
  <2>1. Typed
    BY <1>4, <1>10 DEF PollFails, Answered
  <2>2. QED BY <1>10, <2>1, LoginRowsStep DEF PollFails, LoginRows
<1>11. CASE PollLost(r)
  <2>1. Typed
    BY <1>1, <1>11 DEF PollLost, PollRow, LoginRows
  <2>2. QED BY <1>11, <2>1, LoginRowsStep DEF PollLost, LoginRows
<1>12. QED BY <1>5, <1>6, <1>7, <1>8, <1>9, <1>10, <1>11 DEF Poll

\* An account that is given a name, or loses its phone.
LEMMA UserKeeps ==
    ASSUME LoginRows, NEW u, UpdateProfile(u) \/ DeleteAccount(u)
    PROVE  /\ users' \in Seq(UserRow) /\ Len(users') = Len(users)
           /\ \A v \in DOMAIN users : users'[v].phone \in {users[v].phone, None}
<1>1. DOMAIN users' = DOMAIN users /\ users' = [v \in DOMAIN users' |-> users'[v]]
  BY DEF UpdateProfile, DeleteAccount
<1>2. ASSUME NEW v \in DOMAIN users
      PROVE  users'[v] \in UserRow /\ users'[v].phone \in {users[v].phone, None}
  <2>1. users[v] \in UserRow
    BY DEF LoginRows
  <2>2. \/ users'[v] = users[v]
        \/ users'[v] = [users[v] EXCEPT !.named = TRUE]
        \/ users'[v] = [users[v] EXCEPT !.phone = None]
    BY DEF UpdateProfile, DeleteAccount
  <2>3. QED BY <2>1, <2>2 DEF UserRow
<1>3. users' \in Seq(UserRow) /\ Len(users') = Len(users)
  BY <1>1, <1>2, MapType DEF LoginRows
<1>4. QED BY <1>2, <1>3

-----------------------------------------------------------------------------
(* The app, signed in: the tables of the server stay, but for users.       *)

SignedIn ==
    \/ HomePoll \/ AppData
    \/ \E c \in Callers : MeArrives(c) \/ MeRefused(c) \/ MeLost(c)
    \/ StartRefresh \/ Refreshed \/ RefreshFails
    \/ SignOut \/ AccessExpires \/ RestartApp

\* What a signed-in phone does leaves the rows typed.
LEMMA SignedInRows == ASSUME LoginRows, SignedIn PROVE LoginRows'
<1> USE DEF server, verify, polling, session, history, budget, UnmountedIfLeft
<1>1. CASE RestartApp
  <2>1. users' = users /\ checks' = checks /\ screen' # "verify"
    BY <1>1 DEF RestartApp
  <2>2. NoPoll \in PollRow /\ NoPoll.at = "idle"
    BY DEF NoPoll, PollRow
  <2>3. polls' \in [Pollers -> PollRow] /\ \A r \in Pollers : polls'[r].at = "idle"
    BY <1>1, <2>2 DEF RestartApp
  <2>4. QED BY <2>1, <2>3, LoginRowsStep DEF LoginRows
<1>2. CASE HomePoll \/ AppData \/ StartRefresh \/ Refreshed \/ AccessExpires
  BY <1>2, LoginRowsKept DEF HomePoll, AppData, StartRefresh, Refreshed, AccessExpires
<1>3. CASE SignOut
  BY <1>3, LoginRowsKept DEF SignOut, Leave
<1>4. CASE RefreshFails
  <2>1. UNCHANGED <<users, checks, polls>> /\ screen' \in {screen, "phone"}
    BY <1>4 DEF RefreshFails
  <2>2. screen' = "verify" => screen = "verify" /\ check' = check /\ phone' = phone
    BY <1>4, <2>1 DEF RefreshFails
  <2>3. QED BY <2>1, <2>2, LoginRowsKept
<1>5. ASSUME NEW c \in Callers, MeArrives(c) \/ MeRefused(c) \/ MeLost(c) PROVE LoginRows'
  <2>1. UNCHANGED <<users, checks, polls>> /\ screen' \in {screen, "phone", "home", "setup"}
    BY <1>5 DEF MeArrives, MeRefused, MeLost
  <2>2. screen' = "verify" => screen = "verify" /\ check' = check /\ phone' = phone
    BY <1>5, <2>1 DEF MeArrives, MeRefused, MeLost
  <2>3. QED BY <2>1, <2>2, LoginRowsKept
<1>6. QED BY <1>1, <1>2, <1>3, <1>4, <1>5 DEF SignedIn

\* A name given, an account deleted.
LEMMA AccountRows == ASSUME LoginRows, SetName \/ Delete PROVE LoginRows'
<1> USE DEF server, verify, polling, session, history, budget
<1>1. PICK u : UpdateProfile(u) \/ DeleteAccount(u)
  BY DEF SetName, Delete
<1>2. users' \in Seq(UserRow)
  BY <1>1, UserKeeps
<1>3. checks' = checks /\ polls' = polls /\ screen' \in {screen, "home", "phone"}
      /\ check' = check /\ phone' = phone
  BY DEF SetName, Delete, Leave
<1>4. QED BY <1>2, <1>3, LoginRowsStep DEF LoginRows

-----------------------------------------------------------------------------
(* One account, and out.                                                   *)

\* The slower of two log-ins of a new phone finds the row of the other.
LEMMA CreateUnique == ASSUME LoginRows, Unique, NEW r \in Pollers, PollCreate(r) PROVE Unique'
<1> DEFINE p == checks[polls[r].check].phone
<1>1. CASE users' = users
  BY <1>1 DEF Unique
<1>2. CASE users' # users
  <2>1. Owner(p) = {} /\ users' = Append(users, NewUser(p))
    BY <1>2 DEF PollCreate
  <2>2. \A u \in DOMAIN users : users[u].phone # p
    BY <2>1 DEF Owner
  <2>3. /\ DOMAIN users' = DOMAIN users \cup {Len(users) + 1}
        /\ \A u \in DOMAIN users : users'[u] = users[u]
        /\ users'[Len(users) + 1].phone = p
    BY <2>1 DEF LoginRows, NewUser
  <2>4. QED BY <2>2, <2>3 DEF Unique
<1>3. QED BY <1>1, <1>2

\* Neither makes a second row for a phone number.
LEMMA AccountUnique == ASSUME LoginRows, Unique, SetName \/ Delete PROVE Unique'
<1>1. PICK u : UpdateProfile(u) \/ DeleteAccount(u)
  BY DEF SetName, Delete
<1>2. /\ DOMAIN users' = DOMAIN users
      /\ \A v \in DOMAIN users : users'[v].phone \in {users[v].phone, None}
  BY <1>1, UserKeeps DEF UpdateProfile, DeleteAccount
<1>3. QED BY <1>2 DEF Unique

\* Signing out is the only way to be out, and begins with nothing under way.
LEMMA LeaveOut ==
    ASSUME Leave, UNCHANGED <<refresh, calls>> PROVE Out'
BY DEF Leave, SignedOut, UnderWay, Out

\* Who is out has no call and no token to get one with.
LEMMA SignedInOut == ASSUME Out, SignedIn PROVE Out'
<1> USE DEF server, verify, polling, session, history, budget, NoCall
<1>1. CASE SignOut
  BY <1>1, LeaveOut DEF SignOut
<1>2. CASE HomePoll \/ AppData \/ StartRefresh \/ Refreshed \/ AccessExpires
  BY <1>2 DEF HomePoll, AppData, StartRefresh, Refreshed, AccessExpires, Out
<1>3. CASE RefreshFails
  <2>1. ~(left /\ ~crossed)
    <3>1. refresh # None \/ \E c \in Callers : calls[c].at \in {"refresh", "first"}
      BY <1>3 DEF RefreshFails, Waiting
    <3>2. NoCall.at = "idle"
      OBVIOUS
    <3>3. QED BY <3>1, <3>2 DEF Out
  <2>2. left' = left /\ crossed' = crossed
    BY <1>3 DEF RefreshFails
  <2>3. QED BY <2>1, <2>2 DEF Out
<1>4. ASSUME NEW c \in Callers, MeArrives(c) \/ MeRefused(c) \/ MeLost(c) PROVE Out'
  <2>1. ~(left /\ ~crossed)
    BY <1>4 DEF MeArrives, MeRefused, MeLost, Out
  <2>2. left' = left /\ crossed' = crossed
    BY <1>4 DEF MeArrives, MeRefused, MeLost
  <2>3. QED BY <2>1, <2>2 DEF Out
<1>5. CASE RestartApp
  BY <1>5 DEF RestartApp, Out
<1>6. QED BY <1>1, <1>2, <1>3, <1>4, <1>5 DEF SignedIn

\* Neither signs anybody in.
LEMMA AccountOut == ASSUME Out, SetName \/ Delete PROVE Out'
<1> USE DEF server, verify, polling, session, history, budget
<1>1. access # None
  BY DEF SetName, Delete
<1>2. CASE Leave /\ UNCHANGED <<refresh, calls>>
  BY <1>2, LeaveOut
<1>3. CASE left' = left /\ crossed' = crossed
  BY <1>1, <1>3 DEF Out
<1>4. QED BY <1>2, <1>3 DEF SetName, Delete

\* The invariant of AppLogin is inductive.
LEMMA LoginNextInv == LoginInv /\ [Next]_vars => LoginInv'
<1> SUFFICES ASSUME LoginInv, [Next]_vars PROVE LoginInv'
  OBVIOUS
<1> USE DEF server, verify, polling, session, history, budget
<1>1. CASE UNCHANGED vars
  BY <1>1 DEF vars, LoginInv, LoginRows, Unique, Out
<1>2. CASE Dial \/ Expire \/ RestartApi \/ CooldownOver
  <2>1. users' = users /\ UNCHANGED <<session, history>>
    BY <1>2 DEF Dial, Expire, RestartApi, CooldownOver
  <2>2. QED BY <1>2, <2>1, ProviderRows DEF LoginInv, Unique, Out
<1>3. CASE Submit \/ Again \/ Back \/ StartPoll
  <2>1. users' = users /\ UNCHANGED <<session, history>>
    BY <1>3 DEF Submit, Again, Back, StartPoll
  <2>2. QED BY <1>3, <2>1, VerifyRows DEF LoginInv, Unique, Out
<1>4. ASSUME NEW r \in Pollers, Poll(r) \/ PollLost(r) PROVE LoginInv'
  <2>1. LoginRows'
    BY <1>4, PollRows DEF LoginInv
  <2>2. Unique'
    <3>1. CASE PollCreate(r)
      BY <3>1, CreateUnique DEF LoginInv
    <3>2. CASE ~PollCreate(r)
      <4>1. users' = users
        BY <1>4, <3>2 DEF Poll, PollLost, PollArrives, PollStatus, Confirmed, Pending, PollFails
      <4>2. QED BY <4>1 DEF LoginInv, Unique
    <3>3. QED BY <3>1, <3>2
  <2>3. Out'
    <3>1. CASE Confirmed(r)
      BY <3>1 DEF Confirmed, Out
    <3>2. CASE ~Confirmed(r)
      <4>1. UNCHANGED <<session, history>>
        BY <1>4, <3>2 DEF Poll, PollLost, PollArrives, PollStatus, PollCreate, Pending, PollFails
      <4>2. QED BY <4>1 DEF LoginInv, Out
    <3>3. QED BY <3>1, <3>2
  <2>4. QED BY <2>1, <2>2, <2>3 DEF LoginInv
<1>5. CASE SignedIn
  <2>1. users' = users
    BY <1>5 DEF SignedIn, HomePoll, AppData, MeArrives, MeRefused, MeLost, StartRefresh, Refreshed,
                RefreshFails, SignOut, AccessExpires, RestartApp
  <2>2. QED BY <1>5, <2>1, SignedInRows, SignedInOut DEF LoginInv, Unique
<1>6. CASE SetName \/ Delete
  BY <1>6, AccountRows, AccountUnique, AccountOut DEF LoginInv
<1>7. QED BY <1>1, <1>2, <1>3, <1>4, <1>5, <1>6 DEF Next, SignedIn

-----------------------------------------------------------------------------
(* Theorems.                                                               *)

\* It holds at the start.
LEMMA LoginInitInv == Init => LoginInv
<1> SUFFICES ASSUME Init PROVE LoginInv
  OBVIOUS
<1>1. users \in Seq(UserRow) /\ checks \in Seq(CheckRow) /\ DOMAIN users = {}
  BY DEF Init
<1>2. NoPoll \in PollRow /\ NoPoll.at = "idle"
  BY DEF NoPoll, PollRow
<1>3. LoginRows
  BY <1>1, <1>2 DEF Init, LoginRows
<1>4. QED BY <1>1, <1>3 DEF Init, LoginInv, Unique, Out

\* The inductive invariant.
THEOREM LoginInductive == Spec => []LoginInv
BY LoginInitInv, LoginNextInv, PTL DEF Spec

\* However deletions and log-ins overlap, a living phone has one account (finishLogin).
THEOREM OnePhoneOneAccount == Spec => []OneAccount
<1>1. LoginInv => OneAccount
  BY AtMostOne DEF LoginInv, OneAccount
<1>2. QED BY <1>1, LoginInductive, PTL

\* Whoever signs out while nothing is under way has no token and is shown no user until the
\* next log-in (logout, refreshSession).
THEOREM OutMeansOut == Spec => []SignedOutStaysOut
<1>1. LoginInv => SignedOutStaysOut
  BY DEF LoginInv, Out, SignedOutStaysOut
<1>2. QED BY <1>1, LoginInductive, PTL
=============================================================================
