------------------------- MODULE CostEstimateProofs -------------------------
(***************************************************************************)
(* What holds of every estimate, from the bills of a content to the rows of *)
(* the breakdown, whatever the prices, the plan, and what Infracost finds:  *)
(* no definition here has a state.                                          *)
(*                                                                          *)
(* First how the rows of two parsed documents make their totals.  Then what *)
(* a scan may answer, narrowed step by step to what the properties need:    *)
(* ViewFacts of one resource, Documents of a list of them, ScanFacts of a   *)
(* whole answer.  The last lemmas compare a scan with what a content really *)
(* costs: it is never more, and all of it when the coverage is complete.    *)
(***************************************************************************)
EXTENDS CostEvaluation, FiniteSetProofs

(* --- the rows of an estimate ----------------------------------------- *)

\* A document as parsed: finitely many resources, each of which costs something,
\* nothing, or what is not known.
Costed(parsed) ==
    /\ IsFiniteSet(DOMAIN parsed.resources)
    /\ \A a \in DOMAIN parsed.resources : parsed.resources[a].cost \in Nat \cup {Null}

CostsOf(parsed, addresses) == [a \in addresses |-> CostIn(parsed, a)]

\* A cost is a number, that of what is not known included.
LEMMA CostsAreNatural ==
    ASSUME NEW parsed, Costed(parsed), NEW a
    PROVE  CostIn(parsed, a) \in Nat
BY DEF Costed, CostIn

\* What neither document lists costs nothing in both.
LEMMA UnlistedCostsNothing ==
    ASSUME NEW parsed, NEW a, a \notin DOMAIN parsed.resources
    PROVE  CostIn(parsed, a) = 0
BY DEF CostIn

\* A sum of costs over any addresses that include those with a cost.
LEMMA CostsAddUp ==
    ASSUME NEW parsed, Costed(parsed), NEW A, IsFiniteSet(A), NEW B, IsFiniteSet(B),
           \A a \in A \ B : CostIn(parsed, a) = 0, \A a \in B \ A : CostIn(parsed, a) = 0
    PROVE  SumFunctionOnSet(CostsOf(parsed, A), A) = SumFunctionOnSet(CostsOf(parsed, B), B)
<1> DEFINE U == A \cup B
<1>1. IsFiniteSet(U)
    BY FS_Union
<1>2. ASSUME NEW T \in SUBSET U, \A a \in U \ T : CostIn(parsed, a) = 0
      PROVE  SumFunctionOnSet(CostsOf(parsed, T), T) = SumFunctionOnSet(CostsOf(parsed, U), U)
    <2>1. IsFiniteSet(T)
        BY <1>1, FS_Subset
    <2>2. \A a \in U : CostsOf(parsed, U)[a] \in Int
        BY CostsAreNatural DEF CostsOf
    <2>3. \A a \in T :
            CostsOf(parsed, T)[a] \in Int /\ CostsOf(parsed, T)[a] = CostsOf(parsed, U)[a]
        BY CostsAreNatural DEF CostsOf
    <2>4. SumFunctionOnSet(CostsOf(parsed, T), T) = SumFunctionOnSet(CostsOf(parsed, U), T)
        BY <2>1, <2>3, SumsOfEqualTerms
    <2>5. \A a \in U \ T : CostsOf(parsed, U)[a] = 0
        BY <1>2 DEF CostsOf
    <2>6. SumFunctionOnSet(CostsOf(parsed, U), T) = SumFunctionOnSet(CostsOf(parsed, U), U)
        BY <1>1, <2>2, <2>5, SumWithoutZeros
    <2> QED
        BY <2>4, <2>6
<1>3. SumFunctionOnSet(CostsOf(parsed, A), A) = SumFunctionOnSet(CostsOf(parsed, U), U)
    BY <1>2
<1>4. SumFunctionOnSet(CostsOf(parsed, B), B) = SumFunctionOnSet(CostsOf(parsed, U), U)
    BY <1>2
<1> QED
    BY <1>3, <1>4

\* The rows of an estimate, by field.
LEMMA RowsOfEstimate ==
    ASSUME NEW p, NEW b, NEW actions, NEW e, e = BuildEstimate(p, b, actions)
    PROVE  /\ DOMAIN e.rows = RowAddresses(p, b)
           /\ \A a \in DOMAIN e.rows :
                /\ e.rows[a] = Row(p, b, actions, a)
                /\ e.rows[a]["previous"] = CostIn(b, a)
                /\ e.rows[a]["new"] = CostIn(p, a)
                /\ e.rows[a]["delta"] = CostIn(p, a) - CostIn(b, a)
BY DEF BuildEstimate, Row

\* A breakdown is finite.
LEMMA RowAddressesAreFinite ==
    ASSUME NEW p, NEW b, Costed(p), Costed(b)
    PROVE  IsFiniteSet(RowAddresses(p, b))
<1>1. IsFiniteSet(DOMAIN p.resources \cup DOMAIN b.resources)
    BY FS_Union DEF Costed
<1> QED
    BY <1>1, FS_Subset DEF RowAddresses

\* The rows add up to the costs of whatever includes the listed resources.
LEMMA RowsAddUp ==
    ASSUME NEW p, NEW b, Costed(p), Costed(b), NEW actions,
           NEW e, e = BuildEstimate(p, b, actions),
           NEW A, IsFiniteSet(A), DOMAIN p.resources \subseteq A,
           NEW B, IsFiniteSet(B), DOMAIN b.resources \subseteq B
    PROVE  /\ SumOfRows(e, DOMAIN e.rows, "new") = SumFunctionOnSet(CostsOf(p, A), A)
           /\ SumOfRows(e, DOMAIN e.rows, "delta") =
                SumFunctionOnSet(CostsOf(p, A), A) - SumFunctionOnSet(CostsOf(b, B), B)
<1> DEFINE R == DOMAIN e.rows
           delta == [a \in R |-> e.rows[a]["delta"]]
<1>1. IsFiniteSet(R) /\ R = RowAddresses(p, b)
    BY RowsOfEstimate, RowAddressesAreFinite
<1>2. /\ \A a \in A \ R : CostIn(p, a) = 0
      /\ \A a \in B \ R : CostIn(b, a) = 0
    BY <1>1, UnlistedCostsNothing DEF RowAddresses
<1>3. /\ \A a \in R \ A : CostIn(p, a) = 0
      /\ \A a \in R \ B : CostIn(b, a) = 0
    BY UnlistedCostsNothing
<1>4. SumFunctionOnSet(CostsOf(p, R), R) = SumFunctionOnSet(CostsOf(p, A), A)
    <2> HIDE DEF R
    <2> QED
        BY <1>1, <1>2, <1>3, CostsAddUp
<1>5. SumFunctionOnSet(CostsOf(b, R), R) = SumFunctionOnSet(CostsOf(b, B), B)
    <2> HIDE DEF R
    <2> QED
        BY <1>1, <1>2, <1>3, CostsAddUp
<1>6. [a \in R |-> e.rows[a]["new"]] = CostsOf(p, R)
    BY RowsOfEstimate DEF CostsOf
<1>7. \A a \in R : /\ CostsOf(p, R)[a] \in Int /\ CostsOf(b, R)[a] \in Int
                   /\ delta[a] = CostsOf(p, R)[a] - CostsOf(b, R)[a]
    BY RowsOfEstimate, CostsAreNatural DEF CostsOf
<1>8. SumFunctionOnSet(delta, R) =
          SumFunctionOnSet(CostsOf(p, R), R) - SumFunctionOnSet(CostsOf(b, R), R)
    <2> HIDE DEF R, delta
    <2> QED
        BY <1>1, <1>7, SumOfDifferences
<1> QED
    BY <1>4, <1>5, <1>6, <1>8 DEF SumOfRows

\* The larger of finitely many numbers is one of them.
LEMMA LargestOfThree ==
    ASSUME NEW i \in Int, NEW j \in Int, NEW k \in Int
    PROVE  /\ Max({i, j, k}) \in {i, j, k}
           /\ \A n \in {i, j, k} : Max({i, j, k}) >= n
<1>1. \E x \in {i, j, k} : \A y \in {i, j, k} : x >= y
    OBVIOUS
<1> QED
    BY <1>1 DEF Max

\* The words Terraform's actions come down to.
LEMMA NormalizedActions ==
    ASSUME NEW actions
    PROVE  NormalizeAction(actions) \in ChangeActions \cup {"read", "no-op"}
BY DEF NormalizeAction, ChangeActions

\* The words for the confidence of a row.
LEMMA Confidences ==
    ASSUME NEW parsed
    PROVE  Confidence(parsed) \in {"PRICED", "USAGE_BASED", "FREE", "NO_PRICE", "UNSUPPORTED"}
BY DEF Confidence

(* --- what a scan says of a resource ---------------------------------- *)

ParseResource(style, raw) == IF style = "v2" THEN ParseV2Resource(raw) ELSE ParseV010Resource(raw)

Paid(cost) == IF cost = Null THEN 0 ELSE cost

\* What the parts at some places of a bill cost.
PricedAt(content, a, which) ==
    SumFunctionOnSet([i \in which |-> Bill[content][a][i].price], which)

Found(view) == {i \in DOMAIN view.parts : view.parts[i].found}

\* The elements of a sequence are of its type.
LEMMA ElementsOfSequences ==
    ASSUME NEW R, NEW s \in Seq(R)
    PROVE  \A i \in DOMAIN s : s[i] \in R
OBVIOUS

\* A bill is finite, and its prices are numbers.
LEMMA BillTypes ==
    ASSUME NEW content \in Content, NEW a \in DOMAIN Bill[content]
    PROVE  /\ IsFiniteSet(DOMAIN Bill[content][a])
           /\ \A i \in DOMAIN Bill[content][a] :
                Bill[content][a][i].price \in Nat /\ Bill[content][a][i].usage \in BOOLEAN
           /\ Bill[content][a] # <<>> => DOMAIN Bill[content][a] # {}
<1> DEFINE bill == Bill[content][a]
<1>1. bill \in Seq([price : Nat, usage : BOOLEAN])
    BY BillAssumption
<1>2. DOMAIN bill = 1 .. Len(bill) /\ Len(bill) \in Nat
    BY <1>1
<1>3. IsFiniteSet(1 .. Len(bill))
    BY <1>2, FS_Interval
<1>4. \A i \in DOMAIN bill : bill[i] \in [price : Nat, usage : BOOLEAN]
    BY <1>1, ElementsOfSequences
<1> QED
    BY <1>1, <1>2, <1>3, <1>4

\* Some of the parts of a bill cost a number, at most what all of them do.
LEMMA PricesAreNatural ==
    ASSUME NEW content \in Content, NEW a \in DOMAIN Bill[content],
           NEW which \in SUBSET DOMAIN Bill[content][a]
    PROVE  /\ IsFiniteSet(which)
           /\ PricedAt(content, a, which) \in Nat
           /\ PricedAt(content, a, which) <= TrueCost(content, a)
           /\ TrueCost(content, a) = PricedAt(content, a, DOMAIN Bill[content][a])
           /\ TrueCost(content, a) \in Nat
           /\ PricedAt(content, a, {}) = 0
<1> DEFINE bill == Bill[content][a]
           D == DOMAIN bill
           price == [i \in D |-> bill[i].price]
           some == [i \in which |-> bill[i].price]
           none == [i \in D |-> IF i \in which THEN bill[i].price ELSE 0]
<1>1. IsFiniteSet(D) /\ \A i \in D : bill[i].price \in Nat
    BY BillTypes
<1>2. IsFiniteSet(which)
    BY <1>1, FS_Subset
<1>3. /\ PricedAt(content, a, which) = SumFunctionOnSet(some, which)
      /\ PricedAt(content, a, D) = SumFunctionOnSet(price, D)
      /\ TrueCost(content, a) = SumFunctionOnSet(price, D)
    BY DEF PricedAt, TrueCost, SumFunction, SumFunctionOnSet
<1>4. /\ \A i \in which : some[i] \in Nat /\ some[i] = none[i]
      /\ \A i \in D : none[i] \in Nat /\ price[i] \in Nat /\ none[i] <= price[i]
      /\ \A i \in D \ which : none[i] = 0
    BY <1>1
<1>5. PricedAt(content, a, {}) = 0
    BY SumOfNothing DEF PricedAt
<1> HIDE DEF D, price, some, none
<1>6. which \in SUBSET D
    BY DEF D
<1>7. SumFunctionOnSet(some, which) = SumFunctionOnSet(none, which)
    BY <1>2, <1>4, SumsOfEqualTerms
<1>8. SumFunctionOnSet(none, which) = SumFunctionOnSet(none, D)
    BY <1>1, <1>4, <1>6, SumWithoutZeros
<1>9. SumFunctionOnSet(none, D) <= SumFunctionOnSet(price, D)
    BY <1>1, <1>4, SumIsMonotonic
<1>10. SumFunctionOnSet(some, which) \in Nat /\ SumFunctionOnSet(price, D) \in Nat
    BY <1>1, <1>2, <1>4, SumIsNatural
<1> QED
    BY <1>2, <1>3, <1>5, <1>7, <1>8, <1>9, <1>10 DEF D

PartsAreNumbered(view) == DOMAIN view.parts = 1 .. Len(view.parts)

\* What Infracost may answer about one resource, once and for all: what it found
\* of the parts, and how that makes the cost, as listed and as parsed.
ViewFacts(style, content, a, unresolved, view) ==
    LET parsed == ParseResource(style, view)
    IN  /\ parsed.cost \in Nat \cup {Null}
        /\ view.cost \in Nat \cup {Null}
        /\ Paid(parsed.cost) <= TrueCost(content, a)
        /\ style = "v2" \/ view.supported => Paid(view.cost) = Paid(parsed.cost)
        /\ style = "v2" \/ view.supported \/ view.cost = Null
        /\ parsed.supported => Covered(view) \/ style # "v2"
        /\ PartsAreNumbered(view)
        /\ parsed.missing <=> Unpriced(view)
        /\ a \notin unresolved =>
            /\ Found(view) \subseteq DOMAIN Bill[content][a]
            /\ Paid(parsed.cost) = PricedAt(content, a, Found(view))
            /\ Covered(view) /\ ~parsed.missing => Found(view) = DOMAIN Bill[content][a]

\* Nothing to bill.
LEMMA ViewOfFree ==
    ASSUME NEW style \in {"v2", "v0.10"}, NEW content \in Content, NEW a \in DOMAIN Bill[content],
           NEW unresolved, Bill[content][a] = <<>>
    PROVE  ViewFacts(style, content, a, unresolved, FreeView)
<1> DEFINE parsed == ParseResource(style, FreeView)
<1>1. /\ DOMAIN FreeView.parts = {} /\ DOMAIN Bill[content][a] = {}
      /\ FreeView.cost = 0 /\ FreeView.supported = TRUE
    BY DEF FreeView
<1>2. SumOf(FreeView.parts, {}) = 0
    BY SumOfNothing DEF SumOf
<1>3. parsed.cost = 0 /\ parsed.supported = TRUE /\ parsed.missing = FALSE
    <2>1. {i \in DOMAIN FreeView.parts : ~Missing(FreeView.parts[i])} = {}
        BY <1>1
    <2>2. CASE style = "v2"
        BY <1>1, <1>2, <2>1, <2>2 DEF ParseResource, ParseV2Resource
    <2>3. CASE style # "v2"
        BY <1>1, <2>3, NullAssumption DEF ParseResource, ParseV010Resource
    <2> QED
        BY <2>2, <2>3
<1>4. Found(FreeView) = {}
    BY <1>1 DEF Found
<1>5. PricedAt(content, a, {}) = 0 /\ 0 <= TrueCost(content, a)
    BY PricesAreNatural
<1>6. Paid(0) = 0
    BY NullAssumption DEF Paid
<1>7. ~Unpriced(FreeView)
    BY <1>1 DEF Unpriced
<1>8. PartsAreNumbered(FreeView)
    BY DEF FreeView, PartsAreNumbered
<1> HIDE DEF parsed
<1> QED
    BY <1>1, <1>3, <1>4, <1>5, <1>6, <1>7, <1>8 DEF ViewFacts, Covered, parsed

\* Nothing known.
LEMMA ViewOfUnsupported ==
    ASSUME NEW style \in {"v2", "v0.10"}, NEW content \in Content, NEW a \in DOMAIN Bill[content],
           NEW unresolved
    PROVE  ViewFacts(style, content, a, unresolved, UnsupportedView)
<1> DEFINE parsed == ParseResource(style, UnsupportedView)
<1>1. /\ DOMAIN UnsupportedView.parts = {} /\ UnsupportedView.parts = <<>>
      /\ UnsupportedView.cost = Null /\ UnsupportedView.supported = FALSE
    BY DEF UnsupportedView
<1>2. SumOf(UnsupportedView.parts, {}) = 0
    BY SumOfNothing DEF SumOf
<1>3. /\ parsed.cost = 0 /\ parsed.missing = FALSE
      /\ style = "v2" => parsed.supported = FALSE
    <2>1. /\ {i \in DOMAIN UnsupportedView.parts : ~Missing(UnsupportedView.parts[i])} = {}
          /\ {i \in DOMAIN UnsupportedView.parts : UnsupportedView.parts[i].monthly # Null} = {}
        BY <1>1
    <2>2. CASE style = "v2"
        BY <1>1, <1>2, <2>1, <2>2 DEF ParseResource, ParseV2Resource
    <2>3. CASE style # "v2"
        BY <1>1, <1>2, <2>1, <2>3 DEF ParseResource, ParseV010Resource
    <2> QED
        BY <2>2, <2>3
<1>4. Found(UnsupportedView) = {}
    BY <1>1 DEF Found
<1>5. PricedAt(content, a, {}) = 0 /\ 0 <= TrueCost(content, a)
    BY PricesAreNatural
<1>6. Paid(0) = 0 /\ Paid(Null) = 0
    BY DEF Paid
<1>7. ~Unpriced(UnsupportedView)
    BY <1>1 DEF Unpriced
<1>8. PartsAreNumbered(UnsupportedView)
    BY DEF UnsupportedView, PartsAreNumbered
<1> HIDE DEF parsed
<1> QED
    BY <1>1, <1>3, <1>4, <1>5, <1>6, <1>7, <1>8 DEF ViewFacts, Covered, parsed

\* Nothing that a reference would bring.
LEMMA ViewOfUnresolved ==
    ASSUME NEW style \in {"v2", "v0.10"}, NEW content \in Content, NEW a \in DOMAIN Bill[content],
           NEW unresolved, a \in unresolved
    PROVE  ViewFacts(style, content, a, unresolved, UnresolvedView)
<1> DEFINE parsed == ParseResource(style, UnresolvedView)
           part == [monthly |-> 0, found |-> TRUE, usage |-> FALSE]
           zeros == [i \in {1} |-> UnresolvedView.parts[i].monthly]
<1>1. /\ DOMAIN UnresolvedView.parts = {1} /\ UnresolvedView.parts[1] = part
      /\ UnresolvedView.parts # <<>>
      /\ UnresolvedView.cost = 0 /\ UnresolvedView.supported = TRUE
    BY DEF UnresolvedView
<1>2. ~Missing(part)
    BY NullAssumption DEF Missing
<1>3. SumOf(UnresolvedView.parts, {1}) = 0
    <2>1. IsFiniteSet({1}) /\ {1} \ {1} = {}
        BY FS_Singleton
    <2>2. \A i \in {1} : zeros[i] = 0
        BY <1>1
    <2>3. SumFunctionOnSet(zeros, {1}) = zeros[1] + SumFunctionOnSet(zeros, {1} \ {1})
        BY <2>1, <2>2, SumTakesOut
    <2>4. SumFunctionOnSet(zeros, {}) = 0
        BY SumOfNothing
    <2> QED
        BY <2>1, <2>2, <2>3, <2>4 DEF SumOf
<1>4. parsed.cost = 0 /\ parsed.supported = TRUE /\ parsed.missing = FALSE
    <2>1. {i \in DOMAIN UnresolvedView.parts : ~Missing(UnresolvedView.parts[i])} = {1}
        BY <1>1, <1>2
    <2>2. CASE style = "v2"
        BY <1>1, <1>2, <1>3, <2>1, <2>2 DEF ParseResource, ParseV2Resource
    <2>3. CASE style # "v2"
        BY <1>1, <1>2, <2>3, NullAssumption DEF ParseResource, ParseV010Resource
    <2> QED
        BY <2>2, <2>3
<1>5. 0 <= TrueCost(content, a)
    BY PricesAreNatural
<1>6. Paid(0) = 0
    BY DEF Paid
<1>7. ~Unpriced(UnresolvedView)
    BY <1>1 DEF Unpriced
<1>8. PartsAreNumbered(UnresolvedView)
    BY DEF UnresolvedView, PartsAreNumbered
<1> HIDE DEF parsed
<1> QED
    BY <1>1, <1>4, <1>5, <1>6, <1>7, <1>8 DEF ViewFacts, Covered, parsed

\* Some parts with a price, the others without.
LEMMA ViewOfListed ==
    ASSUME NEW style \in {"v2", "v0.10"}, NEW content \in Content, NEW a \in DOMAIN Bill[content],
           NEW unresolved, NEW found \in SUBSET DOMAIN Bill[content][a], Bill[content][a] # <<>>
    PROVE  ViewFacts(style, content, a, unresolved, ListedView(style, Bill[content][a], found))
<1> DEFINE bill == Bill[content][a]
           view == ListedView(style, bill, found)
           parts == view.parts
           parsed == ParseResource(style, view)
<1>1. /\ DOMAIN parts = DOMAIN bill /\ view.supported = TRUE
      /\ view.cost = IF found = {} THEN Null ELSE PricedAt(content, a, found)
      /\ \A i \in found : parts[i].monthly = bill[i].price
      /\ \A i \in DOMAIN bill \ found : parts[i].monthly = IF style = "v2" THEN Null ELSE 0
      /\ \A i \in DOMAIN bill : parts[i].found <=> i \in found
    <2> DEFINE prices == [i \in found |-> bill[i].price]
    <2>1. SumFunction(prices) = SumFunctionOnSet(prices, found)
        BY DEF SumFunction, SumFunctionOnSet
    <2>2. view.cost = IF found = {} THEN Null ELSE PricedAt(content, a, found)
        BY <2>1 DEF ListedView, PricedAt
    <2>3. parts = [i \in DOMAIN bill |-> [monthly |-> IF i \in found THEN bill[i].price
                                                     ELSE IF style = "v2" THEN Null ELSE 0,
                                         found |-> i \in found,
                                         usage |-> bill[i].usage]]
        BY DEF ListedView
    <2>4. DOMAIN parts = DOMAIN bill
        BY <2>3
    <2>5. view.supported = TRUE
        BY DEF ListedView
    <2>6. ASSUME NEW i \in DOMAIN bill
          PROVE  /\ parts[i].found <=> i \in found
                 /\ parts[i].monthly = IF i \in found THEN bill[i].price
                                       ELSE IF style = "v2" THEN Null ELSE 0
        <3> DEFINE monthly == IF i \in found THEN bill[i].price
                              ELSE IF style = "v2" THEN Null ELSE 0
                   isFound == i \in found
        <3>1. parts[i] = [monthly |-> monthly, found |-> isFound, usage |-> bill[i].usage]
            BY <2>3, Zenon
        <3> HIDE DEF monthly, isFound
        <3>2. parts[i].monthly = monthly /\ parts[i].found = isFound
            BY <3>1
        <3> QED
            BY <3>2, Zenon DEF monthly, isFound
    <2> HIDE DEF view
    <2> QED
        BY <2>2, <2>4, <2>5, <2>6
<1>2. /\ \A i \in DOMAIN bill : bill[i].price \in Nat
      /\ DOMAIN bill # {}
      /\ IsFiniteSet(DOMAIN bill)
    BY BillTypes
<1>3. \A i \in DOMAIN bill : Missing(parts[i]) <=> i \notin found
    BY <1>1, <1>2, NullAssumption DEF Missing
<1>4. Found(view) = found
    BY <1>1 DEF Found
<1>5. SumOf(parts, found) = PricedAt(content, a, found)
    <2>1. [i \in found |-> parts[i].monthly] = [i \in found |-> bill[i].price]
        BY <1>1
    <2> QED
        BY <2>1 DEF SumOf, PricedAt
<1>6. /\ PricedAt(content, a, found) \in Nat
      /\ PricedAt(content, a, found) <= TrueCost(content, a)
      /\ PricedAt(content, a, {}) = 0
    BY PricesAreNatural
<1>10. PartsAreNumbered(view)
    <2>1. bill \in Seq([price : Nat, usage : BOOLEAN])
        BY BillAssumption
    <2>2. DOMAIN bill = 1 .. Len(bill) /\ Len(bill) \in Nat
        BY <2>1
    <2>3. \E f : parts = [i \in 1 .. Len(bill) |-> f[i]]
        <3>1. parts = [i \in DOMAIN bill |-> parts[i]]
            BY DEF ListedView
        <3> QED
            BY <2>2, <3>1
    <2> HIDE DEF parts, bill
    <2>4. Len(parts) = Len(bill)
        BY <2>2, <2>3
    <2> QED
        BY <1>1, <2>2, <2>4 DEF PartsAreNumbered, parts
<1>7. /\ parts # <<>>
      /\ Unpriced(view) <=> \E i \in DOMAIN bill : i \notin found
    BY <1>1, <1>2 DEF Unpriced
<1> HIDE DEF view
<1>8. /\ parsed.cost \in Nat \cup {Null}
      /\ Paid(parsed.cost) = PricedAt(content, a, found)
      /\ parsed.missing <=> \E i \in DOMAIN bill : i \notin found
      /\ parsed.supported = TRUE
    <2>1. CASE style = "v2"
        <3>1. {i \in DOMAIN parts : ~Missing(parts[i])} = found
            BY <1>1, <1>3
        <3>2. \/ parsed.cost = PricedAt(content, a, found)
              \/ parsed.cost = Null /\ PricedAt(content, a, found) = 0
            BY <1>5, <2>1, <3>1 DEF ParseResource, ParseV2Resource
        <3>3. parsed.missing <=> \E i \in DOMAIN bill : i \notin found
            BY <1>1, <1>3, <2>1 DEF ParseResource, ParseV2Resource
        <3>4. parsed.supported = TRUE
            BY <1>1, <2>1 DEF ParseResource, ParseV2Resource
        <3> QED
            BY <1>6, <3>2, <3>3, <3>4, NullAssumption DEF Paid
    <2>2. CASE style = "v0.10"
        <3>1. parsed.missing <=> \E i \in DOMAIN bill : i \notin found
            BY <1>1, <1>3, <2>2 DEF ParseResource, ParseV010Resource
        <3>2. parsed.supported = TRUE
            BY <2>2 DEF ParseResource, ParseV010Resource
        <3>3. parsed.cost = PricedAt(content, a, found)
            <4>1. CASE found # {}
                <5>1. view.cost = PricedAt(content, a, found) /\ view.cost # Null
                    BY <1>1, <1>6, <4>1, NullAssumption
                <5> QED
                    BY <2>2, <5>1 DEF ParseResource, ParseV010Resource
            <4>2. CASE found = {}
                <5> DEFINE D == DOMAIN bill
                           zeros == [i \in D |-> parts[i].monthly]
                <5>1. {i \in DOMAIN parts : parts[i].monthly # Null} = D
                    BY <1>1, <2>2, <4>2, NullAssumption
                <5>2. parsed.cost = SumFunctionOnSet(zeros, D)
                    BY <1>1, <2>2, <4>2, <5>1 DEF ParseResource, ParseV010Resource, SumOf
                <5>3. \A i \in D : zeros[i] = 0
                    BY <1>1, <2>2, <4>2
                <5> HIDE DEF D, zeros
                <5>4. SumFunctionOnSet(zeros, {}) = SumFunctionOnSet(zeros, D)
                    BY <1>2, <5>3, SumWithoutZeros DEF D
                <5> QED
                    BY <1>6, <4>2, <5>2, <5>4, SumOfNothing
            <4> QED
                BY <4>1, <4>2
        <3> QED
            BY <1>6, <3>1, <3>2, <3>3, NullAssumption DEF Paid
    <2> QED
        BY <2>1, <2>2
<1>9. view.cost \in Nat \cup {Null} /\ Paid(view.cost) = PricedAt(content, a, found)
    <2>1. CASE found = {}
        BY <1>1, <1>6, <2>1 DEF Paid
    <2>2. CASE found # {}
        BY <1>1, <1>6, <2>2, NullAssumption DEF Paid
    <2> QED
        BY <2>1, <2>2
<1> HIDE DEF parsed
<1> QED
    BY <1>1, <1>4, <1>6, <1>7, <1>8, <1>9, <1>10 DEF ViewFacts, Covered, parsed, view

\* The same of a resource that is not supported, and listed all the same.
LEMMA ViewOfNested ==
    ASSUME NEW content \in Content, NEW a \in DOMAIN Bill[content],
           NEW unresolved, NEW found \in SUBSET DOMAIN Bill[content][a], found # {}
    PROVE  ViewFacts("v2", content, a, unresolved,
                     [ListedView("v2", Bill[content][a], found) EXCEPT !.supported = FALSE])
<1> DEFINE listed == ListedView("v2", Bill[content][a], found)
           nested == [listed EXCEPT !.supported = FALSE]
<1>1. Bill[content][a] # <<>>
    OBVIOUS
<1>2. ViewFacts("v2", content, a, unresolved, listed)
    BY <1>1, ViewOfListed
<1>3. /\ DOMAIN listed.parts = DOMAIN Bill[content][a]
      /\ DOMAIN listed = {"supported", "free", "cost", "parts"}
      /\ listed.supported = TRUE
    BY DEF ListedView
<1>4. listed.parts # <<>>
    BY <1>3
<1> HIDE DEF listed
<1>5. /\ nested.parts = listed.parts /\ nested.cost = listed.cost /\ nested.free = listed.free
      /\ nested.supported = FALSE
    BY <1>3
<1> HIDE DEF nested
<1>6. ParseResource("v2", nested) = ParseResource("v2", listed)
    <2>1. nested.supported \/ nested.parts # <<>> <=> listed.supported \/ listed.parts # <<>>
        BY <1>3, <1>4, <1>5
    <2> QED
        BY <1>3, <1>4, <1>5 DEF ParseResource, ParseV2Resource
<1>7. /\ Covered(nested) /\ Covered(listed)
      /\ Found(nested) = Found(listed)
      /\ Unpriced(nested) <=> Unpriced(listed)
      /\ PartsAreNumbered(nested) <=> PartsAreNumbered(listed)
    BY <1>4, <1>5 DEF Covered, Found, Unpriced, PartsAreNumbered
<1>8. ViewFacts("v2", content, a, unresolved, nested)
    BY <1>2, <1>5, <1>6, <1>7 DEF ViewFacts
<1> QED
    BY <1>8 DEF nested, listed

\* Whatever Infracost supports and finds.
LEMMA ViewsOfResources ==
    ASSUME NEW style \in {"v2", "v0.10"}, NEW content \in Content, NEW a \in DOMAIN Bill[content],
           NEW unresolved, NEW unsupported, NEW unpriced
    PROVE  ViewFacts(style, content, a, unresolved,
                     ViewOf(style, content, a, unresolved, unsupported, unpriced))
<1> DEFINE bill == Bill[content][a]
           found == {i \in DOMAIN bill : <<a, i>> \notin unpriced}
           view == ViewOf(style, content, a, unresolved, unsupported, unpriced)
<1>1. CASE bill = <<>>
    <2>1. view = FreeView
        BY <1>1 DEF ViewOf
    <2> QED
        BY <1>1, <2>1, ViewOfFree
<1>2. CASE bill # <<>> /\ a \in unresolved
    <2>1. view = UnresolvedView
        BY <1>2 DEF ViewOf
    <2> QED
        BY <1>2, <2>1, ViewOfUnresolved
<1>3. CASE bill # <<>> /\ a \notin unresolved /\ a \in unsupported
    <2>1. CASE style = "v2" /\ found # {}
        <3> DEFINE nested == [ListedView("v2", bill, found) EXCEPT !.supported = FALSE]
        <3>1. view = nested
            BY <1>3, <2>1 DEF ViewOf
        <3>2. found \in SUBSET DOMAIN Bill[content][a]
            OBVIOUS
        <3>3. ViewFacts("v2", content, a, unresolved, nested)
            <4> HIDE DEF found
            <4> QED
                BY <2>1, <3>2, ViewOfNested
        <3> HIDE DEF found, nested
        <3> QED
            BY <2>1, <3>1, <3>3
    <2>2. CASE style # "v2" \/ found = {}
        <3>1. view = UnsupportedView
            BY <1>3, <2>2 DEF ViewOf
        <3> QED
            BY <3>1, ViewOfUnsupported
    <2> QED
        BY <2>1, <2>2
<1>4. CASE bill # <<>> /\ a \notin unresolved /\ a \notin unsupported
    <2>1. view = ListedView(style, bill, found)
        BY <1>4 DEF ViewOf
    <2> QED
        BY <1>4, <2>1, ViewOfListed
<1> QED
    BY <1>1, <1>2, <1>3, <1>4

(* --- what a document says -------------------------------------------- *)

SupportedIn(views) == {a \in DOMAIN views : views[a].supported}

CoveredIn(views) == {a \in DOMAIN views : Covered(views[a])}

\* A document of the views Infracost has of the resources.
Documents(d, style, views) ==
    /\ d.schema = style
    /\ d.total \in {Null} \cup TotalsOf(views)
    /\ style = "v2" =>
        /\ d.resources = views
        /\ \E free \in SUBSET DOMAIN views :
            /\ d.summary.detected = Cardinality(DOMAIN views)
            /\ d.summary.costed = Cardinality(CoveredIn(views) \ free)
            /\ d.summary.free = Cardinality(free)
    /\ style = "v0.10" =>
        /\ d.resources = Restrict(views, SupportedIn(views))
        /\ d.summary.unsupported = Cardinality(DOMAIN views \ SupportedIn(views))
        /\ \E counted \in SUBSET DOMAIN views : d.summary.noPrice = Cardinality(counted)

\* What Infracost writes is such a document, with a total.
LEMMA DocumentsOfViews ==
    ASSUME NEW style \in {"v2", "v0.10"}, NEW views, NEW d \in DocumentsOf(style, views)
    PROVE  Documents(d, style, views)
<1> DEFINE Free == {a \in DOMAIN views : views[a].free}
           Lacking == {a \in DOMAIN views : Unpriced(views[a])}
           document(summary, resources, total) ==
               [schema |-> style, currency |-> "USD", summary |-> summary, resources |-> resources,
                total |-> total]
<1>1. Free \in SUBSET DOMAIN views /\ Lacking \in SUBSET DOMAIN views
    OBVIOUS
<1>2. CASE style = "v2"
    <2> DEFINE summary == [detected |-> Cardinality(DOMAIN views),
                           costed |-> Cardinality(CoveredIn(views) \ Free),
                           free |-> Cardinality(Free)]
    <2>1. DocumentsOf(style, views) = {document(summary, views, total) : total \in TotalsOf(views)}
        BY <1>2 DEF DocumentsOf, CoveredIn
    <2>2. PICK total \in TotalsOf(views) : d = document(summary, views, total)
        BY <2>1
    <2>3. /\ summary.detected = Cardinality(DOMAIN views)
          /\ summary.costed = Cardinality(CoveredIn(views) \ Free)
          /\ summary.free = Cardinality(Free)
        OBVIOUS
    <2> HIDE DEF summary, Free, Lacking
    <2>4. d.schema = style /\ d.total = total /\ d.resources = views /\ d.summary = summary
        BY <2>2
    <2> QED
        BY <1>1, <1>2, <2>3, <2>4 DEF Documents
<1>3. CASE style = "v0.10"
    <2> DEFINE summary(counted) == [unsupported |-> Cardinality(DOMAIN views \ SupportedIn(views)),
                                    noPrice |-> Cardinality(counted)]
               listed == Restrict(views, SupportedIn(views))
    <2>1. DocumentsOf(style, views) =
            {document(summary(counted), listed, total) :
                counted \in {Lacking, Free}, total \in TotalsOf(views)}
        BY <1>3 DEF DocumentsOf, SupportedIn
    <2>2. \E counted \in {Lacking, Free}, total \in TotalsOf(views) :
            d = document(summary(counted), listed, total)
        <3> HIDE DEF summary, listed, document, Free, Lacking
        <3> QED
            BY <2>1
    <2>5. PICK counted \in {Lacking, Free}, total \in TotalsOf(views) :
            d = document(summary(counted), listed, total)
        BY <2>2
    <2>3. /\ summary(counted).unsupported = Cardinality(DOMAIN views \ SupportedIn(views))
          /\ summary(counted).noPrice = Cardinality(counted)
        OBVIOUS
    <2> HIDE DEF summary, listed, Free, Lacking
    <2>4. /\ d.schema = style /\ d.total = total /\ d.resources = listed
          /\ d.summary = summary(counted)
        BY <2>5
    <2> QED
        BY <1>1, <1>3, <2>5, <2>3, <2>4 DEF Documents, listed
<1> QED
    BY <1>2, <1>3

\* The table has every answer to a scan.
LEMMA ScansAreAnswers ==
    ASSUME NEW style \in {"v2", "v0.10"}, NEW content \in Content, NEW unresolved \in SUBSET Address
    PROVE  ScansOf(style, content, unresolved) = AnswersTo(style, content, unresolved)
<1> DEFINE asked == <<style, content, unresolved>>
           given == [to |-> asked, documents |-> AnswersTo(style, content, unresolved)]
<1>1. given \in Answers
    <2>1. asked \in {"v2", "v0.10"} \X Content \X SUBSET Address
        OBVIOUS
    <2>2. asked[1] = style /\ asked[2] = content /\ asked[3] = unresolved
        OBVIOUS
    <2> HIDE DEF asked
    <2> QED
        BY <2>1, <2>2 DEF Answers
<1>2. ASSUME NEW answer \in Answers, answer.to = asked
      PROVE  answer.documents = AnswersTo(style, content, unresolved)
    <2>1. PICK q \in {"v2", "v0.10"} \X Content \X SUBSET Address :
            answer = [to |-> q, documents |-> AnswersTo(q[1], q[2], q[3])]
        BY DEF Answers
    <2>2. q = asked
        BY <1>2, <2>1
    <2> QED
        BY <2>1, <2>2
<1>3. given.to = asked
    OBVIOUS
<1> HIDE DEF given, asked
<1>4. LET found == CHOOSE answer \in Answers : answer.to = asked
      IN  found \in Answers /\ found.to = asked
    BY <1>1, <1>3
<1> QED
    BY <1>2, <1>4 DEF ScansOf, asked

\* Whatever the scan answers, it is a document of some views.
LEMMA ScansDocumentViews ==
    ASSUME NEW style \in {"v2", "v0.10"}, NEW content \in Content, NEW unresolved \in SUBSET Address,
           NEW d \in ScansOf(style, content, unresolved)
    PROVE  \E unsupported, unpriced :
                Documents(d, style, ViewsOf(style, content, unresolved, unsupported, unpriced))
<1> DEFINE answers(unsupported, unpriced) ==
        DocumentsOf(style, ViewsOf(style, content, unresolved, unsupported, unpriced))
<1>1. \/ \E unsupported, unpriced : d \in answers(unsupported, unpriced)
      \/ \E e \in answers({}, {}) : d = [e EXCEPT !.total = Null]
      \/ \E e \in answers({}, {}) : d = [e EXCEPT !.currency = "EUR"]
    BY ScansAreAnswers DEF AnswersTo
<1>2. CASE \E unsupported, unpriced : d \in answers(unsupported, unpriced)
    BY <1>2, DocumentsOfViews
<1>3. CASE \E e \in answers({}, {}) : d = [e EXCEPT !.total = Null]
    <2>1. PICK e \in answers({}, {}) : d = [e EXCEPT !.total = Null]
        BY <1>3
    <2>2. Documents(e, style, ViewsOf(style, content, unresolved, {}, {}))
        BY DocumentsOfViews
    <2>3. /\ d.total \in {Null, e.total} /\ d.schema = e.schema
          /\ d.resources = e.resources /\ d.summary = e.summary
        BY <2>1
    <2> QED
        BY <2>2, <2>3 DEF Documents
<1>4. CASE \E e \in answers({}, {}) : d = [e EXCEPT !.currency = "EUR"]
    <2>1. PICK e \in answers({}, {}) : d = [e EXCEPT !.currency = "EUR"]
        BY <1>4
    <2>2. Documents(e, style, ViewsOf(style, content, unresolved, {}, {}))
        BY DocumentsOfViews
    <2>3. /\ d.total = e.total /\ d.schema = e.schema
          /\ d.resources = e.resources /\ d.summary = e.summary
        BY <2>1
    <2> QED
        BY <2>2, <2>3 DEF Documents
<1> QED
    BY <1>1, <1>2, <1>3, <1>4

(* --- what an evaluation makes of a scan ------------------------------ *)

\* A content has finitely many resources.
LEMMA ContentsAreFinite ==
    ASSUME NEW content \in Content
    PROVE  IsFiniteSet(DOMAIN Bill[content])
BY ContentAssumption, FS_Subset

\* Of a document it is enough to know this, resource by resource and as a whole.
ScanFacts(d, style, content, unresolved) ==
    /\ d.schema = style
    /\ DOMAIN d.resources \subseteq DOMAIN Bill[content]
    /\ \A a \in DOMAIN d.resources :
        /\ ViewFacts(style, content, a, unresolved, d.resources[a])
        /\ style = "v2" \/ d.resources[a].supported
    /\ d.total # Null =>
        /\ d.total \in Nat /\ DriftOf(d) \in Int
        /\ d.total = DriftOf(d) +
            SumFunctionOnSet(CostsOf(Parse(d), DOMAIN Bill[content]), DOMAIN Bill[content])
    /\ Parse(d).coverage.unsupported \in Nat
    /\ Parse(d).coverage.noPrice \in Nat
    /\ Parse(d).coverage.unsupported = 0 /\ Parse(d).coverage.noPrice = 0 /\ CountsUnpriced(d) =>
        /\ DOMAIN d.resources = DOMAIN Bill[content]
        /\ \A a \in DOMAIN d.resources :
            Covered(d.resources[a]) /\ ~Unpriced(d.resources[a])

\* The cost that is read off a listed resource.
LEMMA CostAsParsed ==
    ASSUME NEW style \in {"v2", "v0.10"}, NEW d, d.schema = style, NEW a \in DOMAIN d.resources
    PROVE  /\ DOMAIN Parse(d).resources = DOMAIN d.resources
           /\ Parse(d).resources[a] = ParseResource(style, d.resources[a])
           /\ CostIn(Parse(d), a) = Paid(ParseResource(style, d.resources[a]).cost)
<1>1. /\ DOMAIN Parse(d).resources = DOMAIN d.resources
      /\ Parse(d).resources[a] = ParseResource(style, d.resources[a])
    BY DEF Parse, ParseResource
<1> QED
    BY <1>1 DEF CostIn, Paid

\* The resources of a document are views, and the others have no cost.
LEMMA ResourcesAreViews ==
    ASSUME NEW style \in {"v2", "v0.10"}, NEW content \in Content, NEW unresolved,
           NEW unsupported, NEW unpriced, NEW views,
           views = ViewsOf(style, content, unresolved, unsupported, unpriced),
           NEW d, Documents(d, style, views)
    PROVE  /\ DOMAIN views = DOMAIN Bill[content]
           /\ d.schema = style
           /\ DOMAIN d.resources \subseteq DOMAIN views
           /\ style = "v2" => DOMAIN d.resources = DOMAIN views
           /\ \A a \in DOMAIN views : ViewFacts(style, content, a, unresolved, views[a])
           /\ \A a \in DOMAIN d.resources :
                d.resources[a] = views[a] /\ (style = "v2" \/ d.resources[a].supported)
           /\ \A a \in DOMAIN views \ DOMAIN d.resources : views[a].cost = Null
           /\ \A a \in DOMAIN views : CostIn(Parse(d), a) = Paid(views[a].cost)
           /\ \A a \in DOMAIN views : CostIn(Parse(d), a) \in Nat
<1>1. DOMAIN views = DOMAIN Bill[content]
    BY DEF ViewsOf
<1>2. \A a \in DOMAIN views : ViewFacts(style, content, a, unresolved, views[a])
    BY <1>1, ViewsOfResources DEF ViewsOf
<1>3. /\ DOMAIN d.resources \subseteq DOMAIN views /\ d.schema = style
      /\ style = "v2" => DOMAIN d.resources = DOMAIN views
      /\ \A a \in DOMAIN d.resources :
            d.resources[a] = views[a] /\ (style = "v2" \/ d.resources[a].supported)
      /\ \A a \in DOMAIN views \ DOMAIN d.resources : style # "v2" /\ ~views[a].supported
    <2>1. CASE style = "v2"
        BY <2>1 DEF Documents
    <2>2. CASE style = "v0.10"
        BY <2>2 DEF Documents, Restrict, SupportedIn
    <2> QED
        BY <2>1, <2>2
<1>4. \A a \in DOMAIN views \ DOMAIN d.resources : views[a].cost = Null
    BY <1>2, <1>3 DEF ViewFacts
<1>5. ASSUME NEW a \in DOMAIN views
      PROVE  CostIn(Parse(d), a) = Paid(views[a].cost) /\ CostIn(Parse(d), a) \in Nat
    <2>1. CASE a \in DOMAIN d.resources
        <3>1. CostIn(Parse(d), a) = Paid(ParseResource(style, views[a]).cost)
            BY <1>3, <2>1, CostAsParsed
        <3>2. /\ ParseResource(style, views[a]).cost \in Nat \cup {Null}
              /\ Paid(views[a].cost) = Paid(ParseResource(style, views[a]).cost)
            BY <1>2, <1>3, <2>1 DEF ViewFacts
        <3> QED
            BY <3>1, <3>2 DEF Paid
    <2>2. CASE a \notin DOMAIN d.resources
        <3>1. a \notin DOMAIN Parse(d).resources
            BY <2>2 DEF Parse
        <3> QED
            BY <1>4, <2>2, <3>1, UnlistedCostsNothing DEF Paid
    <2> QED
        BY <2>1, <2>2
<1> QED
    BY <1>1, <1>2, <1>3, <1>4, <1>5

\* What Infracost adds up is the sum of the costs as they are parsed, and its total
\* is off that by the drift.
LEMMA TotalAddsUp ==
    ASSUME NEW style \in {"v2", "v0.10"}, NEW content \in Content, NEW unresolved,
           NEW unsupported, NEW unpriced, NEW views,
           views = ViewsOf(style, content, unresolved, unsupported, unpriced),
           NEW d, Documents(d, style, views)
    PROVE  d.total # Null =>
            /\ d.total \in Nat /\ DriftOf(d) \in Int
            /\ d.total = DriftOf(d) +
                SumFunctionOnSet(CostsOf(Parse(d), DOMAIN Bill[content]), DOMAIN Bill[content])
<1> DEFINE D == DOMAIN Bill[content]
           priced == {a \in DOMAIN views : views[a].cost # Null}
           costs == [a \in priced |-> views[a].cost]
           all == CostsOf(Parse(d), D)
<1>1. IsFiniteSet(D) /\ D = DOMAIN views
    BY ContentsAreFinite, ResourcesAreViews
<1>2. priced \in SUBSET D /\ IsFiniteSet(priced)
    BY <1>1, FS_Subset
<1>3. \A a \in D : all[a] \in Int /\ all[a] = Paid(views[a].cost)
    BY <1>1, ResourcesAreViews DEF CostsOf
<1>4. \A a \in priced : costs[a] \in Int /\ costs[a] = all[a]
    BY <1>2, <1>3 DEF Paid
<1>5. \A a \in D \ priced : all[a] = 0
    BY <1>1, <1>3 DEF Paid
<1>6. SumOfViews(views) = SumFunctionOnSet(costs, priced)
    BY DEF SumOfViews, SumFunction, SumFunctionOnSet
<1>9. SumOfViews(d.resources) = SumOfViews(views)
    <2>1. {a \in DOMAIN d.resources : d.resources[a].cost # Null} = priced
        BY ResourcesAreViews
    <2>2. \A a \in priced : d.resources[a].cost = views[a].cost
        BY <2>1, ResourcesAreViews
    <2>3. [a \in {b \in DOMAIN d.resources : d.resources[b].cost # Null} |-> d.resources[a].cost] = costs
        BY <2>1, <2>2
    <2> QED
        BY <2>3 DEF SumOfViews
<1>10. \A a \in D : all[a] \in Nat
    BY <1>1, ResourcesAreViews DEF CostsOf
<1> HIDE DEF D, priced, costs, all
<1>11. SumFunctionOnSet(all, D) \in Nat
    BY <1>1, <1>10, SumIsNatural
<1>7. SumFunctionOnSet(costs, priced) = SumFunctionOnSet(all, priced)
    BY <1>2, <1>4, SumsOfEqualTerms
<1>8. SumFunctionOnSet(all, priced) = SumFunctionOnSet(all, D)
    BY <1>1, <1>2, <1>3, <1>5, SumWithoutZeros
<1>12. SumOfViews(views) = SumFunctionOnSet(all, D)
    BY <1>6, <1>7, <1>8
<1>13. d.total # Null => d.total \in Nat
    BY <1>11, <1>12, DriftAssumption DEF Documents, TotalsOf
<1>14. DriftOf(d) = d.total - SumFunctionOnSet(all, D)
    BY <1>9, <1>12 DEF DriftOf
<1>15. d.total # Null =>
        d.total \in Nat /\ DriftOf(d) \in Int /\ d.total = DriftOf(d) + SumFunctionOnSet(all, D)
    BY <1>11, <1>13, <1>14
<1> QED
    BY <1>15 DEF all, D

\* The counts of what could not be priced are counts, and when both are zero and
\* count what they should, nothing is unpriced.
LEMMA CoverageCounts ==
    ASSUME NEW style \in {"v2", "v0.10"}, NEW content \in Content, NEW unresolved,
           NEW unsupported, NEW unpriced, NEW views,
           views = ViewsOf(style, content, unresolved, unsupported, unpriced),
           NEW d, Documents(d, style, views)
    PROVE  /\ Coverage(d).unsupported \in Nat
           /\ Coverage(d).noPrice \in Nat
           /\ Coverage(d).unsupported = 0 /\ Coverage(d).noPrice = 0 /\ CountsUnpriced(d) =>
                /\ DOMAIN d.resources = DOMAIN Bill[content]
                /\ \A a \in DOMAIN d.resources :
                    Covered(d.resources[a]) /\ ~Unpriced(d.resources[a])
<1> DEFINE D == DOMAIN views
<1>1. IsFiniteSet(D) /\ D = DOMAIN Bill[content] /\ d.schema = style
    BY ContentsAreFinite, ResourcesAreViews
<1>2. \A T \in SUBSET D : IsFiniteSet(T) /\ Cardinality(T) \in Nat /\ (Cardinality(T) = 0 => T = {})
    BY <1>1, FS_Subset, FS_CardinalityType, FS_EmptySet
<1>3. CASE style = "v2"
    <2> DEFINE missed == {a \in D : ~views[a].supported /\ views[a].parts = <<>>}
               lacking == {a \in D : ParseV2Resource(views[a]).missing}
               counted == d.summary.detected - d.summary.costed - d.summary.free
    <2>1. d.resources = views
        BY <1>3 DEF Documents
    <2>2. counted \in Int
        <3>1. PICK free \in SUBSET D :
                /\ d.summary.detected = Cardinality(D)
                /\ d.summary.costed = Cardinality(CoveredIn(views) \ free)
                /\ d.summary.free = Cardinality(free)
            BY <1>3 DEF Documents
        <3>2. CoveredIn(views) \ free \in SUBSET D
            BY DEF CoveredIn
        <3> QED
            BY <1>2, <3>1, <3>2
    <2>3. missed \in SUBSET D /\ lacking \in SUBSET D
        OBVIOUS
    <2>4. /\ Coverage(d).unsupported = Max({Cardinality(missed), counted, 0})
          /\ Coverage(d).noPrice = Cardinality(lacking)
        BY <1>1, <1>3, <2>1 DEF Coverage
    <2>5. \A a \in D : a \notin missed => Covered(views[a])
        BY DEF Covered
    <2>6. \A a \in D : ParseV2Resource(views[a]).missing <=> Unpriced(views[a])
        BY <1>3, ResourcesAreViews DEF ViewFacts, ParseResource
    <2> HIDE DEF missed, lacking, counted
    <2>7. /\ Max({Cardinality(missed), counted, 0}) \in Nat
          /\ Max({Cardinality(missed), counted, 0}) = 0 => Cardinality(missed) = 0
        <3> DEFINE three == {Cardinality(missed), counted, 0}
        <3>1. Cardinality(missed) \in Nat
            BY <1>2, <2>3
        <3>2. Max(three) \in three /\ \A n \in three : Max(three) >= n
            BY <2>2, <3>1, LargestOfThree
        <3>3. Max(three) \in Int /\ Max(three) >= 0 /\ Max(three) >= Cardinality(missed)
            BY <2>2, <3>1, <3>2
        <3> HIDE DEF three
        <3>4. Max(three) \in Nat /\ (Max(three) = 0 => Cardinality(missed) = 0)
            BY <3>1, <3>3
        <3> QED
            BY <3>4 DEF three
    <2>8. Coverage(d).unsupported = 0 /\ Coverage(d).noPrice = 0 => missed = {} /\ lacking = {}
        BY <1>2, <2>3, <2>4, <2>7
    <2> QED
        BY <1>1, <1>2, <2>1, <2>3, <2>4, <2>5, <2>6, <2>7, <2>8 DEF missed, lacking
<1>4. CASE style = "v0.10"
    <2> DEFINE S == SupportedIn(views)
               lacking == {a \in DOMAIN d.resources : Unpriced(d.resources[a])}
    <2>1. S \in SUBSET D /\ D \ S \in SUBSET D
        BY DEF SupportedIn
    <2>2. DOMAIN d.resources = S /\ \A a \in S : d.resources[a] = views[a] /\ views[a].supported
        BY <1>4 DEF Documents, Restrict, SupportedIn
    <2>3. /\ Coverage(d).unsupported = Cardinality(D \ S)
          /\ Coverage(d).noPrice = d.summary.noPrice
        BY <1>1, <1>4 DEF Coverage, Documents
    <2>4. d.summary.noPrice \in Nat
        BY <1>2, <1>4 DEF Documents
    <2>5. lacking \in SUBSET D
        BY <2>1, <2>2
    <2>6. CountsUnpriced(d) => d.summary.noPrice >= Cardinality(lacking)
        BY <1>1, <1>4 DEF CountsUnpriced
    <2> HIDE DEF D, S, lacking
    <2>7. Coverage(d).unsupported = 0 => D \ S = {}
        BY <1>2, <2>1, <2>3
    <2>8. Coverage(d).noPrice = 0 /\ CountsUnpriced(d) => lacking = {}
        BY <1>2, <2>3, <2>4, <2>5, <2>6
    <2> QED
        BY <1>1, <1>2, <2>1, <2>2, <2>3, <2>4, <2>7, <2>8 DEF lacking, Covered
<1> QED
    BY <1>3, <1>4

\* Whatever a scan answers, the facts hold of it.
LEMMA ScansAreFactual ==
    ASSUME NEW style \in {"v2", "v0.10"}, NEW content \in Content, NEW unresolved \in SUBSET Address,
           NEW d \in ScansOf(style, content, unresolved)
    PROVE  ScanFacts(d, style, content, unresolved)
<1>1. PICK unsupported, unpriced :
            Documents(d, style, ViewsOf(style, content, unresolved, unsupported, unpriced))
    BY ScansDocumentViews
<1> DEFINE views == ViewsOf(style, content, unresolved, unsupported, unpriced)
<1>2. /\ DOMAIN views = DOMAIN Bill[content]
      /\ d.schema = style
      /\ DOMAIN d.resources \subseteq DOMAIN views
      /\ \A a \in DOMAIN views : ViewFacts(style, content, a, unresolved, views[a])
      /\ \A a \in DOMAIN d.resources :
            d.resources[a] = views[a] /\ (style = "v2" \/ d.resources[a].supported)
    BY <1>1, ResourcesAreViews
<1>3. d.total # Null =>
        /\ d.total \in Nat /\ DriftOf(d) \in Int
        /\ d.total = DriftOf(d) +
            SumFunctionOnSet(CostsOf(Parse(d), DOMAIN Bill[content]), DOMAIN Bill[content])
    BY <1>1, TotalAddsUp
<1>5. Parse(d).coverage = Coverage(d)
    BY DEF Parse
<1>6. /\ Coverage(d).unsupported \in Nat
      /\ Coverage(d).noPrice \in Nat
      /\ Coverage(d).unsupported = 0 /\ Coverage(d).noPrice = 0 /\ CountsUnpriced(d) =>
            /\ DOMAIN d.resources = DOMAIN Bill[content]
            /\ \A a \in DOMAIN d.resources :
                Covered(d.resources[a]) /\ ~Unpriced(d.resources[a])
    BY <1>1, CoverageCounts
<1> HIDE DEF views
<1> QED
    BY <1>2, <1>3, <1>5, <1>6 DEF ScanFacts

\* A scan parses to costs of resources there are.
LEMMA ScansParse ==
    ASSUME NEW style \in {"v2", "v0.10"}, NEW content \in Content, NEW unresolved,
           NEW d, ScanFacts(d, style, content, unresolved)
    PROVE  /\ Costed(Parse(d))
           /\ DOMAIN Parse(d).resources = DOMAIN d.resources
           /\ DOMAIN Parse(d).resources \subseteq DOMAIN Bill[content]
           /\ IsFiniteSet(DOMAIN Bill[content])
<1>1. DOMAIN Parse(d).resources = DOMAIN d.resources
    BY DEF Parse
<1>2. IsFiniteSet(DOMAIN Bill[content]) /\ DOMAIN d.resources \subseteq DOMAIN Bill[content]
    BY ContentsAreFinite DEF ScanFacts
<1>3. IsFiniteSet(DOMAIN d.resources)
    BY <1>2, FS_Subset
<1>4. ASSUME NEW a \in DOMAIN d.resources
      PROVE  Parse(d).resources[a].cost \in Nat \cup {Null}
    <2>1. Parse(d).resources[a] = ParseResource(style, d.resources[a])
        BY CostAsParsed DEF ScanFacts
    <2> QED
        BY <2>1 DEF ScanFacts, ViewFacts
<1> QED
    BY <1>1, <1>2, <1>3, <1>4 DEF Costed

\* No scan prices a resource higher than it is, or a content but for the drift.
LEMMA ScansDoNotOverprice ==
    ASSUME NEW style \in {"v2", "v0.10"}, NEW content \in Content, NEW unresolved,
           NEW d, ScanFacts(d, style, content, unresolved)
    PROVE  /\ \A a \in DOMAIN Bill[content] : CostIn(Parse(d), a) <= TrueCost(content, a)
           /\ d.total # Null =>
                /\ d.total \in Nat /\ DriftOf(d) \in Int
                /\ d.total <= TrueTotal(content) + DriftOf(d)
           /\ TrueTotal(content) \in Int
<1> DEFINE D == DOMAIN Bill[content]
           costs == CostsOf(Parse(d), D)
           true == [a \in D |-> TrueCost(content, a)]
<1>1. \A a \in D : TrueCost(content, a) \in Nat
    BY PricesAreNatural
<1>2. \A a \in D : CostIn(Parse(d), a) \in Nat
    BY ScansParse, CostsAreNatural
<1>3. ASSUME NEW a \in D
      PROVE  CostIn(Parse(d), a) <= TrueCost(content, a)
    <2>1. CASE a \in DOMAIN d.resources
        BY <2>1, CostAsParsed DEF ScanFacts, ViewFacts
    <2>2. CASE a \notin DOMAIN d.resources
        BY <1>1, <2>2, ScansParse, UnlistedCostsNothing
    <2> QED
        BY <2>1, <2>2
<1>4. IsFiniteSet(D)
    BY ContentsAreFinite
<1>5. \A a \in D : costs[a] \in Nat /\ true[a] \in Nat /\ costs[a] <= true[a]
    BY <1>1, <1>2, <1>3 DEF CostsOf
<1>6. d.total # Null =>
        d.total \in Nat /\ DriftOf(d) \in Int /\ d.total = DriftOf(d) + SumFunctionOnSet(costs, D)
    BY DEF ScanFacts
<1>7. TrueTotal(content) = SumFunctionOnSet(true, D)
    BY DEF TrueTotal, SumFunction, SumFunctionOnSet
<1> HIDE DEF D, costs, true
<1>8. /\ SumFunctionOnSet(costs, D) \in Nat /\ SumFunctionOnSet(true, D) \in Nat
      /\ SumFunctionOnSet(costs, D) <= SumFunctionOnSet(true, D)
    BY <1>4, <1>5, SumIsNatural, SumIsMonotonic
<1> QED
    BY <1>3, <1>6, <1>7, <1>8 DEF D

\* A resource that a document covers, and has all prices of, is priced as it is.
LEMMA CoveredIsPriced ==
    ASSUME NEW style \in {"v2", "v0.10"}, NEW content \in Content,
           NEW d, ScanFacts(d, style, content, {}),
           NEW a \in DOMAIN d.resources, Covered(d.resources[a]), ~Unpriced(d.resources[a])
    PROVE  /\ a \in DOMAIN Bill[content]
           /\ CostIn(Parse(d), a) = TrueCost(content, a)
<1>1. a \in DOMAIN Bill[content] /\ ViewFacts(style, content, a, {}, d.resources[a])
    BY DEF ScanFacts
<1>2. Found(d.resources[a]) = DOMAIN Bill[content][a]
    BY <1>1 DEF ViewFacts
<1>3. CostIn(Parse(d), a) = PricedAt(content, a, DOMAIN Bill[content][a])
    BY <1>1, <1>2, CostAsParsed DEF ScanFacts, ViewFacts
<1> QED
    BY <1>1, <1>3, PricesAreNatural

\* A scan with every resource covered and no part without a price has all of it.
LEMMA CompleteScansPriceAll ==
    ASSUME NEW style \in {"v2", "v0.10"}, NEW content \in Content,
           NEW d, ScanFacts(d, style, content, {}), d.total # Null, CountsUnpriced(d),
           Parse(d).coverage.unsupported = 0, Parse(d).coverage.noPrice = 0
    PROVE  /\ \A a \in DOMAIN Bill[content] : CostIn(Parse(d), a) = TrueCost(content, a)
           /\ d.total = TrueTotal(content) + DriftOf(d)
<1> DEFINE D == DOMAIN Bill[content]
           costs == CostsOf(Parse(d), D)
           true == [a \in D |-> TrueCost(content, a)]
<1>1. \A a \in D : /\ a \in DOMAIN d.resources
                   /\ Covered(d.resources[a]) /\ ~Unpriced(d.resources[a])
    BY DEF ScanFacts
<1>2. \A a \in D : CostIn(Parse(d), a) = TrueCost(content, a)
    BY <1>1, CoveredIsPriced
<1>3. \A a \in D : TrueCost(content, a) \in Nat
    BY PricesAreNatural
<1>4. \A a \in D : costs[a] = true[a] /\ costs[a] \in Int /\ true[a] \in Int
    BY <1>2, <1>3 DEF CostsOf
<1>5. IsFiniteSet(D)
    BY ContentsAreFinite
<1>6. d.total \in Nat /\ DriftOf(d) \in Int /\ d.total = DriftOf(d) + SumFunctionOnSet(costs, D)
    BY DEF ScanFacts
<1>7. TrueTotal(content) = SumFunctionOnSet(true, D)
    BY DEF TrueTotal, SumFunction, SumFunctionOnSet
<1> HIDE DEF D, costs, true
<1>8. SumFunctionOnSet(costs, D) = SumFunctionOnSet(true, D) /\ SumFunctionOnSet(costs, D) \in Int
    BY <1>4, <1>5, SumsOfEqualTerms, SumIsInteger
<1> QED
    BY <1>2, <1>6, <1>7, <1>8 DEF D

=============================================================================
