--------------------------- MODULE OrderBook_proofs ---------------------------
(***************************************************************************)
(* What the two ways of changing the book do to the orders already in it.  *)
(***************************************************************************)
EXTENDS OrderBook, SequenceTheorems, FiniteSetTheorems, TLAPS

\* place_order adds one order of the given kind and trade under a new id and
\* leaves every earlier order as it was.
LEMMA PlaceLemma ==
    ASSUME BookTypeOK, NEW kind \in Kinds, NEW t \in Trades,
           NEW status \in Statuses, Place(kind, t, status)
    PROVE  /\ BookTypeOK'
           /\ NewId \in Nat /\ NewId \notin Ids
           /\ Ids' = Ids \cup {NewId}
           /\ \A o \in Ids : orders'[o] = orders[o]
           /\ orders'[NewId] = [kind |-> kind, trade |-> t, status |-> status]
           /\ \A k \in Kinds, u \in Trades :
                 Of(k, u)' = Of(k, u) \cup
                             (IF k = kind /\ u = t THEN {NewId} ELSE {})
<1> DEFINE new == [kind |-> kind, trade |-> t, status |-> status]
<1>1. new \in Order
  BY DEF Order
<1>2. /\ Len(orders) \in Nat
      /\ Ids = 1 .. Len(orders)
  BY LenProperties DEF BookTypeOK, Ids
<1>3. /\ orders' \in Seq(Order)
      /\ Len(orders') = Len(orders) + 1
      /\ \A o \in 1 .. Len(orders) : orders'[o] = orders[o]
      /\ orders'[Len(orders) + 1] = new
  BY <1>1 DEF BookTypeOK, Place
<1>4. Ids' = 1 .. (Len(orders) + 1)
  BY <1>3, LenProperties DEF Ids
<1>5. NewId \in Nat /\ NewId \notin Ids /\ Ids' = Ids \cup {NewId}
  BY <1>2, <1>4 DEF NewId
<1>6. /\ \A o \in Ids : orders'[o] = orders[o]
      /\ orders'[NewId] = new
  BY <1>2, <1>3 DEF NewId
<1>7. ASSUME NEW k \in Kinds, NEW u \in Trades
      PROVE  Of(k, u)' = Of(k, u) \cup (IF k = kind /\ u = t THEN {NewId} ELSE {})
  BY <1>5, <1>6 DEF Of
<1> QED
  BY <1>3, <1>5, <1>6, <1>7 DEF BookTypeOK

\* A fill, a rejection or a cancel changes nothing but statuses.
LEMMA SetStatusLemma ==
    ASSUME BookTypeOK, NEW S, NEW status \in Statuses, SetStatus(S, status)
    PROVE  /\ BookTypeOK'
           /\ Ids' = Ids
           /\ \A o \in Ids : orders'[o] =
                 IF o \in S THEN [orders[o] EXCEPT !.status = status] ELSE orders[o]
           /\ \A k \in Kinds, u \in Trades : Of(k, u)' = Of(k, u)
<1>1. Ids = 1 .. Len(orders) /\ Len(orders) \in Nat
  BY LenProperties DEF BookTypeOK, Ids
<1>2. \A o \in Ids : orders[o] \in Order
  BY <1>1, ElementOfSeq DEF BookTypeOK
<1>3. /\ Ids' = Ids
      /\ \A o \in Ids : orders'[o] =
            IF o \in S THEN [orders[o] EXCEPT !.status = status] ELSE orders[o]
  BY DEF SetStatus, Ids
<1>4. \A o \in Ids : /\ orders'[o] \in Order
                     /\ orders'[o].kind = orders[o].kind
                     /\ orders'[o].trade = orders[o].trade
  BY <1>2, <1>3 DEF Order
<1>5. orders' \in [1 .. Len(orders) -> Order]
  BY <1>1, <1>4 DEF SetStatus
<1>6. BookTypeOK'
  BY <1>1, <1>5, SeqDef DEF BookTypeOK
<1>7. ASSUME NEW k \in Kinds, NEW u \in Trades
      PROVE  Of(k, u)' = Of(k, u)
  BY <1>3, <1>4 DEF Of
<1> QED
  BY <1>3, <1>6, <1>7

\* Every order in the book is an order.
LEMMA BookElements ==
    ASSUME BookTypeOK
    PROVE  /\ Ids \subseteq Nat
           /\ \A o \in Ids : orders[o] \in Order
BY LenProperties, ElementOfSeq DEF BookTypeOK, Ids

-----------------------------------------------------------------------------
(* What they do to the net position of a symbol and to its resting orders.   *)

LEMMA BookFinite ==
    ASSUME BookTypeOK, NEW S \in SUBSET Ids
    PROVE  IsFiniteSet(S) /\ Cardinality(S) \in Nat
<1>1. Ids = 1 .. Len(orders) /\ Len(orders) \in Nat
  BY LenProperties DEF BookTypeOK, Ids
<1>2. IsFiniteSet(Ids)
  BY <1>1, FS_Interval
<1>3. QED BY <1>2, FS_Subset, FS_CardinalityType

LEMMA NetType ==
    ASSUME BookTypeOK, NEW s
    PROVE  /\ Net(s) = Cardinality(Bought(s)) - Cardinality(Sold(s))
           /\ Cardinality(Bought(s)) \in Nat /\ Cardinality(Sold(s)) \in Nat
           /\ Cardinality(Resting(s)) \in Nat /\ Net(s) \in Int
<1>1. Bought(s) \in SUBSET Ids /\ Sold(s) \in SUBSET Ids /\ Resting(s) \in SUBSET Ids
  BY DEF Bought, Sold, Done, Resting, Book
<1>2. Net(s) = Cardinality(Bought(s)) - Cardinality(Sold(s))
  BY DEF Net, Bought, Sold, Done
<1>3. QED BY <1>1, <1>2, BookFinite

\* What one new order adds to a set of orders.
LEMMA OneMore ==
    ASSUME BookTypeOK, NEW S \in SUBSET Ids, NEW cond \in BOOLEAN
    PROVE  Cardinality(S \cup IF cond THEN {NewId} ELSE {}) =
              Cardinality(S) + IF cond THEN 1 ELSE 0
<1>1. NewId \notin S
  BY LenProperties DEF BookTypeOK, Ids, NewId
<1>2. IsFiniteSet(S) /\ Cardinality(S) \in Nat
  BY BookFinite
<1>3. CASE cond
  BY <1>1, <1>2, <1>3, FS_AddElement
<1>4. CASE ~cond
  <2>1. S \cup {} = S
    OBVIOUS
  <2>2. QED BY <1>2, <1>4, <2>1
<1>5. QED BY <1>3, <1>4

\* A new order counts for its symbol only: by its side if it has filled, as
\* resting if it is open.
LEMMA PlaceNet ==
    ASSUME BookTypeOK, NEW kind \in Kinds, NEW t \in Trades,
           NEW status \in Statuses, Place(kind, t, status), NEW s
    PROVE  /\ Net(s)' = Net(s) + (IF SymbolOf[t] = s /\ status = "COMPLETE"
                                  THEN IF kind = "BUY" THEN 1 ELSE -1
                                  ELSE 0)
           /\ Cardinality(Resting(s))' =
                 Cardinality(Resting(s)) + IF SymbolOf[t] = s /\ status = "OPEN" THEN 1 ELSE 0
<1> DEFINE mine == SymbolOf[t] = s
<1>1. /\ BookTypeOK' /\ NewId \notin Ids /\ Ids' = Ids \cup {NewId}
      /\ \A o \in Ids : orders'[o] = orders[o]
      /\ orders'[NewId] = [kind |-> kind, trade |-> t, status |-> status]
  BY PlaceLemma
<1>2. Book(s)' = Book(s) \cup IF mine THEN {NewId} ELSE {}
  BY <1>1 DEF Book
<1>3. Bought(s)' = Bought(s) \cup
                      IF mine /\ status = "COMPLETE" /\ kind = "BUY" THEN {NewId} ELSE {}
  BY <1>1, <1>2 DEF Bought, Done, Book
<1>4. Sold(s)' = Sold(s) \cup
                    IF mine /\ status = "COMPLETE" /\ kind # "BUY" THEN {NewId} ELSE {}
  BY <1>1, <1>2 DEF Sold, Bought, Done, Book
<1>5. Resting(s)' = Resting(s) \cup IF mine /\ status = "OPEN" THEN {NewId} ELSE {}
  BY <1>1, <1>2 DEF Resting, Book
<1>6. Bought(s) \in SUBSET Ids /\ Sold(s) \in SUBSET Ids /\ Resting(s) \in SUBSET Ids
  BY DEF Bought, Sold, Done, Resting, Book
<1>7. Cardinality(Bought(s)') =
        Cardinality(Bought(s)) + IF mine /\ status = "COMPLETE" /\ kind = "BUY" THEN 1 ELSE 0
  BY <1>3, <1>6, OneMore
<1>8. Cardinality(Sold(s)') =
        Cardinality(Sold(s)) + IF mine /\ status = "COMPLETE" /\ kind # "BUY" THEN 1 ELSE 0
  BY <1>4, <1>6, OneMore
<1>9. Cardinality(Resting(s)') = Cardinality(Resting(s)) + IF mine /\ status = "OPEN" THEN 1 ELSE 0
  BY <1>5, <1>6, OneMore
<1>10. Net(s)' = Cardinality(Bought(s)') - Cardinality(Sold(s)')
  BY DEF Net, Bought, Sold, Done
<1>11. QED BY <1>7, <1>8, <1>9, <1>10, NetType

\* A book that does not change keeps its sums.
LEMMA SameNet ==
    ASSUME UNCHANGED orders, NEW s
    PROVE  Net(s)' = Net(s) /\ Resting(s)' = Resting(s)
  BY DEF Net, Bought, Sold, Done, Book, Ids, Resting

\* Sales that fill come out of what rests, one for one.
LEMMA FillNet ==
    ASSUME BookTypeOK, NEW r, NEW F \in SUBSET Resting(r), SetStatus(F, "COMPLETE"),
           \A o \in F : orders[o].kind # "BUY", NEW s
    PROVE  /\ Net(s)' <= Net(s)
           /\ Net(s)' - Cardinality(Resting(s))' = Net(s) - Cardinality(Resting(s))
<1> DEFINE G == F \cap Book(s)
<1>1. /\ BookTypeOK' /\ Ids' = Ids /\ \A o \in Ids : orders[o] \in Order
      /\ \A o \in Ids : orders'[o] =
            IF o \in F THEN [orders[o] EXCEPT !.status = "COMPLETE"] ELSE orders[o]
  BY SetStatusLemma, BookElements DEF Statuses
<1>2. \A o \in Ids : /\ orders'[o].kind = orders[o].kind /\ orders'[o].trade = orders[o].trade
                     /\ orders'[o].status = IF o \in F THEN "COMPLETE" ELSE orders[o].status
  BY <1>1 DEF Order
<1>3. F \subseteq Ids /\ \A o \in F : orders[o].status = "OPEN"
  BY DEF Resting, Book
<1>4. Book(s)' = Book(s) /\ Book(s) \subseteq Ids
  BY <1>1, <1>2 DEF Book
<1>5. Bought(s)' = Bought(s)
  BY <1>2, <1>3, <1>4 DEF Bought, Done
<1>6. Sold(s)' = Sold(s) \cup G /\ Sold(s) \cap G = {}
  BY <1>2, <1>3, <1>4 DEF Sold, Bought, Done
<1>7. Resting(s) = Resting(s)' \cup G /\ Resting(s)' \cap G = {}
  BY <1>2, <1>3, <1>4 DEF Resting
<1>8. /\ G \in SUBSET Ids /\ Sold(s) \in SUBSET Ids /\ Resting(s)' \in SUBSET Ids
      /\ Bought(s) \in SUBSET Ids /\ Resting(s) \in SUBSET Ids
  BY <1>4, <1>7 DEF Sold, Bought, Done, Resting
<1> HIDE DEF G
<1>9. /\ IsFiniteSet(G) /\ Cardinality(G) \in Nat
      /\ IsFiniteSet(Sold(s)) /\ Cardinality(Sold(s)) \in Nat
      /\ IsFiniteSet(Resting(s)') /\ Cardinality(Resting(s)') \in Nat
      /\ Cardinality(Bought(s)) \in Nat
  BY <1>8, BookFinite
<1>10. Cardinality(Sold(s)') = Cardinality(Sold(s)) + Cardinality(G)
  <2>1. Cardinality(Sold(s) \cup G) =
           Cardinality(Sold(s)) + Cardinality(G) - Cardinality(Sold(s) \cap G)
    BY <1>9, FS_Union
  <2>2. QED BY <1>6, <1>9, <2>1, FS_EmptySet
<1>11. Cardinality(Resting(s)) = Cardinality(Resting(s)') + Cardinality(G)
  <2>1. Cardinality(Resting(s)' \cup G) =
           Cardinality(Resting(s)') + Cardinality(G) - Cardinality(Resting(s)' \cap G)
    BY <1>9, FS_Union
  <2>2. QED BY <1>7, <1>9, <2>1, FS_EmptySet
<1>12. /\ Net(s) = Cardinality(Bought(s)) - Cardinality(Sold(s))
       /\ Net(s)' = Cardinality(Bought(s)') - Cardinality(Sold(s)')
  BY DEF Net, Sold, Bought, Done
<1>13. QED BY <1>5, <1>9, <1>10, <1>11, <1>12

\* A cancelled order neither adds to a net position nor takes from it.
LEMMA CancelNet ==
    ASSUME BookTypeOK, NEW x, Cancel(x), NEW s
    PROVE  Net(s)' = Net(s)
<1> DEFINE C == {y \in {x} : orders[y].status = "OPEN"}
<1>1. /\ Ids' = Ids /\ \A o \in Ids : orders[o] \in Order
      /\ \A o \in Ids : orders'[o] =
            IF o \in C THEN [orders[o] EXCEPT !.status = "CANCELLED"] ELSE orders[o]
  BY SetStatusLemma, BookElements DEF Statuses, Cancel
<1>2. \A o \in Ids : /\ orders'[o].kind = orders[o].kind /\ orders'[o].trade = orders[o].trade
                     /\ orders'[o].status = "COMPLETE" <=> orders[o].status = "COMPLETE"
  BY <1>1 DEF Order
<1>3. Book(s)' = Book(s) /\ Book(s) \subseteq Ids
  BY <1>1, <1>2 DEF Book
<1>4. Done(s)' = Done(s)
  BY <1>2, <1>3 DEF Done
<1>5. Bought(s)' = Bought(s)
  BY <1>2, <1>3, <1>4 DEF Bought, Done
<1>6. QED BY <1>4, <1>5 DEF Net, Sold
=============================================================================
