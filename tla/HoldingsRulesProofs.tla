------------------------- MODULE HoldingsRulesProofs -------------------------
(***************************************************************************)
(* Proofs about HoldingsRules, for every crosswalk, document and source:   *)
(* the inductive invariant IInv, and from it type correctness, the         *)
(* faithful index, attested identities, the account of the rows and the    *)
(* derived weights.                                                        *)
(***************************************************************************)
EXTENDS HoldingsRules, SequenceTheorems, FiniteSetTheorems, TLAPS

\* What the resolver answers is an ISIN or nothing.
LEMMA ResolveType ==
    ASSUME index \in [Texts -> Isins \cup {None}], NEW row \in Row
    PROVE  /\ Resolve(row).isin \in Isins \cup {None}
           /\ Resolve(row).method \in {"source_isin", "crosswalk"}
  BY TextAssumption DEF Resolve, Usable, Row

\* A valid row's weight is a fraction between 0 and 1.
LEMMA WeightType ==
    ASSUME total \in Cell, NEW row \in Row, Valid(row)
    PROVE  /\ Weight(row) \in Nat \X (Nat \ {0})
           /\ Weight(row)[1] <= Weight(row)[2]
<1>1. Weight(row) \in Int \X Int
  <2>1. \A x, y \in Cell : Quotient(x, y) \in Int \X Int
    BY DEF Quotient, Cell
  <2>2. [k |-> "num", v |-> 100] \in Cell
    BY DEF Cell
  <2> QED  BY <2>1, <2>2 DEF Weight, Row
<1> QED  BY <1>1 DEF Valid

\* The initial states satisfy the invariant.
LEMMA Start == Init => RowsInv
<1> SUFFICES ASSUME Init PROVE RowsInv
  OBVIOUS
<1> USE DEF Init
<1>1. TypeOK
  BY InputAssumption DEF TypeOK, Cell, Zero
<1>2. IndexFaithful /\ IdentityAttested /\ EveryRowOnce /\ RowLoop
  BY DEF IndexFaithful, IdentityAttested, EveryRowOnce, RowLoop
<1>3. IndexLoop
  <2>1. Reviewed(at - 1) = {}
    BY InputAssumption DEF Reviewed
  <2>2. Len(crosswalk) \in Nat
    BY InputAssumption
  <2> QED  BY <2>1, <2>2, TextAssumption DEF IndexLoop, Contradictory, Indexes
<1> QED  BY <1>1, <1>2, <1>3 DEF RowsInv

\* One more row is reviewed, or not.
LEMMA OneMore ==
    ASSUME TypeOK, at \in DOMAIN crosswalk
    PROVE  Reviewed(at) = Reviewed(at - 1) \cup
                          (IF Enters(crosswalk[at]) THEN {at} ELSE {})
  BY DEF TypeOK, Reviewed, Enters

\* Steps that leave records, quarantine and index alone, and their loops.
LEMMA Quiet ==
    ASSUME RowsInv, UNCHANGED <<inputs, index, kept, quarantined>>
    PROVE  /\ IdentityAttested'
           /\ \A n : Reviewed(n)' = Reviewed(n)
           /\ \A J : /\ Contradictory(J)' = Contradictory(J)
                     /\ Indexes(J)' = Indexes(J)
           /\ AllReviewed' = AllReviewed
  BY DEF RowsInv, IdentityAttested, inputs, Reviewed, AllReviewed, Contradictory,
         Indexes, Says, Usable

\* The loop over the crosswalk.
LEMMA SkipRowKeeps == RowsInv /\ SkipRow => RowsInv'
<1> SUFFICES ASSUME RowsInv, SkipRow PROVE RowsInv'
  OBVIOUS
<1>1. TypeOK'
  BY DEF RowsInv, TypeOK, SkipRow, inputs
<1>2. at' - 1 = at /\ at \in DOMAIN crosswalk
  BY DEF RowsInv, TypeOK, SkipRow
<1>3. Reviewed(at) = Reviewed(at - 1)
  BY OneMore, <1>2 DEF RowsInv, SkipRow
<1>4. IndexLoop'
  <2>1. ~Contradictory(Reviewed(at)) /\ Indexes(Reviewed(at))
    BY <1>3 DEF RowsInv, IndexLoop, SkipRow
  <2>2. at' <= Len(crosswalk') + 1
    BY <1>2 DEF RowsInv, TypeOK, SkipRow, inputs
  <2> QED  BY <1>2, <2>1, <2>2 DEF IndexLoop, SkipRow, inputs, Contradictory, Indexes, Says, Reviewed
<1>5. IndexFaithful' /\ IdentityAttested' /\ EveryRowOnce' /\ RowLoop'
  BY Quiet DEF RowsInv, SkipRow, IndexFaithful, EveryRowOnce, RowLoop
<1> QED  BY <1>1, <1>4, <1>5 DEF RowsInv

LEMMA IndexRowKeeps == RowsInv /\ IndexRow => RowsInv'
<1> SUFFICES ASSUME RowsInv, IndexRow PROVE RowsInv'
  OBVIOUS
<1>1. at \in DOMAIN crosswalk /\ at' - 1 = at /\ crosswalk[at] \in CrosswalkRow
  BY DEF RowsInv, TypeOK, IndexRow
<1>2. TypeOK'
  <2>1. index' \in [Texts -> Isins \cup {None}]
    BY <1>1, TextAssumption DEF RowsInv, TypeOK, IndexRow, Clashes, CrosswalkRow
  <2> QED  BY <2>1 DEF RowsInv, TypeOK, IndexRow, inputs
<1>3. Reviewed(at) = Reviewed(at - 1) \cup {at}
  BY OneMore, <1>1 DEF RowsInv, IndexRow
<1>4. \A n : Reviewed(n)' = Reviewed(n)
  BY DEF IndexRow, inputs, Reviewed
<1>5. \A J : Contradictory(J)' = Contradictory(J)
  BY DEF IndexRow, inputs, Contradictory
<1> DEFINE J == Reviewed(at - 1)
           k0 == Upper[crosswalk[at].key]
           i0 == Upper[crosswalk[at].id]
<1>6. /\ k0 \in Texts /\ i0 \in Isins
      /\ index' = [index EXCEPT ![k0] = i0]
      /\ index[k0] \in {None, i0}
      /\ i0 # None
  BY <1>1, TextAssumption DEF IndexRow, Clashes, CrosswalkRow
<1>7. /\ J \subseteq DOMAIN crosswalk
      /\ \A j \in DOMAIN crosswalk : /\ Upper[crosswalk[j].key] \in Texts
                                     /\ Upper[crosswalk[j].id] \in Texts
  <2>1. J \subseteq DOMAIN crosswalk
    BY DEF Reviewed
  <2>2. \A j \in DOMAIN crosswalk : crosswalk[j] \in CrosswalkRow
    BY DEF RowsInv, TypeOK
  <2> QED  BY <2>1, <2>2, TextAssumption DEF CrosswalkRow
<1>8. ~Contradictory(J) /\ Indexes(J)
  BY DEF RowsInv, IndexLoop, IndexRow
\* What was said of the key before is what is said of it now.
<1>9. \A j \in J : Upper[crosswalk[j].key] = k0 => Upper[crosswalk[j].id] = i0
  <2> SUFFICES ASSUME NEW j \in J, Upper[crosswalk[j].key] = k0
               PROVE  Upper[crosswalk[j].id] = i0
    OBVIOUS
  <2>1. Upper[crosswalk[j].id] \in Isins
    BY <1>8 DEF Contradictory
  <2>2. index[k0] = Upper[crosswalk[j].id]
    BY <2>1, <1>6, <1>8 DEF Indexes, Says
  <2> QED  BY <2>1, <2>2, <1>6, TextAssumption
<1>10. ~Contradictory(J \cup {at})
  BY <1>6, <1>8, <1>9 DEF Contradictory
<1>11. \A k \in Texts, i \in Isins :
          index'[k] = i <=> \E j \in J \cup {at} : Says(j, k, i)
  <2> SUFFICES ASSUME NEW k \in Texts, NEW i \in Isins
               PROVE  index'[k] = i <=> \E j \in J \cup {at} : Says(j, k, i)
    OBVIOUS
  <2>1. CASE k = k0
    BY <2>1, <1>6, <1>9 DEF Says, RowsInv, TypeOK
  <2>2. CASE k # k0
    <3>1. index'[k] = index[k] /\ ~Says(at, k, i)
      BY <2>2, <1>6 DEF Says, RowsInv, TypeOK
    <3> QED  BY <3>1, <1>8 DEF Indexes
  <2> QED  BY <2>1, <2>2
<1>12. IndexLoop'
  <2>1. at' <= Len(crosswalk') + 1
    BY <1>1 DEF RowsInv, TypeOK, IndexRow, inputs
  <2>2. /\ ~Contradictory(Reviewed(at))
        /\ \A k \in Texts, i \in Isins :
              index'[k] = i <=> \E j \in Reviewed(at) : Says(j, k, i)
    BY <1>3, <1>10, <1>11
  <2> QED  BY <1>1, <2>1, <2>2
           DEF IndexLoop, IndexRow, inputs, Contradictory, Indexes, Says, Reviewed
<1>13. IndexFaithful' /\ EveryRowOnce' /\ RowLoop' /\ IdentityAttested'
  BY DEF RowsInv, IndexRow, IndexFaithful, EveryRowOnce, RowLoop, IdentityAttested
<1> QED  BY <1>2, <1>12, <1>13 DEF RowsInv

LEMMA RefuseRowKeeps == RowsInv /\ RefuseRow => RowsInv'
<1> SUFFICES ASSUME RowsInv, RefuseRow PROVE RowsInv'
  OBVIOUS
<1>1. TypeOK'
  BY DEF RowsInv, TypeOK, RefuseRow, inputs
<1>2. at \in DOMAIN crosswalk /\ at \in AllReviewed
  BY DEF RowsInv, TypeOK, RefuseRow, Enters, AllReviewed, Reviewed
<1>3. Contradictory(AllReviewed)
  <2> DEFINE k0 == Upper[crosswalk[at].key]
             i0 == Upper[crosswalk[at].id]
  <2>1. CASE i0 \notin Isins
    BY <2>1, <1>2 DEF Contradictory
  <2>2. CASE i0 \in Isins
    <3>1. index[k0] \notin {None, i0}
      BY <2>2 DEF RefuseRow, Clashes
    <3>2. k0 \in Texts /\ index[k0] \in Isins
      <4>1. crosswalk[at] \in CrosswalkRow
        BY <1>2 DEF RowsInv, TypeOK
      <4>2. k0 \in Texts
        BY <4>1, TextAssumption DEF CrosswalkRow
      <4> QED  BY <3>1, <4>2 DEF RowsInv, TypeOK
    <3>3. PICK j \in Reviewed(at - 1) : Says(j, k0, index[k0])
      BY <3>2 DEF RowsInv, IndexLoop, RefuseRow, Indexes
    <3>4. j \in AllReviewed
      BY <1>2 DEF Reviewed, AllReviewed, RowsInv, TypeOK
    <3> QED  BY <3>1, <3>3, <3>4, <1>2 DEF Contradictory, Says
  <2> QED  BY <2>1, <2>2
<1>4. IndexFaithful'
  BY <1>3, Quiet DEF RefuseRow, IndexFaithful
<1>5. IdentityAttested' /\ IndexLoop' /\ EveryRowOnce' /\ RowLoop'
  BY Quiet DEF RowsInv, RefuseRow, IndexLoop, EveryRowOnce, RowLoop
<1> QED  BY <1>1, <1>4, <1>5 DEF RowsInv

LEMMA IndexDoneKeeps == RowsInv /\ IndexDone => RowsInv'
<1> SUFFICES ASSUME RowsInv, IndexDone PROVE RowsInv'
  OBVIOUS
<1>1. TypeOK'
  BY DEF RowsInv, TypeOK, IndexDone, inputs
<1>2. Reviewed(at - 1) = AllReviewed
  BY DEF RowsInv, TypeOK, IndexLoop, IndexDone, Reviewed, AllReviewed
<1>3. IndexFaithful'
  BY <1>2, Quiet DEF RowsInv, IndexLoop, IndexDone, IndexFaithful
<1>4. IdentityAttested' /\ IndexLoop' /\ EveryRowOnce' /\ RowLoop'
  BY Quiet DEF RowsInv, IndexDone, IndexLoop, EveryRowOnce, RowLoop
<1> QED  BY <1>1, <1>3, <1>4 DEF RowsInv

\* The date and the total.
LEMMA CheckDatesKeeps == RowsInv /\ CheckDates => RowsInv'
<1> SUFFICES ASSUME RowsInv, CheckDates PROVE RowsInv'
  OBVIOUS
<1>1. TypeOK'
  BY DEF RowsInv, TypeOK, CheckDates, inputs
<1>2. IndexFaithful' /\ IdentityAttested' /\ IndexLoop' /\ EveryRowOnce' /\ RowLoop'
  BY Quiet DEF RowsInv, CheckDates, IndexFaithful, IndexLoop, EveryRowOnce, RowLoop
<1> QED  BY <1>1, <1>2 DEF RowsInv

LEMMA AddValueKeeps == RowsInv /\ AddValue => RowsInv'
<1> SUFFICES ASSUME RowsInv, AddValue PROVE RowsInv'
  OBVIOUS
<1>1. total' \in Cell
  <2>1. document[at].value \in Cell
    <3>1. document[at] \in Row
      BY DEF RowsInv, TypeOK, AddValue
    <3> QED  BY <3>1 DEF Row
  <2>2. \A x, y \in Cell : Plus(x, y) \in Cell
    BY DEF Plus, Cell, Nan
  <2>3. total \in Cell /\ Missing \in Cell
    BY DEF RowsInv, TypeOK, Cell, Missing
  <2> QED  BY <2>1, <2>2, <2>3 DEF AddValue
<1>2. /\ pc' \in {"total", "rows"} /\ at' \in Nat \ {0}
      /\ pc' = "rows" => at' = 1
      /\ pc = "total"
  BY DEF RowsInv, TypeOK, AddValue
<1>3. UNCHANGED <<inputs, index, kept, quarantined>>
  BY DEF AddValue
<1>4. TypeOK'
  BY <1>1, <1>2, <1>3 DEF RowsInv, TypeOK, inputs
<1>5. IndexFaithful' /\ IdentityAttested' /\ IndexLoop' /\ EveryRowOnce'
  BY <1>2, <1>3, Quiet DEF RowsInv, IndexFaithful, IndexLoop, EveryRowOnce
<1>6. RowLoop'
  <2>1. Len(document) \in Nat
    BY DEF RowsInv, TypeOK
  <2> QED  BY <2>1, <1>2, <1>3 DEF RowsInv, RowLoop, inputs
<1> QED  BY <1>4, <1>5, <1>6 DEF RowsInv

LEMMA TotalDoneKeeps == RowsInv /\ TotalDone => RowsInv'
<1> SUFFICES ASSUME RowsInv, TotalDone PROVE RowsInv'
  OBVIOUS
<1>1. TypeOK'
  BY DEF RowsInv, TypeOK, TotalDone, inputs, Missing, Cell
<1>2. IndexFaithful' /\ IdentityAttested' /\ IndexLoop' /\ EveryRowOnce'
  BY Quiet DEF RowsInv, TotalDone, IndexFaithful, IndexLoop, EveryRowOnce
<1>3. RowLoop'
  <2>1. Len(document) \in Nat
    BY DEF RowsInv, TypeOK
  <2> QED  BY <2>1 DEF RowsInv, TotalDone, RowLoop, inputs
<1> QED  BY <1>1, <1>2, <1>3 DEF RowsInv

\* The rows.
LEMMA QuarantineRowKeeps == RowsInv /\ QuarantineRow => RowsInv'
<1> SUFFICES ASSUME RowsInv, QuarantineRow PROVE RowsInv'
  OBVIOUS
<1>1. at \in Nat \ {0} /\ at <= Len(document) /\ Len(document) \in Nat
  BY DEF RowsInv, TypeOK, QuarantineRow
<1>2. TypeOK'
  BY DEF RowsInv, TypeOK, QuarantineRow, inputs
<1>3. IndexFaithful' /\ IdentityAttested' /\ IndexLoop' /\ EveryRowOnce'
  <2>1. IndexFaithful' /\ IndexLoop' /\ EveryRowOnce'
    BY DEF RowsInv, QuarantineRow, inputs, IndexFaithful, IndexLoop, EveryRowOnce,
           Reviewed, AllReviewed, Contradictory, Indexes, Says
  <2>2. IdentityAttested'
    BY Quiet DEF RowsInv, QuarantineRow, inputs, IdentityAttested, Reviewed,
                 AllReviewed, Says, Usable
  <2> QED  BY <2>1, <2>2
<1>4. RowLoop'
  <2>1. {r.row : r \in kept} \cup quarantined = 1 .. at - 1
    BY DEF RowsInv, RowLoop, QuarantineRow
  <2>2. \A r \in kept : r.row # at
    <3> SUFFICES ASSUME NEW r \in kept PROVE r.row # at
      OBVIOUS
    <3>1. r.row \in 1 .. at - 1
      BY <2>1
    <3> QED  BY <3>1, <1>1
  <2>3. {r.row : r \in kept} \cup (quarantined \cup {at}) = 1 .. at
    BY <1>1, <2>1
  <2> QED  BY <1>1, <2>2, <2>3 DEF RowsInv, RowLoop, QuarantineRow, inputs
<1> QED  BY <1>2, <1>3, <1>4 DEF RowsInv

LEMMA KeepRowKeeps == RowsInv /\ KeepRow => RowsInv'
<1> SUFFICES ASSUME RowsInv, KeepRow PROVE RowsInv'
  OBVIOUS
<1> DEFINE row == document[at]
           new == [row |-> at, isin |-> Resolve(row).isin,
                   method |-> Resolve(row).method, weight |-> Weight(row),
                   derived |-> Derived(row)]
<1>1. /\ at \in Nat \ {0} /\ at <= Len(document) /\ Len(document) \in Nat
      /\ row \in Row
  BY DEF RowsInv, TypeOK, KeepRow
<1>2. kept' = kept \cup {new} /\ ~Quarantined(row) /\ Valid(row)
  BY DEF KeepRow
<1>3. Resolve(row).isin \in Isins /\ Resolve(row).method \in {"source_isin", "crosswalk"}
  BY <1>1, <1>2, ResolveType DEF Quarantined, RowsInv, TypeOK
<1>4. Weight(row) \in Nat \X (Nat \ {0}) /\ Weight(row)[1] <= Weight(row)[2]
  BY <1>1, <1>2, WeightType DEF RowsInv, TypeOK
<1>5. TypeOK'
  <2>1. new \in [row : Nat \ {0}, isin : Isins,
                 method : {"source_isin", "crosswalk"},
                 weight : Nat \X (Nat \ {0}), derived : BOOLEAN]
    BY <1>1, <1>3, <1>4 DEF Derived
  <2>2. new.weight[1] <= new.weight[2]
    BY <1>4
  <2> QED  BY <1>2, <2>1, <2>2 DEF RowsInv, TypeOK, KeepRow, inputs
<1>6. IndexFaithful' /\ IndexLoop' /\ EveryRowOnce'
  BY DEF RowsInv, KeepRow, inputs, IndexFaithful, IndexLoop, EveryRowOnce,
         Reviewed, AllReviewed, Contradictory, Indexes, Says
<1>7. ~Contradictory(AllReviewed) /\ Indexes(AllReviewed)
  BY DEF RowsInv, IndexFaithful, KeepRow
\* The new record's identity is its row's, or the crosswalk's only answer.
<1>8. IF Usable(row.isin) # None
        THEN new.isin = Upper[row.isin]
        ELSE /\ \E j \in AllReviewed : Says(j, Upper[row.key], new.isin)
             /\ \A j \in AllReviewed, i \in Texts :
                  Says(j, Upper[row.key], i) => i = new.isin
  <2>1. CASE Usable(row.isin) # None
    BY <2>1, <1>3, TextAssumption DEF Resolve, Usable
  <2>2. CASE Usable(row.isin) = None
    <3>1. Usable(row.key) # None /\ new.isin = index[Upper[row.key]]
      <4>1. Resolve(row).isin = IF Usable(row.key) = None THEN None
                                ELSE index[Upper[Usable(row.key)]]
        BY <2>2 DEF Resolve
      <4>2. None \notin Isins
        BY TextAssumption
      <4>3. Usable(row.key) # None
        BY <4>1, <4>2, <1>3
      <4>4. Usable(row.key) = row.key
        BY <4>3 DEF Usable
      <4> QED  BY <4>1, <4>3, <4>4
    <3>2. row.key \in Texts
      BY <3>1, <1>1 DEF Usable, Row
    <3>3. Upper[row.key] \in Texts
      BY <3>2, TextAssumption
    <3>4. PICK j \in AllReviewed : Says(j, Upper[row.key], new.isin)
      BY <3>1, <3>3, <1>3, <1>7 DEF Indexes
    <3>5. \A l \in AllReviewed, i \in Texts :
            Says(l, Upper[row.key], i) => i = new.isin
      BY <3>4, <1>7 DEF Contradictory, Says
    <3> QED  BY <2>2, <3>4, <3>5
  <2> QED  BY <2>1, <2>2
<1>9. IdentityAttested'
  <2>1. IdentityAttested
    BY DEF RowsInv
  <2> QED  BY <2>1, <1>2, <1>8 DEF IdentityAttested, KeepRow, inputs, Usable,
              AllReviewed, Reviewed, Says
<1>10. RowLoop'
  <2>1. {r.row : r \in kept} \cup quarantined = 1 .. at - 1
    BY DEF RowsInv, RowLoop, KeepRow
  <2>2. at \notin quarantined /\ \A r \in kept : r.row # at
    BY <1>1, <2>1
  <2>3. {r.row : r \in kept'} = {r.row : r \in kept} \cup {at}
    <3>1. new.row = at
      OBVIOUS
    <3> HIDE DEF new
    <3> QED  BY <1>2, <3>1
  <2>4. {r.row : r \in kept'} \cup quarantined = 1 .. at
    <3>1. 1 .. at = (1 .. at - 1) \cup {at}
      BY <1>1
    <3> QED  BY <2>1, <2>3, <3>1
  <2>5. \A r, s \in kept' : r.row = s.row => r = s
    BY <1>2, <2>2 DEF RowsInv, RowLoop
  <2> QED  BY <1>1, <2>2, <2>3, <2>4, <2>5 DEF RowsInv, RowLoop, KeepRow, inputs
<1> QED  BY <1>5, <1>6, <1>9, <1>10 DEF RowsInv

LEMMA CrashRowKeeps == RowsInv /\ CrashRow => RowsInv'
<1> SUFFICES ASSUME RowsInv, CrashRow PROVE RowsInv'
  OBVIOUS
<1>1. TypeOK'
  BY DEF RowsInv, TypeOK, CrashRow, inputs
<1>2. IndexFaithful' /\ IdentityAttested' /\ IndexLoop' /\ EveryRowOnce' /\ RowLoop'
  BY Quiet DEF RowsInv, CrashRow, IndexFaithful, IndexLoop, EveryRowOnce, RowLoop
<1> QED  BY <1>1, <1>2 DEF RowsInv

LEMMA PublishKeeps == RowsInv /\ Publish => RowsInv'
<1> SUFFICES ASSUME RowsInv, Publish PROVE RowsInv'
  OBVIOUS
<1>1. TypeOK'
  BY DEF RowsInv, TypeOK, Publish, inputs
<1>2. EveryRowOnce'
  <2>1. at - 1 = Len(document) /\ DOMAIN document = 1 .. Len(document)
    BY DEF RowsInv, TypeOK, RowLoop, Publish
  <2> QED  BY <2>1 DEF RowsInv, RowLoop, Publish, EveryRowOnce, inputs
<1>3. IndexFaithful' /\ IdentityAttested' /\ IndexLoop' /\ RowLoop'
  BY Quiet DEF RowsInv, Publish, IndexFaithful, IndexLoop, RowLoop
<1> QED  BY <1>1, <1>2, <1>3 DEF RowsInv

LEMMA StutterKeeps == RowsInv /\ UNCHANGED vars => RowsInv'
<1> SUFFICES ASSUME RowsInv, UNCHANGED vars PROVE RowsInv'
  OBVIOUS
<1>1. TypeOK'
  BY DEF RowsInv, TypeOK, vars, inputs
<1>2. UNCHANGED <<inputs, pc, at, index, total, kept, quarantined>>
  BY DEF vars
<1>3. IndexFaithful' /\ IdentityAttested'
  BY <1>2, Quiet DEF RowsInv, IndexFaithful
<1>4. EveryRowOnce' /\ RowLoop'
  BY <1>2 DEF RowsInv, inputs, EveryRowOnce, RowLoop
<1>5. IndexLoop'
  BY DEF RowsInv, vars, inputs, IndexLoop, Reviewed, Contradictory, Indexes, Says
<1> QED  BY <1>1, <1>3, <1>4, <1>5 DEF RowsInv

-----------------------------------------------------------------------------
(* Sums over a document.                                                   *)

\* Induction on numbers, stated for a set.  A number k that is missing would
\* leave the missing numbers up to k with an injection into themselves, one
\* down, that never reaches k; a finite set has none.
LEMMA NumbersFromZero ==
    ASSUME NEW T \in SUBSET Nat, 0 \in T, \A n \in T : n + 1 \in T
    PROVE  T = Nat
<1> SUFFICES ASSUME NEW k \in Nat, k \notin T PROVE FALSE
  OBVIOUS
<1> DEFINE U == {m \in 0 .. k : m \notin T}
           down == [m \in U |-> m - 1]
<1>1. IsFiniteSet(U)
  <2>1. IsFiniteSet(0 .. k)
    BY FS_Interval
  <2> QED  BY <2>1, FS_Subset
<1>2. \A m \in U : m - 1 \in U
  <2> SUFFICES ASSUME NEW m \in U PROVE m - 1 \in U
    OBVIOUS
  <2>1. m # 0 /\ m - 1 \in Nat /\ m - 1 \in 0 .. k
    OBVIOUS
  <2>2. m - 1 \notin T
    BY <2>1
  <2> QED  BY <2>1, <2>2
<1>3. down \in Injection(U, U)
  BY <1>2 DEF Injection, IsInjective
<1>4. down \in Surjection(U, U)
  <2> HIDE DEF U, down
  <2> QED  BY <1>1, <1>3, FS_Injection
<1>5. k \in U
  OBVIOUS
<1>6. PICK m \in U : m - 1 = k
  BY <1>4, <1>5 DEF Surjection
<1> QED  BY <1>6

\* Summing is well defined: some function is the running sum of d.
LEMMA RunningSum ==
    ASSUME NEW d
    PROVE  \E f : f = [n \in Nat |-> IF n = 0 THEN 0 ELSE f[n - 1] + d[n]]
<1> DEFINE Step(f, i) == IF i = 0 THEN 0 ELSE f[i - 1] + d[i]
           Prefix(f, n) == f = [i \in 0 .. n |-> Step(f, i)]
           T == {n \in Nat : \E f : Prefix(f, n)}
<1>1. 0 \in T
  <2>1. Prefix([i \in 0 .. 0 |-> 0], 0)
    OBVIOUS
  <2> QED  BY <2>1
<1>2. ASSUME NEW n \in T PROVE n + 1 \in T
  <2>1. n \in Nat /\ n + 1 \in Nat
    OBVIOUS
  <2>2. PICK f : Prefix(f, n)
    OBVIOUS
  <2> DEFINE g == [i \in 0 .. n + 1 |-> IF i = n + 1 THEN f[n] + d[n + 1]
                                        ELSE f[i]]
  <2>3. ASSUME NEW i \in 0 .. n + 1 PROVE g[i] = Step(g, i)
    <3>1. CASE i = n + 1
      BY <2>1, <3>1
    <3>2. CASE i # n + 1
      <4>1. i \in 0 .. n /\ g[i] = f[i]
        BY <2>1, <3>2
      <4>2. f[i] = Step(f, i)
        BY <2>2, <4>1
      <4>3. i # 0 => i - 1 \in 0 .. n + 1 /\ i - 1 # n + 1
        BY <2>1, <4>1
      <4> QED  BY <4>1, <4>2, <4>3
    <3> QED  BY <3>1, <3>2
  <2>4. Prefix(g, n + 1)
    <3>1. g = [i \in 0 .. n + 1 |-> g[i]]
      OBVIOUS
    <3> HIDE DEF g
    <3> QED  BY <2>3, <3>1
  <2> QED  BY <2>1, <2>4
<1>3. T = Nat
  <2>1. T \in SUBSET Nat
    OBVIOUS
  <2> HIDE DEF T
  <2> QED  BY <1>1, <1>2, <2>1, NumbersFromZero
<1>4. ASSUME NEW m \in Nat, NEW n \in Nat, NEW f, NEW g,
             Prefix(f, m), Prefix(g, n)
      PROVE  \A i \in Nat : i <= m /\ i <= n => f[i] = g[i]
  <2> DEFINE S == {i \in Nat : i <= m /\ i <= n => f[i] = g[i]}
  <2>0. /\ \A i \in 0 .. m : f[i] = Step(f, i)
        /\ \A i \in 0 .. n : g[i] = Step(g, i)
    BY <1>4
  <2>1. 0 \in S
    BY <2>0
  <2>2. ASSUME NEW i \in S PROVE i + 1 \in S
    BY <2>0, <2>2
  <2>3. S = Nat
    <3>1. S \in SUBSET Nat
      OBVIOUS
    <3> HIDE DEF S
    <3> QED  BY <2>1, <2>2, <3>1, NumbersFromZero
  <2> QED  BY <2>3
<1> DEFINE pre == [n \in Nat |-> CHOOSE f : Prefix(f, n)]
           sum == [n \in Nat |-> pre[n][n]]
<1>5. \A n \in Nat : Prefix(pre[n], n)
  <2> SUFFICES ASSUME NEW n \in Nat PROVE Prefix(pre[n], n)
    OBVIOUS
  <2>1. \E f : Prefix(f, n)
    BY <1>3
  <2>2. pre[n] = CHOOSE f : Prefix(f, n)
    OBVIOUS
  <2> HIDE DEF Prefix, pre
  <2> QED  BY <2>1, <2>2
<1> HIDE DEF pre, T
<1>6. ASSUME NEW n \in Nat PROVE sum[n] = Step(sum, n)
  <2>1. pre[n][n] = Step(pre[n], n)
    <3>1. \A f : Prefix(f, n) => f[n] = Step(f, n)
      OBVIOUS
    <3>2. Prefix(pre[n], n)
      BY <1>5
    <3> HIDE DEF Prefix, Step
    <3> QED  BY <3>1, <3>2
  <2>2. CASE n = 0
    BY <2>1, <2>2
  <2>3. CASE n # 0
    <3>1. n - 1 \in Nat /\ n - 1 <= n - 1 /\ n - 1 <= n
      BY <2>3
    <3>2. Prefix(pre[n - 1], n - 1) /\ Prefix(pre[n], n)
      BY <1>5, <3>1
    <3>3. pre[n - 1][n - 1] = pre[n][n - 1]
      <4> HIDE DEF Prefix
      <4> QED  BY <1>4, <3>1, <3>2
    <3> QED  BY <2>1, <2>3, <3>1, <3>3
  <2> QED  BY <2>2, <2>3
<1>7. sum = [n \in Nat |-> Step(sum, n)]
  <2>1. sum = [n \in Nat |-> sum[n]]
    OBVIOUS
  <2> HIDE DEF sum
  <2> QED  BY <1>6, <2>1
<1> HIDE DEF sum
<1> QED  BY <1>7

\* ValueSum is what its definition says.
LEMMA ValueSumStep ==
    \A n \in Nat : ValueSum[n] =
        IF n = 0 THEN 0
        ELSE ValueSum[n - 1] + (IF Positive(document[n].value)
                                  THEN document[n].value.v ELSE 0)
<1> DEFINE d == [n \in Nat |-> IF Positive(document[n].value)
                                 THEN document[n].value.v ELSE 0]
           Sums(f) == f = [n \in Nat |-> IF n = 0 THEN 0 ELSE f[n - 1] +
                             (IF Positive(document[n].value)
                                THEN document[n].value.v ELSE 0)]
<1>1. PICK f : f = [n \in Nat |-> IF n = 0 THEN 0 ELSE f[n - 1] + d[n]]
  <2> HIDE DEF d
  <2> QED  BY RunningSum
<1>2. Sums(f)
  BY <1>1
<1>3. Sums(ValueSum)
  BY <1>2, Zenon DEF ValueSum
<1> QED  BY <1>3

\* A finite value adds to the running total what ValueSum adds; NaN makes the
\* total of N-PORT NaN.
LEMMA AddValueTotal ==
    ASSUME RowsInv, AddValue, pc' = "total", TotalIs(at - 1),
           document[at].value.k # "inf"
    PROVE  TotalIs(at - 1)'
<1> DEFINE x == document[at].value
<1>1. /\ at \in Nat \ {0} /\ at - 1 \in Nat /\ x \in Cell /\ total \in Cell
      /\ source \in Sources
  <2>1. document[at] \in Row
    BY DEF RowsInv, TypeOK, AddValue
  <2> QED  BY <2>1 DEF RowsInv, TypeOK, Row
<1>2. /\ UNCHANGED <<inputs, index, kept, quarantined>> /\ pc = "total"
      /\ at' - 1 = at
  BY <1>1 DEF AddValue
<1>3. /\ source = "sec_nport" => x.k \notin {"missing", "invalid"} /\ ~Negative(x)
      /\ total' = IF source = "sec_nport" \/ Positive(x)
                    THEN Plus(total, x) ELSE total
  BY DEF AddValue
<1>4. ValueSum[at] = ValueSum[at - 1] + (IF Positive(x) THEN x.v ELSE 0)
  BY <1>1, ValueSumStep
<1>5. ValueSum' = ValueSum
  BY <1>2 DEF inputs, ValueSum
<1> HIDE DEF x
<1>6. x.k # "inf" /\ x.k \in {"missing", "invalid", "num", "nan"} /\ x.v \in Int
  BY <1>1 DEF Cell, x
<1>7. CASE source = "sec_nport" /\ (total = Nan \/ x.k = "nan")
  <2>1. total' = Nan
    BY <1>3, <1>7 DEF Plus, Nan
  <2> QED  BY <1>2, <1>7, <2>1 DEF TotalIs, inputs
<1>8. CASE source = "sec_nport" /\ total # Nan /\ x.k # "nan"
  <2>1. x.k = "num" /\ x.v >= 0
    BY <1>3, <1>6, <1>8 DEF Negative
  <2>2. /\ total = [k |-> "num", v |-> ValueSum[at - 1]]
        /\ \A i \in 1 .. at - 1 : document[i].value.k = "num" /\ document[i].value.v >= 0
    BY <1>8 DEF TotalIs
  <2>3. ValueSum[at - 1] \in Int
    BY <1>1, <2>2 DEF Cell
  <2>4. ValueSum[at] = ValueSum[at - 1] + x.v
    <3>1. CASE Positive(x)
      BY <1>4, <3>1
    <3>2. CASE ~Positive(x)
      <4>1. x.v = 0
        BY <1>6, <2>1, <3>2 DEF Positive
      <4> QED  BY <1>4, <2>3, <3>2, <4>1
    <3> QED  BY <3>1, <3>2
  <2>5. total' = [k |-> "num", v |-> ValueSum[at]]
    BY <1>3, <1>8, <2>1, <2>2, <2>4 DEF Plus
  <2>6. \A i \in 1 .. at : document[i].value.k = "num" /\ document[i].value.v >= 0
    BY <1>1, <2>1, <2>2 DEF x
  <2> QED  BY <1>2, <1>5, <2>5, <2>6 DEF TotalIs, inputs
<1>9. CASE source # "sec_nport"
  <2>1. total = [k |-> "num", v |-> ValueSum[at - 1]] /\ ValueSum[at - 1] \in Int
    BY <1>1, <1>9 DEF TotalIs, Cell
  <2>2. total' = [k |-> "num", v |-> ValueSum[at]]
    <3>1. CASE Positive(x)
      <4>1. x.k = "num"
        BY <1>6, <3>1 DEF Positive
      <4> QED  BY <1>3, <1>4, <2>1, <3>1, <4>1 DEF Plus
    <3>2. CASE ~Positive(x)
      BY <1>3, <1>4, <1>9, <2>1, <3>2
    <3> QED  BY <3>1, <3>2
  <2> QED  BY <1>2, <1>5, <1>9, <2>2 DEF TotalIs, inputs
<1> QED  BY <1>7, <1>8, <1>9

\* A weight that is derived and valid is the row's share of such a total.
LEMMA DerivedShare ==
    ASSUME NEW row \in Row, NEW n \in Nat, Valid(row), ~Quarantined(row), Derived(row),
           total = Missing \/ TotalIs(n), row.value.k # "inf"
    PROVE  /\ Weight(row) = <<row.value.v, ValueSum[n]>>
           /\ source = "sec_nport" =>
                \A i \in 1 .. n : document[i].value.k = "num" /\ document[i].value.v >= 0
<1>1. Weight(row) = Quotient(row.value, total) /\ Weight(row)[2] > 0
  BY DEF Weight, Derived, Valid
<1>2. row.value \in Cell
  BY DEF Row
<1>3. total # Missing
  BY <1>1, <1>2 DEF Quotient, Missing, Cell
<1>4. total # Nan
  BY <1>1 DEF Quotient, Nan
<1>5. total = [k |-> "num", v |-> ValueSum[n]]
  BY <1>3, <1>4 DEF TotalIs
<1>6. row.value.k # "nan"
  BY <1>1, <1>5 DEF Quotient
<1> QED  BY <1>1, <1>3, <1>4, <1>5, <1>6 DEF Quotient, TotalIs

\* Steps that keep records and total keep both parts.
LEMMA SharesKept ==
    ASSUME RowsInv, SharesInv, UNCHANGED <<inputs, kept, total>>,
           \/ pc' = pc /\ at' = at
           \/ pc' \in {"index", "refused", "rejected"} /\ pc = "index"
           \/ pc = "index" /\ pc' = "dates" /\ at' = 1
           \/ pc = "dates" /\ pc' = "rejected"
           \/ pc = "rows" /\ pc' \in {"rows", "crashed", "done"}
    PROVE  SharesInv'
<1>1. ValueSum' = ValueSum
  BY DEF inputs, ValueSum
<1>2. DerivedShares'
  BY <1>1 DEF SharesInv, DerivedShares, inputs
<1>3. \A n : TotalIs(n)' = TotalIs(n)
  BY <1>1 DEF TotalIs, inputs
<1>4. TotalLoop'
  BY <1>3 DEF SharesInv, TotalLoop, inputs
<1> QED  BY <1>2, <1>4 DEF SharesInv

\* The second part holds in the initial states.
LEMMA SharesStart == Init => SharesInv
  BY DEF Init, SharesInv, TotalLoop, DerivedShares

\* A step of the loop over the values.
LEMMA SharesAddValue == RowsInv /\ SharesInv /\ AddValue => SharesInv'
<1> SUFFICES ASSUME RowsInv, SharesInv, AddValue,
                    \A i \in DOMAIN document : document[i].value.k # "inf"
             PROVE  TotalLoop'
  <2>1. ASSUME RowsInv, SharesInv, AddValue PROVE DerivedShares'
    <3>1. kept = {}
      BY <2>1 DEF RowsInv, RowLoop, AddValue
    <3> QED  BY <2>1, <3>1 DEF DerivedShares, AddValue
  <2> QED  BY <2>1 DEF SharesInv, TotalLoop, AddValue, inputs
<1>1. /\ pc = "total" /\ UNCHANGED <<inputs, kept>>
      /\ at \in DOMAIN document /\ TotalIs(at - 1)
  BY DEF AddValue, RowsInv, TypeOK, SharesInv, TotalLoop
<1>2. CASE pc' = "total"
  <2>1. TotalIs(at - 1)'
    BY <1>1, <1>2, AddValueTotal
  <2>2. at' = at + 1 /\ at' <= Len(document) + 1
    BY <1>1, <1>2 DEF AddValue, RowsInv, TypeOK
  <2> QED  BY <1>1, <1>2, <2>1, <2>2 DEF TotalLoop, inputs
<1>3. CASE pc' # "total"
  BY <1>1, <1>3 DEF TotalLoop, AddValue
<1> QED  BY <1>2, <1>3

\* The loop ends: the total is the whole document's.
LEMMA SharesTotalDone == RowsInv /\ SharesInv /\ TotalDone => SharesInv'
<1> SUFFICES ASSUME RowsInv, SharesInv, TotalDone PROVE SharesInv'
  OBVIOUS
<1>1. ValueSum' = ValueSum
  BY DEF TotalDone, inputs, ValueSum
<1>2. DerivedShares'
  <2>1. kept = {}
    BY DEF RowsInv, RowLoop, TotalDone
  <2> QED  BY <2>1 DEF DerivedShares, TotalDone
<1>3. ASSUME \A i \in DOMAIN document : document[i].value.k # "inf"
      PROVE  total' = Missing \/ TotalIs(Len(document))'
  <2>1. at - 1 = Len(document)
    BY <1>3 DEF TotalDone, RowsInv, TypeOK, SharesInv, TotalLoop
  <2>2. TotalIs(Len(document))
    BY <1>3, <2>1 DEF TotalDone, SharesInv, TotalLoop
  <2> QED  BY <1>1, <2>2 DEF TotalIs, TotalDone, inputs
<1>4. TotalLoop'
  BY <1>3 DEF TotalLoop, TotalDone, inputs
<1> QED  BY <1>2, <1>4 DEF SharesInv

\* The dates are checked: the loop over the values starts from nothing.
LEMMA SharesCheckDates == RowsInv /\ SharesInv /\ CheckDates => SharesInv'
<1> SUFFICES ASSUME RowsInv, SharesInv, CheckDates PROVE SharesInv'
  OBVIOUS
<1>1. ValueSum' = ValueSum
  BY DEF CheckDates, inputs, ValueSum
<1>2. DerivedShares'
  BY <1>1 DEF SharesInv, DerivedShares, CheckDates, inputs
<1>3. ASSUME \A i \in DOMAIN document : document[i].value.k # "inf"
      PROVE  /\ at' = 1 /\ at' <= Len(document)' + 1
             /\ TotalIs(at - 1)'
  <2>1. at = 1 /\ total = Zero /\ Len(document) \in Nat
    BY <1>3 DEF CheckDates, SharesInv, TotalLoop, RowsInv, TypeOK
  <2>2. ValueSum[0] = 0
    BY ValueSumStep
  <2>3. at' - 1 = 0 /\ total' = Zero
    BY <2>1 DEF CheckDates
  <2> QED  BY <1>1, <2>1, <2>2, <2>3 DEF TotalIs, Zero, CheckDates, inputs
<1>4. TotalLoop'
  <2>1. pc' \in {"total", "rejected"} /\ document' = document
    BY DEF CheckDates, inputs
  <2> QED  BY <1>3, <2>1 DEF TotalLoop
<1> QED  BY <1>2, <1>4 DEF SharesInv

\* A record is added: a weight it derives is a share of the whole.
LEMMA SharesKeepRow == RowsInv /\ SharesInv /\ KeepRow => SharesInv'
<1> SUFFICES ASSUME RowsInv, SharesInv, KeepRow PROVE SharesInv'
  OBVIOUS
<1> DEFINE row == document[at]
<1>1. /\ at \in DOMAIN document /\ row \in Row /\ Len(document) \in Nat
      /\ DOMAIN document = 1 .. Len(document)
  BY DEF RowsInv, TypeOK, KeepRow
<1>2. /\ pc = "rows" /\ UNCHANGED <<inputs, pc, total>>
      /\ ~Quarantined(row) /\ Valid(row)
      /\ kept' = kept \cup {[row |-> at, isin |-> Resolve(row).isin,
                             method |-> Resolve(row).method, weight |-> Weight(row),
                             derived |-> Derived(row)]}
  BY DEF KeepRow
<1>3. ValueSum' = ValueSum
  BY <1>2 DEF inputs, ValueSum
<1>4. TotalLoop'
  <2>1. \A n : TotalIs(n)' = TotalIs(n)
    BY <1>2, <1>3 DEF TotalIs, inputs
  <2> QED  BY <1>2, <2>1 DEF SharesInv, TotalLoop, inputs
<1>5. ASSUME \A i \in DOMAIN document : document[i].value.k # "inf", Derived(row)
      PROVE  /\ Weight(row) = <<row.value.v, ValueSum[Len(document)]>>
             /\ source = "sec_nport" =>
                  \A i \in 1 .. Len(document) :
                     document[i].value.k = "num" /\ document[i].value.v >= 0
  <2>1. total = Missing \/ TotalIs(Len(document))
    BY <1>2, <1>5 DEF SharesInv, TotalLoop
  <2> HIDE DEF row
  <2>2. row.value.k # "inf"
    BY <1>1, <1>5 DEF row
  <2> QED  BY <1>1, <1>2, <1>5, <2>1, <2>2, DerivedShare
<1>6. DerivedShares'
  <2>1. document' = document /\ source' = source
    BY <1>2 DEF inputs
  <2> SUFFICES ASSUME NEW r \in kept', r.derived,
                      \A i \in DOMAIN document : document[i].value.k # "inf"
               PROVE  /\ r.weight = <<document[r.row].value.v, ValueSum[Len(document)]>>
                      /\ source = "sec_nport" =>
                           \A i \in DOMAIN document :
                              document[i].value.k = "num" /\ document[i].value.v >= 0
    BY <1>3, <2>1 DEF DerivedShares
  <2>2. CASE r \in kept
    BY <2>2 DEF SharesInv, DerivedShares
  <2>3. CASE r \notin kept
    <3>1. r.row = at /\ r.weight = Weight(row) /\ Derived(row)
      <4>1. r = [row |-> at, isin |-> Resolve(row).isin, method |-> Resolve(row).method,
                 weight |-> Weight(row), derived |-> Derived(row)]
        BY <1>2, <2>3, Zenon
      <4> QED  BY <4>1 DEF Derived
    <3> QED  BY <1>1, <1>5, <3>1
  <2> QED  BY <2>2, <2>3
<1> QED  BY <1>4, <1>6 DEF SharesInv

\* Every step keeps the second part.
LEMMA SharesStep == RowsInv /\ SharesInv /\ [Next]_vars => SharesInv'
<1> SUFFICES ASSUME RowsInv, SharesInv, [Next]_vars PROVE SharesInv'
  OBVIOUS
<1>1. CASE SkipRow \/ IndexRow \/ RefuseRow
  BY <1>1, SharesKept DEF SkipRow, IndexRow, RefuseRow
<1>2. CASE IndexDone
  BY <1>2, SharesKept DEF IndexDone
<1>3. CASE QuarantineRow \/ CrashRow \/ Publish
  BY <1>3, SharesKept DEF QuarantineRow, CrashRow, Publish
<1>4. CASE UNCHANGED vars
  BY <1>4, SharesKept DEF vars
<1>5. CASE CheckDates \/ AddValue \/ TotalDone \/ KeepRow
  BY <1>5, SharesCheckDates, SharesAddValue, SharesTotalDone, SharesKeepRow
<1> QED  BY <1>1, <1>2, <1>3, <1>4, <1>5 DEF Next

\* The invariant holds in every reachable state.
THEOREM Invariance == Spec => []IInv
<1>1. RowsInv /\ [Next]_vars => RowsInv'
  BY SkipRowKeeps, IndexRowKeeps, RefuseRowKeeps, IndexDoneKeeps, CheckDatesKeeps,
     AddValueKeeps, TotalDoneKeeps, QuarantineRowKeeps, KeepRowKeeps, CrashRowKeeps,
     PublishKeeps, StutterKeeps DEF Next
<1>2. IInv /\ [Next]_vars => IInv'
  BY <1>1, SharesStep DEF IInv
<1>3. Init => IInv
  BY Start, SharesStart DEF IInv
<1> QED  BY <1>2, <1>3, PTL DEF Spec

\* Types, and a weight between 0 and 1 in every record (create in records.py).
THEOREM TypeCorrect == Spec => []TypeOK
<1>1. IInv => TypeOK
  BY DEF IInv, RowsInv
<1> QED  BY <1>1, Invariance, PTL

\* Whatever the order and number of the rows of a crosswalk, the resolver
\* refuses it exactly for a contradiction and otherwise indexes all it says
\* (IdentifierResolver.__init__).
THEOREM FaithfulIndex == Spec => []IndexFaithful
<1>1. IInv => IndexFaithful
  BY DEF IInv, RowsInv
<1> QED  BY <1>1, Invariance, PTL

\* No record carries an identifier that neither its row nor the reviewed
\* crosswalk states unambiguously (resolve, and the adapters' normalize).
THEOREM AttestedIdentities == Spec => []IdentityAttested
<1>1. IInv => IdentityAttested
  BY DEF IInv, RowsInv
<1> QED  BY <1>1, Invariance, PTL

\* A published document accounts for each of its rows once (normalize).
THEOREM RowsAccounted == Spec => []EveryRowOnce
<1>1. IInv => EveryRowOnce
  BY DEF IInv, RowsInv
<1> QED  BY <1>1, Invariance, PTL

\* A weight that is derived is the row's value over the value of the whole
\* document, which the loop over the rows never sees twice, in part, or with
\* a negative or unknown position of N-PORT (normalize of both adapters).
THEOREM SharesOfTheWhole == Spec => []DerivedShares
<1>1. IInv => DerivedShares
  BY DEF IInv, SharesInv
<1> QED  BY <1>1, Invariance, PTL

=============================================================================
