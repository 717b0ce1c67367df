---------------------------- MODULE HoldingsRules ----------------------------
(***************************************************************************)
(* How the adapters turn one parsed document into records: the resolver    *)
(* builds its index from the crosswalk, the document's date and total are  *)
(* taken, and every row becomes a record or a quarantine entry, or the     *)
(* whole document fails.  One action per turn of a loop of the code.       *)
(*                                                                         *)
(* Abstractions.  A text is an identifier without its surrounding blanks;  *)
(* Upper is upper-casing.  A crosswalk key stands for key type and key.    *)
(* A cell keeps what float() made of it, infinities and NaN included;      *)
(* finite arithmetic is exact.  Fields that are copied (names, currency,   *)
(* URLs, row ids) and the wording of reasons are left out.                 *)
(*                                                                         *)
(* Name_Bug is Name with one plausible mistake, never part of Spec.        *)
(***************************************************************************)
EXTENDS Integers, Sequences

CONSTANTS Texts, Upper,    \* identifiers, and their upper case
          Isins,           \* well-formed ISINs, upper case
          Placeholders,    \* texts such as N/A
          Crosswalks,      \* crosswalk files
          Documents        \* rows of a parsed document

None == "none"
Sources == {"sec_nport", "manager_basket"}

\* What float() made of a cell; v is the number, or the sign of an infinity.
Cell == [k : {"missing", "invalid", "num", "inf", "nan"}, v : Int]
Missing == [k |-> "missing", v |-> 0]
Nan == [k |-> "nan", v |-> 0]
Zero == [k |-> "num", v |-> 0]

CrosswalkRow == [reviewed : BOOLEAN, type : {"isin", "krx_code"},
                 key : Texts, id : Texts]
Row == [isin : Texts \cup {None}, key : Texts \cup {None}, name : BOOLEAN,
        percent : Cell, quantity : Cell, value : Cell]

ASSUME TextAssumption == /\ Upper \in [Texts -> Texts]
                         /\ Isins \subseteq Texts
                         /\ None \notin Texts
ASSUME InputAssumption == /\ Crosswalks \subseteq Seq(CrosswalkRow)
                          /\ Documents \subseteq Seq(Row)

VARIABLES
    source, crosswalk, document, dates,   \* the inputs
    pc,            \* loop the program is in, or how it ended
    at,            \* loop variable
    index,         \* IdentifierResolver._index
    total,         \* document total, Missing for Python's None
    kept,          \* records so far
    quarantined    \* numbers of the rows quarantined so far

inputs == <<source, crosswalk, document, dates>>
vars == <<inputs, pc, at, index, total, kept, quarantined>>

-----------------------------------------------------------------------------
(* float: comparisons are false for NaN, sums absorb infinities and NaN.   *)

Negative(x) == x.k \in {"num", "inf"} /\ x.v < 0
Positive(x) == x.k \in {"num", "inf"} /\ x.v > 0
Exceeds(x, n) == (x.k = "num" /\ x.v > n) \/ (x.k = "inf" /\ x.v > 0)
Plus(x, y) == IF "nan" \in {x.k, y.k} THEN Nan
              ELSE IF x.k = "inf" THEN x
              ELSE IF y.k = "inf" THEN y
              ELSE [k |-> "num", v |-> x.v + y.v]

\* Quotients as <<numerator, denominator>>; the denominator 0 marks a result
\* that is not finite.  The code never divides by zero.
Quotient(x, y) ==
    CASE "nan" \in {x.k, y.k} \/ (x.k = "inf" /\ y.k = "inf") -> <<0, 0>>
      [] x.k = "inf" /\ y.k = "num" -> <<1, 0>>
      [] x.k = "num" /\ y.k = "inf" -> <<0, 1>>
      [] OTHER -> <<x.v, y.v>>

-----------------------------------------------------------------------------
(* IdentifierResolver.                                                     *)

Enters_Unreviewed(row) == row.type = "isin"
Enters(row) == row.reviewed /\ row.type = "isin"

\* A malformed ISIN, or a key that is already mapped to another one.
Clashes_Never(row) == Upper[row.id] \notin Isins
Clashes(row) == \/ Upper[row.id] \notin Isins
                \/ index[Upper[row.key]] \notin {None, Upper[row.id]}

Usable(t) == IF source = "sec_nport" /\ t \in Placeholders THEN None ELSE t

Resolve_FallsThrough(row) ==
    LET isin == Usable(row.isin)
        key == Usable(row.key) IN
    IF isin # None /\ Upper[isin] \in Isins
      THEN [isin |-> Upper[isin], method |-> "source_isin"]
      ELSE [isin |-> IF key = None THEN None ELSE index[Upper[key]],
            method |-> "crosswalk"]

\* A source ISIN is final, even a malformed one.
Resolve(row) ==
    LET isin == Usable(row.isin)
        key == Usable(row.key) IN
    IF isin # None
      THEN [isin |-> IF Upper[isin] \in Isins THEN Upper[isin] ELSE None,
            method |-> "source_isin"]
      ELSE [isin |-> IF key = None THEN None ELSE index[Upper[key]],
            method |-> "crosswalk"]

-----------------------------------------------------------------------------
Init ==
    /\ source \in Sources
    /\ crosswalk \in Crosswalks
    /\ document \in Documents
    /\ dates \in {<<>>, <<"same">>, <<"other">>, <<"same", "other">>}
    /\ source = "manager_basket" => Len(dates) <= Len(document)
    /\ pc = "index" /\ at = 1
    /\ index = [t \in Texts |-> None]
    /\ total = Zero
    /\ kept = {} /\ quarantined = {}

\* A row that does not enter the index.
SkipRow ==
    /\ pc = "index" /\ at <= Len(crosswalk)
    /\ ~Enters(crosswalk[at])
    /\ at' = at + 1
    /\ UNCHANGED <<inputs, pc, index, total, kept, quarantined>>

IndexRow ==
    /\ pc = "index" /\ at <= Len(crosswalk)
    /\ LET row == crosswalk[at] IN
         /\ Enters(row) /\ ~Clashes(row)
         /\ index' = [index EXCEPT ![Upper[row.key]] = Upper[row.id]]
    /\ at' = at + 1
    /\ UNCHANGED <<inputs, pc, total, kept, quarantined>>

\* No resolver is built, and nothing is collected.
RefuseRow ==
    /\ pc = "index" /\ at <= Len(crosswalk)
    /\ Enters(crosswalk[at]) /\ Clashes(crosswalk[at])
    /\ pc' = "refused"
    /\ UNCHANGED <<inputs, at, index, total, kept, quarantined>>

IndexDone ==
    /\ pc = "index" /\ at > Len(crosswalk)
    /\ pc' = "dates" /\ at' = 1
    /\ UNCHANGED <<inputs, index, total, kept, quarantined>>

\* N-PORT states one date, the first found; a basket may state one per row.
Dated == IF source = "sec_nport"
           THEN dates # <<>> /\ Head(dates) = "same"
           ELSE \A i \in DOMAIN dates : dates[i] = "same"

CheckDates ==
    /\ pc = "dates"
    /\ pc' = IF Dated THEN "total" ELSE "rejected"
    /\ UNCHANGED <<inputs, at, index, total, kept, quarantined>>

AddValue_SkipsMissing ==
    /\ pc = "total" /\ at <= Len(document)
    /\ LET x == document[at].value IN
         total' = IF Positive(x) THEN Plus(total, x) ELSE total
    /\ at' = at + 1
    /\ UNCHANGED <<inputs, pc, index, kept, quarantined>>

\* N-PORT: no total unless every position has a value that is not negative.
\* Basket: the positive values only.
AddValue ==
    /\ pc = "total" /\ at <= Len(document)
    /\ LET x == document[at].value IN
         IF source = "sec_nport" /\ (x.k \in {"missing", "invalid"} \/ Negative(x))
           THEN total' = Missing /\ pc' = "rows" /\ at' = 1
           ELSE /\ total' = IF source = "sec_nport" \/ Positive(x)
                              THEN Plus(total, x) ELSE total
                /\ at' = at + 1
                /\ UNCHANGED pc
    /\ UNCHANGED <<inputs, index, kept, quarantined>>

TotalDone ==
    /\ pc = "total" /\ at > Len(document)
    /\ total' = IF source = "manager_basket" /\ ~Positive(total)
                  THEN Missing ELSE total
    /\ pc' = "rows" /\ at' = 1
    /\ UNCHANGED <<inputs, index, kept, quarantined>>

\* No weight can be told: none is published, and none may be derived.
Weightless(row) ==
    row.percent = Missing /\
      (\/ row.value.k = "missing"
       \/ total = Missing
       \/ source = "sec_nport" /\ ~Positive(total) /\ total.k # "nan")

Quarantined(row) ==
    \/ Resolve(row).isin = None
    \/ ~row.name
    \/ \E c \in {row.percent, row.quantity, row.value} : c.k = "invalid"
    \/ Negative(row.quantity)
    \/ source = "manager_basket" /\ Negative(row.value)
    \/ Negative(row.percent) \/ Exceeds(row.percent, 100)
    \/ Weightless(row)

Derived(row) == row.percent.k = "missing"
Weight(row) == IF Derived(row) THEN Quotient(row.value, total)
               ELSE Quotient(row.percent, [k |-> "num", v |-> 100])

\* HoldingsRecord.create accepts the row; otherwise it raises.
Valid_NoFinite(row) == Weight(row)[1] <= Weight(row)[2]
Valid(row) ==
    /\ Weight(row)[2] > 0
    /\ Weight(row)[1] \in 0 .. Weight(row)[2]
    /\ \A c \in {row.quantity, row.value} : c.k \in {"missing", "num"}

QuarantineRow ==
    /\ pc = "rows" /\ at <= Len(document)
    /\ Quarantined(document[at])
    /\ quarantined' = quarantined \cup {at}
    /\ at' = at + 1
    /\ UNCHANGED <<inputs, pc, index, total, kept>>

KeepRow ==
    /\ pc = "rows" /\ at <= Len(document)
    /\ LET row == document[at] IN
         /\ ~Quarantined(row) /\ Valid(row)
         /\ kept' = kept \cup
              {[row |-> at, isin |-> Resolve(row).isin,
                method |-> Resolve(row).method, weight |-> Weight(row),
                derived |-> Derived(row)]}
    /\ at' = at + 1
    /\ UNCHANGED <<inputs, pc, index, total, quarantined>>

CrashRow_Skips ==
    /\ pc = "rows" /\ at <= Len(document)
    /\ ~Quarantined(document[at]) /\ ~Valid(document[at])
    /\ at' = at + 1
    /\ UNCHANGED <<inputs, pc, index, total, kept, quarantined>>

\* The exception of create leaves normalize: nothing is published.
CrashRow ==
    /\ pc = "rows" /\ at <= Len(document)
    /\ ~Quarantined(document[at]) /\ ~Valid(document[at])
    /\ pc' = "crashed"
    /\ UNCHANGED <<inputs, at, index, total, kept, quarantined>>

\* Both files are published.
Publish ==
    /\ pc = "rows" /\ at > Len(document)
    /\ pc' = "done"
    /\ UNCHANGED <<inputs, at, index, total, kept, quarantined>>

Next == \/ SkipRow \/ IndexRow \/ RefuseRow \/ IndexDone \/ CheckDates
        \/ AddValue \/ TotalDone \/ QuarantineRow \/ KeepRow \/ CrashRow
        \/ Publish

Spec == Init /\ [][Next]_vars
-----------------------------------------------------------------------------
(* Properties.                                                             *)

\* Types; every record has a weight between 0 and 1.
TypeOK ==
    /\ source \in Sources
    /\ crosswalk \in Seq(CrosswalkRow) /\ document \in Seq(Row)
    /\ pc \in {"index", "dates", "total", "rows", "refused", "rejected",
               "crashed", "done"}
    /\ at \in Nat \ {0}
    /\ index \in [Texts -> Isins \cup {None}]
    /\ total \in Cell
    /\ kept \subseteq [row : Nat \ {0}, isin : Isins,
                       method : {"source_isin", "crosswalk"},
                       weight : Nat \X (Nat \ {0}), derived : BOOLEAN]
    /\ \A r \in kept : r.weight[1] <= r.weight[2]
    /\ quarantined \subseteq Nat \ {0}

\* The reviewed rows among the first n, those that map a key to an ISIN,
\* and what they say.
Reviewed(n) == {j \in DOMAIN crosswalk : /\ j <= n
                                         /\ crosswalk[j].reviewed
                                         /\ crosswalk[j].type = "isin"}
AllReviewed == Reviewed(Len(crosswalk))
Says(j, k, i) == Upper[crosswalk[j].key] = k /\ Upper[crosswalk[j].id] = i
Contradictory(J) ==
    \/ \E j \in J : Upper[crosswalk[j].id] \notin Isins
    \/ \E j, l \in J : /\ Upper[crosswalk[j].key] = Upper[crosswalk[l].key]
                       /\ Upper[crosswalk[j].id] # Upper[crosswalk[l].id]
Indexes(J) == \A k \in Texts, i \in Isins :
                 index[k] = i <=> \E j \in J : Says(j, k, i)

\* The index depends on the set of reviewed rows only, not on their order:
\* a contradictory crosswalk is refused wherever the contradiction stands,
\* and any other is indexed completely.
IndexFaithful ==
    /\ pc = "refused" => Contradictory(AllReviewed)
    /\ pc \notin {"index", "refused"} =>
         ~Contradictory(AllReviewed) /\ Indexes(AllReviewed)

\* A record names the ISIN its own row publishes, or, when the row publishes
\* none, the one and only ISIN that reviewed rows give its local key.
IdentityAttested ==
    \A r \in kept :
        LET row == document[r.row] IN
        IF Usable(row.isin) # None
          THEN r.isin = Upper[row.isin]
          ELSE /\ \E j \in AllReviewed : Says(j, Upper[row.key], r.isin)
               /\ \A j \in AllReviewed, i \in Texts :
                    Says(j, Upper[row.key], i) => i = r.isin

\* Every row of a published document is a record or in quarantine, never
\* both, never twice.
EveryRowOnce ==
    pc = "done" =>
        /\ {r.row : r \in kept} \cup quarantined = DOMAIN document
        /\ {r.row : r \in kept} \cap quarantined = {}
        /\ \A r, s \in kept : r.row = s.row => r = s

\* The inductive invariant, first part: what the loops over the crosswalk and
\* over the rows have established so far.
IndexLoop ==
    pc = "index" => /\ at <= Len(crosswalk) + 1
                    /\ ~Contradictory(Reviewed(at - 1))
                    /\ Indexes(Reviewed(at - 1))
RowLoop ==
    /\ pc \notin {"rows", "crashed", "done"} => kept = {} /\ quarantined = {}
    /\ pc = "rows" =>
         /\ at <= Len(document) + 1
         /\ {r.row : r \in kept} \cup quarantined = 1 .. at - 1
    /\ {r.row : r \in kept} \cap quarantined = {}
    /\ \A r, s \in kept : r.row = s.row => r = s
RowsInv == /\ TypeOK /\ IndexFaithful /\ IdentityAttested /\ EveryRowOnce
           /\ IndexLoop /\ RowLoop

\* The sum of the positive finite values of the first n rows.
ValueSum[n \in Nat] ==
    IF n = 0 THEN 0
    ELSE ValueSum[n - 1] + (IF Positive(document[n].value)
                              THEN document[n].value.v ELSE 0)

\* A derived weight is the row's share of the whole document, of every row
\* with a value, unresolved and quarantined rows included; from N-PORT only
\* if every value is known.  (A document with an infinite value has no such
\* total, and its rows get the weight 0.)
DerivedShares ==
    \A r \in kept : r.derived =>
        \/ \E i \in DOMAIN document : document[i].value.k = "inf"
        \/ /\ r.weight = <<document[r.row].value.v, ValueSum[Len(document)]>>
           /\ source = "sec_nport" =>
                \A i \in DOMAIN document :
                   document[i].value.k = "num" /\ document[i].value.v >= 0

\* The total the first n rows come to; one NaN makes N-PORT's total NaN.
TotalIs(n) ==
    \/ source = "sec_nport" /\ total = Nan
    \/ /\ total = [k |-> "num", v |-> ValueSum[n]]
       /\ source = "sec_nport" =>
            \A i \in 1 .. n : document[i].value.k = "num" /\ document[i].value.v >= 0

\* The loop over the values, of a document without infinities.
TotalLoop ==
    (\A i \in DOMAIN document : document[i].value.k # "inf") =>
        /\ pc \in {"index", "dates"} => total = Zero
        /\ pc = "dates" => at = 1
        /\ pc = "total" => at <= Len(document) + 1 /\ TotalIs(at - 1)
        /\ pc \in {"rows", "crashed", "done"} =>
             total = Missing \/ TotalIs(Len(document))

SharesInv == TotalLoop /\ DerivedShares

IInv == RowsInv /\ SharesInv

\* A row that cannot be used is quarantined; it does not fail the document
\* (docstrings of _normalize_position and _normalize_row).
QuarantinesNotCrashes == pc # "crashed"
=============================================================================
