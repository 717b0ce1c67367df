------------------------- MODULE ProductGraphProofs -------------------------
(***************************************************************************)
(* Proofs about ProductGraph, for every set of workbooks, releases, batch  *)
(* size and number of commands: the inductive invariant IInv, and from it  *)
(* all of the module's properties.                                         *)
(***************************************************************************)
EXTENDS ProductGraph, TLAPS

-----------------------------------------------------------------------------
(* What a row can become.                                                  *)

Spaces(d) == IF d = "domestic_bonds" THEN {"isin", "bond"}
             ELSE IF d = "public_funds" THEN {"public-fund"}
             ELSE {"isin", d}

\* The address a row of dataset d gets under the key.
Addressed(d, a, key) ==
    /\ a \in Addresses /\ a.key = key /\ a.space \in Spaces(d)
    /\ a.space = "isin" => a = IsinAddress(key)
    /\ d \notin ExchangeDatasets => a.market = NoText
    /\ d = "domestic_bonds" => (a.space = "isin" <=> key \in Isins)

SecurityAt(a) == [domain |-> "security", address |-> a]
FundAt(a) == [domain |-> "fund", address |-> a]

BondPayload(a, o) ==
    [kind |-> "bond", merges |-> {Node(SecurityAt(a), BondLabels)},
     observes |-> {<<SecurityAt(a), o>>}]
EtnPayload(a) ==
    [kind |-> "etn", merges |-> {Node(SecurityAt(a), EtnLabels)}, observes |-> {}]
FundPayload(a, o) ==
    [kind     |-> "fund",
     merges   |-> {Node(FundAt(a), FundLabels), Node(SecurityAt(a), FundUnitLabels)},
     observes |-> {<<SecurityAt(a), o>>}]

ShapedBy(d, a, o, p) ==
    /\ Addressed(d, a, o.key) /\ o.family = d
    /\ p \in {Issue, BondPayload(a, o), EtnPayload(a), FundPayload(a, o)}

\* The address of a row, with an ISIN or without.
LEMMA UriForms ==
    ASSUME NEW id, NEW fallback
    PROVE  /\ security_uri(id, fallback) =
                  SecurityAt(IF id \in Isins THEN IsinAddress(id) ELSE fallback)
           /\ fund_uri(id, fallback) =
                  FundAt(IF id \in Isins THEN IsinAddress(id) ELSE fallback)
  BY DEF security_uri, fund_uri, SecurityAt, FundAt

LEMMA IsinAddressed ==
    ASSUME NEW x \in Isins
    PROVE  /\ IsinAddress(x) \in Addresses /\ IsinAddress(x).key = x
           /\ IsinAddress(x).space = "isin" /\ IsinAddress(x).market = NoText
  BY TextAssumption DEF IsinAddress, Address, Addresses, Cells

LEMMA AsOfDate == ASSUME NEW row \in Rows PROVE as_of(row) \in Dates
  BY TextAssumption DEF as_of, Rows

LEMMA ObservationType ==
    ASSUME NEW d \in Datasets, NEW key \in Texts, NEW date \in Dates
    PROVE  /\ Observation(d, key, date) \in Observations
           /\ Observation(d, key, date).key = key
           /\ Observation(d, key, date).family = d
  BY DEF Observation, Observations, Datasets, ExchangeDatasets

LEMMA BondShape ==
    ASSUME NEW row \in Rows
    PROVE  transform_bond(row) = Issue
           \/ \E a \in Addresses, o \in Observations :
                  ShapedBy("domestic_bonds", a, o, transform_bond(row))
<1> SUFFICES ASSUME row.item # NoText
    PROVE  \E a \in Addresses, o \in Observations :
               ShapedBy("domestic_bonds", a, o, transform_bond(row))
  BY DEF transform_bond
<1> DEFINE local == Address("bond", NoText, row.item)
           a == IF row.item \in Isins THEN IsinAddress(row.item) ELSE local
           o == Observation("domestic_bonds", row.item, as_of(row))
<1>1. row.item \in Texts
  BY DEF Rows, Cells
<1>2. /\ local \in Addresses /\ local.key = row.item /\ local.space = "bond"
      /\ local.market = NoText
  BY <1>1 DEF Address, Addresses, Cells
<1>3. o \in Observations /\ o.key = row.item /\ o.family = "domestic_bonds"
  BY <1>1, AsOfDate, ObservationType DEF Datasets
<1>4. transform_bond(row) = BondPayload(a, o)
  BY UriForms DEF transform_bond, BondPayload
<1> HIDE DEF o, local
<1>5. Addressed("domestic_bonds", a, row.item)
  BY <1>2, IsinAddressed DEF Addressed, Spaces, ExchangeDatasets
<1>6. a \in Addresses
  BY <1>5 DEF Addressed
<1> HIDE DEF a
<1> QED  BY <1>3, <1>4, <1>5, <1>6 DEF ShapedBy

LEMMA PublicShape ==
    ASSUME NEW row \in Rows
    PROVE  transform_public_fund(row) = Issue
           \/ \E a \in Addresses, o \in Observations :
                  ShapedBy("public_funds", a, o, transform_public_fund(row))
<1> SUFFICES ASSUME row.item \in KoreanItems
    PROVE  \E a \in Addresses, o \in Observations :
               ShapedBy("public_funds", a, o, transform_public_fund(row))
  BY DEF transform_public_fund
<1> DEFINE a == Address("public-fund", NoText, row.item)
           o == Observation("public_funds", row.item, BaselineDate)
<1>1. row.item \in Texts /\ NoText \notin Isins
  BY TextAssumption
<1>2. /\ a \in Addresses /\ a.key = row.item /\ a.space = "public-fund"
      /\ a.market = NoText
  BY <1>1 DEF Address, Addresses, Cells
<1>3. o \in Observations /\ o.key = row.item /\ o.family = "public_funds"
  BY <1>1, TextAssumption, ObservationType DEF Datasets
<1>4. transform_public_fund(row) = FundPayload(a, o)
  BY <1>1, UriForms DEF transform_public_fund, FundPayload
<1> HIDE DEF a, o
<1>5. Addressed("public_funds", a, row.item)
  BY <1>2 DEF Addressed, Spaces
<1> QED  BY <1>2, <1>3, <1>4, <1>5 DEF ShapedBy

LEMMA ExchangeShape ==
    ASSUME NEW d \in ExchangeDatasets, NEW row \in Rows
    PROVE  transform_exchange_product(d, row) = Issue
           \/ \E a \in Addresses, o \in Observations :
                  ShapedBy(d, a, o, transform_exchange_product(d, row))
<1> SUFFICES ASSUME row.item # NoText
    PROVE  \E a \in Addresses, o \in Observations :
               ShapedBy(d, a, o, transform_exchange_product(d, row))
  BY DEF transform_exchange_product
<1> DEFINE isin_value == IF d = "domestic_etf_etn" THEN row.item ELSE row.isin
           ticker == IF row.ticker # NoText THEN row.ticker ELSE row.item
           market == IF row.market # NoText THEN row.market ELSE "unknown-market"
           local == Address(d, market, ticker)
           a == IF isin_value \in Isins THEN IsinAddress(isin_value) ELSE local
           o == Observation(d, a.key, as_of(row))
<1>1. /\ ticker \in Texts /\ market \in Texts
      /\ isin_value \in Isins => isin_value \in Texts
  BY TextAssumption DEF Rows, Cells
<1>2. local \in Addresses /\ local.key = ticker /\ local.space = d
  BY <1>1 DEF Address, Addresses, Cells
<1>3. a.key \in Texts /\ Addressed(d, a, a.key)
  <2>1. d # "isin" /\ d # "domestic_bonds" /\ d # "public_funds"
    BY DEF ExchangeDatasets
  <2> HIDE DEF local, isin_value
  <2>2. CASE isin_value \in Isins
    <3>1. /\ a = IsinAddress(isin_value) /\ a.key = isin_value /\ a.space = "isin"
          /\ a \in Addresses
      BY <2>2, IsinAddressed
    <3> HIDE DEF a
    <3> QED  BY <2>1, <2>2, <3>1, <1>1 DEF Addressed, Spaces
  <2>3. CASE isin_value \notin Isins
    BY <2>1, <2>3, <1>1, <1>2 DEF Addressed, Spaces
  <2> QED  BY <2>2, <2>3
<1>4. o \in Observations /\ o.key = a.key /\ o.family = d
  BY <1>3, AsOfDate, ObservationType DEF Datasets, ExchangeDatasets
<1>5. transform_exchange_product(d, row) = IF row.etn THEN EtnPayload(a)
                                           ELSE FundPayload(a, o)
  <2> DEFINE unit == security_uri(isin_value, local)
  <2>1. unit = SecurityAt(a) /\ fund_uri(isin_value, local) = FundAt(a)
    BY UriForms
  <2>2. unit.address = a
    BY <2>1 DEF SecurityAt
  <2>3. transform_exchange_product(d, row) =
          IF row.etn
          THEN [kind |-> "etn", merges |-> {Node(unit, EtnLabels)}, observes |-> {}]
          ELSE [kind |-> "fund",
                merges |-> {Node(fund_uri(isin_value, local), FundLabels),
                            Node(unit, FundUnitLabels)},
                observes |-> {<<unit, Observation(d, unit.address.key, as_of(row))>>}]
    BY DEF transform_exchange_product
  <2> HIDE DEF unit, isin_value, local, a
  <2> QED  BY <2>1, <2>2, <2>3 DEF FundPayload, EtnPayload
<1>6. a \in Addresses
  BY <1>3 DEF Addressed
<1> HIDE DEF a, o
<1> QED  BY <1>3, <1>4, <1>5, <1>6 DEF ShapedBy

\* Every row is an issue, or one bond, one note or one fund with its unit, at
\* an address of its dataset, observed under the key of that address.
LEMMA Shape ==
    ASSUME NEW d \in Datasets, NEW row \in Rows
    PROVE  TRANSFORMERS(d, row) = Issue
           \/ \E a \in Addresses, o \in Observations :
                  ShapedBy(d, a, o, TRANSFORMERS(d, row))
  BY BondShape, PublicShape, ExchangeShape DEF TRANSFORMERS, Datasets, ExchangeDatasets

\* Types of what a row becomes; an issue becomes nothing, all else something.
LEMMA PayloadType ==
    ASSUME NEW d \in Datasets, NEW row \in Rows
    PROVE  LET p == TRANSFORMERS(d, row) IN
           /\ p.kind \in {"bond", "fund", "etn", "issue"}
           /\ p.merges \subseteq Nodes
           /\ p.observes \subseteq Uris \X Observations
           /\ p.kind = "issue" => p.merges = {} /\ p.observes = {}
           /\ p.kind # "issue" => p.merges # {}
<1> DEFINE p == TRANSFORMERS(d, row)
<1>1. CASE p = Issue
  BY <1>1 DEF Issue
<1>2. ASSUME NEW a \in Addresses, NEW o \in Observations, ShapedBy(d, a, o, p)
      PROVE  /\ p.kind \in {"bond", "fund", "etn", "issue"}
             /\ p.merges \subseteq Nodes
             /\ p.observes \subseteq Uris \X Observations
             /\ p.kind = "issue" => p.merges = {} /\ p.observes = {}
             /\ p.kind # "issue" => p.merges # {}
  <2>1. SecurityAt(a) \in Uris /\ FundAt(a) \in Uris
    BY DEF SecurityAt, FundAt, Uris
  <2>2. /\ Node(SecurityAt(a), BondLabels) \in Nodes
        /\ Node(SecurityAt(a), EtnLabels) \in Nodes
        /\ Node(SecurityAt(a), FundUnitLabels) \in Nodes
        /\ Node(FundAt(a), FundLabels) \in Nodes
    BY <2>1 DEF Node, Nodes, Patterns
  <2>3. p \in {Issue, BondPayload(a, o), EtnPayload(a), FundPayload(a, o)}
    BY <1>2 DEF ShapedBy
  <2> HIDE DEF p
  <2> QED  BY <2>1, <2>2, <2>3 DEF Issue, BondPayload, EtnPayload, FundPayload
<1> QED  BY <1>1, <1>2, Shape

\* Within one kind the URI of a node decides its labels.
LEMMA OneLabelling ==
    ASSUME NEW d \in Datasets, NEW r \in Rows, NEW s \in Rows,
           TRANSFORMERS(d, r).kind = TRANSFORMERS(d, s).kind,
           NEW x \in TRANSFORMERS(d, r).merges, NEW y \in TRANSFORMERS(d, s).merges,
           x.uri = y.uri
    PROVE  x = y
<1> DEFINE p == TRANSFORMERS(d, r)
           q == TRANSFORMERS(d, s)
<1>1. p # Issue /\ q # Issue
  BY DEF Issue
<1>2. PICK a \in Addresses, o \in Observations : ShapedBy(d, a, o, p)
  BY <1>1, Shape
<1>3. PICK b \in Addresses, u \in Observations : ShapedBy(d, b, u, q)
  BY <1>1, Shape
<1>4. /\ p \in {BondPayload(a, o), EtnPayload(a), FundPayload(a, o)}
      /\ q \in {BondPayload(b, u), EtnPayload(b), FundPayload(b, u)}
      /\ p.kind = q.kind /\ x \in p.merges /\ y \in q.merges /\ x.uri = y.uri
  BY <1>1, <1>2, <1>3 DEF ShapedBy
<1> HIDE DEF p, q
<1> QED
  BY <1>4 DEF BondPayload, EtnPayload, FundPayload, Node, SecurityAt, FundAt

\* The address of a node tells where it comes from.
LEMMA SpaceOf ==
    ASSUME NEW d \in Datasets, NEW row \in Rows, NEW x \in TRANSFORMERS(d, row).merges
    PROVE  x.uri.address.space \in Spaces(d)
<1> DEFINE p == TRANSFORMERS(d, row)
<1>1. PICK a \in Addresses, o \in Observations : ShapedBy(d, a, o, p)
  BY Shape DEF Issue
<1>2. /\ p \in {Issue, BondPayload(a, o), EtnPayload(a), FundPayload(a, o)}
      /\ x \in p.merges /\ a.space \in Spaces(d)
  BY <1>1 DEF ShapedBy, Addressed
<1> HIDE DEF p
<1> QED  BY <1>2 DEF Issue, BondPayload, EtnPayload, FundPayload, Node, SecurityAt,
                     FundAt

\* An observation is hung on the security its key addresses.
LEMMA ObservedAt ==
    ASSUME NEW d \in Datasets, NEW row \in Rows, NEW t \in TRANSFORMERS(d, row).observes
    PROVE  \E a \in Addresses, o \in Observations :
               t = <<SecurityAt(a), o>> /\ Addressed(d, a, o.key) /\ o.family = d
<1> DEFINE p == TRANSFORMERS(d, row)
<1>1. PICK a \in Addresses, o \in Observations : ShapedBy(d, a, o, p)
  BY Shape DEF Issue
<1>2. /\ p \in {Issue, BondPayload(a, o), EtnPayload(a), FundPayload(a, o)}
      /\ t \in p.observes /\ Addressed(d, a, o.key) /\ o.family = d
  BY <1>1 DEF ShapedBy
<1> HIDE DEF p
<1>3. t = <<SecurityAt(a), o>>
  BY <1>2 DEF Issue, BondPayload, EtnPayload, FundPayload
<1> QED  BY <1>2, <1>3

\* Equal keys in one dataset mean equal addresses, but for a ticker.
LEMMA SameKey ==
    ASSUME NEW d \in Datasets, NEW key, NEW a, NEW b,
           Addressed(d, a, key), Addressed(d, b, key), a # b
    PROVE  {a.space, b.space} \cap ExchangeDatasets # {}
<1>1. /\ a \in Addresses /\ b \in Addresses /\ a.key = b.key
      /\ a.space = "isin" /\ b.space = "isin" => a = b
  BY DEF Addressed
<1>2. a.space = b.space /\ a.market = b.market => a = b
  BY <1>1 DEF Addresses
<1>3. CASE d = "domestic_bonds"
  BY <1>1, <1>2, <1>3 DEF Addressed, Spaces, ExchangeDatasets
<1>4. CASE d = "public_funds"
  BY <1>1, <1>2, <1>4 DEF Addressed, Spaces, ExchangeDatasets
<1>5. CASE d \in ExchangeDatasets
  <2>1. a.space \in {"isin", d} /\ b.space \in {"isin", d}
    BY <1>5 DEF Addressed, Spaces, ExchangeDatasets
  <2> QED  BY <1>1, <1>5, <2>1
<1> QED  BY <1>3, <1>4, <1>5 DEF Datasets, ExchangeDatasets

-----------------------------------------------------------------------------
(* MERGE.                                                                  *)

\* What was merged is matched, and stays matched in every larger graph.
LEMMA MergedIsMatched ==
    ASSUME NEW N, NEW X, NEW M, Merged(N, X) \subseteq M, NEW Y \in SUBSET X
    PROVE  Missing(M, Y) = {}
  BY DEF Missing, Merged, Matched

LEMMA StaysMatched ==
    ASSUME NEW N, NEW X, Missing(N, X) = {}, NEW M, N \subseteq M
    PROVE  Missing(M, X) = {}
  BY DEF Missing, Matched

LEMMA NoClash ==
    ASSUME NEW N, NEW X, Missing(N, X) = {}
    PROVE  Clashes(N, X) = {} /\ Merged(N, X) = N
  BY DEF Clashes, Merged

LEMMA MoreDuplicates ==
    ASSUME NEW N, NEW M, N \subseteq M, Duplicated(N)
    PROVE  Duplicated(M)
  BY DEF Duplicated

\* A statement the constraint lets through leaves one node for each URI.
LEMMA MergeKeepsUnique ==
    ASSUME NEW N, NEW X, ~Duplicated(N), "constraint" \in prepared,
           Clashes(N, X) = {},
           \A x, y \in X : x.uri = y.uri => x = y
    PROVE  ~Duplicated(Merged(N, X))
<1>1. \A x \in Missing(N, X) : x \in X /\ \A m \in N : m.uri # x.uri
  BY DEF Clashes, Missing
<1> QED  BY <1>1 DEF Duplicated, Merged

-----------------------------------------------------------------------------
(* What the steps have in common.                                          *)

\* No step takes anything out of the graph.
Grows ==
    /\ nodes \subseteq nodes' /\ links \subseteq links'
    /\ observed \subseteq observed' /\ rejected \subseteq rejected'
    /\ \A d \in Datasets, n \in RowNumbers :
          record[d][n] # Nothing => record'[d][n] # Nothing

LEMMA WrittenStays ==
    ASSUME Grows, NEW d \in Datasets, NEW n \in RowNumbers, NEW row
    PROVE  /\ EntitiesWritten(d, n, row) => EntitiesWritten(d, n, row)'
           /\ RowWritten(d, n, row) => RowWritten(d, n, row)'
           /\ Settled(d, n) => Settled(d, n)'
<1>1. EntitiesWritten(d, n, row) => EntitiesWritten(d, n, row)'
  BY StaysMatched DEF EntitiesWritten, Grows
<1>2. RowWritten(d, n, row) => RowWritten(d, n, row)'
  BY <1>1 DEF RowWritten, Grows
<1>3. Settled(d, n) => Settled(d, n)'
  BY DEF Settled, Grows
<1> QED  BY <1>1, <1>2, <1>3

\* A workbook that may lie in the input directory.
LEMMA BookType ==
    ASSUME NEW b \in Books
    PROVE  /\ Workbook[b].rows \in Seq(Rows) /\ Len(Workbook[b].rows) \in 0 .. MaxRows
           /\ \A n \in DOMAIN Workbook[b].rows :
                 n \in RowNumbers /\ Workbook[b].rows[n] \in Rows
<1>1. Workbook[b] \in Workbooks /\ Len(Workbook[b].rows) <= MaxRows
  BY VersionAssumption
<1>2. Workbook[b].rows \in Seq(Rows)
  BY <1>1 DEF Workbooks
<1>3. MaxRows \in Nat /\ Len(Workbook[b].rows) \in Nat
  BY <1>2, SizeAssumption
<1> QED  BY <1>1, <1>2, <1>3 DEF RowNumbers

\* The sheet that is being loaded.
LEMMA SheetType ==
    ASSUME TypeOK
    PROVE  /\ dataset \in Datasets /\ input[dataset] \in Books
           /\ Sheet \in Seq(Rows) /\ Len(Sheet) \in 0 .. MaxRows
           /\ DOMAIN Sheet = 1 .. Len(Sheet)
           /\ \A n \in DOMAIN Sheet :
                 n \in RowNumbers /\ Sheet[n] \in Rows /\ Sheet[n] \in RowsAt(dataset, n)
           /\ Batch \subseteq DOMAIN Sheet
<1>1. dataset \in Datasets /\ input[dataset] \in Books /\ input[dataset] \in Versions[dataset]
  BY DEF TypeOK
<1>2. /\ Sheet \in Seq(Rows) /\ Len(Sheet) \in 0 .. MaxRows
      /\ \A n \in DOMAIN Sheet : n \in RowNumbers /\ Sheet[n] \in Rows
  BY <1>1, BookType DEF Sheet
<1>3. \A n \in DOMAIN Sheet : Sheet[n] \in RowsAt(dataset, n)
  BY <1>1 DEF Sheet, RowsAt
<1> QED  BY <1>1, <1>2, <1>3 DEF Batch

LEMMA RowsAtType ==
    ASSUME NEW d \in Datasets, NEW n, NEW row \in RowsAt(d, n)
    PROVE  row \in Rows /\ n \in RowNumbers
<1>1. PICK b \in Versions[d] : n \in DOMAIN Workbook[b].rows /\ row = Workbook[b].rows[n]
  BY DEF RowsAt
<1>2. b \in Books
  BY VersionAssumption
<1> QED  BY <1>1, <1>2, BookType

\* A written row is settled: its record describes something or is rejected.
LEMMA WrittenIsSettled ==
    ASSUME NEW d \in Datasets, NEW n \in RowNumbers, NEW row \in Rows,
           RowWritten(d, n, row)
    PROVE  record[d][n] # Nothing /\ Settled(d, n)
<1> DEFINE p == TRANSFORMERS(d, row)
<1>1. CASE p.kind = "issue"
  BY <1>1 DEF RowWritten, Settled
<1>2. CASE p.kind # "issue"
  <2>1. PICK x \in p.merges : TRUE
    BY <1>2, PayloadType
  <2>2. <<d, n, x.uri>> \in links
    BY <2>1 DEF RowWritten, EntitiesWritten
  <2> QED  BY <2>2 DEF RowWritten, Settled
<1> QED  BY <1>1, <1>2

LEMMA OverlayShows ==
    ASSUME NEW old \in Rows \cup {Nothing}, NEW row \in Rows
    PROVE  /\ Overlay(old, row) \in Rows /\ Overlay(old, row) # Nothing
           /\ ShowsRow(Overlay(old, row), row)
<1>1. Overlay(old, row) \in Rows
  BY DEF Overlay, Rows, Cells
<1>2. row # Nothing /\ Overlay(old, row) # Nothing
  BY <1>1, NothingAssumption
<1>3. ShowsRow(Overlay(old, row), row)
  <2>1. CASE old = Nothing
    BY <1>2, <2>1 DEF ShowsRow, Overlay
  <2>2. CASE old # Nothing
    <3> DEFINE s == Overlay(old, row)
    <3>1. /\ row.item # NoText => s.item = row.item
          /\ row.isin # NoText => s.isin = row.isin
          /\ row.ticker # NoText => s.ticker = row.ticker
          /\ row.market # NoText => s.market = row.market
          /\ row.asOf # NoText => s.asOf = row.asOf
          /\ s.etn = row.etn
      BY <2>2 DEF Overlay
    <3>2. s # Nothing
      BY <1>2
    <3> HIDE DEF s
    <3>3. ASSUME NEW f \in {"item", "isin", "ticker", "market", "asOf"}, row[f] # NoText
          PROVE  s[f] = row[f]
      BY <3>1, <3>3
    <3>4. s.etn = row.etn
      BY <3>1
    <3> QED  BY <3>2, <3>3, <3>4 DEF ShowsRow, s
  <2> QED  BY <2>1, <2>2
<1> QED  BY <1>1, <1>2, <1>3

\* The parts of the invariant that only a writing step can disturb.
LEMMA GraphKeeps ==
    ASSUME IInv, UNCHANGED <<nodes, record, rejected, links, observed, loaded, sealed>>,
           \A d \in Datasets : /\ file'[d].rowCount = file[d].rowCount
                               /\ done'[d] \in {done[d], Nothing},
           prepared \subseteq prepared'
    PROVE  CountBacked' /\ DoneBacked' /\ Traced' /\ HoldingsBacked' /\ Unlinked' = Unlinked
<1>1. Grows
  BY DEF Grows
<1>2. CountBacked'
  BY DEF IInv, CountBacked, Settled
<1>3. DoneBacked'
  <2> SUFFICES ASSUME NEW d \in Datasets, NEW b \in Books, done'[d] = b,
                      NEW n \in DOMAIN Workbook[b].rows
      PROVE  /\ RowWritten(d, n, Workbook[b].rows[n])'
             /\ Shows(d, n, Workbook[b].rows[n])'
    BY DEF DoneBacked
  <2>1. done[d] = b
    BY NothingAssumption
  <2>2. n \in RowNumbers
    BY BookType
  <2>3. /\ RowWritten(d, n, Workbook[b].rows[n])
        /\ Shows(d, n, Workbook[b].rows[n])
    BY <2>1 DEF IInv, DoneBacked
  <2> QED  BY <1>1, <2>2, <2>3, WrittenStays DEF Shows
<1>4. Traced'
  BY DEF IInv, Traced
<1>5. HoldingsBacked'
  BY DEF IInv, HoldingsBacked, ReleaseWritten
<1>6. Unlinked' = Unlinked
  BY DEF Unlinked
<1> QED  BY <1>2, <1>3, <1>4, <1>5, <1>6

\* What a verdict of "dirty" stands for.
Dirty ==
    \/ Duplicated(nodes)
    \/ \E u \in Unlinked :
          done[u[1]] # Nothing => u[2] \notin DOMAIN Workbook[done[u[1]]].rows

\* A step of the process that writes nothing and does not begin to.
LEMMA QuietKeeps ==
    ASSUME IInv, TypeOK', UNCHANGED <<graph, sealed, done, loaded>>,
           pc' \notin Loading,
           pc' \in {"config", "ontology", "indexes", "open"} => "constraint" \in prepared,
           exit' \in {"clean", "dirty"} => pc' = "idle",
           exit' = "clean" => Unlinked = {},
           exit' = "dirty" => Dirty,
           clash' \in {clash, Nothing}
    PROVE  IInv'
<1>1. UNCHANGED <<nodes, record, rejected, links, observed, loaded, sealed>>
      /\ file' = file /\ prepared' = prepared
  BY DEF graph
<1>2. CountBacked' /\ DoneBacked' /\ Traced' /\ HoldingsBacked' /\ Unlinked' = Unlinked
  BY <1>1, GraphKeeps
<1>3. Constrained'
  BY <1>1 DEF IInv, Constrained
<1>4. InFlight'
  BY DEF InFlight
<1>5. VerdictStands'
  BY <1>1, <1>2 DEF VerdictStands, VerdictHonest, Dirty
<1>6. ConflictForCause'
  BY <1>1 DEF IInv, ConflictForCause
<1> QED  BY <1>2, <1>3, <1>4, <1>5, <1>6 DEF IInv

\* A verdict that stood still stands, in the same graph.
LEMMA VerdictStays ==
    ASSUME IInv
    PROVE  /\ exit = "clean" => Unlinked = {}
           /\ exit = "dirty" => Dirty
           /\ exit \in {"clean", "dirty"} => pc = "idle"
  BY DEF IInv, VerdictStands, VerdictHonest, Dirty

-----------------------------------------------------------------------------
(* The steps of the operator and of prepare.                               *)

\* The initial states satisfy the invariant.
LEMMA Beginning == Init => IInv
<1> SUFFICES ASSUME Init PROVE IInv
  OBVIOUS
<1>1. TypeOK
  <2>1. input \in [Datasets -> Books] /\ \A d \in Datasets : input[d] \in Versions[d]
    BY VersionAssumption DEF Init
  <2>2. record \in [Datasets -> [RowNumbers -> Rows \cup {Nothing}]]
    BY DEF Init
  <2>3. file \in [Datasets -> [digest   : Books \cup {Nothing},
                               rowCount : RowNumbers \cup {-1, 0}]]
    BY DEF Init
  <2>4. done \in [Datasets -> Books \cup {Nothing}]
    BY DEF Init
  <2>5. pos \in 0 .. MaxRows /\ commands \in 0 .. MaxCommands
    BY SizeAssumption DEF Init
  <2>6. dataset \in Datasets
    BY DEF Init, Datasets
  <2> QED  BY <2>1, <2>2, <2>3, <2>4, <2>5, <2>6 DEF Init, TypeOK
<1>2. \A d \in Datasets : done[d] = Nothing /\ file[d].rowCount = -1
  BY DEF Init
<1>3. Constrained /\ InFlight
  BY <1>2 DEF Init, Constrained, InFlight, Loading, BatchStages, Duplicated
<1>4. CountBacked /\ DoneBacked
  BY <1>2, NothingAssumption DEF CountBacked, DoneBacked
<1>5. VerdictStands /\ Traced /\ HoldingsBacked /\ ConflictForCause
  BY DEF Init, VerdictStands, VerdictHonest, Traced, HoldingsBacked, ConflictForCause
<1> QED  BY <1>1, <1>3, <1>4, <1>5 DEF IInv

LEMMA ReplaceWorkbookKeeps ==
    ASSUME NEW d \in Datasets, IInv, ReplaceWorkbook(d)
    PROVE  IInv'
<1>1. PICK b \in Versions[d] : input' = [input EXCEPT ![d] = b]
  BY DEF ReplaceWorkbook
<1>2. /\ pc = "idle"
      /\ UNCHANGED <<ontology, graph, sealed, loader, exit, clash, done, loaded, commands>>
  BY DEF ReplaceWorkbook
<1>3. TypeOK'
  <2>1. input \in [Datasets -> Books] /\ b \in Books
    BY VersionAssumption DEF IInv, TypeOK
  <2>2. input' \in [Datasets -> Books] /\ \A e \in Datasets : input'[e] \in Versions[e]
    BY <1>1, <2>1 DEF IInv, TypeOK
  <2> QED  BY <1>2, <2>2 DEF IInv, TypeOK, graph, loader
<1> QED  BY <1>2, <1>3, QuietKeeps, VerdictStays DEF loader, Loading, BatchStages

LEMMA StartKeeps ==
    ASSUME NEW c \in {"prepare", "load", "validate"}, NEW selected \in SUBSET Datasets,
           IInv, Start(c, selected)
    PROVE  IInv'
<1>1. /\ pc' \in {"validate", "constraint"} /\ todo' \subseteq Datasets
      /\ command' = c /\ exit' = "none" /\ clash' = Nothing
      /\ commands' = commands + 1 /\ commands < MaxCommands
      /\ UNCHANGED <<input, ontology, graph, sealed, dataset, pos, done, loaded>>
  BY DEF Start
<1>2. commands' \in 0 .. MaxCommands
  BY <1>1, SizeAssumption DEF IInv, TypeOK
<1>3. TypeOK'
  BY <1>1, <1>2 DEF IInv, TypeOK, graph, Steps
<1> QED  BY <1>1, <1>3, QuietKeeps DEF Loading, BatchStages

\* An end by exception or kill.
LEMMA AbortKeeps ==
    ASSUME IInv, Abort, dataset' \in Datasets,
           UNCHANGED <<input, ontology, graph, sealed, pos, clash, done, loaded, commands>>
    PROVE  IInv'
<1>1. pc' = "idle" /\ command' = "none" /\ todo' = {} /\ exit' = "error"
  BY DEF Abort
<1>2. TypeOK'
  BY <1>1 DEF IInv, TypeOK, graph
<1> QED  BY <1>1, <1>2, QuietKeeps DEF Loading, BatchStages

LEMMA StopKeeps == ASSUME IInv, Stop PROVE IInv'
  BY AbortKeeps DEF Stop, IInv, TypeOK

LEMMA PrepareKeeps ==
    ASSUME NEW step \in Steps,
           NEW next \in {"config", "ontology", "indexes", "open", "validate"},
           IInv, Prepare(step, next),
           step = "constraint" => ~Duplicated(nodes),
           step # "constraint" => pc \in {"config", "ontology", "indexes"}
    PROVE  IInv'
<1>1. /\ pc = step /\ prepared' = prepared \cup {step} /\ pc' = next
      /\ UNCHANGED <<input, ontology, nodes, record, rejected, links, observed, file,
                     fields, sealed, command, todo, dataset, pos, exit, clash, done,
                     loaded, commands>>
  BY DEF Prepare
<1>2. TypeOK'
  BY <1>1 DEF IInv, TypeOK, Steps
<1>3. CountBacked' /\ DoneBacked' /\ Traced' /\ HoldingsBacked' /\ Unlinked' = Unlinked
  BY <1>1, GraphKeeps
<1>4. "constraint" \in prepared' /\ ~Duplicated(nodes)
  BY <1>1 DEF IInv, Constrained
<1>5. Constrained'
  BY <1>1, <1>4 DEF Constrained
<1>6. InFlight'
  BY <1>1 DEF InFlight, Loading, BatchStages
<1>7. VerdictStands'
  BY <1>1, <1>3 DEF IInv, VerdictStands, VerdictHonest, Steps
<1>8. ConflictForCause'
  BY <1>1 DEF IInv, ConflictForCause
<1> QED  BY <1>2, <1>3, <1>5, <1>6, <1>7, <1>8 DEF IInv

LEMMA PreparationKeeps ==
    ASSUME IInv, CreateConstraint \/ EnsureGraphConfig \/ ImportOntology \/ CreateIndexes
    PROVE  IInv'
<1>1. CASE ~Duplicated(nodes) /\ Prepare("constraint", "config")
  BY <1>1, PrepareKeeps DEF Steps
<1>2. CASE Prepare("config", "ontology")
  BY <1>2, PrepareKeeps DEF Steps, Prepare
<1>3. CASE Prepare("ontology", "indexes")
  BY <1>3, PrepareKeeps DEF Steps, Prepare
<1>4. CASE CreateIndexes
  <2> DEFINE next == IF command = "load" THEN "open" ELSE "validate"
  <2>1. Prepare("indexes", next) /\ next \in {"open", "validate"}
    BY <1>4 DEF CreateIndexes
  <2> HIDE DEF next
  <2> QED  BY <2>1, PrepareKeeps DEF Steps, Prepare
<1>5. ASSUME NEW step, Refuse(step) PROVE IInv'
  BY <1>5, AbortKeeps DEF Refuse, IInv, TypeOK
<1> QED  BY <1>1, <1>2, <1>3, <1>4, <1>5
         DEF CreateConstraint, EnsureGraphConfig, ImportOntology

-----------------------------------------------------------------------------
(* The steps of a load.                                                    *)

\* A step inside a load says nothing of a verdict and leaves the constraint.
LEMMA LoadingKeeps ==
    ASSUME IInv, pc \in {"open"} \cup Loading,
           UNCHANGED <<prepared, exit>>,
           \A d \in Datasets : done'[d] = Nothing \/ done'[d] = done[d] \/ d = dataset,
           "constraint" \in prepared => ~Duplicated(nodes')
    PROVE  Constrained' /\ VerdictStands'
<1>1. "constraint" \in prepared /\ pc # "idle"
  BY DEF IInv, Constrained, Loading, BatchStages
<1>2. Constrained'
  BY <1>1 DEF IInv, Constrained
<1>3. exit' \notin {"clean", "dirty"}
  BY <1>1, VerdictStays
<1>4. VerdictStands'
  BY <1>3 DEF VerdictStands, VerdictHonest
<1> QED  BY <1>2, <1>4

LEMMA OpenDatasetKeeps == ASSUME IInv, OpenDataset PROVE IInv'
<1>1. PICK d \in todo :
        /\ dataset' = d
        /\ \/ /\ file' = [file EXCEPT ![d].digest = input[d]]
              /\ done' = [done EXCEPT ![d] = Nothing]
              /\ pos' = 0 /\ pc' = "fields" /\ UNCHANGED <<command, todo, exit>>
           \/ Abort /\ UNCHANGED <<file, done, pos>>
  BY DEF OpenDataset
<1>2. /\ pc = "open" /\ UNCHANGED <<input, ontology, prepared, nodes, record, rejected,
                                    links, observed, fields, sealed, clash, loaded,
                                    commands>>
  BY DEF OpenDataset
<1>3. d \in Datasets /\ input[d] \in Books
  BY DEF IInv, TypeOK
<1>4. CASE Abort /\ UNCHANGED <<file, done, pos>>
  BY <1>1, <1>2, <1>3, <1>4, AbortKeeps DEF graph
<1>5. CASE /\ file' = [file EXCEPT ![d].digest = input[d]]
           /\ done' = [done EXCEPT ![d] = Nothing]
           /\ pos' = 0 /\ pc' = "fields" /\ UNCHANGED <<command, todo, exit>>
  <2>1. /\ file' \in [Datasets -> [digest   : Books \cup {Nothing},
                                   rowCount : RowNumbers \cup {-1, 0}]]
        /\ \A e \in Datasets : file'[e].rowCount = file[e].rowCount
    BY <1>3, <1>5 DEF IInv, TypeOK
  <2>2. /\ done' \in [Datasets -> Books \cup {Nothing}] /\ done'[d] = Nothing
        /\ \A e \in Datasets : done'[e] \in {done[e], Nothing}
    BY <1>3, <1>5 DEF IInv, TypeOK
  <2>3. TypeOK'
    BY <1>1, <1>2, <1>3, <1>5, <2>1, <2>2, SizeAssumption DEF IInv, TypeOK, Loading
  <2>4. CountBacked' /\ DoneBacked' /\ Traced' /\ HoldingsBacked'
    BY <1>2, <2>1, <2>2, GraphKeeps
  <2>5. InFlight'
    BY <1>1, <1>5, <2>2 DEF InFlight
  <2>6. Constrained' /\ VerdictStands'
    BY <1>2, <1>5, <2>2, LoadingKeeps DEF IInv, Constrained
  <2>7. ConflictForCause'
    BY <1>2 DEF IInv, ConflictForCause
  <2> QED  BY <2>3, <2>4, <2>5, <2>6, <2>7 DEF IInv
<1> QED  BY <1>1, <1>4, <1>5

LEMMA NoDatasetLeftKeeps == ASSUME IInv, NoDatasetLeft PROVE IInv'
<1>1. /\ pc = "open" /\ pc' = "validate"
      /\ UNCHANGED <<input, ontology, graph, sealed, command, todo, dataset, pos, exit,
                     clash, done, loaded, commands>>
  BY DEF NoDatasetLeft
<1>2. TypeOK'
  BY <1>1 DEF IInv, TypeOK, graph
<1> QED  BY <1>1, <1>2, QuietKeeps, VerdictStays DEF Loading, BatchStages

LEMMA LoadSchemaFieldsKeeps == ASSUME IInv, LoadSchemaFields PROVE IInv'
<1>1. /\ pc = "fields"
      /\ UNCHANGED <<input, ontology, prepared, nodes, record, rejected, links, observed,
                     file, sealed, dataset, pos, clash, done, loaded, commands>>
      /\ \/ /\ fields' = fields \cup {dataset} /\ pc' = "raw"
            /\ UNCHANGED <<command, todo, exit>>
         \/ Abort /\ UNCHANGED fields
  BY DEF LoadSchemaFields
<1>2. CASE Abort /\ UNCHANGED fields
  BY <1>1, <1>2, AbortKeeps DEF graph, IInv, TypeOK
<1>3. CASE /\ fields' = fields \cup {dataset} /\ pc' = "raw"
           /\ UNCHANGED <<command, todo, exit>>
  <2>1. TypeOK'
    BY <1>1, <1>3 DEF IInv, TypeOK, Loading
  <2>2. CountBacked' /\ DoneBacked' /\ Traced' /\ HoldingsBacked'
    BY <1>1, GraphKeeps
  <2>3. InFlight'
    <3> SUFFICES ASSUME NEW d \in Datasets, NEW b \in Books, d = dataset, b = input[d]
        PROVE  /\ done[d] = Nothing /\ pos = 0 /\ pos <= Len(Workbook[b].rows)
      BY <1>1, <1>3 DEF InFlight, KindsWritten
    <3>1. done[d] = Nothing /\ pos = 0
      BY <1>1 DEF IInv, InFlight, Loading
    <3> QED  BY <3>1, BookType
  <2>4. Constrained' /\ VerdictStands'
    BY <1>1, <1>3, LoadingKeeps DEF IInv, Constrained, Loading
  <2>5. ConflictForCause'
    BY <1>1 DEF IInv, ConflictForCause
  <2> QED  BY <2>1, <2>2, <2>3, <2>4, <2>5 DEF IInv
<1> QED  BY <1>1, <1>2, <1>3

\* What InFlight says of the sheet in hand.
LEMMA InHand ==
    ASSUME IInv, pc \in Loading
    PROVE  /\ done[dataset] = Nothing
           /\ pc = "fields" => pos = 0
           /\ pc # "fields" =>
                 /\ pos <= Len(Sheet)
                 /\ \A n \in 1 .. pos : RowWritten(dataset, n, Sheet[n])
                                        /\ Shows(dataset, n, Sheet[n])
                 /\ \A n \in Batch :
                       /\ pc # "raw" => Shows(dataset, n, Sheet[n])
                       /\ Payload(n).kind \in KindsWritten =>
                             EntitiesWritten(dataset, n, Sheet[n])
<1>1. dataset \in Datasets /\ input[dataset] \in Books
  BY DEF IInv, TypeOK
<1> QED  BY <1>1 DEF IInv, InFlight, Sheet

\* To say the same of the next state, its sheet being known.
LEMMA InHandNext ==
    ASSUME IInv, UNCHANGED <<dataset, input>>,
           done'[dataset] = Nothing, pc' # "fields", pos' <= Len(Sheet),
           \A n \in 1 .. pos' : RowWritten(dataset, n, Sheet[n])'
                                /\ Shows(dataset, n, Sheet[n])',
           \A n \in Batch' :
               /\ pc' # "raw" => Shows(dataset, n, Sheet[n])'
               /\ Payload(n)'.kind \in KindsWritten' =>
                     EntitiesWritten(dataset, n, Sheet[n])'
    PROVE  InFlight'
<1> SUFFICES ASSUME NEW d \in Datasets, NEW b \in Books, d = dataset', b = input'[d]
    PROVE  /\ done'[d] = Nothing
           /\ pos' <= Len(Workbook[b].rows)
           /\ \A n \in 1 .. pos' : /\ RowWritten(d, n, Workbook[b].rows[n])'
                                   /\ Shows(d, n, Workbook[b].rows[n])'
           /\ \A n \in Batch' :
                 /\ pc' # "raw" => Shows(d, n, Workbook[b].rows[n])'
                 /\ Payload(n)'.kind \in KindsWritten' =>
                       EntitiesWritten(d, n, Workbook[b].rows[n])'
  BY DEF InFlight
<1>1. Sheet = Workbook[b].rows /\ d = dataset
  BY DEF Sheet
<1> QED  BY <1>1 DEF Sheet

LEMMA UpsertRawRecordsKeeps == ASSUME IInv, UpsertRawRecords PROVE IInv'
<1> DEFINE rows == [n \in RowNumbers |-> IF n \in Batch
                                         THEN Overlay(record[dataset][n], Sheet[n])
                                         ELSE record[dataset][n]]
<1>1. /\ pc = "raw" /\ pc' = "bonds" /\ record' = [record EXCEPT ![dataset] = rows]
      /\ UNCHANGED <<input, ontology, prepared, nodes, rejected, links, observed, file,
                     fields, sealed, command, todo, dataset, pos, exit, clash, done,
                     loaded, commands>>
  BY DEF UpsertRawRecords
<1>2. /\ TypeOK /\ record \in [Datasets -> [RowNumbers -> Rows \cup {Nothing}]]
      /\ dataset \in Datasets
  BY DEF IInv, TypeOK
<1>3. \A n \in Batch : n \in RowNumbers /\ n \in DOMAIN Sheet /\ Sheet[n] \in Rows
  BY <1>2, SheetType
<1>4. \A n \in Batch : /\ rows[n] \in Rows /\ rows[n] # Nothing
                       /\ ShowsRow(rows[n], Sheet[n])
  BY <1>2, <1>3, OverlayShows
<1>5. /\ rows \in [RowNumbers -> Rows \cup {Nothing}]
      /\ \A n \in RowNumbers \ Batch : rows[n] = record[dataset][n]
  BY <1>2, <1>4
<1> HIDE DEF rows
<1>6. /\ record' \in [Datasets -> [RowNumbers -> Rows \cup {Nothing}]]
      /\ record'[dataset] = rows
      /\ \A d \in Datasets \ {dataset} : record'[d] = record[d]
  BY <1>1, <1>2, <1>5
<1>7. Grows
  BY <1>1, <1>4, <1>5, <1>6 DEF Grows
<1>8. TypeOK'
  BY <1>1, <1>6 DEF IInv, TypeOK, Loading, BatchStages
<1>9. InFlight'
  <2>1. done'[dataset] = Nothing /\ pos' <= Len(Sheet)
    BY <1>1, InHand DEF Loading
  <2>2. ASSUME NEW n \in 1 .. pos'
        PROVE  RowWritten(dataset, n, Sheet[n])' /\ Shows(dataset, n, Sheet[n])'
    <3>1. RowWritten(dataset, n, Sheet[n]) /\ Shows(dataset, n, Sheet[n])
      BY <1>1, InHand DEF Loading
    <3>2. n \in RowNumbers /\ n \notin Batch
      BY <1>1, <1>2, SizeAssumption DEF Batch, TypeOK, RowNumbers
    <3>3. record'[dataset][n] = record[dataset][n]
      BY <1>5, <1>6, <3>2
    <3>4. RowWritten(dataset, n, Sheet[n])'
      BY <1>1, <3>1, <3>3 DEF RowWritten, EntitiesWritten, Sheet
    <3> QED  BY <1>1, <3>1, <3>3, <3>4 DEF Shows, Sheet
  <2>3. ASSUME NEW n \in Batch' PROVE Shows(dataset, n, Sheet[n])'
    BY <1>1, <1>4, <1>6 DEF Shows, Batch, Sheet
  <2>4. KindsWritten' = {}
    BY <1>1 DEF KindsWritten
  <2> QED  BY <1>1, <2>1, <2>2, <2>3, <2>4, InHandNext
<1>10. CountBacked'
  <2> SUFFICES ASSUME NEW d \in Datasets, NEW n \in 1 .. file[d].rowCount
      PROVE  record'[d][n] # Nothing /\ Settled(d, n)'
    BY <1>1 DEF CountBacked
  <2>1. n \in RowNumbers
    BY <1>2, SizeAssumption DEF TypeOK, RowNumbers
  <2>2. record[d][n] # Nothing /\ Settled(d, n)
    BY DEF IInv, CountBacked
  <2> QED  BY <1>7, <2>1, <2>2, WrittenStays DEF Grows
<1>11. DoneBacked'
  <2> SUFFICES ASSUME NEW d \in Datasets, NEW b \in Books, done[d] = b,
                      NEW n \in DOMAIN Workbook[b].rows
      PROVE  /\ RowWritten(d, n, Workbook[b].rows[n])'
             /\ Shows(d, n, Workbook[b].rows[n])'
    BY <1>1 DEF DoneBacked
  <2>1. d # dataset
    BY <1>1, InHand, NothingAssumption DEF Loading
  <2>2. n \in RowNumbers
    BY BookType
  <2>3. /\ RowWritten(d, n, Workbook[b].rows[n])
        /\ Shows(d, n, Workbook[b].rows[n])
    BY DEF IInv, DoneBacked
  <2> QED  BY <1>6, <1>7, <2>1, <2>2, <2>3, WrittenStays DEF Shows
<1>12. Traced' /\ HoldingsBacked' /\ ConflictForCause'
  BY <1>1 DEF IInv, Traced, HoldingsBacked, ReleaseWritten, ConflictForCause
<1>13. Constrained' /\ VerdictStands'
  BY <1>1, LoadingKeeps DEF IInv, Constrained, Loading
<1> QED  BY <1>8, <1>9, <1>10, <1>11, <1>12, <1>13 DEF IInv

\* Steps that add to the graph keep what is said of counts and finished loads.
LEMMA GrowthKeeps ==
    ASSUME IInv, Grows, UNCHANGED <<file, done, record>>
    PROVE  CountBacked' /\ DoneBacked'
<1>1. CountBacked'
  <2> SUFFICES ASSUME NEW d \in Datasets, NEW n \in 1 .. file[d].rowCount
      PROVE  record'[d][n] # Nothing /\ Settled(d, n)'
    BY DEF CountBacked
  <2>1. n \in RowNumbers
    <3>1. TypeOK
      BY DEF IInv
    <3>2. file[d].rowCount \in RowNumbers \cup {-1, 0}
      BY <3>1 DEF TypeOK
    <3> QED  BY <3>2, SizeAssumption DEF RowNumbers
  <2>2. record[d][n] # Nothing /\ Settled(d, n)
    BY DEF IInv, CountBacked
  <2> QED  BY <2>1, <2>2, WrittenStays
<1>2. DoneBacked'
  <2> SUFFICES ASSUME NEW d \in Datasets, NEW b \in Books, done[d] = b,
                      NEW n \in DOMAIN Workbook[b].rows
      PROVE  /\ RowWritten(d, n, Workbook[b].rows[n])'
             /\ Shows(d, n, Workbook[b].rows[n])'
    BY DEF DoneBacked
  <2>1. n \in RowNumbers
    BY BookType
  <2>2. /\ RowWritten(d, n, Workbook[b].rows[n])
        /\ Shows(d, n, Workbook[b].rows[n])
    BY DEF IInv, DoneBacked
  <2> QED  BY <2>1, <2>2, WrittenStays DEF Shows
<1> QED  BY <1>1, <1>2

\* And of the load in hand, once the new statement has been executed.
LEMMA InFlightGrows ==
    ASSUME IInv, Grows, UNCHANGED <<record, dataset, input, done, pos>>,
           pc \in Loading \ {"fields"}, pc' # "fields", pc' # "raw" => pc # "raw",
           \A n \in Batch : Payload(n).kind \in KindsWritten' \ KindsWritten =>
               EntitiesWritten(dataset, n, Sheet[n])'
    PROVE  InFlight'
<1> SUFFICES ASSUME NEW d \in Datasets, NEW b \in Books, d = dataset, b = input[d]
    PROVE  /\ done[d] = Nothing
           /\ pos <= Len(Workbook[b].rows)
           /\ \A n \in 1 .. pos : /\ RowWritten(d, n, Workbook[b].rows[n])'
                                  /\ Shows(d, n, Workbook[b].rows[n])'
           /\ \A n \in Batch :
                 /\ pc' # "raw" => Shows(d, n, Workbook[b].rows[n])'
                 /\ Payload(n).kind \in KindsWritten' =>
                       EntitiesWritten(d, n, Workbook[b].rows[n])'
  BY DEF InFlight, Batch, Payload, Sheet
<1>1. Sheet = Workbook[b].rows /\ Sheet' = Sheet
  BY DEF Sheet
<1>2. /\ done[d] = Nothing /\ pos <= Len(Workbook[b].rows)
      /\ \A n \in 1 .. pos : RowWritten(d, n, Workbook[b].rows[n])
                             /\ Shows(d, n, Workbook[b].rows[n])
      /\ \A n \in Batch :
            /\ pc # "raw" => Shows(d, n, Workbook[b].rows[n])
            /\ Payload(n).kind \in KindsWritten =>
                  EntitiesWritten(d, n, Workbook[b].rows[n])
  BY DEF IInv, InFlight
<1>3. \A n \in (1 .. pos) \cup Batch : n \in RowNumbers
  <2>1. TypeOK
    BY DEF IInv
  <2>2. \A n \in 1 .. pos : n \in RowNumbers
    BY <2>1, SizeAssumption DEF TypeOK, RowNumbers
  <2> QED  BY <2>1, <2>2, SheetType
<1>4. \A n \in 1 .. pos : /\ RowWritten(d, n, Workbook[b].rows[n])'
                          /\ Shows(d, n, Workbook[b].rows[n])'
  BY <1>2, <1>3, WrittenStays DEF Shows
<1>5. ASSUME NEW n \in Batch
      PROVE  /\ pc' # "raw" => Shows(d, n, Workbook[b].rows[n])'
             /\ Payload(n).kind \in KindsWritten' =>
                   EntitiesWritten(d, n, Workbook[b].rows[n])'
  <2>1. pc' # "raw" => Shows(d, n, Workbook[b].rows[n])'
    BY <1>2 DEF Shows
  <2>2. ASSUME Payload(n).kind \in KindsWritten'
        PROVE  EntitiesWritten(d, n, Workbook[b].rows[n])'
    <3>1. CASE Payload(n).kind \in KindsWritten
      BY <1>2, <1>3, <3>1, WrittenStays
    <3>2. CASE Payload(n).kind \notin KindsWritten
      <4>1. EntitiesWritten(dataset, n, Sheet[n])'
        BY <2>2, <3>2
      <4> QED  BY <1>1, <4>1 DEF EntitiesWritten
    <3> QED  BY <3>1, <3>2
  <2> QED  BY <2>1, <2>2
<1> QED  BY <1>2, <1>4, <1>5

LEMMA UpsertKeeps ==
    ASSUME NEW kind \in {"bond", "fund", "etn"}, NEW next \in {"funds", "etns", "issues"},
           IInv, pc \in BatchStages, Upsert(kind, next),
           pc' = next => KindsWritten' = KindsWritten \cup {kind}
    PROVE  IInv'
<1> DEFINE merges == UNION {Payload(n).merges : n \in BatchOf(kind)}
<1>1. /\ dataset \in Datasets /\ "constraint" \in prepared /\ TypeOK
      /\ done[dataset] = Nothing
  BY InHand DEF IInv, TypeOK, Constrained, Loading
<1>2. UNCHANGED <<input, ontology, prepared, record, rejected, file, fields, sealed,
                  dataset, pos, done, loaded, commands>>
  BY DEF Upsert
<1>3. \A n \in BatchOf(kind) :
         /\ n \in Batch /\ n \in DOMAIN Sheet /\ n \in RowNumbers /\ Sheet[n] \in Rows
         /\ Sheet[n] \in RowsAt(dataset, n)
         /\ Payload(n) = TRANSFORMERS(dataset, Sheet[n]) /\ Payload(n).kind = kind
  BY <1>1, SheetType DEF BatchOf, Payload
<1>4. merges \subseteq Nodes
  <2>1. \A n \in BatchOf(kind) : Payload(n).merges \subseteq Nodes
    BY <1>1, <1>3, PayloadType
  <2> QED  BY <2>1
<1>5. ASSUME NEW x \in merges
      PROVE  \E n \in BatchOf(kind) : x \in TRANSFORMERS(dataset, Sheet[n]).merges
  <2>1. PICK n \in BatchOf(kind) : x \in Payload(n).merges
    OBVIOUS
  <2> QED  BY <1>3, <2>1
<1>6. \A n \in BatchOf(kind) : Payload(n).merges \subseteq merges
  OBVIOUS
<1>7. \/ /\ Clashes(nodes, merges) = {}
         /\ nodes' = Merged(nodes, merges)
         /\ links' = links \cup UNION {{<<dataset, n, x.uri>> : x \in Payload(n).merges} :
                                          n \in BatchOf(kind)}
         /\ observed' = observed \cup UNION {Payload(n).observes : n \in BatchOf(kind)}
         /\ pc' = next /\ UNCHANGED <<command, todo, exit, clash>>
      \/ /\ clash' \in Clashes(nodes, merges) /\ Abort
         /\ UNCHANGED <<nodes, links, observed>>
  BY DEF Upsert
<1> HIDE DEF merges
<1>8. \A x, y \in merges : x.uri = y.uri => x = y
  <2> SUFFICES ASSUME NEW x \in merges, NEW y \in merges, x.uri = y.uri PROVE x = y
    OBVIOUS
  <2>1. PICK n \in BatchOf(kind) : x \in TRANSFORMERS(dataset, Sheet[n]).merges
    BY <1>5
  <2>2. PICK m \in BatchOf(kind) : y \in TRANSFORMERS(dataset, Sheet[m]).merges
    BY <1>5
  <2> QED  BY <1>1, <1>3, <2>1, <2>2, OneLabelling
<1>9. CASE /\ Clashes(nodes, merges) = {}
           /\ nodes' = Merged(nodes, merges)
           /\ links' = links \cup UNION {{<<dataset, n, x.uri>> : x \in Payload(n).merges} :
                                            n \in BatchOf(kind)}
           /\ observed' = observed \cup UNION {Payload(n).observes : n \in BatchOf(kind)}
           /\ pc' = next /\ UNCHANGED <<command, todo, exit, clash>>
  <2>1. nodes \subseteq nodes' /\ nodes' \subseteq nodes \cup merges
    BY <1>9 DEF Merged, Missing
  <2>2. \A l \in links' \ links : \E n \in BatchOf(kind) :
           \E x \in TRANSFORMERS(dataset, Sheet[n]).merges : l = <<dataset, n, x.uri>>
    BY <1>3, <1>9
  <2>3. ASSUME NEW n \in BatchOf(kind), NEW x \in TRANSFORMERS(dataset, Sheet[n]).merges
        PROVE  <<dataset, n, x.uri>> \in links'
    <3>1. x \in Payload(n).merges
      BY <1>3
    <3> QED  BY <1>9, <3>1
  <2>4. ASSUME NEW o \in observed' \ observed
        PROVE  \E n \in BatchOf(kind) : o \in TRANSFORMERS(dataset, Sheet[n]).observes
    <3>1. PICK n \in BatchOf(kind) : o \in Payload(n).observes
      BY <1>9
    <3> QED  BY <1>3, <3>1
  <2>5. Grows
    BY <1>2, <1>9, <2>1 DEF Grows
  <2>6. ASSUME NEW n \in BatchOf(kind) PROVE EntitiesWritten(dataset, n, Sheet[n])'
    <3>1. Payload(n).observes \subseteq observed'
      BY <1>9
    <3>2. Payload(n).merges \subseteq merges
      BY <1>6
    <3>3. Missing(nodes', TRANSFORMERS(dataset, Sheet[n]).merges) = {}
      BY <1>3, <1>9, <3>2, MergedIsMatched
    <3> QED  BY <1>2, <1>3, <2>3, <3>1, <3>3 DEF EntitiesWritten, Sheet
  <2>7. TypeOK'
    <3>1. nodes' \subseteq Nodes
      BY <1>1, <1>4, <2>1 DEF TypeOK
    <3>2. ASSUME NEW l \in links' \ links PROVE l \in Datasets \X RowNumbers \X Uris
      <4>1. PICK n \in BatchOf(kind) :
              \E x \in TRANSFORMERS(dataset, Sheet[n]).merges : l = <<dataset, n, x.uri>>
        BY <2>2
      <4> PICK x \in TRANSFORMERS(dataset, Sheet[n]).merges : l = <<dataset, n, x.uri>>
        BY <4>1
      <4>2. x \in Nodes /\ n \in RowNumbers
        BY <1>1, <1>3, PayloadType
      <4> QED  BY <1>1, <4>1, <4>2 DEF Nodes
    <3>3. ASSUME NEW o \in observed' \ observed PROVE o \in Uris \X Observations
      <4>1. PICK n \in BatchOf(kind) : o \in TRANSFORMERS(dataset, Sheet[n]).observes
        BY <2>4
      <4> QED  BY <1>1, <1>3, <4>1, PayloadType
    <3>4. links' \subseteq Datasets \X RowNumbers \X Uris /\ observed' \subseteq Uris \X Observations
      BY <1>1, <3>2, <3>3 DEF TypeOK
    <3> QED  BY <1>1, <1>2, <1>9, <3>1, <3>4 DEF TypeOK, Loading, BatchStages
  <2>8. CountBacked' /\ DoneBacked'
    BY <1>2, <2>5, GrowthKeeps
  <2>9. InFlight'
    <3>1. ASSUME NEW n \in Batch, Payload(n).kind \in KindsWritten' \ KindsWritten
          PROVE  EntitiesWritten(dataset, n, Sheet[n])'
      <4>1. n \in BatchOf(kind)
        BY <1>9, <3>1 DEF BatchOf
      <4> QED  BY <2>6, <4>1
    <3> QED  BY <1>2, <1>9, <2>5, <3>1, InFlightGrows DEF Loading, BatchStages
  <2>10. Constrained' /\ VerdictStands'
    <3>1. ~Duplicated(nodes')
      BY <1>1, <1>8, <1>9, MergeKeepsUnique DEF IInv, Constrained
    <3> QED  BY <1>2, <1>9, <3>1, LoadingKeeps DEF Loading
  <2>11. Traced'
    <3>1. ASSUME NEW l \in links' \ links
          PROVE  \E row \in RowsAt(l[1], l[2]) :
                    \E x \in TRANSFORMERS(l[1], row).merges : x.uri = l[3]
      <4>1. PICK n \in BatchOf(kind) :
              \E x \in TRANSFORMERS(dataset, Sheet[n]).merges : l = <<dataset, n, x.uri>>
        BY <2>2
      <4> PICK x \in TRANSFORMERS(dataset, Sheet[n]).merges : l = <<dataset, n, x.uri>>
        BY <4>1
      <4>2. l[1] = dataset /\ l[2] = n /\ l[3] = x.uri
        BY <4>1
      <4> QED  BY <1>3, <4>2
    <3>2. ASSUME NEW o \in observed' \ observed
          PROVE  \E d \in Datasets, n \in RowNumbers :
                    \E row \in RowsAt(d, n) : o \in TRANSFORMERS(d, row).observes
      <4>1. PICK n \in BatchOf(kind) : o \in TRANSFORMERS(dataset, Sheet[n]).observes
        BY <2>4
      <4> QED  BY <1>1, <1>3, <4>1
    <3>3. ASSUME NEW m \in nodes' \ nodes
          PROVE  \E l \in links' : \E row \in RowsAt(l[1], l[2]) :
                    m \in TRANSFORMERS(l[1], row).merges /\ l[3] = m.uri
      <4>1. PICK n \in BatchOf(kind) : m \in TRANSFORMERS(dataset, Sheet[n]).merges
        BY <1>5, <2>1, <3>3
      <4> DEFINE l == <<dataset, n, m.uri>>
      <4>2. l \in links' /\ l[1] = dataset /\ l[2] = n /\ l[3] = m.uri
        BY <2>3, <4>1
      <4> HIDE DEF l
      <4> QED  BY <1>3, <4>1, <4>2
    <3>4. links \subseteq links' /\ loaded' = loaded /\ prepared' = prepared
      BY <1>2, <1>9
    <3> QED  BY <1>1, <3>1, <3>2, <3>3, <3>4 DEF IInv, Traced
  <2>12. HoldingsBacked'
    BY <1>2, <2>1, StaysMatched DEF IInv, HoldingsBacked, ReleaseWritten
  <2>13. ConflictForCause'
    <3>1. links \subseteq links' /\ loaded' = loaded /\ clash' = clash
      BY <1>2, <1>9
    <3> QED  BY <3>1 DEF IInv, ConflictForCause
  <2> QED  BY <2>7, <2>8, <2>9, <2>10, <2>11, <2>12, <2>13 DEF IInv
<1>10. CASE /\ clash' \in Clashes(nodes, merges) /\ Abort
            /\ UNCHANGED <<nodes, links, observed>>
  <2>1. /\ pc' = "idle" /\ command' = "none" /\ todo' = {} /\ exit' = "error"
    BY <1>10 DEF Abort
  <2>2. /\ clash' \in merges /\ clash' \in Nodes
        /\ \E m \in nodes : m.uri = clash'.uri /\ ~(clash'.labels \subseteq m.labels)
    BY <1>1, <1>4, <1>10 DEF Clashes, Missing, Matched
  <2>3. TypeOK'
    BY <1>1, <1>2, <1>10, <2>1, <2>2 DEF TypeOK
  <2>4. ConflictForCause'
    <3>1. PICK m \in nodes : m.uri = clash'.uri /\ ~(clash'.labels \subseteq m.labels)
      BY <2>2
    <3>2. CASE \E r \in loaded : m = FundNode(r)
      <4>1. PICK r \in loaded : m = FundNode(r)
        BY <3>2
      <4>2. m.labels = FundUnitLabels
        BY <4>1 DEF FundNode, Node
      <4> QED  BY <1>2, <3>1, <4>1, <4>2 DEF ConflictForCause
    <3>3. CASE \E r \in loaded : m \in ConstituentNodes(r)
      BY <1>2, <3>1, <3>3 DEF ConflictForCause
    <3>4. CASE \E l \in links : \E row \in RowsAt(l[1], l[2]) :
                  m \in TRANSFORMERS(l[1], row).merges /\ l[3] = m.uri
      BY <1>10, <3>1, <3>4 DEF ConflictForCause
    <3> QED  BY <3>2, <3>3, <3>4 DEF IInv, Traced
  <2>5. /\ CountBacked' /\ DoneBacked' /\ Traced' /\ HoldingsBacked'
    BY <1>2, <1>10, GraphKeeps
  <2>6. Constrained'
    BY <1>2, <1>10, <2>1 DEF IInv, Constrained, Loading, BatchStages
  <2>7. InFlight' /\ VerdictStands'
    BY <2>1 DEF InFlight, VerdictStands, VerdictHonest, Loading, BatchStages
  <2> QED  BY <2>3, <2>4, <2>5, <2>6, <2>7 DEF IInv
<1> QED  BY <1>7, <1>9, <1>10

LEMMA StatementsKeep ==
    ASSUME IInv, UpsertBonds \/ UpsertFunds \/ UpsertEtns
    PROVE  IInv'
<1>1. CASE UpsertBonds
  <2>1. pc = "bonds" /\ Upsert("bond", "funds")
    BY <1>1 DEF UpsertBonds
  <2>2. pc' = "funds" => KindsWritten' = KindsWritten \cup {"bond"}
    BY <2>1 DEF KindsWritten
  <2> QED  BY <2>1, <2>2, UpsertKeeps DEF BatchStages
<1>2. CASE UpsertFunds
  <2>1. pc = "funds" /\ Upsert("fund", "etns")
    BY <1>2 DEF UpsertFunds
  <2>2. pc' = "etns" => KindsWritten' = KindsWritten \cup {"fund"}
    BY <2>1 DEF KindsWritten
  <2> QED  BY <2>1, <2>2, UpsertKeeps DEF BatchStages
<1>3. CASE UpsertEtns
  <2>1. pc = "etns" /\ Upsert("etn", "issues")
    BY <1>3 DEF UpsertEtns
  <2>2. pc' = "issues" => KindsWritten' = KindsWritten \cup {"etn"}
    BY <2>1 DEF KindsWritten
  <2> QED  BY <2>1, <2>2, UpsertKeeps DEF BatchStages
<1> QED  BY <1>1, <1>2, <1>3

LEMMA UpsertQualityIssuesKeeps == ASSUME IInv, UpsertQualityIssues PROVE IInv'
<1>1. /\ pc = "issues" /\ pc' = "raw"
      /\ rejected' = rejected \cup ({dataset} \X BatchOf("issue"))
      /\ pos' = IF pos + BatchSize <= Len(Sheet) THEN pos + BatchSize ELSE Len(Sheet)
      /\ UNCHANGED <<input, ontology, prepared, nodes, record, links, observed, file,
                     fields, sealed, command, todo, dataset, exit, clash, done, loaded,
                     commands>>
  BY DEF UpsertQualityIssues
<1>2. /\ TypeOK /\ dataset \in Datasets /\ pos \in Nat /\ pos <= MaxRows
      /\ BatchSize \in Nat /\ MaxRows \in Nat
      /\ Len(Sheet) \in 0 .. MaxRows /\ DOMAIN Sheet = 1 .. Len(Sheet)
      /\ \A n \in DOMAIN Sheet : n \in RowNumbers /\ Sheet[n] \in Rows
      /\ Batch \subseteq DOMAIN Sheet
  <2>1. TypeOK
    BY DEF IInv
  <2> QED  BY <2>1, SheetType, SizeAssumption DEF TypeOK
<1>3. Grows
  BY <1>1 DEF Grows
<1>4. pos' \in 0 .. MaxRows /\ pos' <= Len(Sheet)
  BY <1>1, <1>2
<1>5. TypeOK'
  <2>1. BatchOf("issue") \subseteq RowNumbers
    BY <1>2 DEF BatchOf
  <2>2. rejected' \subseteq Datasets \X RowNumbers
    BY <1>1, <1>2, <2>1 DEF TypeOK
  <2> QED  BY <1>1, <1>2, <1>4, <2>2 DEF TypeOK, Loading
<1>6. ASSUME NEW n \in Batch
      PROVE  RowWritten(dataset, n, Sheet[n])' /\ Shows(dataset, n, Sheet[n])'
  <2>1. Shows(dataset, n, Sheet[n]) /\ record[dataset][n] # Nothing
    BY <1>1, InHand DEF Loading, BatchStages, Shows, ShowsRow
  <2>2. /\ Sheet[n] \in Rows /\ Payload(n) = TRANSFORMERS(dataset, Sheet[n])
    BY <1>2 DEF Payload
  <2>3. EntitiesWritten(dataset, n, Sheet[n])
    <3>1. CASE Payload(n).kind = "issue"
      <4>1. Payload(n).merges = {} /\ Payload(n).observes = {}
        BY <1>2, <2>2, <3>1, PayloadType
      <4> QED  BY <2>2, <4>1 DEF EntitiesWritten, Missing
    <3>2. CASE Payload(n).kind # "issue"
      <4>1. Payload(n).kind \in {"bond", "fund", "etn"}
        BY <1>2, <2>2, <3>2, PayloadType
      <4>2. Payload(n).kind \in KindsWritten
        BY <1>1, <4>1 DEF KindsWritten
      <4> QED  BY <1>1, <4>2, InHand DEF Loading, BatchStages
    <3> QED  BY <3>1, <3>2
  <2>4. Payload(n).kind = "issue" => <<dataset, n>> \in rejected'
    BY <1>1 DEF BatchOf
  <2>5. RowWritten(dataset, n, Sheet[n])'
    BY <1>1, <2>1, <2>2, <2>3, <2>4 DEF RowWritten, EntitiesWritten, Sheet
  <2> QED  BY <1>1, <2>1, <2>5 DEF Shows, Sheet
<1>7. ASSUME NEW n \in 1 .. pos
      PROVE  RowWritten(dataset, n, Sheet[n])' /\ Shows(dataset, n, Sheet[n])'
  <2>1. RowWritten(dataset, n, Sheet[n]) /\ Shows(dataset, n, Sheet[n])
    BY <1>1, InHand DEF Loading, BatchStages
  <2> QED  BY <1>1, <2>1 DEF Shows, RowWritten, EntitiesWritten, Sheet
<1>8. InFlight'
  <2>1. \A n \in 1 .. pos' : n \in 1 .. pos \/ n \in Batch
    BY <1>1, <1>2, <1>4 DEF Batch
  <2>2. done'[dataset] = Nothing
    BY <1>1, InHand DEF Loading, BatchStages
  <2>3. KindsWritten' = {}
    BY <1>1 DEF KindsWritten
  <2> QED  BY <1>1, <1>4, <1>6, <1>7, <2>1, <2>2, <2>3, InHandNext
<1>9. CountBacked' /\ DoneBacked'
  BY <1>1, <1>3, GrowthKeeps
<1>10. Constrained' /\ VerdictStands'
  BY <1>1, LoadingKeeps DEF IInv, Constrained, Loading, BatchStages
<1>11. Traced' /\ HoldingsBacked' /\ ConflictForCause'
  BY <1>1 DEF IInv, Traced, HoldingsBacked, ReleaseWritten, ConflictForCause
<1> QED  BY <1>5, <1>8, <1>9, <1>10, <1>11 DEF IInv

\* The whole sheet has been written when the loop ends.
LEMMA UpdateSourceFileCountKeeps == ASSUME IInv, UpdateSourceFileCount PROVE IInv'
<1>1. /\ pc = "raw" /\ Batch = {} /\ pc' = "open"
      /\ file' = [file EXCEPT ![dataset].rowCount = pos]
      /\ done' = [done EXCEPT ![dataset] = input[dataset]]
      /\ todo' = todo \ {dataset}
      /\ UNCHANGED <<input, ontology, prepared, nodes, record, rejected, links, observed,
                     fields, sealed, command, dataset, pos, exit, clash, loaded, commands>>
  BY DEF UpdateSourceFileCount
<1>2. /\ TypeOK /\ dataset \in Datasets /\ input[dataset] \in Books /\ pos \in Nat
      /\ BatchSize \in Nat \ {0} /\ MaxRows \in Nat /\ Len(Sheet) \in 0 .. MaxRows
      /\ DOMAIN Sheet = 1 .. Len(Sheet)
      /\ \A n \in DOMAIN Sheet : n \in RowNumbers /\ Sheet[n] \in Rows
  <2>1. TypeOK
    BY DEF IInv
  <2> QED  BY <2>1, SheetType, SizeAssumption DEF TypeOK
<1>3. /\ pos <= Len(Sheet)
      /\ \A n \in 1 .. pos : RowWritten(dataset, n, Sheet[n])
                             /\ Shows(dataset, n, Sheet[n])
  BY <1>1, InHand DEF Loading
<1>4. pos = Len(Sheet)
  <2> DEFINE length == Len(Sheet)
  <2>1. length \in Nat /\ pos \in Nat /\ pos <= length
    BY <1>2, <1>3
  <2> HIDE DEF length
  <2> SUFFICES ASSUME pos < length PROVE FALSE
    BY <2>1 DEF length
  <2>2. pos + 1 \in DOMAIN Sheet /\ pos < pos + 1 /\ pos + 1 <= pos + BatchSize
    BY <1>2, <2>1 DEF length
  <2> QED  BY <1>1, <2>2 DEF Batch
<1>5. /\ file'[dataset].rowCount = pos
      /\ \A d \in Datasets \ {dataset} : file'[d] = file[d]
      /\ file' \in [Datasets -> [digest   : Books \cup {Nothing},
                                 rowCount : RowNumbers \cup {-1, 0}]]
  <2>1. pos \in RowNumbers \cup {-1, 0}
    BY <1>2, <1>4 DEF RowNumbers
  <2> QED  BY <1>1, <1>2, <2>1 DEF TypeOK
<1>6. /\ done'[dataset] = input[dataset]
      /\ \A d \in Datasets \ {dataset} : done'[d] = done[d]
      /\ done' \in [Datasets -> Books \cup {Nothing}]
  BY <1>1, <1>2 DEF TypeOK
<1>7. TypeOK'
  BY <1>1, <1>2, <1>5, <1>6 DEF TypeOK
<1>8. CountBacked'
  <2> SUFFICES ASSUME NEW d \in Datasets, NEW n \in 1 .. file'[d].rowCount
      PROVE  record[d][n] # Nothing /\ Settled(d, n)
    BY <1>1 DEF CountBacked, Settled
  <2>1. CASE d # dataset
    BY <1>5, <2>1 DEF IInv, CountBacked
  <2>2. CASE d = dataset
    <3>1. n \in 1 .. pos /\ n \in DOMAIN Sheet
      BY <1>2, <1>4, <1>5, <2>2
    <3> QED  BY <1>2, <1>3, <2>2, <3>1, WrittenIsSettled
  <2> QED  BY <2>1, <2>2
<1>9. DoneBacked'
  <2> SUFFICES ASSUME NEW d \in Datasets, NEW b \in Books, done'[d] = b,
                      NEW n \in DOMAIN Workbook[b].rows
      PROVE  /\ RowWritten(d, n, Workbook[b].rows[n])
             /\ Shows(d, n, Workbook[b].rows[n])
    BY <1>1 DEF DoneBacked, RowWritten, EntitiesWritten, Shows
  <2>1. CASE d # dataset
    BY <1>6, <2>1 DEF IInv, DoneBacked
  <2>2. CASE d = dataset
    <3>1. b = input[dataset] /\ Sheet = Workbook[b].rows
      BY <1>6, <2>2 DEF Sheet
    <3>2. n \in 1 .. pos
      BY <1>2, <1>4, <3>1
    <3> QED  BY <1>3, <2>2, <3>1, <3>2
  <2> QED  BY <2>1, <2>2
<1>10. InFlight'
  BY <1>1 DEF InFlight, Loading, BatchStages
<1>11. Constrained' /\ VerdictStands'
  BY <1>1, <1>6, LoadingKeeps DEF IInv, Constrained, Loading
<1>12. Traced' /\ HoldingsBacked' /\ ConflictForCause'
  BY <1>1 DEF IInv, Traced, HoldingsBacked, ReleaseWritten, ConflictForCause
<1> QED  BY <1>7, <1>8, <1>9, <1>10, <1>11, <1>12 DEF IInv

-----------------------------------------------------------------------------
(* The other steps.                                                        *)

LEMMA ValidateKeeps == ASSUME IInv, Validate PROVE IInv'
<1>1. /\ pc = "validate" /\ pc' = "idle" /\ command' = "none"
      /\ exit' = IF Unlinked = {} /\ ~Duplicated(nodes) THEN "clean" ELSE "dirty"
      /\ UNCHANGED <<input, ontology, graph, sealed, todo, dataset, pos, clash, done,
                     loaded, commands>>
  BY DEF Validate
<1>2. TypeOK'
  BY <1>1 DEF IInv, TypeOK, graph
<1>3. ASSUME NEW u \in Unlinked
      PROVE  done[u[1]] # Nothing => u[2] \notin DOMAIN Workbook[done[u[1]]].rows
  <2> DEFINE d == u[1]
             n == u[2]
             b == done[u[1]]
  <2> SUFFICES ASSUME b # Nothing, n \in DOMAIN Workbook[b].rows PROVE FALSE
    OBVIOUS
  <2>1. /\ d \in Datasets /\ n \in RowNumbers /\ u = <<d, n>>
        /\ \A l \in links : <<l[1], l[2]>> # u
        /\ u \notin rejected
    BY DEF Unlinked
  <2>2. b \in Books
    BY <2>1 DEF IInv, TypeOK
  <2>3. RowWritten(d, n, Workbook[b].rows[n]) /\ Workbook[b].rows[n] \in Rows
    BY <2>1, <2>2, BookType DEF IInv, DoneBacked
  <2>4. Settled(d, n)
    BY <2>1, <2>3, WrittenIsSettled
  <2> QED  BY <2>1, <2>4 DEF Settled
<1>4. exit' = "dirty" => Dirty
  BY <1>1, <1>3 DEF Dirty
<1> QED  BY <1>1, <1>2, <1>4, QuietKeeps DEF Loading, BatchStages

\* The nodes of a release have URIs of their own, but for its fund.
LEMMA ReleaseNodes ==
    ASSUME NEW r \in Releases
    PROVE  /\ FundNode(r) \in Nodes /\ ConstituentNodes(r) \subseteq Nodes
           /\ \A x, y \in ConstituentNodes(r) : x.uri = y.uri => x = y
<1>1. r.fund \in Isins /\ r.constituents \subseteq Isins
  BY ReleaseAssumption
<1>2. \A id \in Isins : /\ security_uri(id, Nothing) = SecurityAt(IsinAddress(id))
                        /\ security_uri(id, Nothing) \in Uris
  BY UriForms, IsinAddressed DEF SecurityAt, Uris
<1>3. FundNode(r) \in Nodes
  BY <1>1, <1>2 DEF FundNode, Node, Nodes, Patterns
<1>4. ASSUME NEW x \in ConstituentNodes(r) PROVE x \in Nodes /\ x.labels = SecurityLabels
                                                /\ x = Node(x.uri, SecurityLabels)
  <2>1. PICK c \in r.constituents : x = Node(security_uri(c, Nothing), SecurityLabels)
    BY DEF ConstituentNodes
  <2> QED  BY <1>1, <1>2, <2>1 DEF Node, Nodes, Patterns
<1>5. \A x, y \in ConstituentNodes(r) : x.uri = y.uri => x = y
  BY <1>4
<1> QED  BY <1>3, <1>4, <1>5

LEMMA HoldingsKeep ==
    ASSUME NEW r \in Releases, IInv, ~ReleaseRefused(r), nodes' = AfterRelease(r),
           loaded' = loaded \cup {r},
           UNCHANGED <<input, ontology, prepared, record, rejected, links, observed, file,
                       fields, loader, exit, clash, done, commands>>,
           \A b \in sealed' \ sealed : \E c \in Csvs : c.batch = b /\ c.release = r
    PROVE  IInv'
<1> DEFINE F == {FundNode(r)}
           C == ConstituentNodes(r)
           M == Merged(nodes, F)
<1>1. /\ nodes' = Merged(M, C) /\ Clashes(nodes, F) = {} /\ Clashes(M, C) = {}
  BY DEF AfterRelease, ReleaseRefused
<1>2. F \subseteq Nodes /\ C \subseteq Nodes /\ \A x, y \in C : x.uri = y.uri => x = y
  BY ReleaseNodes
<1>3. \A x, y \in F : x.uri = y.uri => x = y
  OBVIOUS
<1>4. M \subseteq nodes' /\ nodes \subseteq M /\ nodes' \subseteq nodes \cup F \cup C
  BY <1>1 DEF Merged, Missing
<1>5. Missing(nodes', F) = {} /\ Missing(nodes', C) = {}
  BY <1>1, <1>4, MergedIsMatched
<1> HIDE DEF F, C, M
<1>6. Grows
  BY <1>4 DEF Grows
<1>7. /\ UNCHANGED <<pc, todo, dataset, pos, command>>
  BY DEF loader
<1>8. TypeOK'
  <2>1. nodes' \subseteq Nodes /\ loaded' \subseteq Releases
    BY <1>2, <1>4 DEF IInv, TypeOK
  <2>2. sealed' \subseteq {c.batch : c \in Csvs}
    BY DEF IInv, TypeOK
  <2> QED  BY <1>7, <2>1, <2>2 DEF IInv, TypeOK
<1>9. "constraint" \in prepared => ~Duplicated(nodes')
  <2> SUFFICES ASSUME "constraint" \in prepared PROVE ~Duplicated(nodes')
    OBVIOUS
  <2>1. ~Duplicated(M)
    BY <1>1, <1>3, MergeKeepsUnique DEF IInv, Constrained, M
  <2> QED  BY <1>1, <1>2, <2>1, MergeKeepsUnique
<1>10. Constrained'
  BY <1>7, <1>9 DEF IInv, Constrained
<1>11. CountBacked' /\ DoneBacked'
  BY <1>6, GrowthKeeps
<1>12. InFlight'
  <2>1. CASE pc \notin Loading
    BY <1>7, <2>1 DEF InFlight
  <2>2. CASE pc = "fields"
    BY <1>7, <2>2 DEF IInv, InFlight
  <2>3. CASE pc \in Loading \ {"fields"}
    <3>1. KindsWritten' = KindsWritten
      BY <1>7 DEF KindsWritten
    <3> QED  BY <1>6, <1>7, <2>3, <3>1, InFlightGrows
  <2> QED  BY <2>1, <2>2, <2>3
<1>13. VerdictStands'
  <2>1. Unlinked' = Unlinked
    BY DEF Unlinked
  <2>2. Duplicated(nodes) => Duplicated(nodes')
    BY <1>4, MoreDuplicates
  <2> QED  BY <1>7, <2>1, <2>2, VerdictStays DEF VerdictStands, VerdictHonest, Dirty
<1>14. Traced'
  <2>1. \A m \in nodes' \ nodes : m = FundNode(r) \/ m \in ConstituentNodes(r)
    BY <1>4 DEF F, C
  <2> QED  BY <2>1 DEF IInv, Traced
<1>15. HoldingsBacked'
  <2>1. \A s \in loaded : ReleaseWritten(s)'
    BY <1>4, StaysMatched DEF IInv, HoldingsBacked, ReleaseWritten
  <2>2. ReleaseWritten(r)'
    BY <1>5 DEF ReleaseWritten, F, C
  <2>3. \A b \in sealed' : \E c \in Csvs : c.batch = b /\ c.release \in loaded'
    BY DEF IInv, HoldingsBacked
  <2> QED  BY <2>1, <2>2, <2>3 DEF HoldingsBacked
<1>16. ConflictForCause'
  BY DEF IInv, ConflictForCause
<1> QED  BY <1>8, <1>10, <1>11, <1>12, <1>13, <1>14, <1>15, <1>16 DEF IInv

LEMMA LoadHoldingsRowsKeeps ==
    ASSUME NEW r \in Releases, IInv, LoadHoldingsRows(r)
    PROVE  IInv'
  BY HoldingsKeep DEF LoadHoldingsRows

LEMMA LoadHoldingsCsvKeeps ==
    ASSUME NEW c \in Csvs, IInv, LoadHoldingsCsv(c)
    PROVE  IInv'
<1>1. c.release \in Releases
  BY ReleaseAssumption
<1>2. \A b \in sealed' \ sealed : b = c.batch
  BY DEF LoadHoldingsCsv
<1> QED  BY <1>1, <1>2, HoldingsKeep DEF LoadHoldingsCsv

\* Every step keeps the invariant.
LEMMA Preservation == IInv /\ [Next]_vars => IInv'
<1> SUFFICES ASSUME IInv, [Next]_vars PROVE IInv'
  OBVIOUS
<1>1. ASSUME NEW d \in Datasets, ReplaceWorkbook(d) PROVE IInv'
  BY <1>1, ReplaceWorkbookKeeps
<1>2. ASSUME NEW selected \in Selections, Start("load", selected) PROVE IInv'
  <2>1. selected \in SUBSET Datasets
    BY SelectionAssumption
  <2> QED  BY <1>2, <2>1, StartKeeps
<1>3. CASE Start("prepare", {}) \/ Start("validate", {})
  BY <1>3, StartKeeps
<1>4. CASE Stop \/ Validate
  BY <1>4, StopKeeps, ValidateKeeps
<1>5. CASE CreateConstraint \/ EnsureGraphConfig \/ ImportOntology \/ CreateIndexes
  BY <1>5, PreparationKeeps
<1>6. CASE OpenDataset \/ NoDatasetLeft \/ LoadSchemaFields
  BY <1>6, OpenDatasetKeeps, NoDatasetLeftKeeps, LoadSchemaFieldsKeeps
<1>7. CASE UpsertRawRecords \/ UpsertBonds \/ UpsertFunds \/ UpsertEtns
  BY <1>7, UpsertRawRecordsKeeps, StatementsKeep
<1>8. CASE UpsertQualityIssues \/ UpdateSourceFileCount
  BY <1>8, UpsertQualityIssuesKeeps, UpdateSourceFileCountKeeps
<1>9. ASSUME NEW r \in Releases, LoadHoldingsRows(r) PROVE IInv'
  BY <1>9, LoadHoldingsRowsKeeps
<1>10. ASSUME NEW c \in Csvs, LoadHoldingsCsv(c) PROVE IInv'
  BY <1>10, LoadHoldingsCsvKeeps
<1>11. CASE UNCHANGED vars
  <2>1. TypeOK'
    BY <1>11 DEF IInv, TypeOK, vars, graph, loader
  <2>2. UNCHANGED <<nodes, record, rejected, links, observed, loaded, sealed, file, done,
                    prepared, exit, pc, clash, input, dataset, pos>>
    BY <1>11 DEF vars, graph, loader
  <2>3. CountBacked' /\ DoneBacked' /\ Traced' /\ HoldingsBacked' /\ Unlinked' = Unlinked
    BY <2>2, GraphKeeps
  <2>4. Constrained' /\ VerdictStands' /\ ConflictForCause'
    BY <2>2, <2>3 DEF IInv, Constrained, VerdictStands, VerdictHonest, ConflictForCause
  <2>5. InFlight'
    <3>1. KindsWritten' = KindsWritten
      BY <2>2 DEF KindsWritten
    <3>2. Grows
      BY <2>2 DEF Grows
    <3> QED  BY <2>2, <3>1, <3>2, InFlightGrows DEF IInv, InFlight
  <2> QED  BY <2>1, <2>3, <2>4, <2>5 DEF IInv
<1> QED  BY <1>1, <1>2, <1>3, <1>4, <1>5, <1>6, <1>7, <1>8, <1>9, <1>10, <1>11 DEF Next

-----------------------------------------------------------------------------
(* The theorems.                                                           *)

\* The inductive invariant holds in every reachable state.
THEOREM Invariance == Spec => []IInv
  BY Beginning, Preservation, PTL DEF Spec

\* Every variable of the graph, the loader and the manifest has its type.
THEOREM TypeCorrect == Spec => []TypeOK
<1>1. IInv => TypeOK
  BY DEF IInv
<1> QED  BY <1>1, Invariance, PTL

\* Row counts are backed by settled records, finished loads by everything
\* their rows are to leave, and verdicts by the graph, across kills, reruns,
\* replaced workbooks and holdings loads (loader.py:1034-1239).
THEOREM AccountedRows == Spec => []RowsAccounted
<1>1. IInv => RowsAccounted
  BY DEF IInv, RowsAccounted, VerdictStands
<1> QED  BY <1>1, Invariance, PTL

\* What was loaded once, by either writer, can be loaded again
\* (loader.py:91-330, graph_loader.py:21-187).
THEOREM SafeReruns == Spec => []RerunSafe
<1>1. ASSUME IInv PROVE RerunSafe
  <2>1. ASSUME NEW d \in Datasets, NEW b \in Books, done[d] = b
        PROVE  /\ "constraint" \in prepared
               /\ \A n \in DOMAIN Workbook[b].rows :
                     Clashes(nodes, TRANSFORMERS(d, Workbook[b].rows[n]).merges) = {}
    <3>1. "constraint" \in prepared
      BY <1>1, <2>1, NothingAssumption DEF IInv, Constrained
    <3>2. ASSUME NEW n \in DOMAIN Workbook[b].rows
          PROVE  Missing(nodes, TRANSFORMERS(d, Workbook[b].rows[n]).merges) = {}
      BY <1>1, <2>1 DEF IInv, DoneBacked, RowWritten, EntitiesWritten
    <3> QED  BY <3>1, <3>2, NoClash
  <2>2. ASSUME NEW r \in loaded PROVE ~ReleaseRefused(r)
    <3>1. ReleaseWritten(r)
      BY <1>1 DEF IInv, HoldingsBacked
    <3> QED  BY <3>1, NoClash DEF ReleaseWritten, ReleaseRefused
  <2> QED  BY <1>1, <2>1, <2>2 DEF RerunSafe, IInv, HoldingsBacked
<1> QED  BY <1>1, Invariance, PTL

\* Two nodes share a URI only in an unprepared graph, where a fund was first
\* written as another fund's constituent (graph_loader.py:21-81).
THEOREM CausedDuplicates == Spec => []DuplicatesForCause
<1>1. ASSUME IInv PROVE DuplicatesForCause
  <2> SUFFICES ASSUME NEW x \in nodes, NEW y \in nodes, x # y, x.uri = y.uri
      PROVE  /\ "constraint" \notin prepared
             /\ \E r, s \in loaded : r.fund \in s.constituents /\ x.uri = FundNode(r).uri
    BY DEF DuplicatesForCause
  <2>1. "constraint" \notin prepared
    BY <1>1 DEF IInv, Constrained, Duplicated
  <2>2. /\ \E r \in loaded : x = FundNode(r) \/ x \in ConstituentNodes(r)
        /\ \E s \in loaded : y = FundNode(s) \/ y \in ConstituentNodes(s)
    BY <1>1, <2>1 DEF IInv, Traced
  <2>3. PICK r \in loaded, s \in loaded : /\ x = FundNode(r) \/ x \in ConstituentNodes(r)
                                          /\ y = FundNode(s) \/ y \in ConstituentNodes(s)
    BY <2>2
  <2>4. r \in Releases /\ s \in Releases
    BY <1>1 DEF IInv, TypeOK
  <2>5. /\ r.fund \in Isins /\ s.fund \in Isins
        /\ r.constituents \subseteq Isins /\ s.constituents \subseteq Isins
    BY <2>4, ReleaseAssumption
  <2>6. \A i, j \in Isins : security_uri(i, Nothing) = security_uri(j, Nothing) => i = j
    <3>1. \A i \in Isins : security_uri(i, Nothing).address.key = i
      BY UriForms, IsinAddressed DEF SecurityAt
    <3> QED  BY <3>1
  <2>7. \A i : /\ Node(security_uri(i, Nothing), FundUnitLabels).uri = security_uri(i, Nothing)
               /\ Node(security_uri(i, Nothing), SecurityLabels).uri = security_uri(i, Nothing)
    BY DEF Node
  <2>8. CASE x = FundNode(r) /\ y \in ConstituentNodes(s)
    <3>1. PICK c \in s.constituents : y = Node(security_uri(c, Nothing), SecurityLabels)
      BY <2>8 DEF ConstituentNodes
    <3>2. c = r.fund
      BY <2>5, <2>6, <2>7, <2>8, <3>1 DEF FundNode
    <3> QED  BY <2>1, <2>8, <3>2
  <2>9. CASE x \in ConstituentNodes(r) /\ y = FundNode(s)
    <3>1. PICK c \in r.constituents : x = Node(security_uri(c, Nothing), SecurityLabels)
      BY <2>9 DEF ConstituentNodes
    <3>2. c = s.fund
      BY <2>5, <2>6, <2>7, <2>9, <3>1 DEF FundNode
    <3> QED  BY <2>1, <2>9, <3>2
  <2>10. CASE x = FundNode(r) /\ y = FundNode(s)
    BY <2>5, <2>6, <2>7, <2>10 DEF FundNode
  <2>11. CASE x \in ConstituentNodes(r) /\ y \in ConstituentNodes(s)
    <3>1. PICK c \in r.constituents : x = Node(security_uri(c, Nothing), SecurityLabels)
      BY <2>11 DEF ConstituentNodes
    <3>2. PICK e \in s.constituents : y = Node(security_uri(e, Nothing), SecurityLabels)
      BY <2>11 DEF ConstituentNodes
    <3> QED  BY <2>5, <2>6, <2>7, <3>1, <3>2
  <2> QED  BY <2>3, <2>8, <2>9, <2>10, <2>11
<1> QED  BY <1>1, Invariance, PTL

\* A product load is refused only for a security a holdings load named first,
\* or a row calls something else.
THEOREM CausedConflicts == Spec => []ConflictForCause
<1>1. IInv => ConflictForCause
  BY DEF IInv
<1> QED  BY <1>1, Invariance, PTL

\* Datasets meet in one entity only under an ISIN, never a public fund's, and
\* units share a snapshot only for a ticker without its market
\* (loader.py:475-886, model.py:228-237).
THEOREM OneIdentityHolds == Spec => []OneIdentity
<1>1. ASSUME IInv PROVE OneIdentity
  <2>1. ASSUME NEW k \in links, NEW l \in links, k[3] = l[3], k[1] # l[1]
        PROVE  /\ k[3].address.space = "isin"
               /\ "public_funds" \notin {k[1], l[1]}
    <3>1. \A m \in links : m[1] \in Datasets /\ m[3].address.space \in Spaces(m[1])
      <4> TAKE m \in links
      <4>1. m[1] \in Datasets
        BY <1>1 DEF IInv, TypeOK
      <4>2. PICK row \in RowsAt(m[1], m[2]) :
              \E x \in TRANSFORMERS(m[1], row).merges : x.uri = m[3]
        BY <1>1 DEF IInv, Traced
      <4>3. row \in Rows
        BY <4>1, RowsAtType
      <4> QED  BY <4>1, <4>2, <4>3, SpaceOf
    <3>2. /\ k[1] \in Datasets /\ l[1] \in Datasets
          /\ k[3].address.space \in Spaces(k[1]) /\ k[3].address.space \in Spaces(l[1])
      BY <2>1, <3>1
    <3> QED  BY <2>1, <3>2 DEF Spaces, Datasets
  <2>2. ASSUME NEW o \in observed, NEW p \in observed, o[2] = p[2], o[1] # p[1]
        PROVE  {o[1].address.space, p[1].address.space} \cap ExchangeDatasets # {}
    <3>1. \A q \in observed : \E d \in Datasets, a \in Addresses, u \in Observations :
             q = <<SecurityAt(a), u>> /\ Addressed(d, a, u.key) /\ u.family = d
      <4> TAKE q \in observed
      <4>1. PICK d \in Datasets, n \in RowNumbers :
              \E row \in RowsAt(d, n) : q \in TRANSFORMERS(d, row).observes
        BY <1>1 DEF IInv, Traced
      <4>2. PICK row \in RowsAt(d, n) : q \in TRANSFORMERS(d, row).observes
        BY <4>1
      <4> QED  BY <4>2, RowsAtType, ObservedAt
    <3>2. PICK d \in Datasets, a \in Addresses, u \in Observations :
             o = <<SecurityAt(a), u>> /\ Addressed(d, a, u.key) /\ u.family = d
      BY <3>1
    <3>3. PICK e \in Datasets, b \in Addresses, v \in Observations :
             p = <<SecurityAt(b), v>> /\ Addressed(e, b, v.key) /\ v.family = e
      BY <3>1
    <3>4. /\ o[1] = SecurityAt(a) /\ p[1] = SecurityAt(b) /\ u = v /\ d = e /\ a # b
      BY <2>2, <3>2, <3>3
    <3>5. {a.space, b.space} \cap ExchangeDatasets # {}
      BY <3>2, <3>3, <3>4, SameKey
    <3> QED  BY <3>4, <3>5 DEF SecurityAt
  <2> QED  BY <2>1, <2>2 DEF OneIdentity
<1> QED  BY <1>1, Invariance, PTL
=============================================================================
