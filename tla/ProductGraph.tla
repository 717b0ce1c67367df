---------------------------- MODULE ProductGraph ----------------------------
(***************************************************************************)
(* One Neo4j graph with its two writers: the organizer product loader      *)
(* (mirae-graph prepare, load, validate) and the holdings loads of         *)
(* ExternalGraphLoader.  Both write entities under the same URIs.          *)
(*                                                                         *)
(* Every execute_query is one transaction, so the loader may be stopped    *)
(* between any two of them, by a kill or by an exception; only the graph   *)
(* survives.  A holdings load is one transaction and may come between any  *)
(* two steps of a product load.                                            *)
(*                                                                         *)
(* MERGE matches a node only by all labels of its pattern.  A node that    *)
(* has the URI but not the labels is not matched: MERGE creates a second   *)
(* one, unless the uniqueness constraint exists, which makes the           *)
(* transaction fail.  Only `prepare' creates the constraint; the holdings  *)
(* commands never run it.                                                  *)
(*                                                                         *)
(* Abstractions.  A workbook file is known by its SHA-256.  The operator   *)
(* replaces a workbook only while no load runs.  The nodes of other        *)
(* families (files, records, issues, observations, ontology classes) have  *)
(* disjoint URI prefixes and one pattern each, so they cannot clash and    *)
(* are kept as plain sets.  `Name_Bug' is Name with one plausible mistake  *)
(* and no part of the specification.                                       *)
(***************************************************************************)
EXTENDS ProductRows

CONSTANTS Books,       \* workbook files, each by its SHA-256
          Workbook,    \* Workbook[b]: what the file holds
          Versions,    \* Versions[d]: the files that may lie in the input
          Selections,  \* the --dataset selections an operator uses
          BatchSize,   \* --batch-size
          MaxRows,     \* bound: the longest workbook
          MaxCommands, \* bound: how many commands are started in all
          Releases,    \* what one holdings transaction sends: a fund and the
                       \* ISINs it holds
          Csvs,        \* holdings CSV files: the batch id they are recorded
                       \* under (source, window, index) and their release
          Nothing      \* no workbook, no row, no clash

ASSUME VersionAssumption ==
    /\ Workbook \in [Books -> Workbooks]
    /\ Versions \in [Datasets -> SUBSET Books]
    /\ \A b \in Books : Len(Workbook[b].rows) <= MaxRows
ASSUME SelectionAssumption == Selections \subseteq SUBSET Datasets \ {{}}
ASSUME SizeAssumption ==
    BatchSize \in Nat \ {0} /\ MaxRows \in Nat /\ MaxCommands \in Nat
ASSUME ReleaseAssumption ==
    /\ Releases \subseteq [fund : Isins, constituents : SUBSET Isins]
    /\ \A c \in Csvs : c.release \in Releases
ASSUME NothingAssumption == Nothing \notin Books \cup Nodes \cup Rows

VARIABLES
    input,      \* input[d]: the workbook of dataset d in the input directory
    ontology,   \* TRUE when every ontology module is there
    (* the graph *)
    prepared,   \* preparation steps the database has seen
    nodes,      \* entity nodes; the same URI twice is two nodes
    record,     \* record[d][n]: properties of the record of row n, or Nothing
    rejected,   \* <<d, n>> of records labelled RejectedRecord, with an issue
    links,      \* <<d, n, uri>>: the record DESCRIBES the entity
    observed,   \* <<uri, observation>>: HAS_OBSERVATION
    file,       \* file[d]: digest and row count on the SourceFile node
    fields,     \* datasets whose FieldDefinitions are written
    (* the holdings manifest *)
    sealed,     \* batch ids with a LOADED entry
    (* the loader process *)
    command, pc, todo, dataset, pos,
    exit,       \* how the last command ended
    clash,      \* the node a refused MERGE asked for, or Nothing
    (* history *)
    done,       \* done[d]: the workbook of the last load of d, if that load
                \* wrote its row count and no later one has begun
    loaded,     \* releases some transaction has committed
    commands    \* commands started so far

graph == <<prepared, nodes, record, rejected, links, observed, file, fields>>
loader == <<command, pc, todo, dataset, pos>>
vars == <<input, ontology, graph, sealed, loader, exit, clash, done, loaded,
          commands>>

Steps == {"constraint", "config", "ontology", "indexes"}
BatchStages == {"bonds", "funds", "etns", "issues"}
Loading == {"fields", "raw"} \cup BatchStages
RowNumbers == 1 .. MaxRows

TypeOK ==
    /\ input \in [Datasets -> Books]
    /\ \A d \in Datasets : input[d] \in Versions[d]
    /\ ontology \in BOOLEAN
    /\ prepared \subseteq Steps
    /\ nodes \subseteq Nodes
    /\ record \in [Datasets -> [RowNumbers -> Rows \cup {Nothing}]]
    /\ rejected \subseteq Datasets \X RowNumbers
    /\ links \subseteq Datasets \X RowNumbers \X Uris
    /\ observed \subseteq Uris \X Observations
    /\ file \in [Datasets -> [digest   : Books \cup {Nothing},
                              rowCount : RowNumbers \cup {-1, 0}]]
    /\ fields \subseteq Datasets
    /\ sealed \subseteq {c.batch : c \in Csvs}
    /\ command \in {"none", "prepare", "load", "validate"}
    /\ pc \in {"idle", "open", "validate"} \cup Steps \cup Loading
    /\ todo \subseteq Datasets
    /\ dataset \in Datasets
    /\ pos \in 0 .. MaxRows
    /\ exit \in {"none", "clean", "dirty", "error"}
    /\ clash \in Nodes \cup {Nothing}
    /\ done \in [Datasets -> Books \cup {Nothing}]
    /\ loaded \subseteq Releases
    /\ commands \in 0 .. MaxCommands

Init ==
    /\ input \in [Datasets -> UNION {Versions[d] : d \in Datasets}]
    /\ \A d \in Datasets : input[d] \in Versions[d]
    /\ ontology \in BOOLEAN
    /\ prepared = {} /\ nodes = {} /\ rejected = {} /\ links = {}
    /\ observed = {} /\ fields = {} /\ sealed = {} /\ loaded = {}
    /\ record = [d \in Datasets |-> [n \in RowNumbers |-> Nothing]]
    /\ file = [d \in Datasets |-> [digest |-> Nothing, rowCount |-> -1]]
    /\ command = "none" /\ pc = "idle" /\ todo = {}
    /\ dataset = "domestic_bonds" /\ pos = 0
    /\ exit = "none" /\ clash = Nothing
    /\ done = [d \in Datasets |-> Nothing]
    /\ commands = 0

-----------------------------------------------------------------------------
(* MERGE.                                                                  *)

Matched(N, x) == \E m \in N : m.uri = x.uri /\ x.labels \subseteq m.labels

\* The nodes of the patterns X that a MERGE has to create.
Missing(N, X) == {x \in X : ~Matched(N, x)}

Merged(N, X) == N \cup Missing(N, X)

\* The patterns of X the uniqueness constraint refuses.
Clashes(N, X) ==
    IF "constraint" \in prepared
    THEN {x \in Missing(N, X) : \E m \in N : m.uri = x.uri}
    ELSE {}

Duplicated(N) == \E x, y \in N : x # y /\ x.uri = y.uri

Overlay_Bug(old, row) == IF old = Nothing THEN row ELSE old

\* SET record += row: a blank cell leaves the older value in place.
Overlay(old, row) ==
    IF old = Nothing THEN row
    ELSE [item   |-> IF row.item # NoText THEN row.item ELSE old.item,
          isin   |-> IF row.isin # NoText THEN row.isin ELSE old.isin,
          ticker |-> IF row.ticker # NoText THEN row.ticker ELSE old.ticker,
          market |-> IF row.market # NoText THEN row.market ELSE old.market,
          etn    |-> row.etn,
          asOf   |-> IF row.asOf # NoText THEN row.asOf ELSE old.asOf]

-----------------------------------------------------------------------------
(* The operator.                                                           *)

\* A workbook is corrected or replaced between loads.
ReplaceWorkbook(d) ==
    /\ pc = "idle"
    /\ \E b \in Versions[d] : b # input[d] /\ input' = [input EXCEPT ![d] = b]
    /\ UNCHANGED <<ontology, graph, sealed, loader, exit, clash, done, loaded,
                   commands>>

Start_Bug(c, selected) ==
    /\ pc = "idle"
    /\ commands < MaxCommands
    /\ commands' = commands + 1
    /\ command' = c
    /\ pc' = CASE c = "validate" -> "validate"
               [] c = "load"     -> "open"
               [] OTHER          -> "constraint"
    /\ todo' = IF c = "load" THEN selected ELSE {}
    /\ exit' = "none"
    /\ clash' = Nothing
    /\ UNCHANGED <<input, ontology, graph, sealed, dataset, pos, done, loaded>>

\* mirae-graph prepare | load [--dataset ...] | validate.
Start(c, selected) ==
    /\ pc = "idle"
    /\ commands < MaxCommands
    /\ commands' = commands + 1
    /\ command' = c
    /\ pc' = IF c = "validate" THEN "validate" ELSE "constraint"
    /\ todo' = IF c = "load" THEN selected ELSE {}
    /\ exit' = "none"
    /\ clash' = Nothing
    /\ UNCHANGED <<input, ontology, graph, sealed, dataset, pos, done, loaded>>

\* An exception ends the command; so does a kill.
Abort ==
    /\ pc' = "idle"
    /\ command' = "none"
    /\ todo' = {}
    /\ exit' = "error"

Stop ==
    /\ pc # "idle"
    /\ Abort
    /\ UNCHANGED <<input, ontology, graph, sealed, dataset, pos, clash, done,
                   loaded, commands>>

-----------------------------------------------------------------------------
(* prepare.                                                                *)

Prepare(step, next) ==
    /\ pc = step
    /\ prepared' = prepared \cup {step}
    /\ pc' = next
    /\ UNCHANGED <<input, ontology, nodes, record, rejected, links, observed,
                   file, fields, sealed, command, todo, dataset, pos, exit,
                   clash, done, loaded, commands>>

Refuse(step) ==
    /\ pc = step
    /\ Abort
    /\ UNCHANGED <<input, ontology, graph, sealed, dataset, pos, clash, done,
                   loaded, commands>>

\* CREATE CONSTRAINT fails on a graph that already breaks it.
CreateConstraint ==
    \/ ~Duplicated(nodes) /\ Prepare("constraint", "config")
    \/ Duplicated(nodes) /\ Refuse("constraint")

EnsureGraphConfig == Prepare("config", "ontology")

\* All module files are looked for before the first is imported.
ImportOntology ==
    \/ ontology /\ Prepare("ontology", "indexes")
    \/ ~ontology /\ Refuse("ontology")

CreateIndexes ==
    Prepare("indexes", IF command = "load" THEN "open" ELSE "validate")

-----------------------------------------------------------------------------
(* load.                                                                   *)

Rank(d) == CHOOSE i \in 1 .. Len(DATASETS) : DATASETS[i] = d

\* The next dataset: its files are checked, then the SourceFile is written.
OpenDataset ==
    /\ pc = "open"
    /\ \E d \in todo :
        /\ \A e \in todo : Rank(d) <= Rank(e)
        /\ dataset' = d
        /\ IF /\ Workbook[input[d]].name = "baseline"
              /\ Workbook[input[d]].schema # "other"
           THEN /\ file' = [file EXCEPT ![d].digest = input[d]]
                /\ done' = [done EXCEPT ![d] = Nothing]
                /\ pos' = 0
                /\ pc' = "fields"
                /\ UNCHANGED <<command, todo, exit>>
           ELSE Abort /\ UNCHANGED <<file, done, pos>>
    /\ UNCHANGED <<input, ontology, prepared, nodes, record, rejected, links,
                   observed, fields, sealed, clash, loaded, commands>>

NoDatasetLeft ==
    /\ pc = "open"
    /\ todo = {}
    /\ pc' = "validate"
    /\ UNCHANGED <<input, ontology, graph, sealed, command, todo, dataset, pos,
                   exit, clash, done, loaded, commands>>

LoadSchemaFields ==
    /\ pc = "fields"
    /\ IF Workbook[input[dataset]].schema = "baseline"
       THEN /\ fields' = fields \cup {dataset}
            /\ pc' = "raw"
            /\ UNCHANGED <<command, todo, exit>>
       ELSE Abort /\ UNCHANGED fields
    /\ UNCHANGED <<input, ontology, prepared, nodes, record, rejected, links,
                   observed, file, sealed, dataset, pos, clash, done, loaded,
                   commands>>

Sheet == Workbook[input[dataset]].rows
Batch == {n \in DOMAIN Sheet : pos < n /\ n <= pos + BatchSize}
Payload(n) == TRANSFORMERS(dataset, Sheet[n])
BatchOf(kind) == {n \in Batch : Payload(n).kind = kind}

UpsertRawRecords ==
    /\ pc = "raw"
    /\ Batch # {}
    /\ record' = [record EXCEPT ![dataset] =
                     [n \in RowNumbers |-> IF n \in Batch
                                           THEN Overlay(@[n], Sheet[n])
                                           ELSE @[n]]]
    /\ pc' = "bonds"
    /\ UNCHANGED <<input, ontology, prepared, nodes, rejected, links, observed,
                   file, fields, sealed, command, todo, dataset, pos, exit,
                   clash, done, loaded, commands>>

\* One statement for the batch's rows of one kind.
Upsert(kind, next) ==
    LET merges == UNION {Payload(n).merges : n \in BatchOf(kind)} IN
    /\ IF Clashes(nodes, merges) = {}
       THEN /\ nodes' = Merged(nodes, merges)
            /\ links' = links \cup
                  UNION {{<<dataset, n, x.uri>> : x \in Payload(n).merges} :
                            n \in BatchOf(kind)}
            /\ observed' = observed \cup
                              UNION {Payload(n).observes : n \in BatchOf(kind)}
            /\ pc' = next
            /\ UNCHANGED <<command, todo, exit, clash>>
       ELSE /\ clash' \in Clashes(nodes, merges)
            /\ Abort
            /\ UNCHANGED <<nodes, links, observed>>
    /\ UNCHANGED <<input, ontology, prepared, record, rejected, file, fields,
                   sealed, dataset, pos, done, loaded, commands>>

UpsertBonds == pc = "bonds" /\ Upsert("bond", "funds")
UpsertFunds == pc = "funds" /\ Upsert("fund", "etns")
UpsertEtns  == pc = "etns" /\ Upsert("etn", "issues")

UpsertQualityIssues_Bug ==
    /\ pc = "issues"
    /\ rejected' = rejected \cup ({dataset} \X BatchOf("issue"))
    /\ pos' = pos + BatchSize
    /\ pc' = "raw"
    /\ UNCHANGED <<input, ontology, prepared, nodes, record, links, observed,
                   file, fields, sealed, command, todo, dataset, exit, clash,
                   done, loaded, commands>>

\* The last statement of a batch; the loop goes on behind it.
UpsertQualityIssues ==
    /\ pc = "issues"
    /\ rejected' = rejected \cup ({dataset} \X BatchOf("issue"))
    /\ pos' = IF pos + BatchSize <= Len(Sheet) THEN pos + BatchSize
              ELSE Len(Sheet)
    /\ pc' = "raw"
    /\ UNCHANGED <<input, ontology, prepared, nodes, record, links, observed,
                   file, fields, sealed, command, todo, dataset, exit, clash,
                   done, loaded, commands>>

UpdateSourceFileCount ==
    /\ pc = "raw"
    /\ Batch = {}
    /\ file' = [file EXCEPT ![dataset].rowCount = pos]
    /\ done' = [done EXCEPT ![dataset] = input[dataset]]
    /\ todo' = todo \ {dataset}
    /\ pc' = "open"
    /\ UNCHANGED <<input, ontology, prepared, nodes, record, rejected, links,
                   observed, fields, sealed, command, dataset, pos, exit,
                   clash, loaded, commands>>

-----------------------------------------------------------------------------
(* validate.                                                               *)

\* Records that neither describe an entity nor are rejected.
Unlinked ==
    {u \in Datasets \X RowNumbers :
        /\ record[u[1]][u[2]] # Nothing
        /\ \A l \in links : <<l[1], l[2]>> # u
        /\ u \notin rejected}

\* The last step of every command, with --fail-on-validation-error.
Validate ==
    /\ pc = "validate"
    /\ exit' = IF Unlinked = {} /\ ~Duplicated(nodes) THEN "clean" ELSE "dirty"
    /\ pc' = "idle"
    /\ command' = "none"
    /\ UNCHANGED <<input, ontology, graph, sealed, todo, dataset, pos, clash,
                   done, loaded, commands>>

-----------------------------------------------------------------------------
(* The holdings loads.                                                     *)

FundNode(r) == Node(security_uri(r.fund, Nothing), FundUnitLabels)
ConstituentNodes(r) ==
    {Node(security_uri(c, Nothing), SecurityLabels) : c \in r.constituents}

\* UPSERT_HOLDINGS merges the fund, then what it holds.
AfterRelease(r) == Merged(Merged(nodes, {FundNode(r)}), ConstituentNodes(r))

ReleaseRefused(r) ==
    \/ Clashes(nodes, {FundNode(r)}) # {}
    \/ Clashes(Merged(nodes, {FundNode(r)}), ConstituentNodes(r)) # {}

LoadHoldingsRows_Bug(r) ==
    LET fund == Node(FundNode(r).uri, SecurityLabels) IN
    /\ Clashes(nodes, {fund} \cup ConstituentNodes(r)) = {}
    /\ nodes' = Merged(nodes, {fund} \cup ConstituentNodes(r))
    /\ loaded' = loaded \cup {r}
    /\ UNCHANGED <<input, ontology, prepared, record, rejected, links,
                   observed, file, fields, sealed, loader, exit, clash, done,
                   commands>>

\* load_holdings_rows commits, or fails and leaves no trace.
LoadHoldingsRows(r) ==
    /\ ~ReleaseRefused(r)
    /\ nodes' = AfterRelease(r)
    /\ loaded' = loaded \cup {r}
    /\ UNCHANGED <<input, ontology, prepared, record, rejected, links,
                   observed, file, fields, sealed, loader, exit, clash, done,
                   commands>>

LoadHoldingsCsv_Bug(c) ==
    /\ c.batch \notin sealed
    /\ sealed' = sealed \cup {c.batch}
    /\ IF ReleaseRefused(c.release)
       THEN UNCHANGED <<nodes, loaded>>
       ELSE /\ nodes' = AfterRelease(c.release)
            /\ loaded' = loaded \cup {c.release}
    /\ UNCHANGED <<input, ontology, prepared, record, rejected, links,
                   observed, file, fields, loader, exit, clash, done,
                   commands>>

\* load_holdings_csv asks the manifest for the batch id first, and appends
\* its LOADED entry after the commit; it may die in between.
LoadHoldingsCsv(c) ==
    /\ c.batch \notin sealed
    /\ ~ReleaseRefused(c.release)
    /\ nodes' = AfterRelease(c.release)
    /\ loaded' = loaded \cup {c.release}
    /\ sealed' \in {sealed, sealed \cup {c.batch}}
    /\ UNCHANGED <<input, ontology, prepared, record, rejected, links,
                   observed, file, fields, loader, exit, clash, done,
                   commands>>

-----------------------------------------------------------------------------
Next ==
    \/ \E d \in Datasets : ReplaceWorkbook(d)
    \/ Start("prepare", {}) \/ Start("validate", {})
    \/ \E selected \in Selections : Start("load", selected)
    \/ Stop
    \/ CreateConstraint \/ EnsureGraphConfig \/ ImportOntology \/ CreateIndexes
    \/ OpenDataset \/ NoDatasetLeft \/ LoadSchemaFields
    \/ UpsertRawRecords \/ UpsertBonds \/ UpsertFunds \/ UpsertEtns
    \/ UpsertQualityIssues \/ UpdateSourceFileCount
    \/ Validate
    \/ \E r \in Releases : LoadHoldingsRows(r)
    \/ \E c \in Csvs : LoadHoldingsCsv(c)

Spec == Init /\ [][Next]_vars
-----------------------------------------------------------------------------
(* Properties.                                                             *)

Settled(d, n) ==
    <<d, n>> \in rejected \/ \E l \in links : l[1] = d /\ l[2] = n

\* The record r shows every cell the row fills.
ShowsRow(r, row) ==
    /\ r # Nothing
    /\ \A f \in {"item", "isin", "ticker", "market", "asOf"} :
          row[f] # NoText => r[f] = row[f]
    /\ r.etn = row.etn

Shows(d, n, row) == ShowsRow(record[d][n], row)

\* What the row describes is there, and its record points at it.
EntitiesWritten(d, n, row) ==
    LET p == TRANSFORMERS(d, row) IN
    /\ Missing(nodes, p.merges) = {}
    /\ \A x \in p.merges : <<d, n, x.uri>> \in links
    /\ p.observes \subseteq observed

\* All that one row is to leave in the graph is there.
RowWritten(d, n, row) ==
    /\ record[d][n] # Nothing
    /\ TRANSFORMERS(d, row).kind = "issue" => <<d, n>> \in rejected
    /\ EntitiesWritten(d, n, row)

\* The rows numbered n of the versions of dataset d.
RowsAt(d, n) ==
    {Workbook[b].rows[n] : b \in {c \in Versions[d] : n \in DOMAIN Workbook[c].rows}}

\* A row count is backed: each of the rows it counts has its record, and the
\* record describes something or is rejected.
CountBacked ==
    \A d \in Datasets : \A n \in 1 .. file[d].rowCount :
        record[d][n] # Nothing /\ Settled(d, n)

\* A load that ran to its end wrote everything, whatever killed loads and
\* older versions left before it.
DoneBacked ==
    \A d \in Datasets, b \in Books : done[d] = b =>
        \A n \in DOMAIN Workbook[b].rows :
            /\ RowWritten(d, n, Workbook[b].rows[n])
            /\ Shows(d, n, Workbook[b].rows[n])

\* A validation calls the graph dirty for duplicates, or for records whose
\* dataset has no finished load or whose row its workbook no longer has.
VerdictHonest ==
    /\ exit = "clean" => Unlinked = {}
    /\ exit = "dirty" =>
         \/ Duplicated(nodes)
         \/ \E u \in Unlinked :
                done[u[1]] # Nothing =>
                    u[2] \notin DOMAIN Workbook[done[u[1]]].rows

\* What the loader says of its work is true across kills, reruns, corrected
\* workbooks and holdings loads in between: counts, finished loads, verdicts.
RowsAccounted == CountBacked /\ DoneBacked /\ VerdictHonest

\* What was loaded once can be loaded again: no later load of either writer
\* makes the graph refuse the same rows, the same release, or a recorded CSV
\* batch's release (loading-record.md: "safe to rerun").
RerunSafe ==
    /\ \A d \in Datasets, b \in Books : done[d] = b =>
          /\ "constraint" \in prepared
          /\ \A n \in DOMAIN Workbook[b].rows :
                Clashes(nodes, TRANSFORMERS(d, Workbook[b].rows[n]).merges) = {}
    /\ \A r \in loaded : ~ReleaseRefused(r)
    /\ \A b \in sealed : \E c \in Csvs : c.batch = b /\ c.release \in loaded

\* One URI has two nodes only in a graph that was never prepared, when a fund
\* was first written as another fund's constituent.
DuplicatesForCause ==
    \A x, y \in nodes : x # y /\ x.uri = y.uri =>
        /\ "constraint" \notin prepared
        /\ \E r, s \in loaded : r.fund \in s.constituents
                               /\ x.uri = FundNode(r).uri

\* A product load is refused for its identities only when a holdings load
\* named the security first, as a constituent or as a fund the workbook calls
\* something else, or when another row calls it something else.
ConflictForCause ==
    clash # Nothing =>
        \/ \E r \in loaded :
              \/ clash.uri \in {x.uri : x \in ConstituentNodes(r)}
              \/ clash.uri = FundNode(r).uri /\ clash.labels # FundUnitLabels
        \/ \E l \in links : \E row \in RowsAt(l[1], l[2]) :
              /\ l[3] = clash.uri
              /\ \E x \in TRANSFORMERS(l[1], row).merges :
                    x.uri = clash.uri /\ x.labels # clash.labels

\* Records of two datasets describe one entity only by its ISIN, and never a
\* public fund's.  Two units share a dated snapshot only when an exchange
\* dataset names one of them by its ticker alone.
OneIdentity ==
    /\ \A k, l \in links : k[3] = l[3] /\ k[1] # l[1] =>
          /\ k[3].address.space = "isin"
          /\ "public_funds" \notin {k[1], l[1]}
    /\ \A o, p \in observed : o[2] = p[2] /\ o[1] # p[1] =>
          {o[1].address.space, p[1].address.space} \cap ExchangeDatasets # {}
-----------------------------------------------------------------------------
(* The inductive invariant of the proofs.                                  *)

\* The constraint stands whenever the product loader writes, and wherever it
\* stands no URI has two nodes.
Constrained ==
    /\ pc \in {"config", "ontology", "indexes", "open"} \cup Loading =>
          "constraint" \in prepared
    /\ \A d \in Datasets : done[d] # Nothing => "constraint" \in prepared
    /\ "constraint" \in prepared => ~Duplicated(nodes)

\* Kinds whose statement has been executed for the batch in hand.
KindsWritten ==
    IF pc = "funds" THEN {"bond"}
    ELSE IF pc = "etns" THEN {"bond", "fund"}
    ELSE IF pc = "issues" THEN {"bond", "fund", "etn"}
    ELSE {}

\* What the load in hand has written: all of the rows before pos, and of the
\* batch behind it the statements executed so far.
InFlight ==
    \A d \in Datasets, b \in Books :
        d = dataset /\ b = input[d] /\ pc \in Loading =>
            /\ done[d] = Nothing
            /\ pc = "fields" => pos = 0
            /\ pc # "fields" =>
                  /\ pos <= Len(Workbook[b].rows)
                  /\ \A n \in 1 .. pos : /\ RowWritten(d, n, Workbook[b].rows[n])
                                         /\ Shows(d, n, Workbook[b].rows[n])
                  /\ \A n \in Batch :
                        /\ pc # "raw" => Shows(d, n, Workbook[b].rows[n])
                        /\ Payload(n).kind \in KindsWritten =>
                              EntitiesWritten(d, n, Workbook[b].rows[n])

VerdictStands == (exit \in {"clean", "dirty"} => pc = "idle") /\ VerdictHonest

\* Everything in the graph goes back to a row or to a release.
Traced ==
    /\ \A l \in links : \E row \in RowsAt(l[1], l[2]) :
          \E x \in TRANSFORMERS(l[1], row).merges : x.uri = l[3]
    /\ \A o \in observed : \E d \in Datasets, n \in RowNumbers :
          \E row \in RowsAt(d, n) : o \in TRANSFORMERS(d, row).observes
    /\ \A m \in nodes :
          \/ \E r \in loaded : m = FundNode(r) \/ m \in ConstituentNodes(r)
          \/ /\ "constraint" \in prepared
             /\ \E l \in links : \E row \in RowsAt(l[1], l[2]) :
                   m \in TRANSFORMERS(l[1], row).merges /\ l[3] = m.uri

\* What a holdings transaction merged is still matched.
ReleaseWritten(r) ==
    /\ Missing(nodes, {FundNode(r)}) = {}
    /\ Missing(nodes, ConstituentNodes(r)) = {}

HoldingsBacked ==
    /\ \A r \in loaded : ReleaseWritten(r)
    /\ \A b \in sealed : \E c \in Csvs : c.batch = b /\ c.release \in loaded

IInv ==
    /\ TypeOK /\ Constrained /\ CountBacked /\ DoneBacked /\ InFlight
    /\ VerdictStands /\ Traced /\ HoldingsBacked /\ ConflictForCause
=============================================================================
