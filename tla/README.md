# Verification of the ingestion pipeline

TLA+ models, model-checking configurations and TLAPS proofs for
`mirae_asset_graph`, the package that collects fund holdings from official
sources, keeps them as verifiable artifacts and loads them into a Neo4j graph.
Paths below are relative to `src/src/mirae_asset_graph/` unless they start with
`docs/`, `scripts/` or `README.md`, which are relative to `src/`.

## 1. Inventory

### Parts, their state and their operations

| part | code | state | operations |
|---|---|---|---|
| resumable runner | `ingest/runner.py` | none of its own: `manifest.jsonl`, the destination graph, per-run counters | `IngestionRunner.run`, `_process_target`, `_append` |
| manifest log | `ingest/manifest.py` | one append-only JSONL file per source | `append_entry`, `read_manifest`, `is_loaded` |
| artifact publication | `ingest/artifacts.py`, `_atomic_write` in both adapters | files named by the digest of their bytes | `publish_immutable`, `_atomic_write` |
| collection and verification | `ingest/collection.py` | READY and FAILED manifest entries | `CollectionRunner.run`, `verify_collection` |
| command line | `ingest_cli.py` | LOADED manifest entries | `collect`, `verify-collection`, `load`, `catch-up`, `validate-targets`, the write gate |
| graph loader | `ingest/graph_loader.py` | nodes and relationships, keyed by URI | `load_holdings_rows`, `load_holdings_csv`, `upsert_crosswalk`, `label_counts` |
| SEC N-PORT adapter | `ingest/nport.py` | raw files, time of the next allowed request | `discover`, `fetch`, `normalize` |
| manager basket adapter | `ingest/basket_kr.py` | as above | as above |
| HTTP fetch | `ingest/http_fetch.py`, `ingest/source_policy.py` | none | redirect loop, URL and address policy |
| record contract | `ingest/records.py` | none | `create`, `from_dict`, serialization, weight rules |
| resolver and crosswalk | `ingest/resolver.py`, `ingest/crosswalk.py` | index of reviewed identifiers | `resolve`, `load_crosswalk_bytes` |
| target policy | `ingest/targets.py`, `ingest/watermark.py` | none | `load_target_config`, `target_window`, `compute_missing` |
| product loader | `loader.py`, `cli.py` | organizer nodes in the graph, the uniqueness constraint | `prepare`, `load`, `validate`, `dry_run` |
| value model | `model.py` | none | conversions, URI components |
| raw transfer | `scripts/transfer_raw.py` | copied files | resumable copy |

### How they interact

`collect` builds an adapter and a `CollectionRunner`. For each target the
adapter fetches a raw document (`_atomic_write`), normalizes it
(`publish_immutable`, twice), and the runner seals the files with a READY entry.
`load` runs `verify_collection` over the same files, keeps the parsed records in
memory, and sends them shard by shard to the graph loader, with a LOADED entry
after each committed shard. `IngestionRunner` is the older single pass from
fetch to graph, with shards, LOADED entries and a VALIDATED completion marker.
All of them share one manifest file per source and take no lock on it. Nothing
in the package is threaded: concurrency is several processes on the same files,
manifest and database.

`mirae-graph load` is the other writer of the database: it prepares the graph
(constraint, ontology, indexes), reads the organizer's four workbooks batch by
batch, and writes records and entities in one transaction per statement. The
holdings loads write funds and constituents under the same ISIN URIs, never
prepare the graph, and may come before, between or after.

### What is hard, and what makes each part correct

- Runner: the database transaction and the manifest write are two steps, and
  a crash, an error or another process may come between. A resume may choose
  another batch size or meet an amended document. Correct when no trusted entry
  ever covers a row that was not committed, when the summary is true, and when
  the loops end.
- Publication: several publishers of the same bytes, each system call may fail
  or be the last. Correct when a name is never seen with partial bytes, never
  overwritten, and when a publisher's verdict is true.
- Collection, verification and load: READY entries, files and inputs change
  while commands run. Correct when only verified bytes reach a database, all or
  nothing per bundle is verified first, and a success means delivery.
- Manifest log: appends fail or die half-way, nothing is synced, nobody repairs
  the file and others append to it. Correct when no damaged line hides an
  entry, and what a loss of power cuts off is not called ready.
- Fetch: redirects inside retries inside a rate limit, against sleeps and answers
  of any length. Correct when attempts keep their distance and every fetch ends.
- Reports of `collect`, `catch-up` and `verify-collection`: config, crosswalk and
  manifest change between them. Correct when each is true of what was recorded.
- Product loader: killed between any two statements, rerun with a corrected
  workbook or another selection. Correct when counts, finished loads and the
  validation are true of the graph.
- Two writers of one graph: MERGE matches all labels of its pattern, so the order
  of the writers decides whether a security is found, duplicated or refused.
  Correct when what was loaded once can always be loaded again, and when
  duplicates and refusals have no cause but the known ones.
- Records and resolver: identifiers that are ambiguous or spelt in two ways,
  totals over some of the rows, numbers that are NaN or infinite. Correct when an
  identity is never guessed, every row ends up in one of the two files, and a
  derived weight is a share of the whole document.

`PROJECT.json` lists every hazard at its line, with the property that catches it.

## 2. Modules

| module | what it is |
|---|---|
| `ReceiptLedger` | abstract: rows are delivered and never withdrawn; a receipt is only issued for rows that are already delivered. `IngestRunner` and `BundlePipeline` implement it |
| `IngestRunner` | `IngestionRunner` on one source, any number of processes |
| `IngestRunnerProofs` | proofs about it: types, backing, the ledger |
| `IngestRunnerRunProofs` | proofs about it: summary, reload, the graph after a run |
| `WriteOnceStore` | abstract: a name is free, whole or spoilt from outside; callers fill free names only and are told the truth |
| `ArtifactStore` | `publish_immutable` and `_atomic_write`, one action per system call |
| `ArtifactStoreProofs` | proofs about it |
| `BundlePipeline` | `collect` and `load` (with `verify_collection`) on one source |
| `BundlePipelineProofs` | proofs about it: types, attestation, one normalization |
| `BundleOutcomeProofs` | proofs about it: lineage, refusals, delivery, the ledger |
| `HoldingsRules` | one document through resolver, total and row rules, for both adapters |
| `HoldingsRulesProofs` | proofs about it |
| `ProductRows` | what one organizer row becomes: the transformers of `loader.py` and the URIs of `model.py` |
| `ProductGraph` | the graph, the product loader and the holdings loads that share it |
| `ProductGraphProofs` | proofs about it |
| `ManifestLog` | the manifest file as pieces of lines, and its reader |
| `TargetPolicy` | target configs, windows and selections |
| `SourceCollection` | `collect` against a live source, `catch-up`, and the manifest half of `verify-collection` |
| `SourceCollectionProofs` | proofs about it |
| `MC...` | small instances of the module of that name |

A definition called `Name_Bug` is `Name` with one plausible mistake. It is never
part of a specification; `PROJECT.json` pairs it with the property that notices it.

### IngestRunner

State and code: `manifest` is the file read by `read_manifest`; `graph` the
properties of position nodes; `pc`, `batch`, `strict`, `todo`, `doc` are the
locals of `run` and `_process_target` (`doc` is the target in hand, its content,
and the shard cursor); `tally` is the part of `_RunCounters` that the properties
need. `delivered`, `done`, `sealed` are history variables and `runs` counts
against the bound `MaxRuns`. They never restrict a step of the program.

Actions follow the code from top to bottom: `StartRun`, `TakeTarget`,
`RecordDiscovered`, `Fetch`, `Normalize`, then for every shard `SkipShard` or
`NeedShard`, `SinkLoad`, `MarkLoaded`, and at last `CompleteTarget`. The check
of `is_loaded`, the transaction and the manifest append are separate steps,
because another process or a crash may come in between. `FailTarget` and `FailRun`
are the `except` branch, possible at every statement; `Crash` loses everything
but the files and the graph. `Amend` lets the source publish another version.

Abstractions: a content number stands for the raw and normalized digests
together; rows are known by content, group and index; run ids and times are left
out, which makes the manifest a set; counters other than `failed_targets` are
left out.

### ArtifactStore

`store[n]` is what a reader finds under a name: nothing, the right bytes
(`durable` once fsynced, `volatile` before), a `torn` file, or `foreign` bytes.
A publisher is at the system call `pc`, with a temporary file `temp`. Names in
`Derived` take the path of `publish_immutable` (probe, compare, create, write,
sync, link, compare again, clean), names in `Raw` the path of `fetch` and
`_atomic_write` (probe, create, write, sync, replace). `Fail` is an `OSError` of
any of these calls, with the `finally` clause kept; `PowerLoss` keeps what was
synced, and may drop a name, since the directory is never synced; `Intrude` is
any other program. `spoilt` records the names the last two have touched.

### BundlePipeline

`rawfile` and `normfile` are the two artifact trees, `ready`, `failed` and
`loaded` the manifest by kind of entry, `delivered` the rows committed to each
database. `collector[p]` and `loader[p]` hold the locals of a running command.
`Fetch`, `Hash`, `Parse`, `Normalize`, `Validate` and `Seal` are the points at which
`CollectionRunner.run` touches the disk. The raw file is read by the runner for its
digest (`collection.py:65`), by the adapter for its rows (`basket_kr.py:527`) and, where
the document id contains a digest, by the adapter once more (`basket_kr.py:542`); the
records file is read back for validation (`collection.py:72`) and again for the
digest in the READY entry (`collection.py:97`). Any file may change between any two
of these. A normalized content is therefore what was parsed, under which inputs and
release, and the document id its records carry. `swaps` counts the changes of each raw
file, for `LineageTrue`. `ReadManifest` and `VerifyTarget` are `verify_collection`; its loop over
targets is stepwise, so that files may change between targets and afterwards.
`CheckShard`, `SinkLoad` and `MarkLoaded` are the loop of `_load`; an entry of
`loaded` is the shard id with the target, document id and raw digest that the
manifest line carries. Files are
written in one step here, which `ArtifactStore` justifies. `Junk` stands for
bytes nobody published, which may or may not parse. A normalizer release is part
of the normalized content but not of the inputs digest, as in the code.

Abstractions: byte counts, path checks and symlink checks are part of comparing
the digest (the sizes that `Seal` takes by `stat` after the digests are taken with them); the records file stands for the quarantine file too; the duplicate
skip by `(document id, raw digest)` in `verify_collection` is left out, because
two entries that agree on it and on the inputs are equal or conflicting. The
entries of one target are verified and loaded in any order (the code orders them
by document id and a digest).

### HoldingsRules

One document of one adapter, one action per turn of a loop: `SkipRow`,
`IndexRow`, `RefuseRow` and `IndexDone` are `IdentifierResolver.__init__`,
`CheckDates` the rejection of a document of another date, `AddValue` and
`TotalDone` the document total, `QuarantineRow`, `KeepRow` and `CrashRow` the
three ways out of `_normalize_position` and `_normalize_row`, `Publish` the two
files. The adapters differ in `Usable` (placeholders), `Dated`, the total, and
`Weightless`; the rest is the same. `Quarantined` is the list of the code's early
returns, `Valid` the checks of `HoldingsRecord`.

Abstractions: an identifier is a text without blanks, `Upper` its upper case; a
cell is what `float()` returned, with NaN and infinities, and NaN compares as in
Python; finite arithmetic is exact, so weights are fractions, and a sum of
finite values does not overflow; columns that are copied are left out.

### ProductRows and ProductGraph

`ProductRows` has no state. A row is the six columns that decide identity; a
payload is the entity nodes its statement merges, each with the label pattern of
the MERGE clause, and the dated observations. `ProductGraph` adds the database:
`prepared` (which preparation statements it has seen), `nodes` (entity nodes; two
of them may have one URI), `record`, `rejected`, `links` (DESCRIBES), `observed`,
`file` and `fields`. `pc`, `todo`, `dataset` and `pos` are where a running
`mirae-graph` command stands; `exit` is how the last one ended, `clash` the node a
refused MERGE asked for. `done` and `loaded` are history.

`Start`, then `CreateConstraint`, `EnsureGraphConfig`, `ImportOntology`,
`CreateIndexes` are `main` and `prepare`; `OpenDataset`, `LoadSchemaFields`,
`UpsertRawRecords`, `UpsertBonds`, `UpsertFunds`, `UpsertEtns`,
`UpsertQualityIssues`, `UpdateSourceFileCount` are `_load_dataset`, one action per
`execute_query`; `Validate` is the last step of every command, with
`--fail-on-validation-error`. `Stop` ends the command between any two of them.
`LoadHoldingsRows` and `LoadHoldingsCsv` are whole transactions of
`ExternalGraphLoader` and may come at any moment; the second asks the manifest
first and may die before it appends. `ReplaceWorkbook` is the operator, between
commands.

MERGE is `Merged`: a pattern is matched by a node with the URI and all labels of
the pattern, otherwise a node is created. `Clashes` is what the constraint then
refuses; a refused statement changes nothing and ends the command.

Abstractions: names, prices, identifiers, organizations, classifications,
listings and offerings are properties or nodes under URIs of their own and are
left out; so are the holdings positions, which `IngestRunner` has. A workbook is
known by its digest. A holdings release covers one fund, though a file of
`load_holdings_csv` may hold several. Preparation statements are idempotent and cannot fail except
for the constraint (on duplicates) and the ontology (missing files).

### ManifestLog, TargetPolicy and SourceCollection

`ManifestLog` is the file as the sequence of what each append left: a whole
`line`, an object without its newline (`unended`), or a `torn` piece. The next
append continues the same line, which makes it unreadable; `read_manifest` raises
then, as `json.loads` does. `Truncations` is what a loss of power may leave.
`TargetPolicy` is `load_target_config`, `target_window` and `discover`, over
integers for dates.

`SourceCollection` composes the two with one `collect` process and the read-only
commands. `config`, `crosswalk` and `log` are files; `job`, `target`, `failed` the
locals of `CollectionRunner.run`; `attempt` and `hop` the counters of `fetch` and
`read_with_validated_redirects`; `slot` is `_next_request_at`, `clock` the monotonic
clock. `summary`, `report` and `verdict` are what the last command printed. The
other variables are history: `acked` are the READY entries that were reported as
written, for good; `taken` those of them that a loss of power has removed whole from
the file; `overslept` is how much longer than asked the sleep before the last slot
lasted. `NextTarget`, `RespectRateLimit`, `Request`
(`Redirected`, `Retried` or `Answered`), `Seal`, `RecordFailure` and `Finish` are the
loop; `CatchUp` and `Verify` the read-only commands; `EditInputs`, `Kill`,
`PowerLoss` and `ForeignAppend` the rest of the world. A READY append that fails
goes to the `except` branch, whose FAILED entry lands behind the piece it left.

Abstractions: time moves where the process sleeps or waits for an answer; every
failure without an HTTP status is one answer; files are whole and normalize
(`ArtifactStore`, `BundlePipeline`); versions of a document are not told apart;
LOADED entries, which none of these readers looks at, appear as FAILED ones.

## 3. Runs

| run | instance | checks |
|---|---|---|
| `runner_concurrent` | 2 processes, 1 target with 2 reversible versions, batch sizes 1 and 2, 3 runs | `LoadedBacked`, `CompletionBacked`, `IInv`, `ImplementsLedger` |
| `runner_rerun` | 1 process, 2 targets, 3 versions moving forward, 3 runs, fairness | `SummaryHonest`, `GraphCurrent`, `RunInv`, `SealedNotReloaded`, `RunTerminates` |
| `runner_docstring` | as before, 2 runs | `ReprocessedIsSkipped`, violated |
| `artifact_publish` | 3 publishers, one derived and one raw name | `NeverTorn`, `NoFalseConflict`, `IInv`, `ExistingKept`, `ImplementsWriteOnce` |
| `bundle_verify` | 2 targets, 3 documents, 1 collect, 2 loads with batch size 1 or 2, 2 changes of files | `TypeOK`, `OnlyAttestedDelivered`, `WholeBundleFirst`, `LineageTrue`, `LoadDelivers` |
| `bundle_releases` | 1 target with an amendment, 2 sets of inputs, 2 normalizer releases, 2 collects, 2 loaders with 2 loads, batch size 1 | `RefusedForCause`, `OneNormalization`, `IInv`, `OutcomeInv`, `ImplementsLedger` |
| `bundle_destinations` | 2 databases, 1 collect, 2 loads | `LoadDelivers`, violated |
| `holdings_rules` | crosswalks and documents of up to 3 rows, both sources | `IndexFaithful`, `IdentityAttested`, `EveryRowOnce`, `IInv`, `DerivedShares` |
| `holdings_nonfinite` | as before | `QuarantinesNotCrashes`, violated |
| `product_graph` | 4 datasets with up to 3 rows, a corrected and two refused workbooks, batches of 2 rows, 3 commands, 2 holdings releases and a CSV batch | `TypeOK`, `RowsAccounted`, `RerunSafe`, `DuplicatesForCause`, `ConflictForCause`, `OneIdentity` |
| `source_collection` | 2 targets, 3 configs, 3 windows, 2 collects, 1 fault, 1 entry of others, fairness | `TypeOK`, `ReadAllOrRefuse`, `PoliteFetch`, `ReportsTrue`, `CollectEnds` |
| `source_spacing` | as before | `RequestsSpaced`, violated |

Where a run checks an inductive invariant `IInv`, `TypeOK` is one of its conjuncts.
`RunInv` and `OutcomeInv` are what the proofs of `IngestRunnerRunProofs` and
`BundleOutcomeProofs` add to it.

What they show:

- `LoadedBacked`, `CompletionBacked`: an entry a later run trusts is never ahead
  of the database, with a crash between transaction and entry, two processes,
  a changed batch size and an amended document in any combination.
- `SummaryHonest`: discovered = completed + failed, and what is completed was
  delivered.
- `GraphCurrent`: after a completed document, its positions hold that version.
  It needs versions that only move forward and one process. When a source
  returns to an earlier version, the shards of that version are still LOADED, are
  skipped, and the graph keeps the later values; two processes can overwrite
  each other likewise. Nothing in the code claims otherwise.
- `SealedNotReloaded`: with the same batch size a completed document is never
  sent again. The module docstring of `runner.py` drops the condition on the batch
  size, and `runner_docstring` shows that the code does not do what it says.
- `NeverTorn`, `ExistingKept`, `NoFalseConflict`, `ImplementsWriteOnce`: sync
  before link, link instead of rename, and the comparison after a lost race are
  each necessary (each has a mutant without it).
- `OnlyAttestedDelivered`, `WholeBundleFirst`: the load uses the records it
  verified, and starts only after the last target was verified.
- `LineageTrue`: for manager sources, whose document id contains a digest of the
  raw file. Records that a READY entry seals under its own document id were parsed
  from the bytes the entry names, unless the raw file was changed at least twice. The
  bound is exact: the digest in the records is that of a second read, so a file that
  is swapped before the parse and swapped back before the digest seals the records
  of one document under the digest of another, and no check notices. The repository
  does not promise more: README.md:261-262 names the replacement of files between two
  system calls as something its verification cannot defend against. With an
  accession as id (N-PORT) a single swap is not noticed.
- `RefusedForCause`: README.md:262-266, "without invalidating older immutable
  artifacts": sealed artifacts stay verifiable through recollection, amendments
  and changed inputs. A conflict is admitted for one reason, two releases of the
  normalizer that sealed different records under one identity; no digest in the
  entries tells the releases apart.
- `OneNormalization`: two releases of the normalizer never both reach a database
  for one document and inputs, even if loads and collections overlap. The price
  is that verification of the source stays refused after the second READY entry.
- `LoadDelivers`: holds with one lasting database. `bundle_destinations`
  shows that it fails with two, because LOADED entries do not name the database
  (section 5).
- `ImplementsLedger` of `BundlePipeline`: the promise `IngestRunner` keeps, for
  `load`. An entry that names no database is a receipt for its rows in each
  of them, so this too holds with one lasting database only.
- `IndexFaithful`, `IdentityAttested`: a contradiction in the crosswalk is refused
  wherever its rows stand and however the key is spelt; a record has its row's own
  ISIN or the only one the reviewed rows give its key, and a malformed ISIN never
  falls through to the crosswalk.
- `EveryRowOnce`: no row of a published document is lost or counted twice.
- `DerivedShares`: a derived weight is divided by the values of all rows,
  quarantined ones included, and for N-PORT only if every value is known. The
  property exempts a document with an infinite value: the code divides by
  infinity there and records weights of 0.
- `holdings_nonfinite`: "nan" and "inf" are numbers to `float()`, pass the row
  checks and make `HoldingsRecord.create` raise (section 5).

- `RowsAccounted`: a row count counts records that exist and are linked or
  rejected; a load that ran to its end left every row of its workbook in the graph,
  whatever killed loads and older workbooks left before; a clean validation has
  nothing unlinked, and a dirty one is due to duplicates or to records whose
  dataset has no finished load or whose row is gone. A clean validation does not
  mean a complete load: a load killed between two batches validates as clean.
- `RerunSafe`: docs/data/loading-record.md:300 calls the load "safe to rerun".
  Nothing that was loaded once, by either writer, can be refused later, since
  labels are only added by creating nodes and the constraint keeps URIs single.
- `DuplicatesForCause`, `ConflictForCause`: the exact price of label patterns.
  docs/operations/local-neo4j-staging.md loads holdings without `prepare`; there a
  fund that another fund holds gets a second node when it is loaded itself, and a
  later `prepare` fails on it. In a prepared graph the second transaction fails
  instead: a fund that was first written as a constituent blocks the product load
  of its dataset.
- `OneIdentity`: public funds never merge with exchange products although their
  item numbers look like ISINs. Dated snapshots are shared in one case, see
  section 5.
- `ReadAllOrRefuse`: after failed appends, kills, power loss and other writers a
  reader gets an exception, or every entry whose append returned and that no power
  loss has cut off. A power loss that cuts the file at the end of a line is not
  noticed: `append_entry` does not sync, so a target that `collect` reported as READY may
  be gone from a file that reads well. That is the only way in which a reported entry
  disappears silently, and `catch-up` then calls the target missing. The other price is
  that one torn piece makes every later read of the source fail until the file is
  repaired by hand, while `collect`, which only appends, goes on and reports success.
- `PoliteFetch`: the n-th slot of a process comes n - 1 intervals after its start or
  later; a slot follows the last after an interval, less exactly what the sleep before
  the last one overslept; a retry waits for its whole backoff. Slots are taken per
  attempt: the requests of the redirects within one are not spaced, which
  `source_spacing` shows against the docstrings (section 5).
- `ReportsTrue`: a collect that ends has a READY entry of this run and these inputs
  for every target it does not count as failed; `catch-up` is right about what was
  sealed under any inputs, and about what a power loss took; `verify-collection` accepts only what was sealed under
  today's. So `catch-up` may report nothing missing while `verify-collection` refuses,
  after the config or the crosswalk was edited.
- `CollectEnds`: redirects, retries and targets are bounded loops. It rests on every
  request being answered or timing out (Fairness, below).

### Bounds

Two rows per group and batch sizes 1 and 2 are the smallest with shards that
share a start and differ in their end, and with a partial last shard. Two
versions of a target, one sharing a group shape with the other, give aliasing of
positions without aliasing of shard ids. Two processes and three runs allow a
run to crash, a second to overlap it and a third to resume. Three publishers
allow a winner, a loser and one that arrives later. Two changes of files let a raw file
be swapped and swapped back between two reads; one of them may hit a loader between
two of its own. `bundle_verify` cuts the same records into different shards;
`bundle_releases` keeps batch size 1, where a record is a shard, to have room for two
loaders at once, two versions, two sets of inputs and two releases, which are
enough for every pairwise conflict. In both, one process collects; that several
may do so at once is covered by the proofs (section 4), which are about any number of
collectors and loaders. Three crosswalk rows hold a contradiction with
a row before, between or after it; a document has one row of every kind, alone
or after a plain one, or three rows that differ in the value. `MaxRuns`, `MaxCollects`, `MaxLoads` and
`MaxDamages` bound the number of commands and damages and nothing else.
Deadlock is not checked in the other runs: when the bounds are used up and every process is idle,
nothing is left to do.

In `product_graph` the bond workbook has a rejected row and a second batch of one
row, a corrected version that is shorter, a version without a schema header and one
under another name; the overseas workbook has one ticker on two markets; the public
one has an item number that is also an ISIN of the domestic one. One release
holds a bond, the other holds the first one's fund. Three commands are a killed
load, a corrected one and a validation. In `source_collection` one fault, one
foreign entry and two collects are enough for a piece of a line to be continued by
each kind of writer and read by each reader. `MAX_REDIRECTS` and `RetryCount` are 1
there (5 and 3 in the code), an interval is longer than an answer so that the
limit must wait; an attempt with one redirect and its backoff may end later or
earlier than the next slot, and a sleep may last one unit too long, so that the limit, the
backoff and an overslept slot each decide when some attempt starts. The theorems hold for
all of these numbers.

Deadlock is checked in `source_collection`, where the operator always has
something to do.

Symmetry is used over processes, in runs that check no liveness.

### Fairness

`RunTerminates` assumes weak fairness of `Step(p)`, the program's own
statements, for a process that is not killed. Starting a run, amendments,
failures and crashes are never forced. Python executes the next statement of a
running process, so this is what the scheduler gives; a request or a transaction
that never returns would break it, and the code sets a timeout only for requests.
`CollectEnds` assumes weak fairness of `Step`, the statements of a collect: the code
gives every request a timeout of 30 seconds, and every sleep is finite.

## 4. Proofs

All theorems hold for every value of the constants, under the named ASSUMEs of
the modules: targets and contents are numbers, groups and batch sizes are
positive, names are disjoint. Bounds do not matter: they are arbitrary numbers.
One assumption is a fact of arithmetic that the provers have no theory for:
`PowerAssumption` of `SourceCollection`, that powers of two are numbers; TLC
evaluates it.

`IngestRunnerProofs`. `IInv` strengthens the two backing invariants by what a
process knows (`Progress`): everything before its cursor is delivered, and before
`MarkLoaded` the chunk at the cursor too. Without it the invariants are not
inductive, since `MarkLoaded` and `CompleteTarget` issue entries from what the
process remembers. The proof has a lemma per action; the one for `SkipShard`
uses `LoadedBacked` and the fact that a shard id determines its rows, which is
where group, end and content in the id are needed. From `IInv` follow `TypeOK`,
`LoadedBacked`, `CompletionBacked`, and with one more lemma per kind of step the
refinement of `ReceiptLedger`.

`ArtifactStoreProofs`. `IInv` says that an untouched name is free or whole, what
each system call has established about the temporary file, and that a publisher
that compares has found the name taken by whole bytes or spoilt. Torn-freeness,
true conflicts, kept files and the refinement of `WriteOnceStore` follow.

`BundlePipelineProofs`. `OneNormalization` is about LOADED entries, but a load
that is past `ReadManifest` never looks at the manifest again, so two overlapping
loads must be shown to agree. `IInv` therefore adds `Agreement`: two entries that
any loaders hold, pending or verified, under the same identity are equal, and an
entry held under the identity of a LOADED entry has its normalized content;
`LoadedAttested`: what is loaded is still attested by a READY entry; and
`Progress`: entries held are of the current inputs, and every selected target
that is no longer to do has a verified entry. `ReadManifest` establishes
`Agreement` for a new loader because the whole manifest, which only grows, was free of
conflicts at that moment, and every other loader holds entries of it. The
other steps of a load only drop or move what it holds; `MarkLoaded` adds an entry
its loader holds. The collecting side can only append READY entries
(`ManifestGrows`), so its lemmas are about types. The types carry one fact with them: a
shard lies within the records of an entry of the manifest, which gives
`OnlyAttestedDelivered`.

`HoldingsRulesProofs`. `IInv` adds to the properties what the loops have
established: the rows of the crosswalk read so far do not contradict each other
and the index says what they say (`IndexLoop`); the rows read so far are split
between records and quarantine (`RowLoop`). The crucial step is `IndexRow`: what
earlier rows say of the key is what the index holds, and `Clashes` lets the new
row through only if it says the same. `IdentityAttested` follows at `KeepRow` from
the complete index and its freedom of contradictions, not from the order of rows.
`SharesInv` is the half about numbers: `TotalLoop` relates the accumulator to the
sum of the values read so far, and `DerivedShares` to the sum of all of them. A sum
is what a recursive function on `Nat` computes, and the library's induction theorems
cannot be instantiated here, so `NumbersFromZero` states induction with a set
instead of a predicate (a set of numbers with 0 and with every successor is all
of `Nat`), and `RunningSum` builds with it the running sum of any sequence, so that
the recursive `ValueSum` is what its definition says (`ValueSumStep`). From there
each turn of the loop is arithmetic.

`ProductGraphProofs`. The properties speak of finished loads, but a load writes
row by row and statement by statement, so `IInv` adds what the load in hand has
written (`InFlight`: every row before `pos`, and of the batch behind it the kinds
whose statement was executed); that the constraint stands whenever the loader
writes and that no URI is double where it stands (`Constrained`); that every
link, observation and node goes back to a row or a release (`Traced`); and that
what a release merged is still matched (`HoldingsBacked`). Nodes are only added, so
whatever is matched stays matched; a record that shows its row can be overlaid
only by another workbook's load, which clears `done` first. `RerunSafe` then needs
no history: what is matched clashes with nothing. `ConflictForCause` uses `Traced`
at the moment of the clash: the node that has the URI without the labels has an
origin, and both origins are named in the property. `OneIdentity` follows from
`Traced` and lemmas about the transformers: two datasets can reach one URI only
through `IsinAddress`, and `transform_public_fund` never goes there.

`SourceCollectionProofs`. `IInv` adds to `ReportsTrue`: a reported entry that was
not taken stands in the file as a whole object, one that was taken does not, and
nothing stands there as READY that was not sent (`LogBacked`), so whatever makes the
file unreadable, a readable one has them all; the run in progress has lost nothing
(`Taken`), since a loss of power ends it, so that none of its appends can bring a taken
entry back; the next slot is an interval behind the last, less what was overslept
(`Paced`); a repeated attempt has its backoff behind it (`BackedOff`); and every selected
target is still open, in hand, counted as failed or sealed (`Accounted`). `PoliteFetch` is
a property of the step that takes a slot: only `RespectRateLimit` does (`SlotTaken`),
and the distance of two slots was decided by `slot` when the first was taken.

`BundleOutcomeProofs`. What the two commands achieve, each under the condition
that the code needs:

- `TrueLineage`, for sources whose document id contains the raw digest.
  `LineageInv` follows the three reads: if what a collector parsed differs from what
  it hashed, the file was changed in between; if the id of what it then published
  agrees with the hash again, it was changed once more (`Turns`). Counts only grow, so
  the READY entry inherits the bound. An accession does not determine the raw bytes,
  and the property is false for N-PORT.
- `RefusedOnlyForCause`, without conditions. `Pristine` says that as long as no file
  was touched from outside, names tell contents: a collector has in hand what its
  files hold, and a READY entry describes the files it names. Then two entries that
  conflict differ in the release, and `verify_collection` has no other ground for
  refusal (lemma `NoCause`). The refusal over two releases is the price of
  `OneNormalization`.
- `CompleteDelivery` and `LoadImplementsLedger`, for one destination.
  `LoadedBacked` says that the rows of a LOADED entry are in the database,
  `CursorBacked` that everything before a loader's cursor is, and before
  `MarkLoaded` the shard at the cursor too. A skipped shard moves the cursor over
  rows that somebody else's entry answers for: this is where a second database
  breaks the proof, and the program (`bundle_destinations`).
- `OutcomeInvariance`: all of it at once, `OutcomeInv`.

`IngestRunnerRunProofs`. What a run promises its operator:

- `HonestSummary`, without conditions. `Accounted` says that every discovered
  target has exactly one place: to do, in hand, completed or failed. The
  summary adds up because each step moves one target from one place to another,
  which is counted with the library's theorems on finite sets.
- `MarksComplete`, without conditions: a completed document has a LOADED entry for
  every one of its chunks, and a cursor leaves no chunk without one
  (`ChunksMarked`). Chunks start at multiples of the batch size, so the chunk
  after the cursor's follows without a gap (`NextMultiple`, `NextStart`).
- `NoReload`, for one process: a shard goes to the sink only if it has no LOADED entry
  (`SinkUnmarked`), and a completed document has them all. With two processes,
  another one may complete the document between the check and the transaction,
  since the manifest is not locked.
- `CurrentGraph`, for one process, versions that only move forward, and
  `SeparateDocuments`: two targets have no normalized content with rows in common.
  `GraphNewest` orders what is upstream, in hand, completed and in the graph, and
  says that a position holds a row that was delivered to it. A skipped shard
  was delivered once; since then only newer versions were, and the version in
  hand is the newest seen. The first two conditions are needed: section 3 says
  what happens without them. The third is a fact about the code, which the
  model does not build in: every normalized record has the `source_document_id`
  of its target's document, and the shard id is a digest of records.
- `RunInvariance`: all of it at once, `RunInv`.

Only model-checked: `RunTerminates` and `CollectEnds`, since liveness under
fairness is out of the provers' reach. What the four violation runs check fails
on their instances. Every other property of a run is a theorem, those with a
condition under that condition, which the run's instance meets.

## 5. Disagreements between documents and code

- `runner_docstring`: the module docstring, `ingest/runner.py:14-15`, says that a
  document re-processed by a later run is skipped. Its shard ids contain the row range, so with another
  batch size nothing is skipped and the document is loaded again. The upserts are
  idempotent; the extra entries and counters remain.
- `bundle_destinations`: docs/operations/local-neo4j-staging.md:72-75 says that
  the manifest digests are destination-independent and that the same bundle can
  "therefore" be loaded into another database once a production gate exists. The
  `load` command skips every shard with a LOADED entry, whatever database it was
  loaded into. The gate (`ingest_cli.py:299-342`) takes the staging database from
  the environment, so this already happens with two staging databases, or with a
  container that was removed and created again: the load is reported as done
  and delivers nothing. A production gate alone would not change that.
- `holdings_nonfinite`: `ingest/nport.py:442` and `ingest/basket_kr.py:575` say
  "quarantine instead of crashing". A weight, quantity or value that reads "nan" or
  "inf" is a float, no early return catches it (comparisons with NaN are false),
  `HoldingsRecord.create` raises, and the whole document fails with all its sound
  rows.
- `source_spacing`: `ingest/basket_kr.py:476` and 671 say that requests are spaced at
  least `request_interval_seconds` apart, `ingest/nport.py:373` that they never exceed
  `max_requests_per_second`. A slot is taken per attempt; redirect hops within it
  (`ingest/http_fetch.py:74-91`) are requests too and follow one another at once. Also,
  after a sleep that lasts longer than asked the next slot comes early by as much.
  `PoliteFetch` states what does hold.

Seen while modelling, without a run of their own:

- `ingest/nport.py:342` and `ingest/basket_kr.py:475` say that an existing raw file
  "is returned without any network call". `fetch` always sends the request: the
  file name contains the digest of the answer.
- The dated snapshot of a fund is named after the last part of its unit's URI,
  the ticker without the market for products without an ISIN (`loader.py:448-481`):
  two markets that use one ticker share one snapshot. `OneIdentity` exempts it.
- A SourceFile's digest is written before the rows and its row count after them: a
  killed load of a corrected workbook leaves the new digest with the old count.
- A CSV batch id is made of source, window and index (`ingest/manifest.py:65-67`), so a
  corrected CSV under the same three is skipped as loaded.
- The help text of `cli.py` speaks of five ontology modules, `loader.py:82-91` requires
  eight.

## 6. What is not modelled, and why

- `BundlePipeline` takes a normalization as an unknown function of raw bytes,
  inputs and release; what `HoldingsRules` says of one document is not composed with it.
- Of records and crosswalk, serialization, dates, CSV errors and the reports that
  are only printed.
- Hosts, addresses and certificates of a request: whatever the policy refuses is one
  outcome of `Request`.
- Nodes of the product graph other than entities, records and observations, and the
  conversion of numbers, dates and texts in `model.py`: no control depends on them.
- `upsert_crosswalk` writes nodes of a family nobody else touches, and no command
  calls it. `label_counts` only reads, `dry_run` and `validate-targets` only print.
- The write gate (`_write_environment`) reads the environment and ends `load` or lets
  it go on, before the first step that `BundlePipeline` has.
- `compute_missing` of `ingest/watermark.py` is called by nobody.
- `IngestRunner` and `BundlePipeline` take an append as atomic: a whole line or
  nothing. `ManifestLog` says what happens otherwise; a read then raises, which in
  those modules is a failure or a crash at that step. They are not composed with it.
- Several raw versions of one accession are loaded in the order of their digests
  (`ingest/collection.py:226`), so an older one may overwrite a newer: no module has both
  versions and positions, and this is the one hazard without a property.
- `scripts/transfer_raw.py` starts rsync and sha256sum on another host and compares
  their output; it shares the raw tree with `collect` and nothing else.
- `ingest/base.py` and the package initialisers declare names and keep no state.
- XLSX, CSV, XML and HTML parsing, JSON coding and terminal output are data.

## 7. What is left

In this order:

1. `GrowLog`, an abstract log of whole entries that `IngestRunner` and
   `BundlePipeline` assume and `ManifestLog` implements as long as no append fails;
   with it their steps on an unreadable manifest.
2. Positions and the order of raw versions in `BundlePipeline`, against an abstract
   map from position key to the last row written.
3. `HoldingsRules` composed into `BundlePipeline` in the place of an unknown
   normalization.
4. The write gate, as a guard on `StartLoad` with the environment as state.
5. Theorems: that `ManifestLog` implements `GrowLog`; the step-wise half of
   `RunTerminates` and `CollectEnds`, a measure that every step of a command
   decreases, as an action property; an exact account of what two destinations
   share, in the place of `CompleteDelivery`'s condition.
