---------------------------- MODULE IngestRunner ----------------------------
(***************************************************************************)
(* IngestRunner.run: one process walks the discovered targets through      *)
(* discover -> fetch -> normalize -> load and records every phase in an    *)
(* append-only manifest.  A normalized document is cut into shards of at   *)
(* most `batch' rows; a shard is skipped when the manifest holds a LOADED  *)
(* entry with its identity.  The sink commits a shard in one transaction,  *)
(* the manifest entry follows in a separate write.                         *)
(*                                                                         *)
(* Nothing locks the manifest, so several processes may run; a process may *)
(* die between any two steps, after which only `upstream', `manifest' and  *)
(* the destination graph survive.                                          *)
(*                                                                         *)
(* Abstractions.  A "content" stands for a raw artifact together with the  *)
(* normalized file it yields: its number is both SHA-256 digests.  Rows    *)
(* are known by content, group and index.  The manifest is a set: its      *)
(* readers only ask whether some entry exists, and run ids and times are   *)
(* left out.                                                               *)
(*                                                                         *)
(* Name_Bug is Name with one plausible mistake.  No such definition is     *)
(* part of the specification: PROJECT.json substitutes it for Name to show *)
(* that a property notices the mistake.                                    *)
(***************************************************************************)
EXTENDS Integers, Sequences, FiniteSets

CONSTANTS Procs,       \* ingest processes
          Targets,     \* discoverable targets, numbered in repr() order
          Contents,    \* the document versions of all targets, by number
          Yields,      \* Yields[t]: the versions target t may publish
          GroupSizes,  \* GroupSizes[c]: rows of each (as_of, url, doc) group
          BatchSizes,  \* batch sizes an operator may choose
          Reversible,  \* TRUE if a target may return to an older version
          MaxRuns      \* bound: how many runs are started in all

ASSUME TargetsAssumption == Targets \subseteq Nat
ASSUME ContentsAssumption == Contents \subseteq Nat \ {0}
ASSUME YieldsAssumption == Yields \in [Targets -> SUBSET Contents]
ASSUME SizesAssumption == GroupSizes \in [Contents -> Seq(Nat \ {0})]
ASSUME BatchAssumption == BatchSizes \subseteq Nat \ {0}
ASSUME BoundAssumption == Reversible \in BOOLEAN /\ MaxRuns \in Nat

VARIABLES
    (* durable *)
    upstream,    \* upstream[t]: the version t publishes now
    manifest,    \* the manifest entries of the source
    graph,       \* graph[k]: the version that last wrote position k
    (* one process each, lost in a crash *)
    pc,          \* where the process is
    batch,       \* its batch size
    strict,      \* TRUE for continue_on_error = False
    todo,        \* targets still to be taken
    doc,         \* the document in hand: target, content, group, offset
    tally,       \* targets discovered, and how many of them failed
    (* bookkeeping of the model *)
    delivered,   \* history: every row any transaction has committed
    done,        \* done[p]: <<target, content>> pairs this run completed
    sealed,      \* history: <<content, batch>> pairs some run completed
    runs         \* runs started so far

durable == <<upstream, manifest, graph>>
history == <<delivered, done, sealed, runs>>
vars == <<upstream, manifest, graph, pc, batch, strict, todo, doc, tally,
          delivered, done, sealed, runs>>

-----------------------------------------------------------------------------
(* Documents, shards and manifest entries.                                 *)

None == 0                                   \* no artifact, no content

Groups(c) == 1 .. Len(GroupSizes[c])
Slice(c, g, start, end) == {<<c, g, i>> : i \in start + 1 .. end}
RowsOf(c) == UNION {Slice(c, g, 0, GroupSizes[c][g]) : g \in Groups(c)}
AllRows == UNION {RowsOf(c) : c \in Contents}

\* A position of the graph is keyed by document, group and row id, and so is
\* shared by the versions of one target.
Positions == {<<t, r[2], r[3]>> : t \in Targets, r \in AllRows}

\* Manifest batch ids: SHA-256 over distinct namespaces, hence disjoint.
TargetKey(t)               == <<"target", t, 0, 0, 0>>
CompletionId(t)            == <<"completion", t, 0, 0, 0>>
ShardId_NoEnd(c, g, start, end)     == <<"shard", c, g, start, 0>>
ShardId_NoGroup(c, g, start, end)   == <<"shard", c, 0, start, end>>
ShardId_NoContent(c, g, start, end) == <<"shard", 0, g, start, end>>
ShardId(c, g, start, end)  == <<"shard", c, g, start, end>>

Entry(phase, status, id, artifact) ==
    [phase |-> phase, status |-> status, id |-> id, artifact |-> artifact]

AppendEntry(phase, status, id, artifact) ==
    manifest' = manifest \cup {Entry(phase, status, id, artifact)}

IsLoaded(id) == \E e \in manifest : e.status = "loaded" /\ e.id = id

HasCompletion(t) ==
    \E e \in manifest : /\ e.phase = "validated"
                        /\ e.status = "loaded"
                        /\ e.id = CompletionId(t)

\* The chunk at the cursor of process p.
Size(p) == GroupSizes[doc[p].content][doc[p].group]
ChunkEnd_Uncapped(p) == doc[p].offset + batch[p]
ChunkEnd(p) == IF doc[p].offset + batch[p] < Size(p)
                 THEN doc[p].offset + batch[p] ELSE Size(p)
Shard(p) == ShardId(doc[p].content, doc[p].group, doc[p].offset, ChunkEnd(p))
Chunk(p) == Slice(doc[p].content, doc[p].group, doc[p].offset, ChunkEnd(p))

NoDoc == [target |-> 0, content |-> None, group |-> 1, offset |-> 0]
NoTally == [discovered |-> {}, failed |-> 0]

Advanced_NoReset(p) ==
    IF ChunkEnd(p) < Size(p)
      THEN [doc[p] EXCEPT !.offset = ChunkEnd(p)]
      ELSE [doc[p] EXCEPT !.group = @ + 1]

\* The cursor after the current chunk: the next offset, or the next group.
Advanced(p) ==
    IF ChunkEnd(p) < Size(p)
      THEN [doc[p] EXCEPT !.offset = ChunkEnd(p)]
      ELSE [doc[p] EXCEPT !.group = @ + 1, !.offset = 0]

MoreChunks(p) == doc[p].group \in Groups(doc[p].content)

-----------------------------------------------------------------------------
Init ==
    /\ upstream \in {u \in [Targets -> Contents] :
                        \A t \in Targets : u[t] \in Yields[t]}
    /\ manifest = {}
    /\ graph = [k \in Positions |-> None]
    /\ pc = [p \in Procs |-> "idle"]
    /\ batch = [p \in Procs |-> 1]
    /\ strict = [p \in Procs |-> FALSE]
    /\ todo = [p \in Procs |-> {}]
    /\ doc = [p \in Procs |-> NoDoc]
    /\ tally = [p \in Procs |-> NoTally]
    /\ delivered = {}
    /\ done = [p \in Procs |-> {}]
    /\ sealed = {}
    /\ runs = 0

\* A target publishes another version, or the normalizer's inputs change.
Amend(t) ==
    /\ \E c \in Yields[t] \ {upstream[t]} :
        /\ Reversible \/ c > upstream[t]
        /\ upstream' = [upstream EXCEPT ![t] = c]
    /\ UNCHANGED <<manifest, graph, pc, batch, strict, todo, doc, tally,
                   history>>

\* An operator starts a run: discovery returns some targets.
StartRun(p) ==
    /\ pc[p] = "idle"
    /\ runs < MaxRuns
    /\ runs' = runs + 1
    /\ \E found \in SUBSET Targets, b \in BatchSizes, s \in BOOLEAN :
        /\ todo' = [todo EXCEPT ![p] = found]
        /\ batch' = [batch EXCEPT ![p] = b]
        /\ strict' = [strict EXCEPT ![p] = s]
        /\ tally' = [tally EXCEPT ![p].discovered = found]
    /\ pc' = [pc EXCEPT ![p] = "next"]
    /\ UNCHANGED <<durable, doc, delivered, done, sealed>>

\* The loop takes the next target in order and enters _process_target.
TakeTarget(p) ==
    /\ pc[p] = "next"
    /\ \E t \in todo[p] :
        /\ \A u \in todo[p] : t <= u
        /\ todo' = [todo EXCEPT ![p] = @ \ {t}]
        /\ doc' = [doc EXCEPT ![p] = [NoDoc EXCEPT !.target = t]]
    /\ pc' = [pc EXCEPT ![p] = "discover"]
    /\ UNCHANGED <<durable, batch, strict, tally, history>>

RecordDiscovered(p) ==
    /\ pc[p] = "discover"
    /\ AppendEntry("discovered", "pending", TargetKey(doc[p].target), None)
    /\ pc' = [pc EXCEPT ![p] = "fetch"]
    /\ UNCHANGED <<upstream, graph, batch, strict, todo, doc, tally, history>>

\* The raw bytes are pinned here: later amendments do not reach this pass.
Fetch(p) ==
    /\ pc[p] = "fetch"
    /\ doc' = [doc EXCEPT ![p].content = upstream[doc[p].target]]
    /\ AppendEntry("fetched", "running", TargetKey(doc[p].target),
               upstream[doc[p].target])
    /\ pc' = [pc EXCEPT ![p] = "normalize"]
    /\ UNCHANGED <<upstream, graph, batch, strict, todo, tally, history>>

Normalize(p) ==
    /\ pc[p] = "normalize"
    /\ AppendEntry("normalized", "running", TargetKey(doc[p].target),
               doc[p].content)
    /\ pc' = [pc EXCEPT ![p] = "load"]
    /\ UNCHANGED <<upstream, graph, batch, strict, todo, doc, tally, history>>

SkipShard_Stays(p) ==
    /\ pc[p] = "load" /\ MoreChunks(p) /\ IsLoaded(Shard(p))
    /\ UNCHANGED vars

\* is_loaded answers yes: the shard counts as skipped.
SkipShard(p) ==
    /\ pc[p] = "load"
    /\ MoreChunks(p)
    /\ IsLoaded(Shard(p))
    /\ doc' = [doc EXCEPT ![p] = Advanced(p)]
    /\ UNCHANGED <<durable, pc, batch, strict, todo, tally, history>>

NeedShard_MarksFirst(p) ==
    /\ pc[p] = "load" /\ MoreChunks(p) /\ ~IsLoaded(Shard(p))
    /\ AppendEntry("loaded", "loaded", Shard(p), doc[p].content)
    /\ pc' = [pc EXCEPT ![p] = "sink"]
    /\ UNCHANGED <<upstream, graph, batch, strict, todo, doc, tally, history>>

\* is_loaded answers no: the answer is acted on in a later step.
NeedShard(p) ==
    /\ pc[p] = "load"
    /\ MoreChunks(p)
    /\ ~IsLoaded(Shard(p))
    /\ pc' = [pc EXCEPT ![p] = "sink"]
    /\ UNCHANGED <<durable, batch, strict, todo, doc, tally, history>>

\* load_holdings_rows: one transaction upserts the chunk's positions.
SinkLoad(p) ==
    /\ pc[p] = "sink"
    /\ graph' = [k \in Positions |->
                   IF /\ k[1] = doc[p].target
                      /\ <<doc[p].content, k[2], k[3]>> \in Chunk(p)
                     THEN doc[p].content ELSE graph[k]]
    /\ delivered' = delivered \cup Chunk(p)
    /\ pc' = [pc EXCEPT ![p] = "mark"]
    /\ UNCHANGED <<upstream, manifest, batch, strict, todo, doc, tally,
                   done, sealed, runs>>

MarkLoaded_Uncapped(p) ==
    /\ pc[p] = "mark"
    /\ AppendEntry("loaded", "loaded",
                   ShardId(doc[p].content, doc[p].group, doc[p].offset,
                           doc[p].offset + batch[p]), doc[p].content)
    /\ doc' = [doc EXCEPT ![p] = Advanced(p)]
    /\ pc' = [pc EXCEPT ![p] = "load"]
    /\ UNCHANGED <<upstream, graph, batch, strict, todo, tally, history>>

MarkLoaded(p) ==
    /\ pc[p] = "mark"
    /\ AppendEntry("loaded", "loaded", Shard(p), doc[p].content)
    /\ doc' = [doc EXCEPT ![p] = Advanced(p)]
    /\ pc' = [pc EXCEPT ![p] = "load"]
    /\ UNCHANGED <<upstream, graph, batch, strict, todo, tally, history>>

CompleteTarget_Early(p) ==
    /\ pc[p] = "load"
    /\ AppendEntry("validated", "loaded", CompletionId(doc[p].target),
                   doc[p].content)
    /\ pc' = [pc EXCEPT ![p] = "next"]
    /\ UNCHANGED <<upstream, graph, batch, strict, todo, doc, tally, history>>

\* All chunks are done: the completion marker is written once per target.
CompleteTarget(p) ==
    /\ pc[p] = "load"
    /\ ~MoreChunks(p)
    /\ IF HasCompletion(doc[p].target)
         THEN UNCHANGED manifest
         ELSE AppendEntry("validated", "loaded", CompletionId(doc[p].target),
                      doc[p].content)
    /\ done' = [done EXCEPT ![p] = @ \cup {<<doc[p].target, doc[p].content>>}]
    /\ sealed' = sealed \cup {<<doc[p].content, batch[p]>>}
    /\ doc' = [doc EXCEPT ![p] = NoDoc]
    /\ pc' = [pc EXCEPT ![p] = "next"]
    /\ UNCHANGED <<upstream, graph, batch, strict, todo, tally,
                   delivered, runs>>

\* The process is gone, and with it everything it held in memory.
Leave(p) ==
    /\ pc' = [pc EXCEPT ![p] = "idle"]
    /\ batch' = [batch EXCEPT ![p] = 1]
    /\ strict' = [strict EXCEPT ![p] = FALSE]
    /\ todo' = [todo EXCEPT ![p] = {}]
    /\ doc' = [doc EXCEPT ![p] = NoDoc]
    /\ tally' = [tally EXCEPT ![p] = NoTally]
    /\ done' = [done EXCEPT ![p] = {}]
    /\ UNCHANGED <<delivered, sealed, runs>>

\* Any exception while a target is processed, the one after a committed
\* transaction included: FAILED is recorded, and the loop goes on.
Failing(p) ==
    /\ pc[p] \in {"discover", "fetch", "normalize", "load", "sink", "mark"}
    /\ AppendEntry("failed", "failed", TargetKey(doc[p].target), None)
    /\ UNCHANGED <<upstream, graph>>

FailTarget_Uncounted(p) ==
    /\ ~strict[p] /\ Failing(p)
    /\ doc' = [doc EXCEPT ![p] = NoDoc]
    /\ pc' = [pc EXCEPT ![p] = "next"]
    /\ UNCHANGED <<batch, strict, todo, tally, history>>

FailTarget(p) ==
    /\ ~strict[p]
    /\ Failing(p)
    /\ tally' = [tally EXCEPT ![p].failed = @ + 1]
    /\ doc' = [doc EXCEPT ![p] = NoDoc]
    /\ pc' = [pc EXCEPT ![p] = "next"]
    /\ UNCHANGED <<batch, strict, todo, history>>

\* continue_on_error = False: the exception is raised again.
FailRun(p) == strict[p] /\ Failing(p) /\ Leave(p)

\* The loop is exhausted: the summary is returned.
FinishRun(p) ==
    /\ pc[p] = "next"
    /\ todo[p] = {}
    /\ Leave(p)
    /\ UNCHANGED durable

\* The process dies; only durable state survives.
Crash(p) ==
    /\ pc[p] # "idle"
    /\ Leave(p)
    /\ UNCHANGED durable

\* What a live process does when nothing goes wrong.
Step(p) == \/ TakeTarget(p) \/ RecordDiscovered(p) \/ Fetch(p)
           \/ Normalize(p) \/ SkipShard(p) \/ NeedShard(p) \/ SinkLoad(p)
           \/ MarkLoaded(p) \/ CompleteTarget(p) \/ FinishRun(p)

Next == \/ \E t \in Targets : Amend(t)
        \/ \E p \in Procs : \/ StartRun(p) \/ Step(p)
                            \/ FailTarget(p) \/ FailRun(p) \/ Crash(p)

Spec == Init /\ [][Next]_vars

\* A process that is not killed keeps executing its own statements.
FairSpec == Spec /\ \A p \in Procs : WF_vars(Step(p))
-----------------------------------------------------------------------------
(* Properties.                                                             *)

\* What a trusted manifest entry claims: the rows of its shard, or for a
\* completion marker every row of the artifact it names.
Receipts == {e \in manifest : e.status = "loaded"}
CoverOf(e) == IF e.phase = "loaded"
                THEN Slice(e.artifact, e.id[3], e.id[4], e.id[5])
                ELSE RowsOf(e.artifact)

\* The rows of the document in hand that lie before the cursor of p.
Passed(p) == {r \in RowsOf(doc[p].content) :
                \/ r[2] < doc[p].group
                \/ r[2] = doc[p].group /\ r[3] <= doc[p].offset}

ReceiptOK(e) ==
    /\ e.phase \in {"loaded", "validated"}
    /\ e.artifact \in Contents
    /\ e.phase = "loaded" =>
         \E g \in Groups(e.artifact) :
            \E s, n \in 0 .. GroupSizes[e.artifact][g] :
               s < n /\ e.id = ShardId(e.artifact, g, s, n)
    /\ e.phase = "validated" =>
         \E t \in Targets : e.id = CompletionId(t)

DocOK(d) == d \in [target : Targets \cup {0}, content : Contents \cup {None},
                  group : Nat \ {0}, offset : Nat]

\* Types; of the manifest, that the entries a reader trusts name a real chunk
\* of a known artifact or a known target.
TypeOK ==
    /\ upstream \in [Targets -> Contents]
    /\ graph \in [Positions -> Contents \cup {None}]
    /\ \A e \in Receipts : ReceiptOK(e)
    /\ pc \in [Procs -> {"idle", "next", "discover", "fetch", "normalize",
                         "load", "sink", "mark"}]
    /\ batch \in [Procs -> Nat \ {0}]
    /\ strict \in [Procs -> BOOLEAN]
    /\ todo \in [Procs -> SUBSET Targets]
    /\ DOMAIN doc = Procs /\ \A p \in Procs : DocOK(doc[p])
    /\ tally \in [Procs -> [discovered : SUBSET Targets, failed : Nat]]
    /\ delivered \subseteq AllRows
    /\ done \in [Procs -> SUBSET (Targets \X Contents)]
    /\ sealed \subseteq Contents \X (Nat \ {0})
    /\ runs \in Nat

\* A LOADED entry is never written before the destination has committed the
\* rows of its shard: a process that dies between the transaction and the
\* manifest write only loads the shard again (_process_target, 277-297).
LoadedBacked ==
    \A e \in Receipts : e.phase = "loaded" => CoverOf(e) \subseteq delivered

\* A completion marker means that every row of the artifact it names was
\* delivered, whatever mixture of batch sizes, crashed runs, other processes
\* and amended documents got it there: no resume omits a row
\* (_process_target, 251-318; immutable_shard_batch_id).
CompletionBacked ==
    \A e \in Receipts : e.phase = "validated" => CoverOf(e) \subseteq delivered

\* When a run returns its summary, every discovered target is either counted
\* as failed or was delivered in full at the version this run fetched.
SummaryHonest ==
    \A p \in Procs : pc[p] = "next" /\ todo[p] = {} =>
        /\ Cardinality(tally[p].discovered) =
             Cardinality(done[p]) + tally[p].failed
        /\ \A d \in done[p] : d[1] \in tally[p].discovered
                              /\ RowsOf(d[2]) \subseteq delivered

\* What a process in the load loop knows: everything before its cursor has
\* been delivered, and the chunk it is about to mark was.
Progress(p) ==
    /\ pc[p] = "normalize" => doc[p].content \in Contents
    /\ pc[p] # "idle" /\ pc[p] # "next" => doc[p].target \in Targets
    /\ pc[p] \in {"discover", "fetch", "normalize"} =>
         doc[p].group = 1 /\ doc[p].offset = 0
    /\ pc[p] \in {"load", "sink", "mark"} =>
         /\ doc[p].content \in Contents
         /\ doc[p].group \in 1 .. Len(GroupSizes[doc[p].content]) + 1
         /\ IF MoreChunks(p) THEN doc[p].offset < Size(p)
                             ELSE doc[p].offset = 0
         /\ Passed(p) \subseteq delivered
    /\ pc[p] \in {"sink", "mark"} => MoreChunks(p)
    /\ pc[p] = "mark" => Chunk(p) \subseteq delivered

\* The inductive invariant behind the proofs: receipts and completed
\* documents are backed, and so is every cursor.
IInv ==
    /\ TypeOK
    /\ LoadedBacked
    /\ CompletionBacked
    /\ \A p \in Procs : Progress(p)
    /\ \A p \in Procs : \A d \in done[p] : RowsOf(d[2]) \subseteq delivered

\* The runner keeps the ledger's promise: rows are never withdrawn, and each
\* trusted entry is recorded for rows that are already committed.
Ledger == INSTANCE ReceiptLedger
            WITH Deliverable <- AllRows,
                 Cover <- CoverOf,
                 delivered <- delivered,
                 receipts <- Receipts

ImplementsLedger == Ledger!Spec

\* With one process: once some run has completed a document with a batch
\* size, no later run with that batch size sends any row of the same
\* normalized content to the destination again.
SealedNotReloaded ==
    [][\A p \in Procs : pc[p] = "sink" /\ pc'[p] = "mark" =>
          <<doc[p].content, batch[p]>> \notin sealed]_vars

\* The words of runner.py:14-15, without the restriction to one batch size:
\* a document a run has completed is skipped by a later run.
ReprocessedIsSkipped ==
    [][\A p \in Procs : pc[p] = "sink" /\ pc'[p] = "mark" =>
          \A b \in BatchSizes : <<doc[p].content, b>> \notin sealed]_vars

\* With one process and versions that only move forward: the positions of a
\* document this run has completed hold the values of that version, none of
\* an older one.
GraphCurrent ==
    \A p \in Procs : \A d \in done[p] : \A r \in RowsOf(d[2]) :
        graph[<<d[1], r[2], r[3]>>] = d[2]

\* What SummaryHonest rests on: a discovered target is still to be taken, in
\* hand, done or failed, and only one of these.
InHand(p) == pc[p] \notin {"idle", "next"}
Accounted(p) ==
    /\ pc[p] = "idle" => todo[p] = {} /\ done[p] = {} /\ tally[p].failed = 0
    /\ todo[p] \subseteq tally[p].discovered
    /\ InHand(p) => doc[p].target \in tally[p].discovered \ todo[p]
    /\ \A d \in done[p] : /\ d[1] \in tally[p].discovered \ todo[p]
                          /\ InHand(p) => d[1] # doc[p].target
    /\ IsFiniteSet(done[p])
    /\ IsFiniteSet(todo[p]) =>
         /\ IsFiniteSet(tally[p].discovered)
         /\ Cardinality(tally[p].discovered) =
              Cardinality(todo[p]) + (IF InHand(p) THEN 1 ELSE 0)
                + Cardinality(done[p]) + tally[p].failed

\* What GraphCurrent rests on: nothing newer than the version in hand, or than
\* the one just completed, was ever delivered, and the graph holds the newest.
Seen(t) == {r \in delivered : r[1] \in Yields[t]}
GraphNewest ==
    /\ \A t \in Targets :
         /\ upstream[t] \in Yields[t]
         /\ \A r \in Seen(t) : /\ r[1] <= upstream[t]
                               /\ r[1] <= graph[<<t, r[2], r[3]>>]
    /\ \A k \in Positions :
         graph[k] # None => <<graph[k], k[2], k[3]>> \in Seen(k[1])
    /\ \A p \in Procs : pc[p] \in {"normalize", "load", "sink", "mark"} =>
         /\ doc[p].content \in Yields[doc[p].target]
         /\ doc[p].content <= upstream[doc[p].target]
         /\ \A r \in Seen(doc[p].target) : r[1] <= doc[p].content
    /\ \A p \in Procs : \A d \in done[p] :
         d[2] \in Yields[d[1]] /\ \A r \in Seen(d[1]) : r[1] <= d[2]

\* What SealedNotReloaded rests on: every chunk of a completed document, and
\* every chunk before a cursor, has its LOADED entry; with one process the
\* chunk that is being sent has none.
Starts(c, g, b) == {s \in 0 .. GroupSizes[c][g] - 1 : \E k \in 0 .. s : s = k * b}
Marked(c, g, b, s) ==
    IsLoaded(ShardId(c, g, s, IF s + b < GroupSizes[c][g] THEN s + b
                                                          ELSE GroupSizes[c][g]))
ChunksMarked ==
    /\ \A x \in sealed : \A g \in Groups(x[1]) :
         \A s \in Starts(x[1], g, x[2]) : Marked(x[1], g, x[2], s)
    /\ \A p \in Procs : pc[p] \in {"load", "sink", "mark"} =>
         LET c == doc[p].content IN
         /\ MoreChunks(p) => doc[p].offset \in Starts(c, doc[p].group, batch[p])
         /\ \A g \in Groups(c) : \A s \in Starts(c, g, batch[p]) :
              \/ g < doc[p].group
              \/ g = doc[p].group /\ s < doc[p].offset
              => Marked(c, g, batch[p], s)
SinkUnmarked == \A p \in Procs : pc[p] = "sink" => ~IsLoaded(Shard(p))

RunInv == /\ \A p \in Procs : Accounted(p)
          /\ GraphNewest /\ ChunksMarked /\ SinkUnmarked

\* A process that keeps running returns from run(): each iteration of its
\* loops consumes a target or moves the cursor forward.
RunTerminates == \A p \in Procs : pc[p] # "idle" ~> pc[p] = "idle"
=============================================================================
