------------------------- MODULE IngestRunnerProofs -------------------------
(***************************************************************************)
(* Proofs about IngestRunner for every set of processes, targets and       *)
(* document versions, every batch size and any number of runs.             *)
(***************************************************************************)
EXTENDS IngestRunner, TLAPS

-----------------------------------------------------------------------------
(* Rows, chunks and cursors.                                               *)

\* A document's groups have positive sizes.
LEMMA GroupSize ==
  ASSUME NEW c \in Contents, NEW g \in Groups(c)
  PROVE  /\ GroupSizes[c] \in Seq(Nat \ {0})
         /\ Len(GroupSizes[c]) \in Nat
         /\ g \in Nat \ {0}
         /\ GroupSizes[c][g] \in Nat \ {0}
  BY SizesAssumption DEF Groups

\* A slice, coordinate by coordinate.
LEMMA InSlice ==
  ASSUME NEW c, NEW g, NEW start, NEW end, NEW r
  PROVE  r \in Slice(c, g, start, end) <=>
           \E i \in start + 1 .. end : r = <<c, g, i>>
  BY DEF Slice

\* A document's rows, coordinate by coordinate.
LEMMA InRows ==
  ASSUME NEW c \in Contents, NEW r
  PROVE  r \in RowsOf(c) <=>
           \E g \in Groups(c) : \E i \in 1 .. GroupSizes[c][g] :
              r = <<c, g, i>>
  <1>1. ASSUME r \in RowsOf(c)
        PROVE  \E g \in Groups(c) : \E i \in 1 .. GroupSizes[c][g] :
                  r = <<c, g, i>>
    <2>1. PICK g \in Groups(c) : r \in Slice(c, g, 0, GroupSizes[c][g])
      BY <1>1 DEF RowsOf
    <2>2. PICK i \in 0 + 1 .. GroupSizes[c][g] : r = <<c, g, i>>
      BY <2>1, InSlice
    <2> QED
      BY <2>2, GroupSize
  <1>2. ASSUME NEW g \in Groups(c), NEW i \in 1 .. GroupSizes[c][g],
               r = <<c, g, i>>
        PROVE  r \in RowsOf(c)
    <2>1. r \in Slice(c, g, 0, GroupSizes[c][g])
      BY <1>2, GroupSize, InSlice
    <2> QED
      BY <2>1 DEF RowsOf
  <1> QED
    BY <1>1, <1>2

\* A chunk inside a group consists of rows of the document.
LEMMA SliceInRows ==
  ASSUME NEW c \in Contents, NEW g \in Groups(c),
         NEW start \in Nat, NEW end \in Nat, end <= GroupSizes[c][g]
  PROVE  Slice(c, g, start, end) \subseteq RowsOf(c)
  <1> SUFFICES ASSUME NEW r \in Slice(c, g, start, end)
               PROVE  r \in RowsOf(c)
    OBVIOUS
  <1>1. PICK i \in start + 1 .. end : r = <<c, g, i>>
    BY InSlice
  <1>2. i \in 1 .. GroupSizes[c][g]
    BY GroupSize
  <1> QED
    BY <1>1, <1>2, InRows

\* A cursor inside a document, as Progress describes it.
CursorIn(p) ==
    /\ DocOK(doc[p])
    /\ batch[p] \in Nat \ {0}
    /\ doc[p].content \in Contents
    /\ MoreChunks(p)
    /\ doc[p].offset < Size(p)

\* The chunk at such a cursor is a nonempty piece of its group.
LEMMA ChunkBounds ==
  ASSUME NEW p \in Procs, CursorIn(p)
  PROVE  /\ Size(p) \in Nat \ {0}
         /\ ChunkEnd(p) \in Nat
         /\ doc[p].offset \in Nat
         /\ doc[p].offset < ChunkEnd(p)
         /\ ChunkEnd(p) <= Size(p)
         /\ Chunk(p) \subseteq RowsOf(doc[p].content)
  <1>1. Size(p) \in Nat \ {0}
    BY GroupSize DEF CursorIn, MoreChunks, Size
  <1>2. doc[p].offset \in Nat /\ batch[p] \in Nat \ {0}
    BY DEF CursorIn, DocOK
  <1>3. ChunkEnd(p) \in Nat /\ doc[p].offset < ChunkEnd(p) /\ ChunkEnd(p) <= Size(p)
    BY <1>1, <1>2 DEF CursorIn, ChunkEnd
  <1>4. Chunk(p) \subseteq RowsOf(doc[p].content)
    BY <1>1, <1>2, <1>3, SliceInRows DEF CursorIn, MoreChunks, Chunk, Size
  <1> QED
    BY <1>1, <1>2, <1>3, <1>4

\* Advancing the cursor keeps it on the document and passes exactly the chunk.
LEMMA AdvanceCursor ==
  ASSUME NEW p \in Procs, CursorIn(p)
  PROVE  /\ DocOK(Advanced(p))
         /\ Advanced(p).target = doc[p].target
         /\ Advanced(p).content = doc[p].content
         /\ Advanced(p).group \in 1 .. Len(GroupSizes[doc[p].content]) + 1
         /\ Advanced(p).group \in Groups(doc[p].content)
              => Advanced(p).offset < GroupSizes[doc[p].content][Advanced(p).group]
         /\ Advanced(p).group \notin Groups(doc[p].content) => Advanced(p).offset = 0
         /\ {r \in RowsOf(doc[p].content) :
               \/ r[2] < Advanced(p).group
               \/ r[2] = Advanced(p).group /\ r[3] <= Advanced(p).offset}
              \subseteq Passed(p) \cup Chunk(p)
  <1> DEFINE c == doc[p].content
             g == doc[p].group
  <1>1. /\ c \in Contents
        /\ g \in Groups(c) /\ g \in Nat \ {0}
        /\ Len(GroupSizes[c]) \in Nat
        /\ Size(p) = GroupSizes[c][g]
        /\ doc[p] \in [target : Targets \cup {0}, content : Contents \cup {None},
                       group : Nat \ {0}, offset : Nat]
    BY GroupSize DEF CursorIn, MoreChunks, Size, DocOK
  <1>2. CASE ChunkEnd(p) < Size(p)
    <2>1. Advanced(p) = [doc[p] EXCEPT !.offset = ChunkEnd(p)]
      BY <1>2 DEF Advanced
    <2>2. /\ Advanced(p).group = g
          /\ Advanced(p).offset = ChunkEnd(p)
          /\ Advanced(p).content = c
          /\ Advanced(p).target = doc[p].target
          /\ DocOK(Advanced(p))
      BY <1>1, <2>1, ChunkBounds DEF DocOK
    <2>3. ASSUME NEW r \in RowsOf(c),
                 r[2] < g \/ (r[2] = g /\ r[3] <= ChunkEnd(p))
          PROVE  r \in Passed(p) \cup Chunk(p)
      <3>0. PICK h \in Groups(c) : \E i \in 1 .. GroupSizes[c][h] : r = <<c, h, i>>
        BY <1>1, InRows
      <3>1. PICK i \in 1 .. GroupSizes[c][h] : r = <<c, h, i>>
        BY <3>0
      <3>2. CASE h < g \/ (h = g /\ i <= doc[p].offset)
        BY <3>1, <3>2 DEF Passed
      <3>3. CASE h = g /\ doc[p].offset < i
        <4>1. i \in doc[p].offset + 1 .. ChunkEnd(p)
          BY <1>1, <2>3, <3>1, <3>3, ChunkBounds
        <4> QED
          BY <3>1, <3>3, <4>1, InSlice DEF Chunk
      <3> QED
        BY <1>1, <2>3, <3>1, <3>2, <3>3, GroupSize, ChunkBounds
    <2> QED
      BY <1>1, <1>2, <2>2, <2>3 DEF Groups
  <1>3. CASE ~(ChunkEnd(p) < Size(p))
    <2>1. Advanced(p) = [doc[p] EXCEPT !.group = g + 1, !.offset = 0]
      BY <1>3 DEF Advanced
    <2>2. /\ Advanced(p).group = g + 1
          /\ Advanced(p).offset = 0
          /\ Advanced(p).content = c
          /\ Advanced(p).target = doc[p].target
          /\ DocOK(Advanced(p))
      <3> DEFINE d == doc[p]
      <3> HIDE DEF d
      <3>1. d \in [target : Targets \cup {0}, content : Contents \cup {None},
                   group : Nat \ {0}, offset : Nat]
        BY <1>1 DEF d
      <3>2. Advanced(p) = [target |-> d.target, content |-> d.content,
                           group |-> g + 1, offset |-> 0]
        BY <2>1, <3>1, Zenon DEF d
      <3> QED
        BY <1>1, <3>1, <3>2 DEF DocOK, d
    <2>3. ASSUME NEW r \in RowsOf(c),
                 r[2] < g + 1 \/ (r[2] = g + 1 /\ r[3] <= 0)
          PROVE  r \in Passed(p) \cup Chunk(p)
      <3>0. PICK h \in Groups(c) : \E i \in 1 .. GroupSizes[c][h] : r = <<c, h, i>>
        BY <1>1, InRows
      <3>1. PICK i \in 1 .. GroupSizes[c][h] : r = <<c, h, i>>
        BY <3>0
      <3>2. h \in Nat /\ i \in Nat /\ h <= g
        BY <1>1, <2>3, <3>1, GroupSize
      <3>3. CASE h < g \/ (h = g /\ i <= doc[p].offset)
        BY <3>1, <3>3 DEF Passed
      <3>4. CASE h = g /\ doc[p].offset < i
        <4>1. i \in doc[p].offset + 1 .. ChunkEnd(p)
          BY <1>1, <1>3, <3>1, <3>2, <3>4, ChunkBounds
        <4> QED
          BY <3>1, <3>4, <4>1, InSlice DEF Chunk
      <3> QED
        BY <1>1, <3>2, <3>3, <3>4, ChunkBounds
    <2>4. g + 1 \in Groups(c) => 0 < GroupSizes[c][g + 1]
      BY <1>1, GroupSize
    <2> QED
      BY <1>1, <2>2, <2>3, <2>4 DEF Groups
  <1> QED
    BY <1>2, <1>3

\* A cursor past the last group has passed every row.
LEMMA AllPassed ==
  ASSUME NEW p \in Procs, DocOK(doc[p]), doc[p].content \in Contents,
         doc[p].group \in 1 .. Len(GroupSizes[doc[p].content]) + 1,
         ~MoreChunks(p)
  PROVE  RowsOf(doc[p].content) \subseteq Passed(p)
  <1> SUFFICES ASSUME NEW r \in RowsOf(doc[p].content)
               PROVE  r \in Passed(p)
    OBVIOUS
  <1>0. PICK h \in Groups(doc[p].content) :
             \E i \in 1 .. GroupSizes[doc[p].content][h] :
               r = <<doc[p].content, h, i>>
    BY InRows
  <1>1. PICK i \in 1 .. GroupSizes[doc[p].content][h] :
               r = <<doc[p].content, h, i>>
    BY <1>0
  <1>2. h < doc[p].group
    BY GroupSize DEF MoreChunks, Groups
  <1> QED
    BY <1>1, <1>2 DEF Passed

-----------------------------------------------------------------------------
(* The manifest.                                                           *)

\* Entries of the phases before loading, and failures, are not receipts.
LEMMA ReceiptsKept ==
  ASSUME NEW phase, NEW status, NEW id, NEW artifact,
         status # "loaded",
         AppendEntry(phase, status, id, artifact)
  PROVE  Receipts' = Receipts
  BY DEF AppendEntry, Entry, Receipts

\* A LOADED entry adds exactly one receipt.
LEMMA ReceiptAdded ==
  ASSUME NEW phase, NEW id, NEW artifact,
         AppendEntry(phase, "loaded", id, artifact)
  PROVE  Receipts' = Receipts \cup {Entry(phase, "loaded", id, artifact)}
  BY DEF AppendEntry, Entry, Receipts

\* The two receipt invariants and the receipts' types, as one statement.
AllBacked == \A e \in Receipts : ReceiptOK(e) /\ CoverOf(e) \subseteq delivered

\* Receipts stay backed while they stay the same and rows only accumulate.
LEMMA BackedStable ==
  ASSUME AllBacked, Receipts' = Receipts, delivered \subseteq delivered'
  PROVE  AllBacked'
  BY DEF AllBacked

\* What a process knows is not disturbed by what others do.
LEMMA ProgressStable ==
  ASSUME NEW q \in Procs, Progress(q),
         pc'[q] = pc[q], doc'[q] = doc[q], batch'[q] = batch[q],
         delivered \subseteq delivered'
  PROVE  Progress(q)'
  BY DEF Progress, MoreChunks, Size, Passed, Chunk, ChunkEnd

\* The part of the type invariant that is not about the manifest.
Types ==
    /\ upstream \in [Targets -> Contents]
    /\ graph \in [Positions -> Contents \cup {None}]
    /\ pc \in [Procs -> {"idle", "next", "discover", "fetch", "normalize",
                         "load", "sink", "mark"}]
    /\ batch \in [Procs -> Nat \ {0}]
    /\ strict \in [Procs -> BOOLEAN]
    /\ todo \in [Procs -> SUBSET Targets]
    /\ DOMAIN doc = Procs /\ \A p \in Procs : DocOK(doc[p])
    /\ tally \in [Procs -> [discovered : SUBSET Targets, failed : Nat]]
    /\ delivered \subseteq AllRows
    /\ done \in [Procs -> SUBSET (Targets \X Contents)]
    /\ sealed \subseteq Contents \X (Nat \ {0})
    /\ runs \in Nat

DoneBacked ==
    \A p \in Procs : \A d \in done[p] : RowsOf(d[2]) \subseteq delivered

AllProgress == \A p \in Procs : Progress(p)

\* The inductive invariant, regrouped.
Parts == Types /\ AllBacked /\ DoneBacked /\ AllProgress

LEMMA Regroup == IInv <=> Parts
  <1>1. TypeOK <=> Types /\ \A e \in Receipts : ReceiptOK(e)
    BY DEF TypeOK, Types
  <1>2. AllBacked <=> /\ \A e \in Receipts : ReceiptOK(e)
                      /\ LoadedBacked /\ CompletionBacked
    BY DEF AllBacked, LoadedBacked, CompletionBacked, ReceiptOK
  <1> QED
    BY <1>1, <1>2 DEF IInv, DoneBacked, AllProgress, Parts

-----------------------------------------------------------------------------
(* The invariant holds initially and every step keeps it.                  *)

LEMMA InitInvariant == Init => Parts
  <1> SUFFICES ASSUME Init PROVE Parts
    OBVIOUS
  <1>1. Receipts = {}
    BY DEF Init, Receipts
  <1>2. \A p \in Procs : DocOK(doc[p])
    BY DEF Init, DocOK, NoDoc, None
  <1>3. Types
    BY <1>2, BoundAssumption DEF Init, Types, NoTally, None
  <1>4. AllProgress
    BY DEF Init, AllProgress, Progress
  <1> QED
    BY <1>1, <1>3, <1>4 DEF AllBacked, DoneBacked, Init, Parts

\* Leaving, for whatever reason, forgets everything a process held.
LEMMA LeaveInvariant ==
  ASSUME Parts, NEW p \in Procs, Leave(p), Receipts' = Receipts,
         UNCHANGED <<upstream, graph>>
  PROVE  Parts'
  <1>1. DocOK(NoDoc)
    BY DEF DocOK, NoDoc, None
  <1>2. Types'
    BY <1>1 DEF Parts, Types, Leave, NoTally
  <1>3. AllBacked'
    BY BackedStable DEF Parts, Leave
  <1>4. DoneBacked'
    BY DEF Parts, DoneBacked, Leave, Types
  <1>5. ASSUME NEW q \in Procs PROVE Progress(q)'
    <2>1. CASE q = p
      BY <2>1 DEF Leave, Progress, Parts, Types
    <2>2. CASE q # p
      BY <2>2, ProgressStable DEF Leave, Parts, Types, AllProgress
    <2> QED
      BY <2>1, <2>2
  <1> QED
    BY <1>2, <1>3, <1>4, <1>5 DEF Parts, AllProgress

\* A step of one process that moves neither rows nor receipts.
LEMMA QuietInvariant ==
  ASSUME Parts, NEW p \in Procs, Types', Receipts' = Receipts,
         delivered' = delivered, done' = done, Progress(p)',
         \A q \in Procs \ {p} : /\ pc'[q] = pc[q] /\ doc'[q] = doc[q]
                                /\ batch'[q] = batch[q]
  PROVE  Parts'
  <1>1. AllBacked'
    BY BackedStable DEF Parts
  <1>2. DoneBacked'
    BY DEF Parts, DoneBacked
  <1>3. ASSUME NEW q \in Procs PROVE Progress(q)'
    BY ProgressStable DEF Parts, AllProgress
  <1> QED
    BY <1>1, <1>2, <1>3 DEF Parts, AllProgress

LEMMA StartRunInvariant ==
  ASSUME Parts, NEW p \in Procs, StartRun(p)
  PROVE  Parts'
  <1>1. PICK found \in SUBSET Targets, b \in BatchSizes, s \in BOOLEAN :
          /\ todo' = [todo EXCEPT ![p] = found]
          /\ batch' = [batch EXCEPT ![p] = b]
          /\ strict' = [strict EXCEPT ![p] = s]
          /\ tally' = [tally EXCEPT ![p].discovered = found]
    BY DEF StartRun
  <1>2. Types'
    BY <1>1, BatchAssumption DEF StartRun, durable, Parts, Types
  <1>3. Progress(p)'
    BY DEF StartRun, Parts, Types, Progress
  <1>4. Receipts' = Receipts
    BY DEF StartRun, durable, Receipts
  <1>5. \A q \in Procs \ {p} : /\ pc'[q] = pc[q] /\ doc'[q] = doc[q]
                                 /\ batch'[q] = batch[q]
    BY <1>1 DEF StartRun, Parts, Types
  <1> QED
    BY <1>2, <1>3, <1>4, <1>5, QuietInvariant DEF StartRun

LEMMA TakeTargetInvariant ==
  ASSUME Parts, NEW p \in Procs, TakeTarget(p)
  PROVE  Parts'
  <1>1. PICK t \in todo[p] :
          /\ todo' = [todo EXCEPT ![p] = @ \ {t}]
          /\ doc' = [doc EXCEPT ![p] = [NoDoc EXCEPT !.target = t]]
    BY DEF TakeTarget
  <1>2. t \in Targets
    BY DEF Parts, Types
  <1>3. /\ DocOK([NoDoc EXCEPT !.target = t])
        /\ [NoDoc EXCEPT !.target = t].target = t
        /\ [NoDoc EXCEPT !.target = t].group = 1
        /\ [NoDoc EXCEPT !.target = t].offset = 0
    BY <1>2 DEF DocOK, NoDoc, None
  <1>4. Types'
    BY <1>1, <1>3 DEF TakeTarget, durable, history, Parts, Types
  <1>5. Progress(p)'
    BY <1>1, <1>2, <1>3 DEF TakeTarget, Parts, Types, Progress
  <1> QED
    BY <1>1, <1>4, <1>5, QuietInvariant
       DEF TakeTarget, durable, history, Receipts, Parts, Types

\* A cursor on the first row has passed nothing.
LEMMA FreshCursor ==
  ASSUME Parts, NEW p \in Procs, pc[p] = "normalize", pc'[p] = "load",
         doc' = doc, doc[p].group = 1, doc[p].offset = 0
  PROVE  Progress(p)'
  <1> DEFINE c == doc[p].content
  <1>1. c \in Contents /\ doc[p].target \in Targets
    BY DEF Parts, AllProgress, Progress
  <1>2. Passed(p)' = {}
    BY <1>1, InRows, GroupSize DEF Passed
  <1>3. MoreChunks(p) => 0 < Size(p)
    BY <1>1, GroupSize DEF MoreChunks, Size
  <1>4. 1 \in 1 .. Len(GroupSizes[c]) + 1
    BY <1>1, SizesAssumption
  <1> QED
    BY <1>1, <1>2, <1>3, <1>4 DEF Progress, MoreChunks, Size

LEMMA RecordDiscoveredInvariant ==
  ASSUME Parts, NEW p \in Procs, RecordDiscovered(p)
  PROVE  Parts'
  <1>1. Receipts' = Receipts
    BY ReceiptsKept DEF RecordDiscovered
  <1>2. Types'
    BY DEF RecordDiscovered, history, Parts, Types
  <1>3. Progress(p)'
    BY DEF RecordDiscovered, Parts, Types, AllProgress, Progress
  <1> QED
    BY <1>1, <1>2, <1>3, QuietInvariant
       DEF RecordDiscovered, history, Parts, Types

LEMMA FetchInvariant ==
  ASSUME Parts, NEW p \in Procs, Fetch(p)
  PROVE  Parts'
  <1> DEFINE c == upstream[doc[p].target]
  <1>1. Receipts' = Receipts
    BY ReceiptsKept DEF Fetch
  <1>2. doc[p].target \in Targets /\ c \in Contents
    BY DEF Fetch, Parts, Types, AllProgress, Progress
  <1>3. DocOK([doc[p] EXCEPT !.content = c])
        /\ [doc[p] EXCEPT !.content = c].content = c
        /\ [doc[p] EXCEPT !.content = c].target = doc[p].target
        /\ [doc[p] EXCEPT !.content = c].group = doc[p].group
        /\ [doc[p] EXCEPT !.content = c].offset = doc[p].offset
    BY <1>2 DEF Parts, Types, DocOK
  <1>4. doc' = [doc EXCEPT ![p] = [doc[p] EXCEPT !.content = c]]
    BY DEF Fetch
  <1>5. Types'
    BY <1>3, <1>4 DEF Fetch, history, Parts, Types
  <1>6. Progress(p)'
    BY <1>2, <1>3, <1>4 DEF Fetch, Parts, Types, AllProgress, Progress
  <1> QED
    BY <1>1, <1>4, <1>5, <1>6, QuietInvariant DEF Fetch, history, Parts, Types

\* Normalizing puts the cursor on the first row of the document.
LEMMA NormalizeInvariant ==
  ASSUME Parts, NEW p \in Procs, Normalize(p)
  PROVE  Parts'
  <1>1. Receipts' = Receipts
    BY ReceiptsKept DEF Normalize
  <1>2. Types'
    BY DEF Normalize, history, Parts, Types
  <1>3. Progress(p)'
    BY FreshCursor DEF Normalize, Parts, AllProgress, Progress
  <1> QED
    BY <1>1, <1>2, <1>3, QuietInvariant
       DEF Normalize, history, Parts, Types

\* The cursor of a process in the load loop, as the chunk lemmas want it.
LEMMA CursorOf ==
  ASSUME Parts, NEW p \in Procs, pc[p] \in {"load", "sink", "mark"},
         MoreChunks(p)
  PROVE  CursorIn(p) /\ Passed(p) \subseteq delivered
  BY DEF Parts, Types, AllProgress, Progress, CursorIn

\* Moving the cursor past a delivered chunk.
LEMMA AdvanceProgress ==
  ASSUME Parts, NEW p \in Procs, CursorIn(p),
         Passed(p) \cup Chunk(p) \subseteq delivered,
         pc[p] \in {"load", "mark"}, pc'[p] = "load",
         doc' = [doc EXCEPT ![p] = Advanced(p)], delivered' = delivered
  PROVE  Progress(p)' /\ DocOK(Advanced(p))
  <1>1. doc'[p] = Advanced(p) /\ doc[p].target \in Targets
    BY DEF Parts, Types, AllProgress, Progress
  <1>2. Passed(p)' \subseteq delivered'
    BY <1>1, AdvanceCursor DEF Passed
  <1>3. MoreChunks(p)' => doc'[p].offset < Size(p)'
    BY <1>1, AdvanceCursor DEF MoreChunks, Size
  <1>4. ~MoreChunks(p)' => doc'[p].offset = 0
    BY <1>1, AdvanceCursor DEF MoreChunks
  <1>5. /\ doc'[p].content \in Contents
        /\ doc'[p].target \in Targets
        /\ doc'[p].group \in 1 .. Len(GroupSizes[doc'[p].content]) + 1
    BY <1>1, AdvanceCursor DEF CursorIn
  <1> QED
    BY <1>2, <1>3, <1>4, <1>5, AdvanceCursor DEF Progress

\* A shard that is skipped is covered by a receipt, and so was delivered.
LEMMA SkipShardInvariant ==
  ASSUME Parts, NEW p \in Procs, SkipShard(p)
  PROVE  Parts'
  <1>1. CursorIn(p) /\ Passed(p) \subseteq delivered
    BY CursorOf DEF SkipShard
  <1>2. PICK e \in Receipts : e.id = Shard(p)
    BY DEF SkipShard, IsLoaded, Receipts
  <1>3. ReceiptOK(e) /\ CoverOf(e) \subseteq delivered
    BY DEF Parts, AllBacked
  <1>4. e.phase = "loaded"
    BY <1>2, <1>3 DEF ReceiptOK, Shard, ShardId, CompletionId
  <1>5. /\ e.artifact = doc[p].content /\ e.id[3] = doc[p].group
        /\ e.id[4] = doc[p].offset   /\ e.id[5] = ChunkEnd(p)
    BY <1>2, <1>3, <1>4 DEF ReceiptOK, Shard, ShardId
  <1>6. Chunk(p) \subseteq delivered
    BY <1>3, <1>4, <1>5 DEF CoverOf, Chunk
  <1>7. Progress(p)' /\ DocOK(Advanced(p))
    BY <1>1, <1>6, AdvanceProgress DEF SkipShard, durable, history, Parts, Types
  <1>8. Types'
    BY <1>7 DEF SkipShard, durable, history, Parts, Types
  <1> QED
    BY <1>7, <1>8, QuietInvariant
       DEF SkipShard, durable, history, Receipts, Parts, Types

LEMMA NeedShardInvariant ==
  ASSUME Parts, NEW p \in Procs, NeedShard(p)
  PROVE  Parts'
  <1>1. Types'
    BY DEF NeedShard, durable, history, Parts, Types
  <1>2. Progress(p)'
    BY DEF NeedShard, durable, history, Parts, Types, AllProgress, Progress,
           MoreChunks, Size, Passed
  <1> QED
    BY <1>1, <1>2, QuietInvariant
       DEF NeedShard, durable, history, Receipts, Parts, Types

LEMMA SinkLoadInvariant ==
  ASSUME Parts, NEW p \in Procs, SinkLoad(p)
  PROVE  Parts'
  <1>1. MoreChunks(p) /\ CursorIn(p) /\ Passed(p) \subseteq delivered
    BY CursorOf DEF SinkLoad, Parts, AllProgress, Progress
  <1>2. Chunk(p) \subseteq AllRows
    BY <1>1, ChunkBounds DEF AllRows, CursorIn
  <1>3. graph' \in [Positions -> Contents \cup {None}]
    BY <1>1 DEF SinkLoad, CursorIn, Parts, Types
  <1>4. Types'
    BY <1>2, <1>3 DEF SinkLoad, Parts, Types
  <1>5. AllBacked'
    BY BackedStable DEF SinkLoad, Receipts, Parts
  <1>6. DoneBacked'
    BY DEF SinkLoad, Parts, DoneBacked
  <1>7. ASSUME NEW q \in Procs PROVE Progress(q)'
    <2>1. CASE q = p
      BY <1>1, <2>1 DEF SinkLoad, Parts, Types, AllProgress, Progress,
                        MoreChunks, Size, Passed, Chunk, ChunkEnd
    <2>2. CASE q # p
      BY <2>2, ProgressStable DEF SinkLoad, Parts, Types, AllProgress
    <2> QED
      BY <2>1, <2>2
  <1> QED
    BY <1>4, <1>5, <1>6, <1>7 DEF Parts, AllProgress

\* The entry is written for a chunk that has just been delivered.
LEMMA MarkLoadedInvariant ==
  ASSUME Parts, NEW p \in Procs, MarkLoaded(p)
  PROVE  Parts'
  <1> DEFINE e == Entry("loaded", "loaded", Shard(p), doc[p].content)
  <1>1. /\ MoreChunks(p) /\ CursorIn(p) /\ Passed(p) \subseteq delivered
        /\ Chunk(p) \subseteq delivered
    BY CursorOf DEF MarkLoaded, Parts, AllProgress, Progress
  <1>2. Receipts' = Receipts \cup {e}
    BY ReceiptAdded DEF MarkLoaded
  <1>3. ReceiptOK(e)
    <2>1. /\ doc[p].group \in Groups(doc[p].content)
          /\ doc[p].offset \in 0 .. GroupSizes[doc[p].content][doc[p].group]
          /\ ChunkEnd(p) \in 0 .. GroupSizes[doc[p].content][doc[p].group]
          /\ doc[p].offset < ChunkEnd(p)
      BY <1>1, ChunkBounds DEF MoreChunks, Size
    <2> QED
      BY <1>1, <2>1 DEF ReceiptOK, Entry, Shard, CursorIn
  <1>4. CoverOf(e) = Chunk(p)
    BY DEF CoverOf, Entry, Shard, ShardId, Chunk
  <1>5. AllBacked'
    BY <1>1, <1>2, <1>3, <1>4 DEF AllBacked, Parts, MarkLoaded, history
  <1>6. Progress(p)' /\ DocOK(Advanced(p))
    BY <1>1, AdvanceProgress DEF MarkLoaded, history, Parts, Types
  <1>7. Types'
    BY <1>6 DEF MarkLoaded, history, Parts, Types
  <1>8. DoneBacked'
    BY DEF MarkLoaded, history, Parts, DoneBacked
  <1>9. ASSUME NEW q \in Procs, q # p PROVE Progress(q)'
    BY <1>9, ProgressStable DEF MarkLoaded, history, Parts, Types, AllProgress
  <1> QED
    BY <1>5, <1>6, <1>7, <1>8, <1>9 DEF Parts, AllProgress

\* A document is complete when its cursor has passed every row.
LEMMA CompleteTargetInvariant ==
  ASSUME Parts, NEW p \in Procs, CompleteTarget(p)
  PROVE  Parts'
  <1> DEFINE c == doc[p].content
             t == doc[p].target
             e == Entry("validated", "loaded", CompletionId(t), c)
  <1>1. /\ c \in Contents /\ t \in Targets
        /\ RowsOf(c) \subseteq delivered
    <2>1. c \in Contents /\ t \in Targets /\ Passed(p) \subseteq delivered
      BY DEF CompleteTarget, Parts, AllProgress, Progress
    <2>2. RowsOf(c) \subseteq Passed(p)
      BY AllPassed DEF CompleteTarget, Parts, Types, AllProgress, Progress
    <2> QED
      BY <2>1, <2>2
  <1>2. ReceiptOK(e) /\ CoverOf(e) = RowsOf(c)
    BY <1>1 DEF ReceiptOK, Entry, CoverOf
  <1>3. Receipts' = Receipts \/ Receipts' = Receipts \cup {e}
    BY ReceiptAdded DEF CompleteTarget, Receipts
  <1>4. delivered' = delivered
    BY DEF CompleteTarget
  <1>5. AllBacked'
    BY <1>1, <1>2, <1>3, <1>4 DEF AllBacked, Parts
  <1>6. done' = [done EXCEPT ![p] = @ \cup {<<t, c>>}]
    BY DEF CompleteTarget
  <1>7. DoneBacked'
    BY <1>1, <1>4, <1>6 DEF DoneBacked, Parts, Types
  <1>8. DocOK(NoDoc)
    BY DEF DocOK, NoDoc, None
  <1>9. Types'
    <2>1. sealed' \subseteq Contents \X (Nat \ {0})
      BY <1>1 DEF CompleteTarget, Parts, Types
    <2>2. done' \in [Procs -> SUBSET (Targets \X Contents)]
      BY <1>1, <1>6 DEF Parts, Types
    <2> QED
      BY <1>8, <2>1, <2>2 DEF CompleteTarget, Parts, Types
  <1>10. ASSUME NEW q \in Procs PROVE Progress(q)'
    <2>1. CASE q = p
      BY <2>1 DEF CompleteTarget, Parts, Types, Progress
    <2>2. CASE q # p
      BY <2>2, ProgressStable DEF CompleteTarget, Parts, Types, AllProgress
    <2> QED
      BY <2>1, <2>2
  <1> QED
    BY <1>5, <1>7, <1>9, <1>10 DEF Parts, AllProgress

LEMMA FailTargetInvariant ==
  ASSUME Parts, NEW p \in Procs, FailTarget(p)
  PROVE  Parts'
  <1>1. Receipts' = Receipts
    BY ReceiptsKept DEF FailTarget, Failing
  <1>2. DocOK(NoDoc)
    BY DEF DocOK, NoDoc, None
  <1>3. tally' \in [Procs -> [discovered : SUBSET Targets, failed : Nat]]
    BY DEF FailTarget, Parts, Types
  <1>4. Types'
    BY <1>2, <1>3 DEF FailTarget, Failing, history, Parts, Types
  <1>5. Progress(p)'
    BY DEF FailTarget, Parts, Types, Progress
  <1> QED
    BY <1>1, <1>4, <1>5, QuietInvariant
       DEF FailTarget, history, Parts, Types

LEMMA AmendInvariant ==
  ASSUME Parts, NEW t \in Targets, Amend(t)
  PROVE  Parts'
  <1>1. PICK c \in Yields[t] : upstream' = [upstream EXCEPT ![t] = c]
    BY DEF Amend
  <1>2. c \in Contents
    BY YieldsAssumption
  <1>3. Types'
    BY <1>1, <1>2 DEF Amend, history, Parts, Types
  <1>4. AllBacked'
    BY BackedStable DEF Amend, history, Receipts, Parts
  <1>5. DoneBacked'
    BY DEF Amend, history, Parts, DoneBacked
  <1>6. ASSUME NEW q \in Procs PROVE Progress(q)'
    BY ProgressStable DEF Amend, history, Parts, AllProgress
  <1> QED
    BY <1>3, <1>4, <1>5, <1>6 DEF Parts, AllProgress

LEMMA StutterInvariant ==
  ASSUME Parts, UNCHANGED vars
  PROVE  Parts'
  <1>1. Types'
    BY DEF vars, Parts, Types
  <1>2. AllBacked'
    BY BackedStable DEF vars, Receipts, Parts
  <1>3. DoneBacked'
    BY DEF vars, Parts, DoneBacked
  <1>4. ASSUME NEW q \in Procs PROVE Progress(q)'
    BY ProgressStable DEF vars, Parts, AllProgress
  <1> QED
    BY <1>1, <1>2, <1>3, <1>4 DEF Parts, AllProgress

LEMMA NextInvariant == Parts /\ [Next]_vars => Parts'
  <1> SUFFICES ASSUME Parts, [Next]_vars PROVE Parts'
    OBVIOUS
  <1>1. CASE \E t \in Targets : Amend(t)
    BY <1>1, AmendInvariant
  <1>2. ASSUME NEW p \in Procs, StartRun(p) PROVE Parts'
    BY <1>2, StartRunInvariant
  <1>3. ASSUME NEW p \in Procs, Step(p) PROVE Parts'
    <2>1. CASE TakeTarget(p)
      BY <2>1, TakeTargetInvariant
    <2>2. CASE RecordDiscovered(p)
      BY <2>2, RecordDiscoveredInvariant
    <2>3. CASE Fetch(p)
      BY <2>3, FetchInvariant
    <2>4. CASE Normalize(p)
      BY <2>4, NormalizeInvariant
    <2>5. CASE SkipShard(p)
      BY <2>5, SkipShardInvariant
    <2>6. CASE NeedShard(p)
      BY <2>6, NeedShardInvariant
    <2>7. CASE SinkLoad(p)
      BY <2>7, SinkLoadInvariant
    <2>8. CASE MarkLoaded(p)
      BY <2>8, MarkLoadedInvariant
    <2>9. CASE CompleteTarget(p)
      BY <2>9, CompleteTargetInvariant
    <2>10. CASE FinishRun(p)
      BY <2>10, LeaveInvariant DEF FinishRun, durable, Receipts
    <2> QED
      BY <1>3, <2>1, <2>2, <2>3, <2>4, <2>5, <2>6, <2>7, <2>8, <2>9, <2>10
         DEF Step
  <1>4. ASSUME NEW p \in Procs, FailTarget(p) PROVE Parts'
    BY <1>4, FailTargetInvariant
  <1>5. ASSUME NEW p \in Procs, FailRun(p) PROVE Parts'
    BY <1>5, LeaveInvariant, ReceiptsKept DEF FailRun, Failing
  <1>6. ASSUME NEW p \in Procs, Crash(p) PROVE Parts'
    BY <1>6, LeaveInvariant DEF Crash, durable, Receipts
  <1>7. CASE UNCHANGED vars
    BY <1>7, StutterInvariant
  <1> QED
    BY <1>1, <1>2, <1>3, <1>4, <1>5, <1>6, <1>7 DEF Next

-----------------------------------------------------------------------------
(* Theorems.                                                               *)

\* Receipts, cursors and completed documents are backed in every state.
THEOREM Invariance == Spec => []IInv
  <1>1. Spec => []Parts
    BY InitInvariant, NextInvariant, PTL DEF Spec
  <1> QED
    BY <1>1, Regroup, PTL

\* Type correctness (IngestRunner's state, and the entries it trusts).
THEOREM TypeCorrect == Spec => []TypeOK
  <1>1. IInv => TypeOK
    BY DEF IInv
  <1> QED
    BY <1>1, Invariance, PTL

\* No LOADED entry precedes the commit of its rows.
THEOREM ShardsAreBacked == Spec => []LoadedBacked
  <1>1. IInv => LoadedBacked
    BY DEF IInv
  <1> QED
    BY <1>1, Invariance, PTL

\* No completion marker is written while a row of its artifact is missing,
\* whatever batch sizes, crashes, processes and amendments came before.
THEOREM CompletionsAreBacked == Spec => []CompletionBacked
  <1>1. IInv => CompletionBacked
    BY DEF IInv
  <1> QED
    BY <1>1, Invariance, PTL

\* Only three actions move the ledger: a committed transaction delivers rows,
\* a LOADED entry or a completion marker issues a backed receipt.
LEMMA LedgerStep ==
  ASSUME Parts, Parts', [Next]_vars
  PROVE  [Ledger!Next]_(Ledger!vars)
  <1> USE DEF Ledger!vars, Ledger!Next
  <1>1. ASSUME Receipts' = Receipts, delivered' = delivered
        PROVE  [Ledger!Next]_(Ledger!vars)
    BY <1>1
  <1>2. ASSUME NEW e \in Receipts', Receipts' = Receipts \cup {e},
               delivered' = delivered
        PROVE  [Ledger!Next]_(Ledger!vars)
    <2>1. CoverOf(e) \subseteq delivered
      BY <1>2 DEF Parts, AllBacked
    <2> QED
      BY <1>2, <2>1 DEF Ledger!Issue
  <1>3. ASSUME NEW p \in Procs, SinkLoad(p)
        PROVE  [Ledger!Next]_(Ledger!vars)
    <2>1. delivered \subseteq delivered' /\ Receipts' = Receipts
      BY <1>3 DEF SinkLoad, Receipts
    <2>2. delivered' \subseteq AllRows
      BY DEF Parts, Types
    <2> QED
      BY <2>1, <2>2 DEF Ledger!Deliver
  <1>4. ASSUME NEW p \in Procs, MarkLoaded(p)
        PROVE  [Ledger!Next]_(Ledger!vars)
    <2> DEFINE e == Entry("loaded", "loaded", Shard(p), doc[p].content)
    <2>1. Receipts' = Receipts \cup {e} /\ delivered' = delivered
      BY <1>4, ReceiptAdded DEF MarkLoaded, history
    <2> HIDE DEF e
    <2> QED
      BY <1>2, <2>1
  <1>5. ASSUME NEW p \in Procs, CompleteTarget(p)
        PROVE  [Ledger!Next]_(Ledger!vars)
    <2> DEFINE e == Entry("validated", "loaded", CompletionId(doc[p].target),
                          doc[p].content)
    <2>1. /\ Receipts' = Receipts \/ Receipts' = Receipts \cup {e}
          /\ delivered' = delivered
      BY <1>5, ReceiptAdded DEF CompleteTarget, Receipts
    <2> HIDE DEF e
    <2> QED
      BY <1>1, <1>2, <2>1
  <1>6. ASSUME NEW p \in Procs,
               \/ StartRun(p) \/ TakeTarget(p) \/ SkipShard(p)
               \/ NeedShard(p) \/ FinishRun(p) \/ Crash(p)
        PROVE  [Ledger!Next]_(Ledger!vars)
    <2>1. manifest' = manifest /\ delivered' = delivered
      BY <1>6 DEF StartRun, TakeTarget, SkipShard, NeedShard, FinishRun,
                  Crash, Leave, durable, history
    <2> QED
      BY <1>1, <2>1 DEF Receipts
  <1>7. ASSUME NEW p \in Procs,
               \/ RecordDiscovered(p) \/ Fetch(p) \/ Normalize(p)
               \/ FailTarget(p) \/ FailRun(p)
        PROVE  [Ledger!Next]_(Ledger!vars)
    <2>1. Receipts' = Receipts
      BY <1>7, ReceiptsKept DEF RecordDiscovered, Fetch, Normalize,
                                FailTarget, FailRun, Failing
    <2>2. delivered' = delivered
      BY <1>7 DEF RecordDiscovered, Fetch, Normalize, FailTarget, FailRun,
                  Leave, history
    <2> QED
      BY <1>1, <2>1, <2>2
  <1>8. CASE \E t \in Targets : Amend(t)
    BY <1>1, <1>8 DEF Amend, history, Receipts
  <1>9. CASE UNCHANGED vars
    BY <1>1, <1>9 DEF vars, Receipts
  <1> QED
    BY <1>3, <1>4, <1>5, <1>6, <1>7, <1>8, <1>9 DEF Next, Step

\* The runner implements the ledger: whatever the interleaving, a receipt is
\* issued only for rows the destination holds, and rows are never withdrawn.
THEOREM RunnerImplementsLedger == Spec => ImplementsLedger
  <1>1. Init => Ledger!Init
    BY DEF Init, Ledger!Init, Receipts
  <1>2. Spec => []Parts
    BY InitInvariant, NextInvariant, PTL DEF Spec
  <1>3. Parts /\ Parts' /\ [Next]_vars => [Ledger!Next]_(Ledger!vars)
    BY LedgerStep
  <1> QED
    BY <1>1, <1>2, <1>3, PTL DEF Spec, ImplementsLedger, Ledger!Spec
=============================================================================
